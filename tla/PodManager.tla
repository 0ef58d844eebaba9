----------------------------- MODULE PodManager -----------------------------
(***************************************************************************)
(* PodManager (pod_manager.py): one terminal per user, created on demand,  *)
(* evicted at the limit, deleted when idle or unhealthy, adopted after a   *)
(* restart.                                                                *)
(*                                                                         *)
(* Interleaving.  The proxy is one asyncio event loop and its Kubernetes   *)
(* calls are synchronous: a coroutine gives way only where it really       *)
(* waits, for the manager's lock and between two polls of a starting pod.  *)
(* So deleting a terminal, evicting one, a sweep or the creation of the    *)
(* four objects are sequences of calls no other coroutine of the proxy can *)
(* enter, while the cluster moves on and the process may die between any   *)
(* two calls.  `work' holds the deletions in progress and `job' the        *)
(* creation in progress; LoopFree says that neither is inside a call.      *)
(* The sweeps do not take the lock: they run while a creation waits.       *)
(*                                                                         *)
(* Simplifications.  A terminal enters _pods only when its pod is ready    *)
(* and _check_pod_health pops one in the step that marks it FAILED, so     *)
(* every entry is RUNNING whenever the loop is free: PodState is left out, *)
(* with the branch that recycles an entry that is not RUNNING.  Time       *)
(* passes only while the loop is free.  Sweeps that find nothing are       *)
(* stutters.  stop() cancels the sweeps and leaves every object, so an     *)
(* orderly shutdown is a Crash too.                                        *)
(***************************************************************************)
EXTENDS Storage, Sequences

CONSTANTS
    Req,              \* requests (client connections, each reused for ever)
    NoReq,            \* no request: the lock is free
    UserOf,           \* the user of each request
    MaxPods,          \* max_concurrent_pods
    IdleTimeout,      \* pod_idle_timeout_seconds, in ticks
    StartupTimeout,   \* pod_startup_timeout_seconds, in ticks
    MaxCrashes        \* bound: how often the proxy may die

ASSUME NoReqAssumption == NoReq \notin Req
ASSUME UserOfAssumption == UserOf \in [Req -> User]
ASSUME MaxPodsAssumption == MaxPods \in Nat \ {0}
ASSUME TimeoutsAssumption ==
    /\ IdleTimeout \in Nat /\ StartupTimeout \in Nat
    /\ MaxAge > IdleTimeout /\ MaxAge > StartupTimeout /\ MaxAge > Ttl
ASSUME MaxCrashesAssumption == MaxCrashes \in Nat

VARIABLES
    mode,      \* "down", "reconciling" (start) or "up"
    pods,      \* the users in _pods
    apiKey,    \* the api_key of each terminal in _pods
    idleFor,   \* the time since each terminal's last_active_at
    work,      \* the next call of each deletion (or adoption) in progress
    lock,      \* the request that holds _lock
    waiters,   \* the requests queued on _lock, first come first served
    pc,        \* what each request is doing
    job,       \* the creation in progress: its next call, its key, its wait
    crashes    \* how often the proxy has died

managerVars == <<pods, apiKey, idleFor>>
requestVars == <<lock, waiters, pc, job>>
vars == <<clusterVars, mode, managerVars, work, requestVars, crashes>>

NoJob == [step |-> "none", key |-> NoKey, waited |-> 0]
CallStep == {"pvc", "secret", "pod", "service"}

TypeOK ==
    /\ ClusterTypeOK
    /\ mode \in {"down", "reconciling", "up"}
    /\ pods \subseteq User
    /\ apiKey \in [User -> Key \cup {NoKey}]
    /\ idleFor \in [User -> 0..MaxAge]
    /\ work \in [User -> {"none", "adopt"} \cup CallStep]
    /\ lock \in Req \cup {NoReq}
    /\ waiters \in Seq(Req)
    /\ pc \in [Req -> {"idle", "queued", "creating", "proxying"}]
    /\ job \in [step : {"none", "waiting", "undo"} \cup CallStep,
                key : Key \cup {NoKey}, waited : 0..StartupTimeout]
    /\ crashes \in 0..MaxCrashes

NoWork == [u \in User |-> "none"]

Init ==
    /\ ClusterInit
    /\ mode = "down"
    /\ pods = {}
    /\ apiKey = [u \in User |-> NoKey]
    /\ idleFor = [u \in User |-> 0]
    /\ work = NoWork
    /\ lock = NoReq
    /\ waiters = <<>>
    /\ pc = [r \in Req |-> "idle"]
    /\ job = NoJob
    /\ crashes = 0

\* No coroutine of the proxy is between two Kubernetes calls.
LoopFree == mode = "up" /\ work = NoWork /\ job.step \in {"none", "waiting"}

\* A new random key is none that the user's objects hold.
FreshKeys(u) == Key \ {secret[u], kpod[u].key}

Insert(u, k, age) ==
    /\ pods' = pods \cup {u}
    /\ apiKey' = [apiKey EXCEPT ![u] = k]
    /\ idleFor' = [idleFor EXCEPT ![u] = age]

\* _delete_pod pops the entry before its first call.
Drop(gone) ==
    /\ pods' = pods \ gone
    /\ apiKey' = [u \in User |-> IF u \in gone THEN NoKey ELSE apiKey[u]]
    /\ idleFor' = [u \in User |-> IF u \in gone THEN 0 ELSE idleFor[u]]
    /\ work' = [u \in User |-> IF u \in gone THEN "service" ELSE work[u]]

\* Deletions run one after the other: nobody else's is half done.
Turn(u) == \A v \in User \ {u} : work[v] \in {"none", "adopt", "service"}

\* One call of a deletion: service, pod, secret, and in _delete_pod the PVC.
DeleteCall(u, reply) ==
    /\ Charge(reply)
    /\ \/ /\ work[u] = "service"
          /\ delete_service(u, reply) /\ UNCHANGED <<kpod, secret, pvc>>
       \/ /\ work[u] = "pod"
          /\ delete_pod(u, reply) /\ UNCHANGED <<service, secret, pvc>>
       \/ /\ work[u] = "secret"
          /\ delete_secret(u, reply) /\ UNCHANGED <<kpod, service, pvc>>
       \/ /\ work[u] = "pvc"
          /\ release_pvc(u, reply) /\ UNCHANGED <<kpod, service, secret>>

\* (Mutant: the secret goes before the pod.)
AfterCallSecretFirst(step) ==
    CASE step = "service" -> "secret"
      [] step = "secret"  -> "pod"
      [] OTHER            -> "none"

AfterCall(step) ==
    CASE step = "service" -> "pod"
      [] step = "pod"     -> "secret"
      [] OTHER            -> "none"

-----------------------------------------------------------------------------
(* start: reconcile with the cluster, before any request is served. *)

Start ==
    /\ mode = "down"
    /\ mode' = "reconciling"
    /\ \/ /\ work' = [u \in User |-> IF kpod[u].phase = "Running" THEN "adopt"
                                     ELSE IF PodExists(u) THEN "service" ELSE "none"]
          /\ UNCHANGED clusterVars
       \/ /\ faults < MaxFaults      \* list_terminal_pods raises: logged, not retried
          /\ faults' = faults + 1
          /\ UNCHANGED <<kpod, service, secret, pvc, work>>
    /\ UNCHANGED <<managerVars, requestVars, crashes>>

\* A pod listed as Running becomes a terminal again, with the secret's key.
Adopt(u) ==
    /\ mode = "reconciling" /\ work[u] = "adopt" /\ Turn(u)
    /\ \/ /\ \E k \in IF SecretExists(u) THEN {secret[u]} ELSE FreshKeys(u) : Insert(u, k, 0)
          /\ work' = [work EXCEPT ![u] = "none"]
          /\ UNCHANGED clusterVars
       \/ /\ faults < MaxFaults      \* get_secret raises: reconciliation ends here
          /\ faults' = faults + 1
          /\ work' = NoWork
          /\ UNCHANGED <<kpod, service, secret, pvc, managerVars>>
    /\ UNCHANGED <<mode, requestVars, crashes>>

\* Any other pod is deleted; the first call that raises ends reconciliation.
ReconcileCall(u) ==
    /\ mode = "reconciling" /\ Turn(u)
    /\ \E reply \in Replies :
         /\ DeleteCall(u, reply)
         /\ work' = IF reply = "ok" THEN [work EXCEPT ![u] = AfterCall(@)] ELSE NoWork
    /\ UNCHANGED <<mode, managerVars, requestVars, crashes>>

Serve ==
    /\ mode = "reconciling" /\ work = NoWork
    /\ mode' = "up"
    /\ UNCHANGED <<clusterVars, managerVars, work, requestVars, crashes>>

-----------------------------------------------------------------------------
(* get_or_create: a request takes the lock in its turn. *)

Arrive(r) ==
    /\ LoopFree /\ pc[r] = "idle"
    /\ pc' = [pc EXCEPT ![r] = "queued"]
    /\ waiters' = Append(waiters, r)
    /\ UNCHANGED <<clusterVars, mode, managerVars, work, lock, job, crashes>>

\* (Mutant: nobody waits for the lock.)
MyTurnUnlocked(r) == LoopFree /\ waiters # <<>> /\ r = Head(waiters)

MyTurn(r) == LoopFree /\ lock = NoReq /\ waiters # <<>> /\ r = Head(waiters)

\* The user's terminal is running: mark it active, touch its PVC.
Reuse(r) ==
    /\ MyTurn(r) /\ UserOf[r] \in pods
    /\ waiters' = Tail(waiters)
    /\ pc' = [pc EXCEPT ![r] = "proxying"]
    /\ idleFor' = [idleFor EXCEPT ![UserOf[r]] = 0]
    /\ IF PerUser
       THEN \E reply \in Replies : touch_pvc(UserOf[r], reply) /\ Charge(reply)
       ELSE UNCHANGED <<pvc, faults>>
    /\ UNCHANGED <<kpod, service, secret, mode, pods, apiKey, work, lock, job, crashes>>

Oldest == {u \in pods : \A v \in pods : idleFor[v] <= idleFor[u]}

\* (Mutant: the limit is one too high.)
PoolFullOffByOne == Cardinality(pods) > MaxPods

PoolFull == Cardinality(pods) >= MaxPods

\* No terminal yet: make room if the pool is full, then create one.
BeginCreate(r) ==
    /\ MyTurn(r) /\ UserOf[r] \notin pods
    /\ lock' = r
    /\ waiters' = Tail(waiters)
    /\ pc' = [pc EXCEPT ![r] = "creating"]
    /\ \E k \in FreshKeys(UserOf[r]) :
         job' = [step |-> IF PerUser THEN "pvc" ELSE "secret", key |-> k, waited |-> 0]
    /\ IF PoolFull
       THEN \E u \in Oldest : Drop({u})              \* _evict_oldest
       ELSE UNCHANGED <<managerVars, work>>
    /\ UNCHANGED <<clusterVars, mode, crashes>>

-----------------------------------------------------------------------------
(* _create_pod_resources: four calls, then the wait for readiness. *)

\* (Mutant: it does not wait for the eviction.)
CreatingDuringEviction(r, step) == mode = "up" /\ lock = r /\ job.step = step

\* The creation may make its next call: an eviction is complete.
Creating(r, step) == mode = "up" /\ lock = r /\ job.step = step /\ work = NoWork

Advance(step) == job' = [job EXCEPT !.step = step] /\ UNCHANGED <<lock, pc>>

\* The exception leaves get_or_create: nothing that was created is undone.
\* (Mutant: the lock is not released on the way out.)
FailCreateHoldsLock ==
    /\ pc' = [pc EXCEPT ![lock] = "idle"]
    /\ job' = NoJob
    /\ UNCHANGED lock

FailCreate ==
    /\ lock' = NoReq
    /\ pc' = [pc EXCEPT ![lock] = "idle"]
    /\ job' = NoJob

CreatePvc(r) ==
    /\ Creating(r, "pvc")
    /\ \/ \E reply \in Replies :
            /\ create_user_pvc(UserOf[r], reply) /\ Charge(reply)
            /\ IF CreateUserPvcRaises(UserOf[r], reply) THEN FailCreate ELSE Advance("secret")
       \/ /\ faults < MaxFaults      \* get_pvc raises
          /\ faults' = faults + 1
          /\ FailCreate
          /\ UNCHANGED pvc
    /\ UNCHANGED <<kpod, service, secret, mode, managerVars, work, waiters, crashes>>

\* (Mutant: a 409 is taken for a success.)
CreateSecretRaisesBut409(u, reply) == reply # "ok"

CreateSecretRaises(u, reply) == SecretExists(u) \/ reply # "ok"

CreateSecret(r) ==
    /\ Creating(r, "secret")
    /\ \E reply \in Replies :
         /\ create_secret(UserOf[r], job.key, reply) /\ Charge(reply)
         /\ IF CreateSecretRaises(UserOf[r], reply) THEN FailCreate ELSE Advance("pod")
    /\ UNCHANGED <<kpod, service, pvc, mode, managerVars, work, waiters, crashes>>

CreatePod(r) ==
    /\ Creating(r, "pod")
    /\ \E reply \in Replies :
         /\ create_pod(UserOf[r], reply) /\ Charge(reply)
         /\ IF PodExists(UserOf[r]) \/ reply # "ok" THEN FailCreate ELSE Advance("service")
    /\ UNCHANGED <<service, secret, pvc, mode, managerVars, work, waiters, crashes>>

CreateService(r) ==
    /\ Creating(r, "service")
    /\ \E reply \in Replies :
         /\ create_service(UserOf[r], reply) /\ Charge(reply)
         /\ IF UserOf[r] \in service \/ reply # "ok" THEN FailCreate ELSE Advance("waiting")
    /\ UNCHANGED <<kpod, secret, pvc, mode, managerVars, work, waiters, crashes>>

Waiting(r) == Creating(r, "waiting")

\* A poll finds the pod running and its /health answers through the service,
\* be it a moment after the end of the time: the terminal enters _pods and the
\* lock is released.
PodReady(r) ==
    /\ Waiting(r)
    /\ kpod[UserOf[r]].phase = "Running" /\ UserOf[r] \in service
    /\ Insert(UserOf[r], job.key, job.waited)
    /\ lock' = NoReq
    /\ pc' = [pc EXCEPT ![r] = "proxying"]
    /\ job' = NoJob
    /\ UNCHANGED <<clusterVars, mode, work, waiters, crashes>>

\* (Mutant: nothing is deleted after a failed start.)
PodNotReadyForgets(r) ==
    /\ Waiting(r)
    /\ job.waited = StartupTimeout \/ kpod[UserOf[r]].phase = "Failed"
    /\ FailCreate
    /\ UNCHANGED <<clusterVars, mode, managerVars, work, waiters, crashes>>

\* The wait is over, or a poll finds the pod failed: delete what was created.
PodNotReady(r) ==
    /\ Waiting(r)
    /\ job.waited = StartupTimeout \/ kpod[UserOf[r]].phase = "Failed"
    /\ job' = [job EXCEPT !.step = "undo"]
    /\ work' = [work EXCEPT ![UserOf[r]] = "service"]
    /\ UNCHANGED <<clusterVars, mode, managerVars, lock, waiters, pc, crashes>>

\* get_pod raises out of a poll: the creation ends and leaves its objects.
PollError(r) ==
    /\ Waiting(r)
    /\ faults < MaxFaults
    /\ faults' = faults + 1
    /\ FailCreate
    /\ UNCHANGED <<kpod, service, secret, pvc, mode, managerVars, work, waiters, crashes>>

\* The deletes after a failed start; the first that raises is the last.
UndoCall(u) ==
    /\ mode = "up" /\ job.step = "undo"
    /\ \E reply \in Replies :
         /\ DeleteCall(u, reply)
         /\ IF reply = "ok" /\ AfterCall(work[u]) # "none"
            THEN work' = [work EXCEPT ![u] = AfterCall(@)] /\ UNCHANGED <<lock, pc, job>>
            ELSE work' = [work EXCEPT ![u] = "none"] /\ FailCreate
    /\ UNCHANGED <<mode, managerVars, waiters, crashes>>

-----------------------------------------------------------------------------
(* _delete_pod, and the sweeps that end in it. *)

\* A call of _delete_pod: an error is logged and the next call follows.
EvictCall(u) ==
    /\ mode = "up" /\ job.step # "undo" /\ Turn(u)
    /\ \E reply \in Replies : DeleteCall(u, reply)
    /\ work' = [work EXCEPT ![u] = IF @ = "secret" /\ PerUser THEN "pvc" ELSE AfterCall(@)]
    /\ UNCHANGED <<mode, managerVars, requestVars, crashes>>

\* _cleanup_idle_pods: every terminal past the idle timeout, in use or not.
\* (Mutant: the start counts on top of the idle timeout.)
IdlePodsLate == {u \in pods : idleFor[u] > IdleTimeout + StartupTimeout}

IdlePods == {u \in pods : idleFor[u] > IdleTimeout}

CleanupIdle ==
    /\ LoopFree
    /\ IdlePods # {}
    /\ Drop(IdlePods)
    /\ UNCHANGED <<clusterVars, mode, requestVars, crashes>>

\* _check_pod_health: terminals whose pod is gone or failed.  A get_pod that
\* raises spares its terminal until the next round.
\* (Mutant: a pod that is gone goes unnoticed.)
DeadPodsFailedOnly == {u \in pods : kpod[u].phase = "Failed"}

DeadPods == {u \in pods : kpod[u].phase \in {"none", "Failed"}}

HealthCheck ==
    /\ LoopFree
    /\ \E dead \in (SUBSET DeadPods) \ {{}} :
         LET skipped == Cardinality(DeadPods \ dead)
         IN  /\ faults + skipped <= MaxFaults
             /\ faults' = faults + skipped
             /\ Drop(dead)
    /\ UNCHANGED <<kpod, service, secret, pvc, mode, requestVars, crashes>>

\* _pvc_cleanup_loop: the users in _pods are the active ones.
PvcSweep ==
    /\ LoopFree
    /\ cleanup_expired_pvcs(pods)
    /\ UNCHANGED <<kpod, service, secret, mode, managerVars, work, requestVars, crashes>>

-----------------------------------------------------------------------------
(* The rest of the world. *)

\* The client has its answer, or closes its connection.
Finish(r) ==
    /\ LoopFree /\ pc[r] = "proxying"
    /\ pc' = [pc EXCEPT ![r] = "idle"]
    /\ UNCHANGED <<clusterVars, mode, managerVars, work, lock, waiters, job, crashes>>

\* The polls of a starting pod notice the end of their time.
\* (Mutant: they never do.)
NoDeadline == TRUE

InTime == job.step = "waiting" => job.waited < StartupTimeout

Tick ==
    /\ mode = "down" \/ LoopFree
    /\ InTime
    /\ idleFor' = [u \in User |-> IF u \in pods THEN Older(idleFor[u]) ELSE 0]
    /\ job' = IF job.step = "waiting" THEN [job EXCEPT !.waited = @ + 1] ELSE job
    /\ PvcsAge
    /\ UNCHANGED <<kpod, service, secret, faults, mode, pods, apiKey, work, lock, waiters, pc,
                   crashes>>

\* The proxy dies, or is stopped: all it knew is lost, the objects stay.
Crash ==
    /\ mode # "down" /\ crashes < MaxCrashes
    /\ crashes' = crashes + 1
    /\ mode' = "down"
    /\ pods' = {}
    /\ apiKey' = [u \in User |-> NoKey]
    /\ idleFor' = [u \in User |-> 0]
    /\ work' = NoWork
    /\ lock' = NoReq
    /\ waiters' = <<>>
    /\ pc' = [r \in Req |-> "idle"]
    /\ job' = NoJob
    /\ UNCHANGED clusterVars

ClusterMoves ==
    /\ ClusterStep
    /\ UNCHANGED <<mode, managerVars, work, requestVars, crashes>>

\* What the proxy does on its own, the sweeps apart.
Reconciles == Start \/ Serve \/ \E u \in User : Adopt(u) \/ ReconcileCall(u)

Calls(r) == CreatePvc(r) \/ CreateSecret(r) \/ CreatePod(r) \/ CreateService(r)

Creates(r) ==
    \/ Calls(r)
    \/ PodReady(r) \/ PodNotReady(r) \/ PollError(r)

Deletes(u) == UndoCall(u) \/ EvictCall(u)

Takes(r) == Reuse(r) \/ BeginCreate(r)

Next ==
    \/ Reconciles
    \/ \E r \in Req : Arrive(r) \/ Takes(r) \/ Creates(r) \/ Finish(r)
    \/ \E u \in User : Deletes(u)
    \/ CleanupIdle \/ HealthCheck \/ PvcSweep
    \/ Tick \/ Crash
    \/ ClusterMoves

Spec == Init /\ [][Next]_vars

-----------------------------------------------------------------------------
(* Fairness.  The event loop runs every ready coroutine in turn, a call     *)
(* returns, timers fire, and a pod that was deleted goes in the end: weak   *)
(* fairness for what stays enabled until it is taken, strong fairness for   *)
(* what other coroutines' calls put off again and again.  Clients, faults,  *)
(* crashes and the fate of a starting pod get none.                         *)

Fairness ==
    /\ WF_vars(Reconciles)
    /\ SF_vars(\E r \in Req : Takes(r))
    /\ WF_vars(\E r \in Req : Calls(r))
    /\ SF_vars(\E r \in Req : PodNotReady(r))
    /\ WF_vars(\E u \in User : Deletes(u))
    /\ SF_vars(CleanupIdle)
    /\ SF_vars(HealthCheck)
    /\ SF_vars(Tick)

FairSpec == Spec /\ Fairness

-----------------------------------------------------------------------------
(* Properties. *)

Owner(u) == lock \in Req /\ UserOf[lock] = u

\* While a request holds the lock its user has no terminal, and no deletion
\* under way but the one that undoes the creation.
CreatorUntracked ==
    \A u \in User : Owner(u) => u \notin pods /\ (work[u] # "none" => job.step = "undo")

CreatorHoldsLock ==
    /\ lock = NoReq <=> job.step = "none"
    /\ \A r \in Req : pc[r] = "creating" <=> lock = r

QueueIsQueued == \A r \in Req : pc[r] = "queued" <=> \E i \in DOMAIN waiters : waiters[i] = r

\* The lock protects what it is meant to protect although no sweep takes it:
\* a user's terminal is created once however many of its requests arrive
\* together, no sweep or eviction touches the terminal being created
\* (get_or_create 113-142 against the sweeps 253-298), and no request is
\* forgotten or served twice in the queue.
LockDiscipline == CreatorUntracked /\ CreatorHoldsLock /\ QueueIsQueued

\* The terminals there are and the one being created.
Load == Cardinality(pods) + (IF lock = NoReq THEN 0 ELSE 1)

\* While requests are served no step takes the pool past max_concurrent_pods,
\* nor further past it when a restart has adopted too many: the eviction of
\* get_or_create 131-132 makes room before the creation it makes room for.
LoadNeverGrowsPastLimit ==
    [][mode = "up" => Load' <= MaxPods \/ Load' <= Load]_vars

\* As long as no call has raised, the key the proxy sends is the key the pod
\* was started with, across evictions, failed starts, crashes and adoption:
\* it rests on the order of the creates (161-167) and of the deletes (213-229).
KeyAgreement ==
    faults = 0 =>
        \A u \in pods : kpod[u].phase = "Running" /\ ~kpod[u].term => apiKey[u] = kpod[u].key

\* As long as no call has raised, a proxy that serves requests has lost sight
\* of no live pod: each is tracked, being created, or about to be deleted.
NoLeakedPod ==
    faults = 0 /\ mode = "up" =>
        \A u \in User : PodExists(u) /\ ~kpod[u].term =>
            u \in pods \/ Owner(u) \/ work[u] \in {"service", "pod"}

\* A pod that is there and not being deleted.
Live(u) == PodExists(u) /\ ~kpod[u].term

\* max_concurrent_pods also bounds the pods in the cluster, as long as no call
\* has raised and the proxy has not restarted: the victim of an eviction has been
\* deleted before the pod it makes room for is created (131-132 before 164), and
\* no sweep that runs while a creation waits makes room for another.
LivePodsWithinLimit ==
    faults = 0 /\ crashes = 0 => Cardinality({u \in User : Live(u)}) <= MaxPods

\* PVCs are kept, and for at least as long as a creation waits for its pod.
RetentionCoversStart == PerUser /\ RetainPvc /\ (Ttl = 0 \/ StartupTimeout <= Ttl)

\* A retained PVC is not deleted under a tracked, running pod, as long as no
\* call has raised and the retention time covers a start: the sweep spares the
\* users in _pods (cleanup_expired_pvcs 150), the others must be young enough.
PvcInUseKept ==
    faults = 0 /\ RetentionCoversStart =>
        \A u \in pods : kpod[u].phase = "Running" /\ ~kpod[u].term => pvc[u].state = "bound"

\* A user whose secret is left behind without a pod, a terminal or a creation
\* that is past the secret.
Stranded(u) ==
    /\ SecretExists(u) /\ ~PodExists(u)
    /\ u \notin pods /\ work[u] = "none"
    /\ Owner(u) => job.step \in {"pvc", "secret"}

\* There is no way back: create_secret (161) answers 409 for ever, no sweep
\* looks at secrets, and reconciliation only cleans up after pods it lists.
\* Neither requests nor restarts help a stranded user.
StrandedForever == [][\A u \in User : Stranded(u) => Stranded(u)']_vars

\* Every request that asks for a terminal gets one, or an error: the lock is
\* handed on whatever becomes of the creation that holds it.
Answered == \A r \in Req : pc[r] \in {"queued", "creating"} ~> pc[r] \in {"idle", "proxying"}

\* A terminal does not stay beyond the idle timeout: again and again it is
\* within it, or is not there.
IdleReclaimed == \A u \in User : []<>(u \notin pods \/ idleFor[u] <= IdleTimeout)

\* A terminal whose pod is gone or failed is dropped, however busy its user.
DeadPodDropped ==
    \A u \in User : u \in pods /\ kpod[u].phase \in {"none", "Failed"} ~> u \notin pods

-----------------------------------------------------------------------------
(* What the documents promise and the code does not keep: each of these is  *)
(* refuted by a run of its own, and the README tells the story behind it.   *)

\* "Creates a dedicated terminal pod for each user (on demand)" (README.md:8):
\* with every call answered, no user ends up unable to ever get a pod.
NoUserStranded == \A u \in User : ~Stranded(u)

\* "Seconds of inactivity before terminating a terminal pod." (config.py:107):
\* a live terminal is not dropped while a request of its user is being proxied.
BusyTerminalKept ==
    [][\A r \in Req :
         pc[r] = "proxying" /\ UserOf[r] \in pods \ DeadPods /\ mode' = "up"
            => UserOf[r] \in pods']_vars
=============================================================================
