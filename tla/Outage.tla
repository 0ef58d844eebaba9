------------------------------- MODULE Outage -------------------------------
(***************************************************************************)
(* The proxy in its Deployment while the Kubernetes API comes and goes:    *)
(* lifespan, /health and get_terminal_for_user (main.py), what the pod     *)
(* manager does when every call raises, the client's retries, which sleep  *)
(* in the event loop, and the liveness probe of deployment.yaml, which     *)
(* asks /health.                                                           *)
(*                                                                         *)
(* External behaviour: the kubelet probes a container that serves, and     *)
(* restarts it after Threshold failed probes in a row (the default, 3); a  *)
(* probe is not answered in its second while the loop sleeps.  The         *)
(* readiness probe is the same and fails at the same time.                 *)
(*                                                                         *)
(* Simplifications: the API does not come or go within one sequence of     *)
(* calls; what happens between two calls is PodManager's subject.  A       *)
(* service comes and goes with its secret, and claims are there when they  *)
(* are stamped.  The client is initialised by the first start: that reads  *)
(* files and calls nobody.                                                 *)
(***************************************************************************)
EXTENDS Naturals, FiniteSets

CONSTANTS
    User,          \* the users
    Nobody,        \* no user: nothing is being created
    StorageMode,   \* "none", "perUser" or "shared"
    MaxPods,       \* max_concurrent_pods
    Threshold,     \* failureThreshold of the liveness probe
    MaxOutages     \* bound: how often the API goes away

ASSUME NobodyAssumption == Nobody \notin User
ASSUME StorageModeAssumption == StorageMode \in {"none", "perUser", "shared"}
ASSUME NumbersAssumption ==
    MaxPods \in Nat \ {0} /\ Threshold \in Nat \ {0} /\ MaxOutages \in Nat

VARIABLES
    api,        \* the Kubernetes API answers
    pod,        \* each user's pod; one that is "going" is Terminating
    secret,     \* the users with a secret
    mode,       \* the proxy serves
    table,      \* the users in _pods
    adopted,    \* those of them that were adopted by the last start
    creating,   \* the user whose creation holds the lock
    asleep,     \* a client call sleeps between two attempts: nothing else runs
    failed,     \* probes failed in a row
    met,        \* history: this process has met the API away
    outages     \* history, bounds the outages

objects == <<pod, secret>>
manager == <<table, adopted, creating>>
vars == <<api, objects, mode, manager, asleep, failed, met, outages>>

TypeOK ==
    /\ api \in {"up", "down"} /\ mode \in {"up", "down"}
    /\ pod \in [User -> {"none", "starting", "running", "failed", "going"}]
    /\ secret \subseteq User
    /\ adopted \subseteq table /\ table \subseteq User
    /\ creating \in (User \cup {Nobody}) \ table
    /\ asleep \in BOOLEAN /\ met \in BOOLEAN
    /\ failed \in 0..(Threshold - 1)
    /\ outages \in 0..MaxOutages
    /\ mode = "down" => table = {} /\ creating = Nobody

Init ==
    /\ api = "up" /\ mode = "down"
    /\ pod = [u \in User |-> "none"] /\ secret = {}
    /\ table = {} /\ adopted = {} /\ creating = Nobody
    /\ asleep = FALSE /\ failed = 0 /\ met = FALSE
    /\ outages = 0

-----------------------------------------------------------------------------
(* The API and the pods. *)

ApiGoes ==
    /\ api = "up" /\ outages < MaxOutages
    /\ api' = "down" /\ outages' = outages + 1
    /\ met' = (met \/ mode = "up")
    /\ UNCHANGED <<objects, mode, manager, asleep, failed>>

ApiReturns ==
    /\ api = "down" /\ api' = "up"
    /\ UNCHANGED <<objects, mode, manager, asleep, failed, met, outages>>

PodChanges(u, from, to) ==
    /\ pod[u] \in from
    /\ pod' = [pod EXCEPT ![u] = to]
    /\ UNCHANGED <<api, secret, mode, manager, asleep, failed, met, outages>>

PodRuns(u) == PodChanges(u, {"starting"}, "running")
PodFails(u) == PodChanges(u, {"starting", "running"}, "failed")
PodDrained(u) == PodChanges(u, {"starting", "running", "failed"}, "going")
PodRemoved(u) == PodChanges(u, {"going"}, "none")

\* The pods and secrets after the deletion of some users' terminals: a deleted pod
\* is Terminating for a while.
Stopped(gone) ==
    /\ pod' = [u \in User |-> IF u \in gone /\ pod[u] # "none" THEN "going" ELSE pod[u]]
    /\ secret' = secret \ gone

-----------------------------------------------------------------------------
(* The life of the proxy's container. *)

\* lifespan: the pod manager adopts the pods that run, Terminating or not, and deletes
\* the others; if the pods cannot be listed it serves all the same, with an empty table.
\* (Mutant: the pods that do not run are left alone.)
StartAdoptsOnly ==
    /\ mode = "down" /\ mode' = "up"
    /\ table' = IF api = "up" THEN {u \in User : pod[u] = "running"} ELSE {}
    /\ adopted' = table'
    /\ met' = (api = "down")
    /\ UNCHANGED <<api, objects, creating, asleep, failed, outages>>

Start ==
    /\ mode = "down" /\ mode' = "up"
    /\ \/ /\ api = "up"
          /\ \E going \in SUBSET {u \in User : pod[u] = "going"} :
               table' = going \cup {u \in User : pod[u] = "running"}
          /\ Stopped({u \in User \ table' : pod[u] # "none"})
       \/ api = "down" /\ table' = {} /\ UNCHANGED objects
    /\ adopted' = table'
    /\ met' = (api = "down")
    /\ UNCHANGED <<api, creating, asleep, failed, outages>>

\* /health lists pods: 503 if that fails.
Healthy == api = "up" /\ ~asleep

ProbePasses ==
    /\ mode = "up" /\ Healthy
    /\ failed' = 0
    /\ UNCHANGED <<api, objects, mode, manager, asleep, met, outages>>

ProbeFails ==
    /\ mode = "up" /\ ~Healthy /\ failed + 1 < Threshold
    /\ failed' = failed + 1
    /\ UNCHANGED <<api, objects, mode, manager, asleep, met, outages>>

\* The last probe fails: the container is stopped, with all it has open.
ProbeKills ==
    /\ mode = "up" /\ ~Healthy /\ failed + 1 = Threshold
    /\ mode' = "down"
    /\ table' = {} /\ adopted' = {} /\ creating' = Nobody
    /\ asleep' = FALSE /\ failed' = 0 /\ met' = FALSE
    /\ UNCHANGED <<api, objects, outages>>

-----------------------------------------------------------------------------
(* get_or_create with every call answered, or with every call raising.     *)

LoopFree == mode = "up" /\ ~asleep
MayAsk == LoopFree /\ creating = Nobody

\* Whether a call that raises has been retried: an answer, be it 409 or 404, is an
\* ApiException, retried like a server's error; an API that cannot be reached is an
\* error of the transport, which is raised at once.
Raising == IF api = "up" THEN {TRUE} ELSE BOOLEAN

\* touch_pvc swallows what annotate_pvc raises: it raises when the API is away,
\* and always in the shared modes, where a terminal that was created here has the
\* name of a PVC of its own that does not exist.
\* (Mutant: an adopted terminal has such a name too.)
TouchRaisesIfAdopted(u) == StorageMode # "none" /\ (api = "down" \/ u \in adopted)

TouchRaises(u) ==
    \/ StorageMode = "perUser" /\ api = "down"
    \/ StorageMode = "shared" /\ u \notin adopted

Reuse(u) ==
    /\ MayAsk /\ u \in table
    /\ asleep' \in IF TouchRaises(u) THEN Raising ELSE {FALSE}
    /\ UNCHANGED <<api, objects, mode, manager, failed, met, outages>>

\* _delete_pod forgets the terminals; the objects go if the calls succeed.
Delete(gone) ==
    /\ table' = table \ gone /\ adopted' = adopted \ gone
    /\ IF api = "up" THEN Stopped(gone) ELSE UNCHANGED objects

\* Whom _evict_oldest makes room with (times are left out: anybody).
Victims == IF Cardinality(table) >= MaxPods THEN {{v} : v \in table} ELSE {{}}

\* Room is made, and then create_secret raises: the API is away, or the user's
\* secret is there already (409).
Refuse(u) ==
    /\ MayAsk /\ u \notin table
    /\ api = "down" \/ u \in secret
    /\ \E gone \in Victims : Delete(gone)
    /\ asleep' \in Raising
    /\ UNCHANGED <<api, mode, creating, failed, met, outages>>

\* Room is made and the secret created; then the pod, ...
MakesSecret(u) ==
    /\ MayAsk /\ u \notin table
    /\ api = "up" /\ u \notin secret
    /\ \E gone \in Victims :
         /\ table' = table \ gone /\ adopted' = adopted \ gone
         /\ secret' = (secret \ gone) \cup {u}
         /\ pod' = [v \in User |-> IF v = u /\ pod[v] = "none" THEN "starting"
                                   ELSE IF v \in gone /\ pod[v] # "none" THEN "going"
                                   ELSE pod[v]]
    /\ UNCHANGED <<api, mode, failed, met, outages>>

Create(u) ==
    /\ pod[u] = "none"
    /\ MakesSecret(u)
    /\ creating' = u
    /\ UNCHANGED asleep

\* ... unless the user's last pod still has its name (409).
Collide(u) ==
    /\ pod[u] # "none"
    /\ MakesSecret(u)
    /\ asleep' = TRUE
    /\ UNCHANGED creating

\* wait_for_pod_ready: the pod is ready, ...
\* (Mutant: the lock is not released.)
ReadyHoldsLock(u) ==
    /\ LoopFree /\ creating = u
    /\ api = "up" /\ pod[u] \in {"running", "going"}
    /\ table' = table \cup {u}
    /\ UNCHANGED <<api, objects, mode, adopted, creating, asleep, failed, met, outages>>

Ready(u) ==
    /\ LoopFree /\ creating = u
    /\ api = "up" /\ pod[u] \in {"running", "going"}
    /\ table' = table \cup {u} /\ creating' = Nobody
    /\ UNCHANGED <<api, objects, mode, adopted, asleep, failed, met, outages>>

\* ... or late, or failed, and is deleted, ...
NotReady(u) ==
    /\ LoopFree /\ creating = u /\ api = "up"
    /\ Stopped({u})
    /\ creating' = Nobody
    /\ UNCHANGED <<api, mode, table, adopted, asleep, failed, met, outages>>

\* ... or a poll raises, and the pod is left behind.
PollRaises(u) ==
    /\ LoopFree /\ creating = u /\ api = "down"
    /\ creating' = Nobody
    /\ asleep' \in Raising
    /\ UNCHANGED <<api, objects, mode, table, adopted, failed, met, outages>>

\* _cleanup_idle_pods: any terminals may be idle for too long, whoever uses them.
CleanupIdle ==
    /\ LoopFree
    /\ \E idle \in (SUBSET table) \ {{}} : Delete(idle)
    /\ asleep' \in IF api = "up" THEN {FALSE} ELSE Raising
    /\ UNCHANGED <<api, mode, creating, failed, met, outages>>

\* _check_pod_health: a call that raises spares its terminal.
\* (Mutant: the failed pods of untracked users are cleaned up too.)
HealthCheckOfAll ==
    /\ LoopFree
    /\ IF api = "up" THEN Delete({u \in User \ {creating} : pod[u] \in {"none", "failed"}})
                     ELSE UNCHANGED <<objects, table, adopted>>
    /\ asleep' \in IF api = "up" \/ table = {} THEN {FALSE} ELSE Raising
    /\ UNCHANGED <<api, mode, creating, failed, met, outages>>

HealthCheck ==
    /\ LoopFree
    /\ IF api = "up" THEN Delete({u \in table : pod[u] \in {"none", "failed"}})
                     ELSE UNCHANGED <<objects, table, adopted>>
    /\ asleep' \in IF api = "up" \/ table = {} THEN {FALSE} ELSE Raising
    /\ UNCHANGED <<api, mode, creating, failed, met, outages>>

\* The last attempt is over.
Wake ==
    /\ asleep /\ asleep' = FALSE
    /\ UNCHANGED <<api, objects, mode, manager, failed, met, outages>>

Next ==
    \/ ApiGoes \/ ApiReturns
    \/ Start \/ ProbePasses \/ ProbeFails \/ ProbeKills
    \/ CleanupIdle \/ HealthCheck \/ Wake
    \/ \E u \in User :
        \/ PodRuns(u) \/ PodFails(u) \/ PodDrained(u) \/ PodRemoved(u)
        \/ Reuse(u) \/ Refuse(u) \/ Create(u) \/ Collide(u)
        \/ Ready(u) \/ NotReady(u) \/ PollRaises(u)

Spec == Init /\ [][Next]_vars

-----------------------------------------------------------------------------
(* Properties. *)

\* A user with a secret the proxy knows nothing of: whoever asks for this user's
\* terminal is refused with a 409.
LockedOut(u) == mode = "up" /\ u \in secret /\ u \notin table /\ creating # u

\* Only a process that has met the API away locks users out whose pod is there: by
\* starting without the list of pods (pod_manager.py 92), by deleting or evicting in
\* vain (213-229), or by giving a starting pod up (client.py 266).
LockedOutOnlyByOutage == \A u \in User :
    LockedOut(u) /\ pod[u] \notin {"none", "going"} => met

\* It does not pass when the API is back or the pod is gone: no sweep and no request
\* helps a locked-out user, only the next start of the proxy may.
LockoutLasts == [][\A u \in User : LockedOut(u) => LockedOut(u)' \/ mode' = "down"]_vars

\* But for the shared modes the kubelet finds a process that has never met an outage
\* unhealthy only if it has locked somebody out: nothing else makes its loop sleep
\* (client.py 69-292, storage.py 108-115).
NeverKilledUnprovoked ==
    StorageMode # "shared" /\ failed > 0 => met \/ \E u \in User : LockedOut(u)
=============================================================================
