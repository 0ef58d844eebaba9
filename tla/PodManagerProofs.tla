-------------------------- MODULE PodManagerProofs --------------------------
(* What holds of the pod manager for every set of users and requests, every *)
(* limit and timeout, and every number of faults and crashes.               *)
EXTENDS PodManager, TLAPS, FiniteSetTheorems

-----------------------------------------------------------------------------
(* Types. *)

LEMMA InitTypeOK == Init => TypeOK
BY NoKeyAssumption, ClusterBoundsAssumption, MaxCrashesAssumption, TimeoutsAssumption
   DEF Init, ClusterInit, TypeOK, ClusterTypeOK, NoPod, NoPvc, Pvc, NoJob, NoWork, Phase, CallStep

\* What a call may cost keeps the count of faults within its bound.
LEMMA ChargeType ==
    ASSUME faults \in 0..MaxFaults, NEW reply \in Replies, Charge(reply)
    PROVE  faults' \in 0..MaxFaults
BY ClusterBoundsAssumption DEF Replies, Charge

\* A PVC that is deleted, or that gets older, is a PVC.
LEMMA PvcType ==
    ASSUME NEW p \in Pvc
    PROVE  /\ [p EXCEPT !.state = "terminating"] \in Pvc
           /\ [p EXCEPT !.age = Older(@)] \in Pvc
<1>1. p.age \in 0..MaxAge
  BY DEF Pvc
<1>2. Older(p.age) \in 0..MaxAge
  BY <1>1, ClusterBoundsAssumption DEF Older
<1> QED
  BY <1>2 DEF Pvc

\* Creating, annotating and deleting a PVC.
LEMMA PvcCallType ==
    ASSUME pvc \in [User -> Pvc], NEW u \in User, NEW reply,
           create_pvc(u, reply) \/ annotate_pvc(u, reply) \/ delete_pvc(u, reply)
    PROVE  pvc' \in [User -> Pvc]
<1>1. /\ [state |-> "bound", age |-> 0] \in Pvc
      /\ [pvc[u] EXCEPT !.age = 0] \in Pvc
      /\ [pvc[u] EXCEPT !.state = "terminating"] \in Pvc
  BY ClusterBoundsAssumption DEF Pvc
<1>2. \/ pvc' = pvc
      \/ pvc' = [pvc EXCEPT ![u] = [state |-> "bound", age |-> 0]]
      \/ pvc' = [pvc EXCEPT ![u] = [pvc[u] EXCEPT !.age = 0]]
      \/ pvc' = [pvc EXCEPT ![u] = [pvc[u] EXCEPT !.state = "terminating"]]
  BY DEF create_pvc, annotate_pvc, delete_pvc
<1> QED
  BY <1>1, <1>2

\* A deletion call changes cluster objects within their types.
LEMMA DeleteCallType ==
    ASSUME ClusterTypeOK, NEW u \in User, NEW reply \in Replies, DeleteCall(u, reply)
    PROVE  ClusterTypeOK'
<1>1. faults' \in 0..MaxFaults
  BY ChargeType DEF ClusterTypeOK, DeleteCall
<1>2. CASE work[u] = "service" /\ delete_service(u, reply) /\ UNCHANGED <<kpod, secret, pvc>>
  BY <1>1, <1>2 DEF ClusterTypeOK, delete_service
<1>3. CASE work[u] = "pod" /\ delete_pod(u, reply) /\ UNCHANGED <<service, secret, pvc>>
  BY <1>1, <1>3 DEF ClusterTypeOK, delete_pod, Phase, Ended
<1>4. CASE work[u] = "secret" /\ delete_secret(u, reply) /\ UNCHANGED <<kpod, service, pvc>>
  BY <1>1, <1>4 DEF ClusterTypeOK, delete_secret
<1>5. CASE work[u] = "pvc" /\ release_pvc(u, reply) /\ UNCHANGED <<kpod, service, secret>>
  BY <1>1, <1>5, PvcCallType DEF ClusterTypeOK, release_pvc, touch_pvc, delete_user_pvc
<1> QED
  BY <1>2, <1>3, <1>4, <1>5 DEF DeleteCall

LEMMA InsertType ==
    ASSUME TypeOK, NEW u \in User, NEW k \in Key \cup {NoKey}, NEW age \in 0..MaxAge,
           Insert(u, k, age)
    PROVE  /\ pods' \subseteq User
           /\ apiKey' \in [User -> Key \cup {NoKey}]
           /\ idleFor' \in [User -> 0..MaxAge]
BY DEF TypeOK, Insert

LEMMA DropType ==
    ASSUME TypeOK, NEW gone, Drop(gone)
    PROVE  /\ pods' \subseteq User
           /\ apiKey' \in [User -> Key \cup {NoKey}]
           /\ idleFor' \in [User -> 0..MaxAge]
           /\ work' \in [User -> {"none", "adopt"} \cup CallStep]
BY ClusterBoundsAssumption DEF TypeOK, Drop, CallStep

LEMMA AfterCallType == \A step : AfterCall(step) \in {"none", "pod", "secret"}
BY DEF AfterCall

\* A creation that fails or moves on keeps the types of the request's side.
LEMMA FailOrAdvanceType ==
    ASSUME TypeOK, FailCreate \/ \E step \in CallStep \cup {"waiting"} : Advance(step)
    PROVE  /\ lock' \in Req \cup {NoReq}
           /\ pc' \in [Req -> {"idle", "queued", "creating", "proxying"}]
           /\ job' \in [step : {"none", "waiting", "undo"} \cup CallStep,
                        key : Key \cup {NoKey}, waited : 0..StartupTimeout]
BY TimeoutsAssumption DEF TypeOK, FailCreate, Advance, NoJob, CallStep

\* The cluster's own steps keep its types.
LEMMA ClusterStepType == ClusterTypeOK /\ ClusterStep => ClusterTypeOK'
<1> SUFFICES ASSUME ClusterTypeOK, ClusterStep PROVE ClusterTypeOK'
  OBVIOUS
<1>1. ASSUME NEW u \in User, PodStarts(u) PROVE ClusterTypeOK'
  BY <1>1 DEF PodStarts, ClusterTypeOK, Phase
<1>2. ASSUME NEW u \in User, NEW phase \in Ended, PodEnds(u, phase) PROVE ClusterTypeOK'
  BY <1>2 DEF PodEnds, ClusterTypeOK, Phase
<1>3. ASSUME NEW u \in User, PodDrained(u) PROVE ClusterTypeOK'
  BY <1>3 DEF PodDrained, ClusterTypeOK
<1>4. ASSUME NEW u \in User, PodRemoved(u) PROVE ClusterTypeOK'
  BY <1>4 DEF PodRemoved, ClusterTypeOK, NoPod, Phase
<1>5. ASSUME NEW u \in User, PvcRemoved(u) PROVE ClusterTypeOK'
  BY <1>5, ClusterBoundsAssumption DEF PvcRemoved, ClusterTypeOK, NoPvc, Pvc
<1> QED
  BY <1>1, <1>2, <1>3, <1>4, <1>5 DEF ClusterStep

\* Every step of the specification stays within the types.
LEMMA NextTypeOK == TypeOK /\ [Next]_vars => TypeOK'
<1> SUFFICES ASSUME TypeOK, [Next]_vars PROVE TypeOK'
  OBVIOUS
<1> USE NoKeyAssumption, ClusterBoundsAssumption, NoReqAssumption, UserOfAssumption,
        TimeoutsAssumption, MaxCrashesAssumption
<1>1. CASE Start
  BY <1>1 DEF Start, TypeOK, ClusterTypeOK, clusterVars, managerVars, requestVars, NoWork, CallStep
<1>2. ASSUME NEW u \in User, Adopt(u) PROVE TypeOK'
  <2>1. ASSUME NEW k \in Key \cup {NoKey}, Insert(u, k, 0),
               work' = [work EXCEPT ![u] = "none"], UNCHANGED clusterVars
        PROVE  TypeOK'
    BY <1>2, <2>1, InsertType DEF Adopt, TypeOK, ClusterTypeOK, clusterVars, requestVars
  <2>2. CASE /\ faults < MaxFaults /\ faults' = faults + 1 /\ work' = NoWork
             /\ UNCHANGED <<kpod, service, secret, pvc, managerVars>>
    BY <1>2, <2>2 DEF Adopt, TypeOK, ClusterTypeOK, managerVars, requestVars, NoWork
  <2>3. \A k \in IF SecretExists(u) THEN {secret[u]} ELSE FreshKeys(u) : k \in Key \cup {NoKey}
    BY DEF TypeOK, ClusterTypeOK, FreshKeys
  <2> QED
    BY <1>2, <2>1, <2>2, <2>3 DEF Adopt
<1>3. ASSUME NEW u \in User, ReconcileCall(u) PROVE TypeOK'
  <2>1. PICK reply \in Replies :
            /\ DeleteCall(u, reply)
            /\ work' = IF reply = "ok" THEN [work EXCEPT ![u] = AfterCall(@)] ELSE NoWork
    BY <1>3 DEF ReconcileCall
  <2>2. ClusterTypeOK'
    BY <2>1, DeleteCallType DEF TypeOK
  <2>3. work' \in [User -> {"none", "adopt"} \cup CallStep]
    BY <2>1, AfterCallType DEF TypeOK, NoWork, CallStep
  <2> QED
    BY <1>3, <2>2, <2>3 DEF ReconcileCall, TypeOK, managerVars, requestVars
<1>4. CASE Serve
  BY <1>4 DEF Serve, TypeOK, ClusterTypeOK, clusterVars, managerVars, requestVars
<1>5. ASSUME NEW r \in Req, Arrive(r) PROVE TypeOK'
  BY <1>5 DEF Arrive, TypeOK, ClusterTypeOK, clusterVars, managerVars
<1>6. ASSUME NEW r \in Req, Reuse(r) PROVE TypeOK'
  <2>1. waiters' \in Seq(Req)
    BY <1>6 DEF Reuse, MyTurn, TypeOK
  <2>2. idleFor' \in [User -> 0..MaxAge] /\ pc' \in [Req -> {"idle", "queued", "creating", "proxying"}]
    BY <1>6 DEF Reuse, TypeOK
  <2>3. ClusterTypeOK'
    <3>1. CASE PerUser
      <4>1. PICK reply \in Replies : touch_pvc(UserOf[r], reply) /\ Charge(reply)
        BY <1>6, <3>1 DEF Reuse
      <4>2. faults' \in 0..MaxFaults
        BY <4>1, ChargeType DEF TypeOK, ClusterTypeOK
      <4> QED
        BY <1>6, <4>1, <4>2, PvcCallType DEF Reuse, TypeOK, ClusterTypeOK, touch_pvc
    <3>2. CASE ~PerUser
      BY <1>6, <3>2 DEF Reuse, TypeOK, ClusterTypeOK
    <3> QED
      BY <3>1, <3>2
  <2> QED
    BY <1>6, <2>1, <2>2, <2>3 DEF Reuse, TypeOK
<1>7. ASSUME NEW r \in Req, BeginCreate(r) PROVE TypeOK'
  <2>1. /\ pods' \subseteq User
        /\ apiKey' \in [User -> Key \cup {NoKey}]
        /\ idleFor' \in [User -> 0..MaxAge]
        /\ work' \in [User -> {"none", "adopt"} \cup CallStep]
    <3>1. CASE PoolFull
      BY <1>7, <3>1, DropType DEF BeginCreate
    <3>2. CASE ~PoolFull
      BY <1>7, <3>2 DEF BeginCreate, TypeOK, managerVars
    <3> QED
      BY <3>1, <3>2
  <2>2. waiters' \in Seq(Req)
    BY <1>7 DEF BeginCreate, MyTurn, TypeOK
  <2>3. /\ lock' \in Req \cup {NoReq}
        /\ pc' \in [Req -> {"idle", "queued", "creating", "proxying"}]
        /\ job' \in [step : {"none", "waiting", "undo"} \cup CallStep,
                     key : Key \cup {NoKey}, waited : 0..StartupTimeout]
    BY <1>7 DEF BeginCreate, TypeOK, CallStep, FreshKeys
  <2>4. ClusterTypeOK' /\ mode' \in {"down", "reconciling", "up"} /\ crashes' \in 0..MaxCrashes
    BY <1>7 DEF BeginCreate, TypeOK, ClusterTypeOK, clusterVars
  <2> QED
    BY <2>1, <2>2, <2>3, <2>4 DEF TypeOK
<1>8. ASSUME NEW r \in Req, CreatePvc(r) PROVE TypeOK'
  <2>1. ClusterTypeOK'
    <3>1. ASSUME NEW reply \in Replies, create_user_pvc(UserOf[r], reply), Charge(reply)
          PROVE  ClusterTypeOK'
      BY <1>8, <3>1, ChargeType, PvcCallType
         DEF CreatePvc, TypeOK, ClusterTypeOK, create_user_pvc, touch_pvc
    <3>2. CASE faults < MaxFaults /\ faults' = faults + 1 /\ UNCHANGED pvc
      BY <1>8, <3>2 DEF CreatePvc, TypeOK, ClusterTypeOK
    <3> QED
      BY <1>8, <3>1, <3>2 DEF CreatePvc
  <2>2. FailCreate \/ Advance("secret")
    BY <1>8 DEF CreatePvc
  <2> QED
    BY <1>8, <2>1, <2>2, FailOrAdvanceType DEF CreatePvc, TypeOK, managerVars, CallStep
<1>9. ASSUME NEW r \in Req, CreateSecret(r) PROVE TypeOK'
  <2>1. ClusterTypeOK'
    BY <1>9, ChargeType DEF CreateSecret, TypeOK, ClusterTypeOK, create_secret
  <2>2. FailCreate \/ Advance("pod")
    BY <1>9 DEF CreateSecret
  <2> QED
    BY <1>9, <2>1, <2>2, FailOrAdvanceType DEF CreateSecret, TypeOK, managerVars, CallStep
<1>10. ASSUME NEW r \in Req, CreatePod(r) PROVE TypeOK'
  <2>1. ClusterTypeOK'
    BY <1>10, ChargeType DEF CreatePod, TypeOK, ClusterTypeOK, create_pod, Phase
  <2>2. FailCreate \/ Advance("service")
    BY <1>10 DEF CreatePod
  <2> QED
    BY <1>10, <2>1, <2>2, FailOrAdvanceType DEF CreatePod, TypeOK, managerVars, CallStep
<1>11. ASSUME NEW r \in Req, CreateService(r) PROVE TypeOK'
  <2>1. ClusterTypeOK'
    BY <1>11, ChargeType DEF CreateService, TypeOK, ClusterTypeOK, create_service
  <2>2. FailCreate \/ Advance("waiting")
    BY <1>11 DEF CreateService
  <2> QED
    BY <1>11, <2>1, <2>2, FailOrAdvanceType DEF CreateService, TypeOK, managerVars, CallStep
<1>12. ASSUME NEW r \in Req, PodReady(r) PROVE TypeOK'
  <2>1. job.key \in Key \cup {NoKey} /\ job.waited \in 0..MaxAge
    BY DEF TypeOK
  <2>2. /\ pods' \subseteq User
        /\ apiKey' \in [User -> Key \cup {NoKey}]
        /\ idleFor' \in [User -> 0..MaxAge]
    BY <1>12, <2>1, InsertType DEF PodReady
  <2>3. job' \in [step : {"none", "waiting", "undo"} \cup CallStep,
                  key : Key \cup {NoKey}, waited : 0..StartupTimeout]
    BY <1>12 DEF PodReady, NoJob
  <2> QED
    BY <1>12, <2>2, <2>3 DEF PodReady, TypeOK, ClusterTypeOK, clusterVars
<1>13. ASSUME NEW r \in Req, PodNotReady(r) PROVE TypeOK'
  BY <1>13 DEF PodNotReady, TypeOK, ClusterTypeOK, clusterVars, managerVars, CallStep
<1>14. ASSUME NEW r \in Req, PollError(r) PROVE TypeOK'
  <2>1. ClusterTypeOK'
    BY <1>14 DEF PollError, TypeOK, ClusterTypeOK
  <2> QED
    BY <1>14, <2>1, FailOrAdvanceType DEF PollError, TypeOK, managerVars
<1>15. ASSUME NEW u \in User, UndoCall(u) PROVE TypeOK'
  <2>1. PICK reply \in Replies :
            /\ DeleteCall(u, reply)
            /\ \/ work' = [work EXCEPT ![u] = AfterCall(@)] /\ UNCHANGED <<lock, pc, job>>
               \/ work' = [work EXCEPT ![u] = "none"] /\ FailCreate
    BY <1>15 DEF UndoCall
  <2>2. ClusterTypeOK'
    BY <2>1, DeleteCallType DEF TypeOK
  <2>3. work' \in [User -> {"none", "adopt"} \cup CallStep]
    BY <2>1, AfterCallType DEF TypeOK, CallStep
  <2>4. UNCHANGED <<lock, pc, job>> \/ FailCreate
    BY <2>1
  <2> QED
    BY <1>15, <2>2, <2>3, <2>4, FailOrAdvanceType DEF UndoCall, TypeOK, managerVars
<1>16. ASSUME NEW u \in User, EvictCall(u) PROVE TypeOK'
  <2>1. ClusterTypeOK'
    BY <1>16, DeleteCallType DEF EvictCall, TypeOK
  <2>2. work' \in [User -> {"none", "adopt"} \cup CallStep]
    BY <1>16, AfterCallType DEF EvictCall, TypeOK, CallStep
  <2> QED
    BY <1>16, <2>1, <2>2 DEF EvictCall, TypeOK, managerVars, requestVars
<1>17. ASSUME NEW r \in Req, Finish(r) PROVE TypeOK'
  BY <1>17 DEF Finish, TypeOK, ClusterTypeOK, clusterVars, managerVars
<1>18. CASE CleanupIdle
  BY <1>18, DropType DEF CleanupIdle, TypeOK, ClusterTypeOK, clusterVars, requestVars
<1>19. CASE HealthCheck
  <2>1. PICK dead \in SUBSET DeadPods :
            /\ faults + Cardinality(DeadPods \ dead) <= MaxFaults
            /\ faults' = faults + Cardinality(DeadPods \ dead)
            /\ Drop(dead)
    BY <1>19 DEF HealthCheck
  <2>2. Cardinality(DeadPods \ dead) \in Nat
    BY UserAssumption, FS_Subset, FS_CardinalityType DEF DeadPods, TypeOK
  <2>3. ClusterTypeOK'
    BY <1>19, <2>1, <2>2 DEF HealthCheck, TypeOK, ClusterTypeOK
  <2> QED
    BY <1>19, <2>1, <2>3, DropType DEF HealthCheck, TypeOK, requestVars
<1>20. CASE PvcSweep
  <2>1. PICK gone \in SUBSET ExpiredPvcs(pods) :
            pvc' = [u \in User |-> IF u \in gone
                                   THEN [pvc[u] EXCEPT !.state = "terminating"] ELSE pvc[u]]
    BY <1>20 DEF PvcSweep, cleanup_expired_pvcs
  <2>2. \A u \in User : [pvc[u] EXCEPT !.state = "terminating"] \in Pvc /\ pvc[u] \in Pvc
    BY PvcType DEF TypeOK, ClusterTypeOK
  <2>3. pvc' \in [User -> Pvc] /\ faults' = faults
    BY <1>20, <2>1, <2>2 DEF PvcSweep, cleanup_expired_pvcs
  <2>4. ClusterTypeOK'
    BY <1>20, <2>3 DEF PvcSweep, TypeOK, ClusterTypeOK
  <2> QED
    BY <1>20, <2>4 DEF PvcSweep, TypeOK, managerVars, requestVars
<1>21. CASE Tick
  <2>1. \A age \in 0..MaxAge : Older(age) \in 0..MaxAge
    BY DEF Older
  <2>2. pvc' \in [User -> Pvc]
    <3>1. \A u \in User : [pvc[u] EXCEPT !.age = Older(@)] \in Pvc /\ pvc[u] \in Pvc
      BY PvcType DEF TypeOK, ClusterTypeOK
    <3> QED
      BY <1>21, <3>1 DEF Tick, PvcsAge
  <2>3. idleFor' \in [User -> 0..MaxAge]
    <3>1. idleFor' = [u \in User |-> IF u \in pods THEN Older(idleFor[u]) ELSE 0]
      BY <1>21 DEF Tick
    <3>2. \A u \in User : Older(idleFor[u]) \in 0..MaxAge
      BY <2>1 DEF TypeOK
    <3> QED
      BY <3>1, <3>2
  <2>4. job' \in [step : {"none", "waiting", "undo"} \cup CallStep,
                  key : Key \cup {NoKey}, waited : 0..StartupTimeout]
    <3>1. CASE job.step = "waiting"
      <4>1. job.waited + 1 \in 0..StartupTimeout
        <5>1. job.waited \in 0..StartupTimeout /\ job.waited < StartupTimeout
          BY <1>21, <3>1 DEF Tick, InTime, TypeOK
        <5> QED
          BY <5>1
      <4> QED
        BY <1>21, <3>1, <4>1 DEF Tick, TypeOK
    <3>2. CASE job.step # "waiting"
      BY <1>21, <3>2 DEF Tick, TypeOK
    <3> QED
      BY <3>1, <3>2
  <2> QED
    BY <1>21, <2>2, <2>3, <2>4 DEF Tick, TypeOK, ClusterTypeOK
<1>22. CASE Crash
  BY <1>22 DEF Crash, TypeOK, ClusterTypeOK, clusterVars, NoWork, NoJob, CallStep
<1>23. CASE ClusterMoves
  <2>1. ClusterTypeOK'
    BY <1>23, ClusterStepType DEF ClusterMoves, TypeOK
  <2> QED
    BY <1>23, <2>1 DEF ClusterMoves, TypeOK, managerVars, requestVars
<1>24. CASE UNCHANGED vars
  BY <1>24 DEF vars, TypeOK, ClusterTypeOK, clusterVars, managerVars, requestVars
<1> QED
  BY <1>1, <1>2, <1>3, <1>4, <1>5, <1>6, <1>7, <1>8, <1>9, <1>10, <1>11, <1>12, <1>13, <1>14,
     <1>15, <1>16, <1>17, <1>18, <1>19, <1>20, <1>21, <1>22, <1>23, <1>24
     DEF Next, Reconciles, Takes, Creates, Calls, Deletes

\* Every state of the proxy and of its cluster has the types of the variables.
THEOREM TypeCorrect == Spec => []TypeOK
BY InitTypeOK, NextTypeOK, PTL DEF Spec

-----------------------------------------------------------------------------
(* The lock. *)

\* No request stands twice in the queue.
QueuedOnce ==
    \A i, j \in DOMAIN waiters : waiters[i] = waiters[j] => i = j

\* LockDiscipline with what makes it inductive: the lock is only held while
\* requests are served, and leaving the queue once is leaving it.
LockInv == LockDiscipline /\ QueuedOnce /\ (lock # NoReq => mode = "up")

LEMMA InitLockInv == Init => LockInv
BY NoReqAssumption DEF Init, LockInv, LockDiscipline, CreatorUntracked, CreatorHoldsLock,
   QueueIsQueued, QueuedOnce, Owner, NoJob

\* The half of LockInv that is about the lock's holder.
HolderInv == CreatorUntracked /\ CreatorHoldsLock /\ (lock # NoReq => mode = "up")

\* The half that is about the queue.
QueueInv == QueueIsQueued /\ QueuedOnce

LEMMA FailCreateHolder ==
    ASSUME TypeOK, HolderInv, lock \in Req, FailCreate
    PROVE  CreatorUntracked' /\ CreatorHoldsLock' /\ lock' = NoReq
BY NoReqAssumption DEF TypeOK, HolderInv, CreatorUntracked, CreatorHoldsLock, Owner, FailCreate, NoJob

\* A deletion call finds a deletion in progress.
LEMMA DeleteCallBusy ==
    ASSUME NEW u \in User, NEW reply, DeleteCall(u, reply)
    PROVE  work[u] \in CallStep
BY DEF DeleteCall, CallStep

\* Creation steps other than the last: the holder goes on or gives up.
LEMMA AdvanceHolder ==
    ASSUME TypeOK, HolderInv, NEW r \in Req, NEW step \in CallStep, Creating(r, step),
           FailCreate \/ \E next \in CallStep \cup {"waiting"} : Advance(next),
           UNCHANGED <<mode, pods, work>>
    PROVE  HolderInv'
<1>1. lock = r /\ lock # NoReq /\ mode' = "up" /\ job.step # "none" /\ work' = NoWork
  BY NoReqAssumption DEF Creating, CallStep
<1>2. CASE FailCreate
  BY <1>1, <1>2, FailCreateHolder DEF HolderInv
<1>3. ASSUME NEW next \in CallStep \cup {"waiting"}, Advance(next) PROVE HolderInv'
  <2>1. job'.step = next /\ lock' = lock /\ pc' = pc
    BY <1>3 DEF Advance, TypeOK
  <2>2. CreatorUntracked'
    BY <1>1, <2>1 DEF HolderInv, CreatorUntracked, Owner, NoWork
  <2>3. CreatorHoldsLock'
    BY <1>1, <2>1 DEF HolderInv, CreatorHoldsLock, CallStep
  <2> QED
    BY <1>1, <2>2, <2>3 DEF HolderInv
<1> QED
  BY <1>2, <1>3

\* Dropping tracked terminals does not touch the holder's user.
LEMMA DropHolder ==
    ASSUME TypeOK, HolderInv, NEW gone \in SUBSET pods, Drop(gone),
           UNCHANGED <<mode, lock, pc, job>>
    PROVE  HolderInv'
BY DEF TypeOK, HolderInv, CreatorUntracked, CreatorHoldsLock, Owner, Drop

LEMMA NextHolderInv == TypeOK /\ HolderInv /\ [Next]_vars => HolderInv'
<1> SUFFICES ASSUME TypeOK, HolderInv, [Next]_vars PROVE HolderInv'
  OBVIOUS
<1> USE NoReqAssumption, UserOfAssumption
<1>1. CASE Start
  BY <1>1 DEF Start, HolderInv, CreatorUntracked, CreatorHoldsLock, Owner, managerVars, requestVars
<1>2. ASSUME NEW u \in User, Adopt(u) PROVE HolderInv'
  BY <1>2 DEF Adopt, HolderInv, CreatorUntracked, CreatorHoldsLock, Owner, managerVars, requestVars
<1>3. ASSUME NEW u \in User, ReconcileCall(u) PROVE HolderInv'
  BY <1>3 DEF ReconcileCall, HolderInv, CreatorUntracked, CreatorHoldsLock, Owner,
              managerVars, requestVars
<1>4. CASE Serve
  BY <1>4 DEF Serve, HolderInv, CreatorUntracked, CreatorHoldsLock, Owner, managerVars, requestVars
<1>5. ASSUME NEW r \in Req, Arrive(r) PROVE HolderInv'
  BY <1>5 DEF Arrive, TypeOK, HolderInv, CreatorUntracked, CreatorHoldsLock, Owner, managerVars
<1>6. ASSUME NEW r \in Req, Reuse(r) PROVE HolderInv'
  BY <1>6 DEF Reuse, MyTurn, TypeOK, HolderInv, CreatorUntracked, CreatorHoldsLock, Owner
<1>7. ASSUME NEW r \in Req, BeginCreate(r) PROVE HolderInv'
  <2>1. /\ lock = NoReq /\ lock' = r /\ pc' = [pc EXCEPT ![r] = "creating"]
        /\ mode = "up" /\ mode' = "up" /\ job'.step # "none" /\ work = NoWork
        /\ UserOf[r] \notin pods
    BY <1>7 DEF BeginCreate, MyTurn, LoopFree
  <2>2. UserOf[r] \notin pods' /\ work'[UserOf[r]] = "none"
    BY <1>7, <2>1 DEF BeginCreate, Drop, Oldest, NoWork, managerVars
  <2>3. CreatorUntracked'
    BY <2>1, <2>2 DEF CreatorUntracked, Owner
  <2>4. CreatorHoldsLock'
    BY <2>1 DEF TypeOK, HolderInv, CreatorHoldsLock
  <2> QED
    BY <2>1, <2>3, <2>4 DEF HolderInv
<1>8. ASSUME NEW r \in Req, Calls(r) PROVE HolderInv'
  <2>1. CASE CreatePvc(r)
    BY <2>1, AdvanceHolder DEF CreatePvc, CallStep, managerVars
  <2>2. CASE CreateSecret(r)
    BY <2>2, AdvanceHolder DEF CreateSecret, CallStep, managerVars
  <2>3. CASE CreatePod(r)
    BY <2>3, AdvanceHolder DEF CreatePod, CallStep, managerVars
  <2>4. CASE CreateService(r)
    BY <2>4, AdvanceHolder DEF CreateService, CallStep, managerVars
  <2> QED
    BY <1>8, <2>1, <2>2, <2>3, <2>4 DEF Calls
<1>9. ASSUME NEW r \in Req, PodReady(r) PROVE HolderInv'
  BY <1>9 DEF PodReady, Waiting, Creating, TypeOK, HolderInv, CreatorUntracked,
              CreatorHoldsLock, Owner, NoJob
<1>10. ASSUME NEW r \in Req, PodNotReady(r) PROVE HolderInv'
  BY <1>10 DEF PodNotReady, Waiting, Creating, TypeOK, HolderInv, CreatorUntracked,
               CreatorHoldsLock, Owner, managerVars
<1>11. ASSUME NEW r \in Req, PollError(r) PROVE HolderInv'
  BY <1>11, FailCreateHolder DEF PollError, Waiting, Creating, HolderInv
<1>12. ASSUME NEW u \in User, UndoCall(u) PROVE HolderInv'
  <2>1. lock \in Req
    BY <1>12 DEF UndoCall, TypeOK, HolderInv, CreatorHoldsLock
  <2>2. CASE FailCreate
    BY <1>12, <2>1, <2>2, FailCreateHolder DEF UndoCall, HolderInv
  <2>3. CASE UNCHANGED <<lock, pc, job>>
    BY <1>12, <2>3 DEF UndoCall, HolderInv, CreatorUntracked, CreatorHoldsLock, Owner, managerVars
  <2> QED
    BY <1>12, <2>2, <2>3 DEF UndoCall
<1>13. ASSUME NEW u \in User, EvictCall(u) PROVE HolderInv'
  <2>1. work[u] # "none"
    BY <1>13, DeleteCallBusy DEF EvictCall, CallStep
  <2>2. ~Owner(u)
    BY <1>13, <2>1 DEF EvictCall, HolderInv, CreatorUntracked
  <2> QED
    BY <1>13, <2>2 DEF EvictCall, TypeOK, HolderInv, CreatorUntracked, CreatorHoldsLock, Owner,
                       managerVars, requestVars
<1>14. ASSUME NEW r \in Req, Finish(r) PROVE HolderInv'
  BY <1>14 DEF Finish, TypeOK, HolderInv, CreatorUntracked, CreatorHoldsLock, Owner, managerVars
<1>15. CASE CleanupIdle
  BY <1>15, DropHolder DEF CleanupIdle, IdlePods, requestVars
<1>16. CASE HealthCheck
  BY <1>16, DropHolder DEF HealthCheck, DeadPods, requestVars
<1>17. CASE PvcSweep
  BY <1>17 DEF PvcSweep, HolderInv, CreatorUntracked, CreatorHoldsLock, Owner, managerVars, requestVars
<1>18. CASE Tick
  <2>1. job'.step = job.step
    BY <1>18 DEF Tick, TypeOK
  <2> QED
    BY <1>18, <2>1 DEF Tick, HolderInv, CreatorUntracked, CreatorHoldsLock, Owner
<1>19. CASE Crash
  BY <1>19 DEF Crash, HolderInv, CreatorUntracked, CreatorHoldsLock, Owner, NoJob
<1>20. CASE ClusterMoves
  BY <1>20 DEF ClusterMoves, HolderInv, CreatorUntracked, CreatorHoldsLock, Owner,
               managerVars, requestVars
<1>21. CASE UNCHANGED vars
  BY <1>21 DEF vars, HolderInv, CreatorUntracked, CreatorHoldsLock, Owner, managerVars, requestVars
<1> QED
  BY <1>1, <1>2, <1>3, <1>4, <1>5, <1>6, <1>7, <1>8, <1>9, <1>10, <1>11, <1>12, <1>13, <1>14,
     <1>15, <1>16, <1>17, <1>18, <1>19, <1>20, <1>21
     DEF Next, Reconciles, Takes, Creates, Deletes

\* Taking the head off the queue, whatever else becomes of that request.
LEMMA LeaveQueue ==
    ASSUME TypeOK, QueueInv, NEW r \in Req, MyTurn(r), waiters' = Tail(waiters),
           NEW next \in {"creating", "proxying"}, pc' = [pc EXCEPT ![r] = next]
    PROVE  QueueInv'
<1>1. waiters \in Seq(Req) /\ waiters # <<>> /\ waiters[1] = r
  BY DEF TypeOK, MyTurn
<1>2. /\ Len(waiters) \in Nat \ {0} /\ DOMAIN waiters = 1..Len(waiters)
      /\ Len(waiters') = Len(waiters) - 1 /\ DOMAIN waiters' = 1..Len(waiters')
      /\ \A i \in DOMAIN waiters' : waiters'[i] = waiters[i + 1]
  BY <1>1
<1>3. QueuedOnce'
  BY <1>2 DEF QueueInv, QueuedOnce
<1>4. ASSUME NEW q \in Req
      PROVE (\E i \in DOMAIN waiters' : waiters'[i] = q) <=>
            (q # r /\ \E i \in DOMAIN waiters : waiters[i] = q)
  <2>1. ASSUME NEW i \in DOMAIN waiters', waiters'[i] = q
        PROVE  q # r /\ \E k \in DOMAIN waiters : waiters[k] = q
    BY <1>1, <1>2, <2>1 DEF QueueInv, QueuedOnce
  <2>2. ASSUME q # r, NEW i \in DOMAIN waiters, waiters[i] = q
        PROVE  \E k \in DOMAIN waiters' : waiters'[k] = q
    <3>1. i # 1 /\ i - 1 \in DOMAIN waiters' /\ waiters'[i - 1] = q
      BY <1>1, <1>2, <2>2
    <3> QED
      BY <3>1
  <2> QED
    BY <2>1, <2>2
<1>5. QueueIsQueued'
  BY <1>4 DEF QueueInv, QueueIsQueued, TypeOK
<1> QED
  BY <1>3, <1>5 DEF QueueInv

\* Changing what requests outside the queue do does not disturb the queue.
LEMMA KeepQueue ==
    ASSUME QueueInv, waiters' = waiters,
           \A r \in Req : pc'[r] = "queued" <=> pc[r] = "queued"
    PROVE  QueueInv'
BY DEF QueueInv, QueueIsQueued, QueuedOnce

LEMMA FailCreateQueue ==
    ASSUME TypeOK, HolderInv, lock \in Req, QueueInv, FailCreate, waiters' = waiters
    PROVE  QueueInv'
<1>1. \A r \in Req : pc'[r] = "queued" <=> pc[r] = "queued"
  BY DEF TypeOK, HolderInv, CreatorHoldsLock, FailCreate
<1> QED
  BY <1>1, KeepQueue

LEMMA NextQueueInv == TypeOK /\ HolderInv /\ QueueInv /\ [Next]_vars => QueueInv'
<1> SUFFICES ASSUME TypeOK, HolderInv, QueueInv, [Next]_vars PROVE QueueInv'
  OBVIOUS
<1> USE NoReqAssumption
<1>1. CASE UNCHANGED <<waiters, pc>>
  BY <1>1 DEF QueueInv, QueueIsQueued, QueuedOnce
<1>2. ASSUME NEW r \in Req, Arrive(r) PROVE QueueInv'
  <2>1. /\ waiters \in Seq(Req) /\ waiters' = Append(waiters, r)
        /\ pc[r] = "idle" /\ pc' = [pc EXCEPT ![r] = "queued"]
    BY <1>2 DEF Arrive, TypeOK
  <2>2. /\ Len(waiters) \in Nat /\ DOMAIN waiters = 1..Len(waiters)
        /\ DOMAIN waiters' = 1..(Len(waiters) + 1)
        /\ waiters'[Len(waiters) + 1] = r
        /\ \A i \in DOMAIN waiters : waiters'[i] = waiters[i]
    BY <2>1
  <2>3. \A i \in DOMAIN waiters : waiters[i] # r
    BY <2>1 DEF QueueInv, QueueIsQueued
  <2>4. QueuedOnce'
    BY <2>2, <2>3 DEF QueueInv, QueuedOnce
  <2>5. ASSUME NEW q \in Req
        PROVE  (\E i \in DOMAIN waiters' : waiters'[i] = q) <=>
               (q = r \/ \E i \in DOMAIN waiters : waiters[i] = q)
    BY <2>2
  <2>6. QueueIsQueued'
    BY <2>1, <2>5 DEF QueueInv, QueueIsQueued, TypeOK
  <2> QED
    BY <2>4, <2>6 DEF QueueInv
<1>3. ASSUME NEW r \in Req, Takes(r) PROVE QueueInv'
  <2>1. CASE Reuse(r)
    BY <2>1, LeaveQueue DEF Reuse
  <2>2. CASE BeginCreate(r)
    BY <2>2, LeaveQueue DEF BeginCreate
  <2> QED
    BY <1>3, <2>1, <2>2 DEF Takes
<1>4. ASSUME NEW r \in Req, Creates(r) PROVE QueueInv'
  <2>1. lock = r /\ waiters' = waiters
    BY <1>4 DEF Creates, Calls, CreatePvc, CreateSecret, CreatePod, CreateService, PodReady,
                PodNotReady, PollError, Waiting, Creating
  <2>2. CASE FailCreate
    BY <2>1, <2>2, FailCreateQueue
  <2>3. CASE UNCHANGED pc
    BY <2>1, <2>3, <1>1
  <2>4. CASE PodReady(r)
    BY <2>1, <2>4, KeepQueue DEF PodReady, TypeOK, HolderInv, CreatorHoldsLock
  <2> QED
    BY <1>4, <2>2, <2>3, <2>4
       DEF Creates, Calls, CreatePvc, CreateSecret, CreatePod, CreateService, PodNotReady,
           PollError, Advance
<1>5. ASSUME NEW u \in User, Deletes(u) PROVE QueueInv'
  <2>1. CASE UndoCall(u)
    <3>1. lock \in Req /\ waiters' = waiters
      BY <2>1 DEF UndoCall, TypeOK, HolderInv, CreatorHoldsLock
    <3> QED
      BY <1>1, <2>1, <3>1, FailCreateQueue DEF UndoCall
  <2>2. CASE EvictCall(u)
    BY <1>1, <2>2 DEF EvictCall, requestVars
  <2> QED
    BY <1>5, <2>1, <2>2 DEF Deletes
<1>6. ASSUME NEW r \in Req, Finish(r) PROVE QueueInv'
  BY <1>6, KeepQueue DEF Finish, TypeOK
<1>7. CASE Crash
  BY <1>7 DEF Crash, QueueInv, QueueIsQueued, QueuedOnce
<1>8. CASE Reconciles \/ CleanupIdle \/ HealthCheck \/ PvcSweep \/ Tick \/ ClusterMoves
  BY <1>1, <1>8 DEF Reconciles, Start, Adopt, ReconcileCall, Serve, CleanupIdle, HealthCheck,
                    PvcSweep, Tick, ClusterMoves, requestVars
<1>9. CASE UNCHANGED vars
  BY <1>1, <1>9 DEF vars, requestVars
<1> QED
  BY <1>2, <1>3, <1>4, <1>5, <1>6, <1>7, <1>8, <1>9 DEF Next

LEMMA NextLockInv == TypeOK /\ LockInv /\ [Next]_vars => LockInv'
BY NextHolderInv, NextQueueInv DEF LockInv, LockDiscipline, HolderInv, QueueInv

\* One creation at a time, of a user without a terminal and without a deletion
\* under way; the queue of the lock holds exactly the requests that wait for it.
THEOREM LockKept == Spec => []LockDiscipline
<1>1. Init => TypeOK /\ LockInv
  BY InitTypeOK, InitLockInv
<1>2. TypeOK /\ LockInv /\ [Next]_vars => (TypeOK /\ LockInv)'
  BY NextTypeOK, NextLockInv
<1>3. LockInv => LockDiscipline
  BY DEF LockInv
<1> QED
  BY <1>1, <1>2, <1>3, PTL DEF Spec

-----------------------------------------------------------------------------
(* The limit on terminals. *)

LoadStep == mode = "up" => Load' <= MaxPods \/ Load' <= Load

LEMMA PodsFinite == TypeOK => IsFiniteSet(pods) /\ Cardinality(pods) \in Nat
BY UserAssumption, FS_Subset, FS_CardinalityType DEF TypeOK

\* Dropping terminals makes the pool smaller, by one at least if one was there.
LEMMA DropLoad ==
    ASSUME TypeOK, NEW gone \in SUBSET pods, Drop(gone)
    PROVE  /\ Cardinality(pods') \in Nat
           /\ Cardinality(pods') <= Cardinality(pods)
           /\ gone # {} => Cardinality(pods') + 1 <= Cardinality(pods)
<1>1. pods' = pods \ gone /\ IsFiniteSet(pods) /\ Cardinality(pods) \in Nat
  BY PodsFinite DEF Drop
<1>2. /\ Cardinality(pods') \in Nat /\ Cardinality(pods') <= Cardinality(pods)
      /\ Cardinality(pods') = Cardinality(pods) => pods' = pods
  BY <1>1, FS_Subset, FS_CardinalityType
<1>3. gone # {} => pods' # pods
  BY <1>1
<1> QED
  BY <1>1, <1>2, <1>3

LEMMA NextLoad == TypeOK /\ LockInv /\ [Next]_vars => LoadStep
<1> SUFFICES ASSUME TypeOK, LockInv, [Next]_vars, mode = "up"
             PROVE  Load' <= MaxPods \/ Load' <= Load
  BY DEF LoadStep
<1> USE NoReqAssumption, MaxPodsAssumption
<1>a. IsFiniteSet(pods) /\ Cardinality(pods) \in Nat
  BY PodsFinite
<1>b. lock = NoReq <=> job.step = "none"
  BY DEF LockInv, LockDiscipline, CreatorHoldsLock
<1>1. CASE UNCHANGED <<pods, lock>>
  BY <1>a, <1>1 DEF Load
<1>2. CASE pods' = pods /\ lock' = NoReq
  BY <1>a, <1>2 DEF Load
<1>3. ASSUME NEW gone \in SUBSET pods, Drop(gone), lock' = lock
      PROVE  Load' <= Load
  BY <1>a, <1>3, DropLoad DEF Load
<1>4. ASSUME NEW r \in Req, BeginCreate(r) PROVE Load' <= MaxPods \/ Load' <= Load
  <2>1. lock = NoReq /\ lock' = r
    BY <1>4 DEF BeginCreate, MyTurn
  <2>2. CASE PoolFull
    <3>1. Oldest # {} => Cardinality(pods') + 1 <= Cardinality(pods) /\ Cardinality(pods') \in Nat
      <4>1. PICK u \in Oldest : Drop({u})
        BY <1>4, <2>2 DEF BeginCreate
      <4> QED
        BY <4>1, DropLoad DEF Oldest
    <3>2. Oldest # {}
      BY <1>4, <2>2 DEF BeginCreate
    <3> QED
      BY <1>a, <2>1, <3>1, <3>2 DEF Load
  <2>3. CASE ~PoolFull
    BY <1>4, <1>a, <2>1, <2>3 DEF BeginCreate, PoolFull, managerVars, Load
  <2> QED
    BY <2>2, <2>3
<1>5. ASSUME NEW r \in Req, PodReady(r) PROVE Load' <= Load
  <2>1. pods' = pods \cup {UserOf[r]} /\ lock # NoReq /\ lock' = NoReq
    BY <1>5 DEF PodReady, Waiting, Creating, Insert
  <2>2. Cardinality(pods') \in Nat /\ Cardinality(pods') <= Cardinality(pods) + 1
    <3>1. /\ IsFiniteSet(pods \cup {UserOf[r]})
          /\ \/ Cardinality(pods \cup {UserOf[r]}) = Cardinality(pods)
             \/ Cardinality(pods \cup {UserOf[r]}) = Cardinality(pods) + 1
      BY <1>a, FS_AddElement
    <3> QED
      BY <1>a, <2>1, <3>1
  <2> QED
    BY <1>a, <2>1, <2>2 DEF Load
<1>6. CASE Crash
  BY <1>6, FS_EmptySet DEF Crash, Load
<1>7. ASSUME NEW r \in Req, Calls(r) \/ PodNotReady(r) \/ PollError(r) \/ Arrive(r) \/ Reuse(r) \/ Finish(r)
      PROVE  Load' <= Load
  BY <1>a, <1>1, <1>2, <1>7
     DEF Calls, CreatePvc, CreateSecret, CreatePod, CreateService, PodNotReady, PollError, Arrive,
         Reuse, Finish, FailCreate, Advance, managerVars, Load
<1>8. ASSUME NEW u \in User, Deletes(u) PROVE Load' <= MaxPods \/ Load' <= Load
  BY <1>1, <1>2, <1>8 DEF Deletes, UndoCall, EvictCall, FailCreate, managerVars, requestVars
<1>9. CASE CleanupIdle
  BY <1>3, <1>9 DEF CleanupIdle, IdlePods, requestVars
<1>10. CASE HealthCheck
  BY <1>3, <1>10 DEF HealthCheck, DeadPods, requestVars
<1>11. CASE PvcSweep \/ Tick \/ ClusterMoves \/ UNCHANGED vars
  BY <1>1, <1>11 DEF PvcSweep, Tick, ClusterMoves, vars, managerVars, requestVars
<1>12. CASE Reconciles
  BY <1>1, <1>12 DEF Reconciles, Start, Adopt, ReconcileCall, Serve, managerVars, requestVars
<1> QED
  BY <1>1, <1>4, <1>5, <1>6, <1>7, <1>8, <1>9, <1>10, <1>11, <1>12 DEF Next, Takes, Creates

\* While requests are served the pool never grows past max_concurrent_pods,
\* nor further past it when a restart has adopted too many.
THEOREM PoolBounded == Spec => LoadNeverGrowsPastLimit
<1>1. Init => TypeOK /\ LockInv
  BY InitTypeOK, InitLockInv
<1>2. TypeOK /\ LockInv /\ [Next]_vars => (TypeOK /\ LockInv)'
  BY NextTypeOK, NextLockInv
<1>3. TypeOK /\ LockInv /\ [Next]_vars => LoadStep
  BY NextLoad
<1>4. Spec => [](TypeOK /\ LockInv)
  BY <1>1, <1>2, PTL DEF Spec
<1> QED
  BY <1>3, <1>4, PTL DEF Spec, LoadNeverGrowsPastLimit, LoadStep

\* The users whose pods take up the limit: those with a terminal, the one whose
\* creation is past its create_pod, and those whose pod is about to be deleted.
Placed == {u \in User : Owner(u) /\ job.step \in {"service", "waiting", "undo"}}
Leaving == {u \in User : work[u] \in {"service", "pod"}}
Occupied == pods \cup Placed \cup Leaving

\* A proxy that was never restarted starts with nothing and stays within the limit,
\* counting the victim of an eviction up to the moment its pod is deleted.
SlotInv ==
    crashes = 0 =>
        /\ mode # "up" => pods = {} /\ work = NoWork /\ \A u \in User : ~PodExists(u)
        /\ mode = "up" => Load <= MaxPods /\ Cardinality(Occupied) <= MaxPods

LEMMA InitSlotInv == Init => SlotInv
BY DEF Init, ClusterInit, NoPod, PodExists, SlotInv

\* No step takes back a crash.
LEMMA CrashesStay == TypeOK /\ [Next]_vars /\ crashes' = 0 => crashes = 0
BY MaxCrashesAssumption
   DEF TypeOK, Next, Reconciles, Start, Adopt, ReconcileCall, Serve, Arrive, Takes, Reuse,
       BeginCreate, Creates, Calls, CreatePvc, CreateSecret, CreatePod, CreateService, PodReady,
       PodNotReady, PollError, Finish, Deletes, UndoCall, EvictCall, CleanupIdle, HealthCheck,
       PvcSweep, Tick, Crash, ClusterMoves, vars, requestVars

LEMMA OccupiedShrinks ==
    ASSUME TypeOK, Occupied' \in SUBSET Occupied, Cardinality(Occupied) <= MaxPods
    PROVE  Cardinality(Occupied') <= MaxPods
<1>1. Occupied \in SUBSET User
  BY DEF TypeOK, Occupied, Placed, Leaving
<1>2. IsFiniteSet(Occupied) /\ Cardinality(Occupied) \in Nat
  BY <1>1, UserAssumption, FS_Subset, FS_CardinalityType
<1>3. IsFiniteSet(Occupied') /\ Cardinality(Occupied') <= Cardinality(Occupied)
  BY <1>2, FS_Subset
<1>4. Cardinality(Occupied') \in Nat
  BY <1>3, FS_CardinalityType
<1> QED
  BY <1>2, <1>3, <1>4, MaxPodsAssumption

\* Before the first request there is nothing to adopt and nothing to delete.
LEMMA NextEmpty ==
    ASSUME TypeOK, LockInv, SlotInv, [Next]_vars, mode # "up", crashes' = 0
    PROVE  SlotInv'
<1>0. crashes = 0
  BY CrashesStay
<1>1. /\ pods = {} /\ work = NoWork /\ lock = NoReq
      /\ \A u \in User : ~PodExists(u) /\ work[u] = "none"
  BY <1>0 DEF SlotInv, LockInv, NoWork
<1>2. CASE Start
  <2>1. mode' = "reconciling" /\ pods' = {} /\ \A u \in User : ~PodExists(u)'
    BY <1>1, <1>2 DEF Start, managerVars, clusterVars, PodExists
  <2>2. work' = NoWork
    BY <1>1, <1>2 DEF Start, PodExists, NoWork
  <2> QED
    BY <2>1, <2>2 DEF SlotInv
<1>3. CASE Serve
  <2>1. /\ mode' = "up" /\ pods' = {} /\ work' = NoWork /\ lock' = NoReq
    BY <1>1, <1>3 DEF Serve, managerVars, requestVars
  <2>2. Occupied' = {} /\ Load' = Cardinality({})
    BY <2>1, NoReqAssumption, FS_EmptySet DEF Occupied, Placed, Leaving, Owner, NoWork, Load
  <2> QED
    BY <2>1, <2>2, FS_EmptySet, MaxPodsAssumption DEF SlotInv
<1>4. ASSUME NEW u \in User, Adopt(u) \/ ReconcileCall(u) \/ Deletes(u) PROVE FALSE
  BY <1>1, <1>4, DeleteCallBusy DEF Adopt, ReconcileCall, Deletes, UndoCall, EvictCall, CallStep
<1>5. CASE Tick \/ PvcSweep \/ UNCHANGED vars
  BY <1>0, <1>1, <1>5
     DEF Tick, PvcSweep, LoopFree, vars, clusterVars, managerVars, SlotInv, PodExists
<1>6. CASE ClusterMoves
  <2>1. PICK v \in User : \/ PodStarts(v) \/ (\E phase \in Ended : PodEnds(v, phase))
                         \/ PodDrained(v) \/ PodRemoved(v) \/ PvcRemoved(v)
    BY <1>6 DEF ClusterMoves, ClusterStep
  <2>2. kpod[v].phase = "none"
    BY <1>1 DEF PodExists
  <2>3. PodRemoved(v) \/ PvcRemoved(v)
    BY <2>1, <2>2 DEF PodStarts, PodEnds, PodDrained, PodExists
  <2>4. \A u \in User : kpod'[u].phase = "none"
    <3>1. kpod' = kpod \/ kpod' = [kpod EXCEPT ![v] = NoPod]
      BY <2>3 DEF PodRemoved, PvcRemoved
    <3>2. NoPod.phase = "none"
      BY DEF NoPod
    <3> QED
      BY <1>1, <3>1, <3>2 DEF PodExists, TypeOK, ClusterTypeOK
  <2>5. mode' = mode /\ pods' = {} /\ work' = NoWork
    BY <1>1, <1>6 DEF ClusterMoves, managerVars
  <2> QED
    BY <2>4, <2>5 DEF SlotInv, PodExists
<1>7. ASSUME NEW r \in Req, Arrive(r) \/ Takes(r) \/ Creates(r) \/ Finish(r) PROVE FALSE
  BY <1>7 DEF Arrive, Takes, Reuse, BeginCreate, MyTurn, LoopFree, Creates, Calls, CreatePvc,
              CreateSecret, CreatePod, CreateService, PodReady, PodNotReady, PollError, Waiting,
              Creating, Finish
<1>8. ASSUME CleanupIdle \/ HealthCheck \/ Crash PROVE FALSE
  BY <1>0, <1>8 DEF CleanupIdle, HealthCheck, LoopFree, Crash
<1> QED
  BY <1>2, <1>3, <1>4, <1>5, <1>6, <1>7, <1>8 DEF Next, Reconciles

\* What a creation or a deletion leaves: no step but the create_pod of a creation
\* gives a place to a user that had none.
LEMMA StepShrinks ==
    ASSUME TypeOK, LockInv, mode = "up", Next, crashes' = crashes,
           \A r \in Req : ~CreatePod(r)
    PROVE  mode' = "up" /\ Occupied' \in SUBSET Occupied
<1> USE NoReqAssumption
<1>1. CASE UNCHANGED <<mode, pods, work, lock, job>>
  BY <1>1 DEF Occupied, Placed, Leaving, Owner
<1>2. ASSUME NEW gone \in SUBSET pods, Drop(gone), mode' = mode, UNCHANGED <<lock, job>>
      PROVE  mode' = "up" /\ Occupied' \in SUBSET Occupied
  BY <1>2 DEF Drop, Occupied, Placed, Leaving, Owner
<1>3. ASSUME FailCreate, UNCHANGED <<mode, pods, work>>
      PROVE  mode' = "up" /\ Occupied' \in SUBSET Occupied
  BY <1>3 DEF FailCreate, NoJob, Occupied, Placed, Leaving, Owner
<1>4. ASSUME NEW r \in Req, BeginCreate(r) PROVE mode' = "up" /\ Occupied' \in SUBSET Occupied
  <2>1. mode' = "up" /\ job'.step \in {"pvc", "secret"}
    BY <1>4 DEF BeginCreate
  <2>2. Placed' = {}
    BY <2>1 DEF Placed
  <2>3. \/ UNCHANGED <<pods, work>>
        \/ \E u \in pods : Drop({u})
    BY <1>4 DEF BeginCreate, Oldest, managerVars
  <2>4. (pods \cup Leaving)' \in SUBSET (pods \cup Leaving)
    BY <2>3 DEF Drop, Leaving
  <2> QED
    BY <2>1, <2>2, <2>4 DEF Occupied
<1>5. ASSUME NEW r \in Req, CreatePvc(r) \/ CreateSecret(r) \/ CreateService(r)
      PROVE  mode' = "up" /\ Occupied' \in SUBSET Occupied
  <2>1. UNCHANGED <<mode, pods, work>>
    BY <1>5 DEF CreatePvc, CreateSecret, CreateService, managerVars
  <2>2. CASE FailCreate
    BY <1>3, <2>1, <2>2
  <2>3. ASSUME NEW step \in {"secret", "pod", "waiting"}, Advance(step),
               step = "waiting" => job.step = "service"
        PROVE  mode' = "up" /\ Occupied' \in SUBSET Occupied
    BY <2>1, <2>3 DEF Advance, TypeOK, Occupied, Placed, Leaving, Owner
  <2>4. \/ FailCreate \/ Advance("secret") \/ Advance("pod")
        \/ Advance("waiting") /\ job.step = "service"
    BY <1>5 DEF CreatePvc, CreateSecret, CreateService, Creating
  <2> QED
    BY <2>2, <2>3, <2>4
<1>6. ASSUME NEW r \in Req, PodReady(r) PROVE mode' = "up" /\ Occupied' \in SUBSET Occupied
  <2>1. /\ lock = r /\ job.step = "waiting" /\ mode' = "up" /\ work' = work
        /\ pods' = pods \cup {UserOf[r]} /\ lock' = NoReq
    BY <1>6 DEF PodReady, Waiting, Creating, Insert
  <2>2. UserOf[r] \in Placed
    BY <2>1, UserOfAssumption DEF Placed, Owner
  <2>3. Placed' = {} /\ Leaving' = Leaving
    BY <2>1 DEF Placed, Owner, Leaving
  <2> QED
    BY <2>1, <2>2, <2>3 DEF Occupied
<1>7. ASSUME NEW r \in Req, PodNotReady(r) PROVE mode' = "up" /\ Occupied' \in SUBSET Occupied
  BY <1>7 DEF PodNotReady, Waiting, Creating, managerVars, TypeOK, Occupied, Placed, Leaving, Owner
<1>8. ASSUME NEW r \in Req, PollError(r) PROVE mode' = "up" /\ Occupied' \in SUBSET Occupied
  BY <1>3, <1>8 DEF PollError, managerVars
<1>9. ASSUME NEW u \in User, Deletes(u) PROVE mode' = "up" /\ Occupied' \in SUBSET Occupied
  <2>1. mode' = "up" /\ pods' = pods /\ work[u] \in CallStep
    BY <1>9, DeleteCallBusy DEF Deletes, UndoCall, EvictCall, managerVars
  <2>2. Leaving' \in SUBSET Leaving
    BY <1>9, <2>1 DEF Deletes, UndoCall, EvictCall, AfterCall, Leaving, TypeOK, CallStep
  <2>3. UNCHANGED <<lock, job>> \/ (lock' = NoReq /\ job' = NoJob)
    BY <1>9 DEF Deletes, UndoCall, EvictCall, FailCreate, requestVars
  <2>4. Placed' \in SUBSET Placed
    BY <2>3 DEF Placed, Owner, NoJob
  <2> QED
    BY <2>1, <2>2, <2>4 DEF Occupied
<1>10. CASE CleanupIdle
  BY <1>2, <1>10 DEF CleanupIdle, IdlePods, requestVars
<1>11. CASE HealthCheck
  BY <1>2, <1>11 DEF HealthCheck, DeadPods, requestVars
<1>12. CASE Tick
  <2>1. UNCHANGED <<mode, pods, work, lock>> /\ job'.step = job.step
    BY <1>12 DEF Tick, TypeOK
  <2> QED
    BY <2>1 DEF Occupied, Placed, Leaving, Owner
<1>13. CASE PvcSweep \/ ClusterMoves
  BY <1>1, <1>13 DEF PvcSweep, ClusterMoves, managerVars, requestVars
<1>14. ASSUME NEW r \in Req, Arrive(r) \/ Reuse(r) \/ Finish(r)
       PROVE  mode' = "up" /\ Occupied' \in SUBSET Occupied
  BY <1>1, <1>14 DEF Arrive, Reuse, Finish, managerVars
<1>15. ASSUME Reconciles PROVE FALSE
  BY <1>15 DEF Reconciles, Start, Adopt, ReconcileCall, Serve
<1>16. ASSUME Crash PROVE FALSE
  BY <1>16, MaxCrashesAssumption DEF Crash, TypeOK
<1> QED
  BY <1>4, <1>5, <1>6, <1>7, <1>8, <1>9, <1>10, <1>11, <1>12, <1>13, <1>14, <1>15, <1>16
     DEF Next, Takes, Creates, Calls

\* create_pod takes the place that get_or_create made room for: by then nothing
\* is being deleted, and the creation itself counts in Load.
LEMMA CreatePodFits ==
    ASSUME TypeOK, LockInv, mode = "up", NEW r \in Req, CreatePod(r), Load <= MaxPods
    PROVE  mode' = "up" /\ Cardinality(Occupied') <= MaxPods
<1>1. /\ lock = r /\ job.step = "pod" /\ work = NoWork
      /\ UNCHANGED <<mode, pods, work>> /\ (FailCreate \/ Advance("service"))
  BY DEF CreatePod, Creating, managerVars
<1>2. Occupied' \in SUBSET (pods \cup {UserOf[r]})
  <2>1. Leaving' = {} /\ pods' = pods
    BY <1>1 DEF Leaving, NoWork
  <2>2. lock' \in {r, NoReq}
    BY <1>1 DEF FailCreate, Advance
  <2>3. Placed' \in SUBSET {UserOf[r]}
    BY <2>2, NoReqAssumption DEF Placed, Owner
  <2> QED
    BY <2>1, <2>3 DEF Occupied
<1>3. /\ IsFiniteSet(pods) /\ Cardinality(pods) \in Nat
      /\ Cardinality(pods) + 1 <= MaxPods
  BY <1>1, PodsFinite, NoReqAssumption DEF Load
<1>4. /\ IsFiniteSet(pods \cup {UserOf[r]})
      /\ \/ Cardinality(pods \cup {UserOf[r]}) = Cardinality(pods)
         \/ Cardinality(pods \cup {UserOf[r]}) = Cardinality(pods) + 1
  BY <1>3, FS_AddElement
<1>5. /\ IsFiniteSet(Occupied')
      /\ Cardinality(Occupied') <= Cardinality(pods \cup {UserOf[r]})
  BY <1>2, <1>4, FS_Subset
<1>6. Cardinality(Occupied') \in Nat
  BY <1>5, FS_CardinalityType
<1> QED
  BY <1>1, <1>3, <1>4, <1>5, <1>6, MaxPodsAssumption

LEMMA NextSlotInv == TypeOK /\ LockInv /\ SlotInv /\ [Next]_vars => SlotInv'
<1> SUFFICES ASSUME TypeOK, LockInv, SlotInv, [Next]_vars, crashes' = 0 PROVE SlotInv'
  BY DEF SlotInv
<1>1. crashes = 0
  BY CrashesStay
<1>2. CASE mode # "up"
  BY <1>2, NextEmpty
<1>3. CASE mode = "up" /\ UNCHANGED vars
  BY <1>3 DEF vars, clusterVars, managerVars, requestVars, SlotInv, Load, Occupied, Placed, Leaving,
              Owner, PodExists
<1>4. CASE mode = "up" /\ Next
  <2>1. Load <= MaxPods /\ Cardinality(Occupied) <= MaxPods
    BY <1>1, <1>4 DEF SlotInv
  <2>2. Load' <= MaxPods
    <3>1. Cardinality(pods) \in Nat /\ Cardinality(pods') \in Nat
      <4>1. pods' \in SUBSET User
        BY NextTypeOK DEF TypeOK
      <4> QED
        BY <4>1, PodsFinite, UserAssumption, FS_Subset, FS_CardinalityType
    <3>2. Load' <= MaxPods \/ Load' <= Load
      BY <1>4, NextLoad DEF LoadStep
    <3>3. Load \in Nat /\ Load' \in Nat
      BY <3>1 DEF Load
    <3> QED
      BY <2>1, <3>2, <3>3, MaxPodsAssumption
  <2>3. mode' = "up" /\ Cardinality(Occupied') <= MaxPods
    <3>1. ASSUME NEW r \in Req, CreatePod(r) PROVE mode' = "up" /\ Cardinality(Occupied') <= MaxPods
      BY <1>4, <2>1, <3>1, CreatePodFits
    <3>2. CASE \A r \in Req : ~CreatePod(r)
      BY <1>1, <1>4, <2>1, <3>2, StepShrinks, OccupiedShrinks
    <3> QED
      BY <3>1, <3>2
  <2> QED
    BY <2>2, <2>3 DEF SlotInv
<1> QED
  BY <1>2, <1>3, <1>4

-----------------------------------------------------------------------------
(* Stranded users. *)

\* Creation steps: the creation of a stranded user has not passed the secret,
\* and the creation of another user does not touch its secret and pod.
LEMMA CreatesStranded ==
    ASSUME TypeOK, NEW u \in User, Stranded(u), NEW r \in Req, Creates(r)
    PROVE  Stranded(u)'
<1> USE UserOfAssumption, NoReqAssumption
<1>0. lock = r /\ (UserOf[r] = u => job.step \in {"pvc", "secret"})
  BY DEF Stranded, Owner, Creates, Calls, CreatePvc, CreateSecret, CreatePod, CreateService,
         PodReady, PodNotReady, PollError, Waiting, Creating
<1>1. CASE CreatePvc(r)
  BY <1>0, <1>1 DEF CreatePvc, Creating, FailCreate, Advance, TypeOK, Stranded, Owner, SecretExists,
                    PodExists, managerVars
<1>2. CASE CreateSecret(r)
  BY <1>0, <1>2 DEF CreateSecret, CreateSecretRaises, create_secret, Creating, FailCreate, Advance,
                    TypeOK, ClusterTypeOK, Stranded, Owner, SecretExists, PodExists, managerVars
<1>3. CASE CreatePod(r)
  BY <1>0, <1>3 DEF CreatePod, create_pod, Creating, FailCreate, Advance,
                    TypeOK, ClusterTypeOK, Stranded, Owner, SecretExists, PodExists, managerVars
<1>4. CASE CreateService(r)
  BY <1>0, <1>4 DEF CreateService, Creating, FailCreate, Advance, Stranded, Owner, SecretExists,
                    PodExists, managerVars
<1>5. CASE PodReady(r)
  BY <1>0, <1>5 DEF PodReady, Waiting, Creating, Insert, Stranded, Owner, SecretExists, PodExists,
                    clusterVars
<1>6. CASE PodNotReady(r)
  BY <1>0, <1>6 DEF PodNotReady, Waiting, Creating, TypeOK, Stranded, Owner, SecretExists, PodExists,
                    clusterVars, managerVars
<1>7. CASE PollError(r)
  BY <1>0, <1>7 DEF PollError, Waiting, Creating, FailCreate, Stranded, Owner, SecretExists, PodExists,
                    managerVars
<1> QED
  BY <1>1, <1>2, <1>3, <1>4, <1>5, <1>6, <1>7 DEF Creates, Calls

\* A deletion in progress is another user's.
LEMMA DeleteCallStranded ==
    ASSUME TypeOK, NEW u \in User, Stranded(u), NEW v \in User, NEW reply, DeleteCall(v, reply)
    PROVE  v # u /\ secret'[u] = secret[u] /\ kpod'[u] = kpod[u]
<1>1. v # u
  BY DEF Stranded, DeleteCall
<1> QED
  BY <1>1 DEF DeleteCall, delete_service, delete_pod, delete_secret, TypeOK, ClusterTypeOK

\* Terminals that are dropped are others'.
LEMMA DropStranded ==
    ASSUME NEW u \in User, Stranded(u), NEW gone \in SUBSET pods, Drop(gone),
           UNCHANGED <<kpod, secret, lock, job>>
    PROVE  Stranded(u)'
BY DEF Stranded, Owner, Drop, SecretExists, PodExists

LEMMA NextStranded ==
    ASSUME TypeOK, [Next]_vars, NEW u \in User, Stranded(u)
    PROVE  Stranded(u)'
<1> USE UserOfAssumption, NoReqAssumption
<1>1. CASE Start
  BY <1>1 DEF Start, Stranded, Owner, SecretExists, PodExists, clusterVars, managerVars, requestVars
<1>2. ASSUME NEW v \in User, Adopt(v) PROVE Stranded(u)'
  BY <1>2 DEF Adopt, Insert, TypeOK, Stranded, Owner, SecretExists, PodExists, clusterVars,
              managerVars, requestVars, NoWork
<1>3. ASSUME NEW v \in User, ReconcileCall(v) PROVE Stranded(u)'
  BY <1>3, DeleteCallStranded DEF ReconcileCall, TypeOK, Stranded, Owner, SecretExists, PodExists,
              managerVars, requestVars, NoWork
<1>4. CASE Serve
  BY <1>4 DEF Serve, Stranded, Owner, SecretExists, PodExists, clusterVars, managerVars, requestVars
<1>5. ASSUME NEW r \in Req, Arrive(r) \/ Finish(r) \/ Reuse(r) PROVE Stranded(u)'
  BY <1>5 DEF Arrive, Finish, Reuse, Stranded, Owner, SecretExists, PodExists, clusterVars, managerVars
<1>6. ASSUME NEW r \in Req, BeginCreate(r) PROVE Stranded(u)'
  <2>1. job'.step \in {"pvc", "secret"} /\ UNCHANGED <<kpod, secret>>
    BY <1>6 DEF BeginCreate, clusterVars
  <2>2. u \notin pods' /\ work'[u] = "none"
    BY <1>6 DEF BeginCreate, Drop, Oldest, Stranded, managerVars
  <2> QED
    BY <2>1, <2>2 DEF Stranded, Owner, SecretExists, PodExists
<1>7. ASSUME NEW r \in Req, Creates(r) PROVE Stranded(u)'
  BY <1>7, CreatesStranded
<1>8. ASSUME NEW v \in User, UndoCall(v) PROVE Stranded(u)'
  BY <1>8, DeleteCallStranded DEF UndoCall, FailCreate, TypeOK, Stranded, Owner, SecretExists,
              PodExists, managerVars
<1>9. ASSUME NEW v \in User, EvictCall(v) PROVE Stranded(u)'
  BY <1>9, DeleteCallStranded DEF EvictCall, TypeOK, Stranded, Owner, SecretExists, PodExists,
              managerVars, requestVars
<1>10. CASE CleanupIdle
  BY <1>10, DropStranded DEF CleanupIdle, IdlePods, clusterVars, requestVars
<1>11. CASE HealthCheck
  BY <1>11, DropStranded DEF HealthCheck, DeadPods, requestVars
<1>12. CASE PvcSweep
  BY <1>12 DEF PvcSweep, Stranded, Owner, SecretExists, PodExists, managerVars, requestVars
<1>13. CASE Tick
  BY <1>13 DEF Tick, TypeOK, Stranded, Owner, SecretExists, PodExists
<1>14. CASE Crash
  BY <1>14 DEF Crash, Stranded, Owner, SecretExists, PodExists, clusterVars, NoWork
<1>15. CASE ClusterMoves
  <2>1. secret' = secret /\ kpod'[u].phase = "none"
    <3>1. kpod[u].phase = "none" /\ kpod \in [User -> [phase : Phase, term : BOOLEAN,
                                                       key : Key \cup {NoKey}]]
      BY DEF Stranded, PodExists, TypeOK, ClusterTypeOK
    <3>2. ASSUME NEW v \in User, PodStarts(v) PROVE secret' = secret /\ kpod'[u].phase = "none"
      BY <3>1, <3>2 DEF PodStarts
    <3>3. ASSUME NEW v \in User, NEW phase, PodEnds(v, phase)
          PROVE  secret' = secret /\ kpod'[u].phase = "none"
      BY <3>1, <3>3 DEF PodEnds
    <3>4. ASSUME NEW v \in User, PodDrained(v) \/ PodRemoved(v) \/ PvcRemoved(v)
          PROVE  secret' = secret /\ kpod'[u].phase = "none"
      BY <3>1, <3>4 DEF PodDrained, PodRemoved, PvcRemoved, PodExists, NoPod
    <3> QED
      BY <1>15, <3>2, <3>3, <3>4 DEF ClusterMoves, ClusterStep
  <2> QED
    BY <1>15, <2>1 DEF ClusterMoves, Stranded, Owner, SecretExists, PodExists, managerVars, requestVars
<1>16. CASE UNCHANGED vars
  BY <1>16 DEF vars, Stranded, Owner, SecretExists, PodExists, clusterVars, managerVars, requestVars
<1> QED
  BY <1>1, <1>2, <1>3, <1>4, <1>5, <1>6, <1>7, <1>8, <1>9, <1>10, <1>11, <1>12, <1>13, <1>14,
     <1>15, <1>16 DEF Next, Reconciles, Takes, Deletes

\* A user whose secret was left behind stays locked out for ever, whatever its
\* requests, the sweeps, the cluster and any number of restarts do.
THEOREM StrandedUsersStayStranded == Spec => StrandedForever
<1>1. TypeOK /\ [Next]_vars => (\A u \in User : Stranded(u) => Stranded(u)')
  BY NextStranded
<1>2. Spec => []TypeOK
  BY TypeCorrect
<1> QED
  BY <1>1, <1>2, PTL DEF Spec, StrandedForever
=============================================================================
