------------------------ MODULE PoolRefinementProofs ------------------------
(* Every behaviour of the pod manager is one of the pool, for any number of *)
(* users, requests, faults and crashes, any limit and any timeouts.         *)
EXTENDS PoolRefinement, PodManagerProofs

Status == [r \in Req |-> StatusOf(r)]

LEMMA StatusMoves ==
    ASSUME TypeOK, NEW r \in Req, NEW place, pc' = [pc EXCEPT ![r] = place]
    PROVE  Status' = [Status EXCEPT ![r] = StatusOf(r)']
BY DEF TypeOK, Status, StatusOf

LEMMA StatusStays == pc' = pc => Status' = Status
BY DEF Status, StatusOf

\* What the routes cannot see: the state of the objects, the sequences of calls.
LEMMA HiddenStep ==
    ASSUME (mode' = "up") <=> (mode = "up"), UNCHANGED <<pods, lock, pc>>
    PROVE  UNCHANGED Abstract!poolVars
BY StatusStays DEF Abstract!poolVars, Status

\* Terminals deleted by a sweep vanish.
LEMMA DropVanishes ==
    ASSUME mode = "up", NEW gone \in SUBSET pods, gone # {}, Drop(gone),
           UNCHANGED <<mode, lock, pc>>
    PROVE  Abstract!Vanish
BY StatusStays DEF Drop, Abstract!Vanish, Status

\* However a creation fails, its request is refused and nothing else happens.
LEMMA FailRefuses ==
    ASSUME TypeOK, LockInv, lock \in Req, FailCreate, UNCHANGED <<mode, pods>>
    PROVE  Abstract!Refuse(lock)
<1>1. mode = "up" /\ pc[lock] = "creating"
  BY NoReqAssumption DEF LockInv, LockDiscipline, CreatorHoldsLock
<1>2. Status' = [Status EXCEPT ![lock] = "idle"]
  <2>1. pc' = [pc EXCEPT ![lock] = "idle"]
    BY DEF FailCreate
  <2>2. StatusOf(lock)' = StatusOf(lock)' /\ pc'[lock] = "idle"
    BY <2>1 DEF TypeOK
  <2> QED
    BY <2>1, <2>2 DEF TypeOK, Status, StatusOf
<1>3. Status[lock] = "creating"
  BY <1>1 DEF Status, StatusOf
<1> QED
  BY <1>1, <1>2, <1>3 DEF FailCreate, Abstract!Refuse, Status

\* Arrivals and departures.
LEMMA ArriveAsks ==
    ASSUME TypeOK, NEW r \in Req, Arrive(r)
    PROVE  Abstract!Ask(r)
<1>1. Status[r] = "idle" /\ Status' = [Status EXCEPT ![r] = "asking"]
  BY DEF TypeOK, Arrive, Status, StatusOf
<1> QED
  BY <1>1 DEF Arrive, LoopFree, managerVars, Abstract!Ask, Status

LEMMA FinishLeaves ==
    ASSUME TypeOK, NEW r \in Req, Finish(r)
    PROVE  Abstract!Leave(r)
<1>1. Status[r] = "served" /\ Status' = [Status EXCEPT ![r] = "idle"]
  BY DEF TypeOK, Finish, Status, StatusOf
<1> QED
  BY <1>1 DEF Finish, LoopFree, managerVars, Abstract!Leave, Status

\* The request whose turn it is waits in the queue.
LEMMA TurnQueued ==
    ASSUME TypeOK, LockInv, NEW r \in Req, MyTurn(r)
    PROVE  mode = "up" /\ lock = NoReq /\ pc[r] = "queued"
<1>1. waiters \in Seq(Req) /\ waiters # <<>> /\ waiters[1] = r
  BY DEF TypeOK, MyTurn
<1>2. 1 \in DOMAIN waiters
  BY <1>1
<1> QED
  BY <1>1, <1>2 DEF MyTurn, LoopFree, LockInv, LockDiscipline, QueueIsQueued

LEMMA ReuseShares ==
    ASSUME TypeOK, LockInv, NEW r \in Req, Reuse(r)
    PROVE  Abstract!Share(r)
<1>1. MyTurn(r) /\ mode = "up" /\ lock = NoReq /\ pc[r] = "queued"
  BY TurnQueued DEF Reuse
<1>2. Status[r] = "asking" /\ Status' = [Status EXCEPT ![r] = "served"]
  BY <1>1 DEF TypeOK, Reuse, Status, StatusOf
<1> QED
  BY <1>1, <1>2 DEF Reuse, Abstract!Share, Status

\* A full pool gives up the terminal that was idle longest, another does not.
LEMMA BeginCreateBegins ==
    ASSUME TypeOK, LockInv, NEW r \in Req, BeginCreate(r)
    PROVE  Abstract!Begin(r)
<1>1. MyTurn(r) /\ mode = "up" /\ lock = NoReq /\ pc[r] = "queued"
  BY TurnQueued DEF BeginCreate
<1>2. Status[r] = "asking" /\ Status' = [Status EXCEPT ![r] = "creating"]
  BY <1>1 DEF TypeOK, BeginCreate, Status, StatusOf
<1>3. IF Cardinality(pods) < MaxPods
      THEN pods' = pods ELSE \E u \in pods : pods' = pods \ {u}
  <2>1. CASE PoolFull
    <3>1. PICK u \in Oldest : Drop({u})
      BY <2>1 DEF BeginCreate
    <3>2. ~(Cardinality(pods) < MaxPods)
      BY <2>1, PodsFinite, MaxPodsAssumption DEF PoolFull
    <3> QED
      BY <3>1, <3>2 DEF Oldest, Drop
  <2>2. CASE ~PoolFull
    <3>1. Cardinality(pods) < MaxPods
      BY <2>2, PodsFinite, MaxPodsAssumption DEF PoolFull
    <3> QED
      BY <2>2, <3>1 DEF BeginCreate, managerVars
  <2> QED
    BY <2>1, <2>2
<1> QED
  BY <1>1, <1>2, <1>3 DEF BeginCreate, Abstract!Begin, Abstract!Cardinality, Cardinality, Status

LEMMA ReadyGrants ==
    ASSUME TypeOK, LockInv, NEW r \in Req, PodReady(r)
    PROVE  Abstract!Grant(r)
<1>1. mode = "up" /\ lock = r
  BY DEF PodReady, Waiting, Creating
<1>2. pc[r] = "creating" /\ UserOf[r] \notin pods
  BY <1>1, UserOfAssumption DEF LockInv, LockDiscipline, CreatorHoldsLock, CreatorUntracked, Owner
<1>3. Status[r] = "creating" /\ Status' = [Status EXCEPT ![r] = "served"]
  BY <1>2 DEF TypeOK, PodReady, Status, StatusOf
<1> QED
  BY <1>1, <1>2, <1>3 DEF PodReady, Insert, Abstract!Grant, Status

-----------------------------------------------------------------------------

LEMMA NextImplementsPool ==
    ASSUME TypeOK, LockInv, [Next]_vars
    PROVE  [Abstract!Next]_(Abstract!poolVars)
<1> USE NoReqAssumption
<1>1. CASE Start
  BY <1>1, HiddenStep DEF Start, managerVars, requestVars
<1>2. ASSUME NEW u \in User, Adopt(u) PROVE [Abstract!Next]_(Abstract!poolVars)
  <2>1. CASE UNCHANGED managerVars
    BY <1>2, <2>1, HiddenStep DEF Adopt, managerVars, requestVars
  <2>2. CASE \E k \in Key \cup {NoKey} : Insert(u, k, 0)
    <3>1. Abstract!Recover(u)
      BY <1>2, <2>2, StatusStays DEF Adopt, Insert, requestVars, Abstract!Recover, Status
    <3> QED
      BY <3>1 DEF Abstract!Next
  <2>3. SecretExists(u) => secret[u] \in Key \cup {NoKey}
    BY DEF TypeOK, ClusterTypeOK
  <2> QED
    BY <1>2, <2>1, <2>2, <2>3 DEF Adopt, FreshKeys
<1>3. ASSUME NEW u \in User, ReconcileCall(u) PROVE UNCHANGED Abstract!poolVars
  BY <1>3, HiddenStep DEF ReconcileCall, managerVars, requestVars
<1>4. CASE Serve
  <2>1. Abstract!Open
    BY <1>4, StatusStays DEF Serve, managerVars, requestVars, Abstract!Open, Status
  <2> QED
    BY <2>1 DEF Abstract!Next
<1>5. ASSUME NEW r \in Req, Arrive(r) \/ Takes(r) \/ PodReady(r) \/ Finish(r) PROVE Abstract!Next
  BY <1>5, ArriveAsks, FinishLeaves, ReuseShares, BeginCreateBegins, ReadyGrants
     DEF Takes, Abstract!Next
<1>6. ASSUME NEW r \in Req, Calls(r) \/ PodNotReady(r) \/ PollError(r)
      PROVE [Abstract!Next]_(Abstract!poolVars)
  <2>1. lock = r /\ lock \in Req /\ UNCHANGED <<mode, pods>>
    BY <1>6 DEF Calls, CreatePvc, CreateSecret, CreatePod, CreateService, PodNotReady, PollError,
                Waiting, Creating, managerVars
  <2>2. FailCreate \/ UNCHANGED <<lock, pc>>
    BY <1>6 DEF Calls, CreatePvc, CreateSecret, CreatePod, CreateService, PodNotReady, PollError,
                Advance
  <2>3. CASE FailCreate
    BY <2>1, <2>3, FailRefuses DEF Abstract!Next
  <2>4. CASE UNCHANGED <<lock, pc>>
    BY <2>1, <2>4, HiddenStep
  <2> QED
    BY <2>2, <2>3, <2>4
<1>7. ASSUME NEW u \in User, UndoCall(u) PROVE [Abstract!Next]_(Abstract!poolVars)
  <2>1. lock \in Req /\ UNCHANGED <<mode, pods>>
    BY <1>7 DEF UndoCall, managerVars, TypeOK, LockInv, LockDiscipline, CreatorHoldsLock
  <2>2. CASE FailCreate
    BY <2>1, <2>2, FailRefuses DEF Abstract!Next
  <2>3. CASE UNCHANGED <<lock, pc>>
    BY <2>1, <2>3, HiddenStep
  <2> QED
    BY <1>7, <2>2, <2>3 DEF UndoCall
<1>8. ASSUME NEW u \in User, EvictCall(u) PROVE UNCHANGED Abstract!poolVars
  BY <1>8, HiddenStep DEF EvictCall, managerVars, requestVars
<1>9. CASE CleanupIdle
  <2>1. Abstract!Vanish
    BY <1>9, DropVanishes DEF CleanupIdle, LoopFree, IdlePods, requestVars
  <2> QED
    BY <2>1 DEF Abstract!Next
<1>10. CASE HealthCheck
  <2>1. PICK dead \in (SUBSET DeadPods) \ {{}} : Drop(dead)
    BY <1>10 DEF HealthCheck
  <2>2. Abstract!Vanish
    BY <1>10, <2>1, DropVanishes DEF HealthCheck, LoopFree, DeadPods, requestVars
  <2> QED
    BY <2>2 DEF Abstract!Next
<1>11. CASE PvcSweep \/ Tick \/ ClusterMoves
  BY <1>11, HiddenStep DEF PvcSweep, Tick, ClusterMoves, managerVars, requestVars
<1>12. CASE Crash
  <2>1. Status' = [r \in Req |-> "idle"]
    BY <1>12 DEF Crash, Status, StatusOf
  <2>2. Abstract!Die
    BY <1>12, <2>1 DEF Crash, Abstract!Die, Status
  <2> QED
    BY <2>2 DEF Abstract!Next
<1>13. CASE UNCHANGED vars
  BY <1>13, HiddenStep DEF vars, managerVars, requestVars
<1> QED
  BY <1>1, <1>2, <1>3, <1>4, <1>5, <1>6, <1>7, <1>8, <1>9, <1>10, <1>11, <1>12, <1>13
     DEF Next, Reconciles, Creates, Deletes

\* The pod manager implements the pool (get_or_create 109-142 with everything
\* it calls): what the routes may rely on whatever calls fail and processes die.
THEOREM ManagerImplementsPool == Spec => ImplementsPool
<1>1. Init => TypeOK /\ LockInv /\ Abstract!Init
  <2>1. Init => Status = [r \in Req |-> "idle"]
    BY DEF Init, Status, StatusOf
  <2> QED
    BY <2>1, InitTypeOK, InitLockInv DEF Init, Abstract!Init, Status
<1>2. TypeOK /\ LockInv /\ [Next]_vars => (TypeOK /\ LockInv)'
  BY NextTypeOK, NextLockInv
<1>3. TypeOK /\ LockInv /\ [Next]_vars => [Abstract!Next]_(Abstract!poolVars)
  BY NextImplementsPool
<1> QED
  BY <1>1, <1>2, <1>3, PTL DEF Spec, ImplementsPool, Abstract!Spec
=============================================================================
