--------------------- MODULE PodManagerFaultFreeProofs ---------------------
(* What holds as long as no call has raised, for every instance: the keys   *)
(* agree, no live pod is lost, the pods in the cluster stay within the      *)
(* limit, and a retained PVC stays under the pod that uses it if the        *)
(* retention time covers a start.  All rest on one invariant about the      *)
(* order in which a user's objects come and go.                             *)
EXTENDS PodManagerProofs

\* The secret outlives the pod, and is what the pod started with.
SecretOfLivePod(u) ==
    Live(u) => /\ SecretExists(u)
               /\ kpod[u].phase = "Running" => kpod[u].key = secret[u]

\* What the proxy knows of the secret: the key of a terminal whose pod lives,
\* and the key of a creation that has stored it.
ProxyKnowsSecret(u) ==
    /\ u \in pods /\ Live(u) => apiKey[u] = secret[u]
    /\ Owner(u) /\ job.step \in {"pod", "service", "waiting"} => secret[u] = job.key

\* The order of the deletes: no service after its delete, and no live pod after
\* its own, up to the end of the deletion; a service never lacks its secret.
DeletedInOrder(u) ==
    /\ work[u] \in CallStep => u \notin pods
    /\ work[u] \in {"pod", "secret"} => u \notin service
    /\ work[u] \in {"secret", "pvc"} => ~Live(u)
    /\ u \in service => SecretExists(u)

\* The order of the creates: no live pod before its create, no service before its own.
CreatedInOrder(u) ==
    Owner(u) => /\ job.step \in {"pvc", "secret", "pod"} => ~Live(u)
                /\ job.step \in {"pod", "service"} => u \notin service

\* Whose deletion is under way, and in which part of the proxy's life.
WorkInPlace(u) ==
    /\ mode = "up" => work[u] # "adopt"
    /\ mode = "reconciling" => work[u] # "pvc"
    /\ mode = "down" => u \notin pods /\ work[u] = "none"
    /\ job.step = "undo" /\ work[u] # "none" => Owner(u)

\* A live pod is tracked, being created, or about to be looked at.
LivePodKnown(u) ==
    mode # "down" /\ Live(u) =>
        u \in pods \/ Owner(u) \/ work[u] \in {"adopt", "service", "pod"}

OrderOf(u) ==
    /\ SecretOfLivePod(u)
    /\ ProxyKnowsSecret(u)
    /\ DeletedInOrder(u)
    /\ CreatedInOrder(u)
    /\ WorkInPlace(u)
    /\ LivePodKnown(u)

OrderInv == (job.step # "none" => job.key \in Key) /\ \A u \in User : OrderOf(u)

-----------------------------------------------------------------------------
LEMMA InitOrderInv == Init => OrderInv
BY NoReqAssumption
   DEF Init, ClusterInit, NoPod, NoPvc, NoJob, NoWork, CallStep, OrderInv, OrderOf, SecretOfLivePod,
       ProxyKnowsSecret, DeletedInOrder, CreatedInOrder, WorkInPlace, LivePodKnown, Live, PodExists,
       SecretExists, Owner

(* The parts of a step. *)

\* A call that cost no fault was carried out and returned.
LEMMA ChargeFree ==
    ASSUME faults = 0, faults' = 0, NEW reply \in Replies, Charge(reply)
    PROVE  reply = "ok" /\ Took(reply)
BY DEF Charge, Took, Replies

\* A step that leaves what belongs to a user alone keeps the user's order.
LEMMA Elsewhere ==
    ASSUME NEW u \in User, OrderOf(u),
           kpod'[u] = kpod[u], secret'[u] = secret[u], apiKey'[u] = apiKey[u],
           work'[u] = work[u], u \in service' <=> u \in service, u \in pods' <=> u \in pods,
           mode' = mode, Owner(u)' <=> Owner(u),
           Owner(u) => job' = job,
           job'.step = "undo" => job.step = "undo" \/ work[u] = "none"
    PROVE  OrderOf(u)'
BY DEF OrderOf, SecretOfLivePod, ProxyKnowsSecret, DeletedInOrder, CreatedInOrder, WorkInPlace,
       LivePodKnown, Live, PodExists, SecretExists

\* Who holds the lock, and what that says of the rest.
LEMMA HolderFacts ==
    ASSUME LockInv
    PROVE  /\ \A u \in User : Owner(u) =>
                  mode = "up" /\ u \notin pods /\ (work[u] # "none" => job.step = "undo")
           /\ job.step = "none" <=> lock = NoReq
BY NoReqAssumption
   DEF LockInv, LockDiscipline, CreatorUntracked, CreatorHoldsLock, Owner

\* What a deletion call does when nothing fails.
LEMMA DeleteCallFree ==
    ASSUME TypeOK, NEW v \in User, NEW reply \in Replies, DeleteCall(v, reply),
           faults = 0, faults' = 0
    PROVE  /\ reply = "ok" /\ work[v] \in CallStep
           /\ \A u \in User \ {v} : /\ kpod'[u] = kpod[u] /\ secret'[u] = secret[u]
                                    /\ u \in service' <=> u \in service
           /\ kpod'[v] = IF work[v] = "pod" /\ PodExists(v)
                         THEN [kpod[v] EXCEPT !.term = TRUE] ELSE kpod[v]
           /\ secret'[v] = IF work[v] = "secret" THEN NoKey ELSE secret[v]
           /\ v \in service' <=> v \in service /\ work[v] # "service"
<1>1. reply = "ok" /\ Took(reply)
  BY ChargeFree DEF DeleteCall
<1> QED
  BY <1>1 DEF DeleteCall, delete_service, delete_pod, delete_secret, TypeOK, ClusterTypeOK, CallStep

\* A deletion call, followed by the next one, keeps the order of the user's objects.
LEMMA DeleteCallOrder ==
    ASSUME TypeOK, LockInv, OrderInv, NEW v \in User, NEW reply \in Replies, DeleteCall(v, reply),
           \/ work'[v] = AfterCall(work[v])
           \/ work[v] = "secret" /\ work'[v] = "pvc" /\ mode = "up",
           \A u \in User \ {v} : work'[u] = work[u],
           faults = 0, faults' = 0, UNCHANGED <<mode, pods, apiKey>>,
           \/ UNCHANGED <<lock, job>>
           \/ work'[v] = "none" /\ lock' = NoReq /\ job' = NoJob /\ Owner(v)
    PROVE  OrderInv'
<1> USE NoReqAssumption, NoKeyAssumption
<1>1. /\ reply = "ok" /\ work[v] \in CallStep
      /\ \A u \in User \ {v} : /\ kpod'[u] = kpod[u] /\ secret'[u] = secret[u]
                               /\ u \in service' <=> u \in service
      /\ kpod'[v] = IF work[v] = "pod" /\ PodExists(v)
                    THEN [kpod[v] EXCEPT !.term = TRUE] ELSE kpod[v]
      /\ secret'[v] = IF work[v] = "secret" THEN NoKey ELSE secret[v]
      /\ v \in service' <=> v \in service /\ work[v] # "service"
  BY DeleteCallFree
<1>2. \A u \in User : OrderOf(u)
  BY DEF OrderInv
<1>3. job'.step # "none" => job'.key \in Key
  BY DEF OrderInv, NoJob
<1>4. ASSUME NEW u \in User, u # v PROVE OrderOf(u)'
  <2>1. work'[u] = work[u]
    BY <1>4
  <2>2. CASE UNCHANGED <<lock, job>>
    BY <1>1, <1>2, <1>4, <2>1, <2>2, Elsewhere DEF Owner
  <2>3. CASE lock' = NoReq /\ job' = NoJob /\ Owner(v)
    <3>1. ~Owner(u) /\ ~Owner(u)'
      BY <1>4, <2>3 DEF Owner
    <3> QED
      BY <1>1, <1>2, <1>4, <2>1, <2>3, <3>1, Elsewhere DEF NoJob
  <2> QED
    BY <2>2, <2>3
<1>5. OrderOf(v)'
  <2>1. kpod[v] \in [phase : Phase, term : BOOLEAN, key : Key \cup {NoKey}]
    BY DEF TypeOK, ClusterTypeOK
  <2>2. Live(v)' => Live(v) /\ work[v] # "pod" /\ kpod'[v] = kpod[v]
    BY <1>1, <2>1 DEF Live, PodExists
  <2>3. /\ work[v] = "service" => work'[v] = "pod"
        /\ work[v] = "pod" => work'[v] = "secret"
        /\ work[v] = "secret" => work'[v] = "none" \/ (work'[v] = "pvc" /\ mode = "up")
        /\ work[v] = "pvc" => work'[v] = "none"
    BY DEF AfterCall
  <2>4. OrderOf(v) /\ (Owner(v) => job.step = "undo" /\ mode = "up")
    BY <1>1, <1>2, HolderFacts DEF CallStep
  <2>5. v \notin pods /\ work[v] # "none"
    BY <1>1, <2>4 DEF OrderOf, DeletedInOrder, CallStep
  <2>6. SecretOfLivePod(v)'
    BY <1>1, <2>1, <2>2, <2>4 DEF OrderOf, SecretOfLivePod, DeletedInOrder, SecretExists
  <2>7. ProxyKnowsSecret(v)'
    BY <2>4, <2>5 DEF ProxyKnowsSecret, Owner
  <2>8. DeletedInOrder(v)'
    BY <1>1, <2>1, <2>2, <2>3, <2>4, <2>5 DEF OrderOf, DeletedInOrder, SecretExists, CallStep
  <2>9. CreatedInOrder(v)'
    BY <2>4 DEF CreatedInOrder, Owner
  <2>10. WorkInPlace(v)'
    BY <1>1, <2>1, <2>3, <2>4, <2>5 DEF OrderOf, WorkInPlace, NoJob, Owner, CallStep
  <2>11. LivePodKnown(v)'
    BY <1>1, <2>1, <2>2, <2>3, <2>4, <2>5 DEF OrderOf, DeletedInOrder, LivePodKnown, CallStep
  <2> QED
    BY <2>6, <2>7, <2>8, <2>9, <2>10, <2>11 DEF OrderOf
<1> QED
  BY <1>3, <1>4, <1>5 DEF OrderInv

\* Popping terminals to delete them keeps the order of their objects.
LEMMA DropOrder ==
    ASSUME TypeOK, LockInv, OrderInv, mode = "up", NEW gone \in SUBSET pods, Drop(gone),
           UNCHANGED <<kpod, service, secret, mode>>,
           NEW u \in User, Owner(u)' => u \notin gone,
           \/ UNCHANGED <<lock, job>> /\ job.step # "undo"
           \/ lock = NoReq /\ job'.step \in {"pvc", "secret"} /\ (Owner(u)' => u \notin pods)
              /\ work[u] = "none"
    PROVE  OrderOf(u)'
<1> USE NoReqAssumption
<1>1. OrderOf(u) /\ (Owner(u) => lock # NoReq)
  BY DEF OrderInv, Owner
<1>2. /\ u \in pods' <=> u \in pods /\ u \notin gone
      /\ apiKey'[u] = IF u \in gone THEN NoKey ELSE apiKey[u]
      /\ work'[u] = IF u \in gone THEN "service" ELSE work[u]
      /\ Live(u)' <=> Live(u)
      /\ SecretExists(u)' <=> SecretExists(u)
  BY DEF Drop, Live, PodExists, SecretExists
<1>3. u \in gone => u \in pods /\ work[u] \notin CallStep
  BY <1>1 DEF OrderOf, DeletedInOrder
<1>4. CASE UNCHANGED <<lock, job>> /\ job.step # "undo"
  <2>1. Owner(u)' <=> Owner(u)
    BY <1>4 DEF Owner
  <2> QED
    BY <1>1, <1>2, <1>3, <1>4, <2>1
       DEF OrderOf, SecretOfLivePod, ProxyKnowsSecret, DeletedInOrder, CreatedInOrder, WorkInPlace,
           LivePodKnown, CallStep
<1>5. CASE lock = NoReq /\ job'.step \in {"pvc", "secret"} /\ (Owner(u)' => u \notin pods)
           /\ work[u] = "none"
  <2>1. ~Owner(u)
    BY <1>5 DEF Owner
  <2> QED
    BY <1>1, <1>2, <1>3, <1>5, <2>1
       DEF OrderOf, SecretOfLivePod, ProxyKnowsSecret, DeletedInOrder, CreatedInOrder, WorkInPlace,
           LivePodKnown, CallStep
<1> QED
  BY <1>4, <1>5

\* A creation that moves on or gives up, and changes no cluster object.
LEMMA JobOrder ==
    ASSUME TypeOK, LockInv, OrderInv, NEW r \in Req, lock = r, job.step \in {"pvc", "secret", "pod"},
           UNCHANGED <<kpod, service, secret, mode, pods, apiKey, work>>,
           \/ FailCreate
           \/ Advance("secret") /\ job.step = "pvc"
    PROVE  OrderInv'
<1> USE NoReqAssumption, UserOfAssumption
<1>1. job'.step # "none" => job'.key \in Key
  <2>1. CASE FailCreate
    BY <2>1 DEF FailCreate, NoJob
  <2>2. CASE Advance("secret")
    BY <2>2 DEF OrderInv, Advance, TypeOK
  <2> QED
    BY <2>1, <2>2
<1>2. ASSUME NEW u \in User PROVE OrderOf(u)'
  <2>1. OrderOf(u) /\ (Owner(u) => mode = "up" /\ u \notin pods /\ work[u] = "none")
    BY HolderFacts, UserAssumption DEF OrderInv
  <2>2. CASE ~Owner(u)
    <3>1. ~Owner(u)' /\ job'.step # "undo"
      BY <2>2 DEF FailCreate, Advance, Owner, NoJob, TypeOK
    <3> QED
      BY <2>1, <2>2, <3>1, Elsewhere
  <2>3. CASE Owner(u) /\ FailCreate
    <3>1. ~Owner(u)' /\ job'.step = "none"
      BY <2>3 DEF FailCreate, Owner, NoJob
    <3> QED
      BY <2>1, <2>3, <3>1
         DEF OrderOf, SecretOfLivePod, ProxyKnowsSecret, DeletedInOrder, CreatedInOrder,
             WorkInPlace, LivePodKnown, Live, PodExists, SecretExists, CallStep
  <2>4. CASE Owner(u) /\ Advance("secret")
    <3>1. job'.step = "secret"
      BY <2>4 DEF Advance, TypeOK
    <3> QED
      BY <2>1, <2>4, <3>1
         DEF OrderOf, SecretOfLivePod, ProxyKnowsSecret, DeletedInOrder, CreatedInOrder,
             WorkInPlace, LivePodKnown, Live, PodExists, SecretExists, CallStep
  <2> QED
    BY <2>2, <2>3, <2>4
<1> QED
  BY <1>1, <1>2 DEF OrderInv

-----------------------------------------------------------------------------
(* One step. *)

\* Every step that raises no call keeps the order.
LEMMA NextOrderInv ==
    ASSUME TypeOK, LockInv, OrderInv, [Next]_vars, faults = 0, faults' = 0
    PROVE  OrderInv'
<1> USE NoReqAssumption, NoKeyAssumption, UserOfAssumption
<1>0. \A u \in User : OrderOf(u)
  BY DEF OrderInv
<1>1. ASSUME Start PROVE OrderInv'
  <2>1. /\ mode = "down" /\ mode' = "reconciling"
        /\ work' = [u \in User |-> IF kpod[u].phase = "Running" THEN "adopt"
                                   ELSE IF PodExists(u) THEN "service" ELSE "none"]
        /\ UNCHANGED <<clusterVars, managerVars, requestVars>>
    BY <1>1 DEF Start
  <2>2. lock = NoReq /\ job.step = "none"
    BY <2>1 DEF LockInv, LockDiscipline, CreatorHoldsLock
  <2>3. ASSUME NEW u \in User PROVE OrderOf(u)'
    BY <1>0, <2>1, <2>2
       DEF clusterVars, managerVars, requestVars, OrderOf, SecretOfLivePod, ProxyKnowsSecret,
           DeletedInOrder, CreatedInOrder, WorkInPlace, LivePodKnown, Live, PodExists,
           SecretExists, Owner, CallStep
  <2> QED
    BY <2>1, <2>3 DEF OrderInv, requestVars
<1>2. ASSUME NEW v \in User, Adopt(v) PROVE OrderInv'
  <2>1. PICK k \in IF SecretExists(v) THEN {secret[v]} ELSE FreshKeys(v) :
            Insert(v, k, 0) /\ work' = [work EXCEPT ![v] = "none"] /\ UNCHANGED clusterVars
    BY <1>2 DEF Adopt
  <2>2. /\ mode = "reconciling" /\ work[v] = "adopt" /\ mode' = mode /\ UNCHANGED requestVars
        /\ lock = NoReq /\ job.step = "none"
    BY <1>2 DEF Adopt, LockInv, LockDiscipline, CreatorHoldsLock
  <2>3. ASSUME NEW u \in User, u # v PROVE OrderOf(u)'
    BY <1>0, <2>1, <2>2, <2>3, Elsewhere DEF Insert, clusterVars, requestVars, Owner, TypeOK
  <2>4. v \in pods' /\ apiKey'[v] = k /\ work'[v] = "none"
    BY <2>1 DEF Insert, TypeOK
  <2>5. OrderOf(v)'
    BY <1>0, <2>1, <2>2, <2>4
       DEF clusterVars, requestVars, OrderOf, SecretOfLivePod, ProxyKnowsSecret,
           DeletedInOrder, CreatedInOrder, WorkInPlace, LivePodKnown, Live, PodExists,
           SecretExists, Owner, CallStep
  <2> QED
    BY <2>2, <2>3, <2>5 DEF OrderInv, requestVars
<1>3. ASSUME NEW v \in User, ReconcileCall(v) PROVE OrderInv'
  <2>1. PICK reply \in Replies :
            /\ DeleteCall(v, reply)
            /\ work' = IF reply = "ok" THEN [work EXCEPT ![v] = AfterCall(@)] ELSE NoWork
    BY <1>3 DEF ReconcileCall
  <2>2. reply = "ok"
    BY <2>1, DeleteCallFree
  <2>3. UNCHANGED <<mode, pods, apiKey, lock, job>> /\ job.step # "undo"
    BY <1>3 DEF ReconcileCall, managerVars, requestVars, LockInv, LockDiscipline, CreatorHoldsLock
  <2> QED
    <3>1. work'[v] = AfterCall(work[v]) /\ \A u \in User \ {v} : work'[u] = work[u]
      BY <2>1, <2>2 DEF TypeOK
    <3> QED
      BY <2>1, <2>3, <3>1, DeleteCallOrder
<1>4. ASSUME Serve PROVE OrderInv'
  <2>1. ASSUME NEW u \in User PROVE OrderOf(u)'
    BY <1>0, <1>4
       DEF Serve, NoWork, clusterVars, managerVars, requestVars, OrderOf, SecretOfLivePod,
           ProxyKnowsSecret, DeletedInOrder, CreatedInOrder, WorkInPlace, LivePodKnown, Live,
           PodExists, SecretExists, Owner, CallStep
  <2> QED
    BY <1>4, <2>1 DEF Serve, OrderInv, requestVars
<1>5. CASE /\ UNCHANGED <<kpod, service, secret, mode, pods, apiKey, work, lock>>
           /\ job'.step = job.step /\ job'.key = job.key
  <2>1. ASSUME NEW u \in User PROVE OrderOf(u)'
    BY <1>0, <1>5
       DEF OrderOf, SecretOfLivePod, ProxyKnowsSecret, DeletedInOrder, CreatedInOrder,
           WorkInPlace, LivePodKnown, Live, PodExists, SecretExists, Owner
  <2> QED
    BY <1>5, <2>1 DEF OrderInv
<1>6. ASSUME NEW r \in Req, Arrive(r) \/ Reuse(r) \/ Finish(r) PROVE OrderInv'
  <2>1. UNCHANGED <<kpod, service, secret, mode, pods, apiKey, work, lock, job>>
    BY <1>6 DEF Arrive, Reuse, Finish, clusterVars, managerVars
  <2> QED
    BY <1>5, <2>1
<1>7. ASSUME NEW r \in Req, BeginCreate(r) PROVE OrderInv'
  <2>1. /\ mode = "up" /\ mode' = mode /\ lock = NoReq /\ lock' = r /\ work = NoWork
        /\ UserOf[r] \notin pods /\ UNCHANGED clusterVars
    BY <1>7 DEF BeginCreate, MyTurn, LoopFree
  <2>2. job'.step \in {"pvc", "secret"} /\ job'.key \in Key
    BY <1>7 DEF BeginCreate, FreshKeys
  <2>3. \E gone \in SUBSET pods : Drop(gone)
    <3>1. CASE PoolFull
      BY <1>7, <3>1 DEF BeginCreate, Oldest
    <3>2. CASE ~PoolFull
      <4>1. Drop({})
        BY <1>7, <3>2 DEF BeginCreate, Drop, managerVars, TypeOK
      <4> QED
        BY <4>1
    <3> QED
      BY <3>1, <3>2
  <2>4. ASSUME NEW u \in User PROVE OrderOf(u)'
    <3>1. Owner(u)' => u \notin pods
      BY <2>1 DEF Owner
    <3>2. PICK gone \in SUBSET pods : Drop(gone)
      BY <2>3
    <3>3. work[u] = "none"
      BY <2>1 DEF NoWork
    <3> QED
      BY <2>1, <2>2, <3>1, <3>2, <3>3, DropOrder DEF clusterVars
  <2> QED
    BY <2>2, <2>4 DEF OrderInv
<1>8. ASSUME NEW r \in Req, CreatePvc(r) PROVE OrderInv'
  <2>1. /\ lock = r /\ job.step = "pvc"
        /\ UNCHANGED <<kpod, service, secret, mode, pods, apiKey, work>>
        /\ FailCreate \/ Advance("secret")
    BY <1>8 DEF CreatePvc, Creating, managerVars
  <2> QED
    BY <2>1, JobOrder
<1>9. ASSUME NEW r \in Req, CreateSecret(r) PROVE OrderInv'
  <2>1. /\ lock = r /\ job.step = "secret" /\ mode = "up" /\ work = NoWork
        /\ UNCHANGED <<kpod, service, mode, pods, apiKey, work>>
    BY <1>9 DEF CreateSecret, Creating, managerVars
  <2>2. PICK reply \in Replies :
           /\ create_secret(UserOf[r], job.key, reply) /\ Charge(reply)
           /\ IF CreateSecretRaises(UserOf[r], reply) THEN FailCreate ELSE Advance("pod")
    BY <1>9 DEF CreateSecret
  <2>3. reply = "ok" /\ Took(reply)
    BY <2>2, ChargeFree
  <2>4. CASE SecretExists(UserOf[r])
    <3>1. secret' = secret /\ FailCreate
      BY <2>2, <2>3, <2>4 DEF create_secret, CreateSecretRaises
    <3> QED
      BY <2>1, <3>1, JobOrder
  <2>5. CASE ~SecretExists(UserOf[r])
    <3>1. secret' = [secret EXCEPT ![UserOf[r]] = job.key] /\ Advance("pod")
      BY <2>2, <2>3, <2>5 DEF create_secret, CreateSecretRaises
    <3>2. /\ job'.step = "pod" /\ job'.key = job.key /\ lock' = lock /\ job.key \in Key
      BY <2>1, <3>1 DEF Advance, TypeOK, OrderInv
    <3>3. secret'[UserOf[r]] = job.key /\ \A u \in User \ {UserOf[r]} : secret'[u] = secret[u]
      BY <3>1 DEF TypeOK, ClusterTypeOK
    <3>4. ASSUME NEW u \in User, u # UserOf[r] PROVE OrderOf(u)'
      <4>1. ~Owner(u) /\ ~Owner(u)'
        BY <2>1, <3>2, <3>4 DEF Owner
      <4> QED
        BY <1>0, <2>1, <3>2, <3>3, <3>4, <4>1, Elsewhere
    <3>5. OrderOf(UserOf[r])'
      BY <1>0, <2>1, <2>5, <3>2, <3>3
         DEF OrderOf, SecretOfLivePod, ProxyKnowsSecret, DeletedInOrder, CreatedInOrder,
             WorkInPlace, LivePodKnown, Live, PodExists, SecretExists, Owner, CallStep, NoWork
    <3> QED
      BY <3>2, <3>4, <3>5 DEF OrderInv
  <2> QED
    BY <2>4, <2>5
<1>10. ASSUME NEW r \in Req, CreatePod(r) PROVE OrderInv'
  <2>1. /\ lock = r /\ job.step = "pod" /\ mode = "up" /\ work = NoWork
        /\ UNCHANGED <<service, secret, mode, pods, apiKey, work>>
    BY <1>10 DEF CreatePod, Creating, managerVars
  <2>2. PICK reply \in Replies :
           /\ create_pod(UserOf[r], reply) /\ Charge(reply)
           /\ IF PodExists(UserOf[r]) \/ reply # "ok" THEN FailCreate ELSE Advance("service")
    BY <1>10 DEF CreatePod
  <2>3. reply = "ok" /\ Took(reply)
    BY <2>2, ChargeFree
  <2>4. CASE PodExists(UserOf[r])
    <3>1. kpod' = kpod /\ FailCreate
      BY <2>2, <2>3, <2>4 DEF create_pod
    <3> QED
      BY <2>1, <3>1, JobOrder
  <2>5. CASE ~PodExists(UserOf[r])
    <3>1. /\ kpod' = [kpod EXCEPT ![UserOf[r]] =
                         [phase |-> "Pending", term |-> FALSE, key |-> NoKey]]
          /\ Advance("service")
      BY <2>2, <2>3, <2>5 DEF create_pod
    <3>2. /\ job'.step = "service" /\ job'.key = job.key /\ lock' = lock /\ job.key \in Key
      BY <2>1, <3>1 DEF Advance, TypeOK, OrderInv
    <3>3. /\ kpod'[UserOf[r]] = [phase |-> "Pending", term |-> FALSE, key |-> NoKey]
          /\ \A u \in User \ {UserOf[r]} : kpod'[u] = kpod[u]
      BY <3>1 DEF TypeOK, ClusterTypeOK
    <3>4. ASSUME NEW u \in User, u # UserOf[r] PROVE OrderOf(u)'
      <4>1. ~Owner(u) /\ ~Owner(u)'
        BY <2>1, <3>2, <3>4 DEF Owner
      <4> QED
        BY <1>0, <2>1, <3>2, <3>3, <3>4, <4>1, Elsewhere
    <3>5. OrderOf(UserOf[r])'
      <4>1. UserOf[r] \notin pods
        BY <2>1, HolderFacts DEF Owner
      <4> QED
        BY <1>0, <2>1, <3>2, <3>3, <4>1
           DEF OrderOf, SecretOfLivePod, ProxyKnowsSecret, DeletedInOrder, CreatedInOrder,
               WorkInPlace, LivePodKnown, Live, PodExists, SecretExists, Owner, CallStep, NoWork
    <3> QED
      BY <3>2, <3>4, <3>5 DEF OrderInv
  <2> QED
    BY <2>4, <2>5
<1>11. ASSUME NEW r \in Req, CreateService(r) PROVE OrderInv'
  <2>1. /\ lock = r /\ job.step = "service" /\ mode = "up" /\ work = NoWork
        /\ UNCHANGED <<kpod, secret, mode, pods, apiKey, work>>
    BY <1>11 DEF CreateService, Creating, managerVars
  <2>2. PICK reply \in Replies :
           /\ create_service(UserOf[r], reply) /\ Charge(reply)
           /\ IF UserOf[r] \in service \/ reply # "ok" THEN FailCreate ELSE Advance("waiting")
    BY <1>11 DEF CreateService
  <2>3. reply = "ok" /\ Took(reply)
    BY <2>2, ChargeFree
  <2>4. UserOf[r] \notin service
    BY <1>0, <2>1 DEF OrderOf, CreatedInOrder, Owner
  <2>5. service' = service \cup {UserOf[r]} /\ Advance("waiting")
    BY <2>2, <2>3, <2>4 DEF create_service
  <2>6. /\ job'.step = "waiting" /\ job'.key = job.key /\ lock' = lock /\ job.key \in Key
    BY <2>1, <2>5 DEF Advance, TypeOK, OrderInv
  <2>7. ASSUME NEW u \in User, u # UserOf[r] PROVE OrderOf(u)'
    <3>1. ~Owner(u) /\ ~Owner(u)'
      BY <2>1, <2>6, <2>7 DEF Owner
    <3> QED
      BY <1>0, <2>1, <2>5, <2>6, <2>7, <3>1, Elsewhere
  <2>8. OrderOf(UserOf[r])'
    BY <1>0, <2>1, <2>6
       DEF OrderOf, SecretOfLivePod, ProxyKnowsSecret, DeletedInOrder, CreatedInOrder,
           WorkInPlace, LivePodKnown, Live, PodExists, SecretExists, Owner, CallStep, NoWork
  <2> QED
    BY <2>6, <2>7, <2>8 DEF OrderInv
<1>12. ASSUME NEW r \in Req, PodReady(r) PROVE OrderInv'
  <2>1. /\ lock = r /\ job.step = "waiting" /\ mode = "up" /\ work = NoWork
        /\ Insert(UserOf[r], job.key, job.waited) /\ lock' = NoReq /\ job' = NoJob
        /\ UNCHANGED <<kpod, service, secret, mode, work>>
    BY <1>12 DEF PodReady, Waiting, Creating, clusterVars
  <2>2. ASSUME NEW u \in User, u # UserOf[r] PROVE OrderOf(u)'
    <3>1. ~Owner(u) /\ ~Owner(u)'
      BY <2>1, <2>2 DEF Owner
    <3> QED
      BY <1>0, <2>1, <2>2, <3>1, Elsewhere DEF Insert, NoJob, TypeOK
  <2>3. UserOf[r] \in pods' /\ apiKey'[UserOf[r]] = job.key
    BY <2>1 DEF Insert, TypeOK
  <2>4. OrderOf(UserOf[r])'
    BY <1>0, <2>1, <2>3
       DEF OrderOf, SecretOfLivePod, ProxyKnowsSecret, DeletedInOrder, CreatedInOrder,
           WorkInPlace, LivePodKnown, Live, PodExists, SecretExists, Owner, CallStep, NoWork, NoJob
  <2> QED
    BY <2>1, <2>2, <2>4 DEF OrderInv, NoJob
<1>13. ASSUME NEW r \in Req, PodNotReady(r) PROVE OrderInv'
  <2>1. /\ lock = r /\ job.step = "waiting" /\ mode = "up" /\ work = NoWork
        /\ job' = [job EXCEPT !.step = "undo"] /\ lock' = lock
        /\ work' = [work EXCEPT ![UserOf[r]] = "service"]
        /\ UNCHANGED <<kpod, service, secret, mode, pods, apiKey>>
    BY <1>13 DEF PodNotReady, Waiting, Creating, clusterVars, managerVars
  <2>2. job'.step = "undo" /\ job'.key = job.key /\ job.key \in Key
    BY <2>1 DEF TypeOK, OrderInv
  <2>3. ASSUME NEW u \in User, u # UserOf[r] PROVE OrderOf(u)'
    <3>1. ~Owner(u) /\ ~Owner(u)' /\ work[u] = "none" /\ work'[u] = "none"
      BY <2>1, <2>3 DEF Owner, NoWork
    <3> QED
      BY <1>0, <2>1, <2>2, <2>3, <3>1, Elsewhere
  <2>4. UserOf[r] \notin pods /\ work'[UserOf[r]] = "service"
    BY <2>1, HolderFacts DEF Owner, TypeOK
  <2>5. OrderOf(UserOf[r])'
    BY <1>0, <2>1, <2>2, <2>4
       DEF OrderOf, SecretOfLivePod, ProxyKnowsSecret, DeletedInOrder, CreatedInOrder,
           WorkInPlace, LivePodKnown, Live, PodExists, SecretExists, Owner, CallStep
  <2> QED
    BY <2>2, <2>3, <2>5 DEF OrderInv
<1>14. ASSUME NEW v \in User, UndoCall(v) PROVE OrderInv'
  <2>1. PICK reply \in Replies :
            /\ DeleteCall(v, reply)
            /\ IF reply = "ok" /\ AfterCall(work[v]) # "none"
               THEN work' = [work EXCEPT ![v] = AfterCall(@)] /\ UNCHANGED <<lock, pc, job>>
               ELSE work' = [work EXCEPT ![v] = "none"] /\ FailCreate
    BY <1>14 DEF UndoCall
  <2>2. reply = "ok" /\ work[v] \in CallStep
    BY <2>1, DeleteCallFree
  <2>3. Owner(v) /\ UNCHANGED <<mode, pods, apiKey>>
    BY <1>0, <1>14, <2>2 DEF UndoCall, managerVars, OrderOf, WorkInPlace, CallStep
  <2>4. work'[v] = AfterCall(work[v]) /\ \A u \in User \ {v} : work'[u] = work[u]
    BY <2>1, <2>2 DEF TypeOK
  <2>5. CASE AfterCall(work[v]) # "none"
    BY <2>1, <2>2, <2>3, <2>4, <2>5, DeleteCallOrder
  <2>6. CASE AfterCall(work[v]) = "none"
    <3>1. lock' = NoReq /\ job' = NoJob
      BY <2>1, <2>6 DEF FailCreate
    <3> QED
      BY <2>1, <2>3, <2>4, <2>6, <3>1, DeleteCallOrder
  <2> QED
    BY <2>5, <2>6
<1>15. ASSUME NEW v \in User, EvictCall(v) PROVE OrderInv'
  <2>1. /\ mode = "up" /\ job.step # "undo" /\ UNCHANGED <<mode, pods, apiKey, lock, job>>
        /\ \E reply \in Replies : DeleteCall(v, reply)
    BY <1>15 DEF EvictCall, managerVars, requestVars
  <2>2. /\ \/ work'[v] = AfterCall(work[v])
           \/ work[v] = "secret" /\ work'[v] = "pvc"
        /\ \A u \in User \ {v} : work'[u] = work[u]
    <3>1. \/ work' = [work EXCEPT ![v] = "pvc"] /\ work[v] = "secret"
          \/ work' = [work EXCEPT ![v] = AfterCall(work[v])]
      BY <1>15 DEF EvictCall
    <3> QED
      BY <3>1 DEF TypeOK
  <2> QED
    BY <2>1, <2>2, DeleteCallOrder
<1>16. ASSUME CleanupIdle \/ HealthCheck PROVE OrderInv'
  <2>1. /\ mode = "up" /\ job.step # "undo"
        /\ UNCHANGED <<kpod, service, secret, mode, lock, job>>
        /\ \E gone \in SUBSET pods : Drop(gone)
    BY <1>16 DEF CleanupIdle, HealthCheck, LoopFree, IdlePods, DeadPods, clusterVars, requestVars
  <2>2. ASSUME NEW u \in User PROVE OrderOf(u)'
    <3>1. PICK gone \in SUBSET pods : Drop(gone)
      BY <2>1
    <3>2. Owner(u)' => u \notin gone
      BY <2>1, HolderFacts DEF Owner
    <3> QED
      BY <2>1, <3>1, <3>2, DropOrder
  <2> QED
    BY <2>1, <2>2 DEF OrderInv
<1>17. ASSUME PvcSweep \/ Tick PROVE OrderInv'
  <2>1. UNCHANGED <<kpod, service, secret, mode, pods, apiKey, work, lock>>
    BY <1>17 DEF PvcSweep, Tick, managerVars, requestVars
  <2>2. job'.step = job.step /\ job'.key = job.key
    <3>1. job' = job \/ job' = [job EXCEPT !.waited = job.waited + 1]
      BY <1>17 DEF PvcSweep, Tick, requestVars
    <3> QED
      BY <3>1 DEF TypeOK
  <2> QED
    BY <1>5, <2>1, <2>2
<1>18. ASSUME Crash PROVE OrderInv'
  <2>1. ASSUME NEW u \in User PROVE OrderOf(u)'
    BY <1>0, <1>18
       DEF Crash, NoJob, NoWork, clusterVars, OrderOf, SecretOfLivePod, ProxyKnowsSecret,
           DeletedInOrder, CreatedInOrder, WorkInPlace, LivePodKnown, Live, PodExists,
           SecretExists, Owner, CallStep
  <2> QED
    BY <1>18, <2>1 DEF Crash, NoJob, OrderInv
<1>19. ASSUME ClusterMoves PROVE OrderInv'
  <2>1. PICK v \in User :
           \/ PodStarts(v)
           \/ \E phase \in Ended : PodEnds(v, phase)
           \/ PodDrained(v) \/ PodRemoved(v) \/ PvcRemoved(v)
    BY <1>19 DEF ClusterMoves, ClusterStep
  <2>2. /\ UNCHANGED <<service, secret, mode, pods, apiKey, work, lock, job>>
        /\ \A u \in User \ {v} : kpod'[u] = kpod[u]
    BY <1>19, <2>1 DEF ClusterMoves, managerVars, requestVars, PodStarts, PodEnds, PodDrained,
                       PodRemoved, PvcRemoved, TypeOK, ClusterTypeOK
  <2>3. ASSUME NEW u \in User, u # v PROVE OrderOf(u)'
    BY <1>0, <2>2, <2>3, Elsewhere DEF Owner
  <2>4. Live(v)' => /\ Live(v)
                    /\ kpod'[v].phase = "Running" =>
                          kpod'[v].key = secret[v] \/ kpod'[v] = kpod[v]
    <3>1. kpod[v] \in [phase : Phase, term : BOOLEAN, key : Key \cup {NoKey}]
      BY DEF TypeOK, ClusterTypeOK
    <3>2. CASE PodStarts(v)
      BY <3>1, <3>2 DEF PodStarts, Live, PodExists, TypeOK, ClusterTypeOK
    <3>3. ASSUME NEW phase \in Ended, PodEnds(v, phase)
          PROVE  Live(v)' => Live(v) /\ kpod'[v].phase # "Running"
      BY <3>1, <3>3 DEF PodEnds, Live, PodExists, TypeOK, ClusterTypeOK, Ended
    <3>4. CASE PodDrained(v) \/ PodRemoved(v) \/ PvcRemoved(v)
      BY <3>1, <3>4 DEF PodDrained, PodRemoved, PvcRemoved, NoPod, Live, PodExists, TypeOK,
                        ClusterTypeOK
    <3> QED
      BY <2>1, <3>2, <3>3, <3>4
  <2>5. OrderOf(v)'
    BY <1>0, <2>2, <2>4
       DEF OrderOf, SecretOfLivePod, ProxyKnowsSecret, DeletedInOrder, CreatedInOrder,
           WorkInPlace, LivePodKnown, SecretExists, Owner, Live
  <2> QED
    BY <2>2, <2>3, <2>5 DEF OrderInv
<1>20. ASSUME NEW r \in Req, PollError(r) PROVE FALSE
  BY <1>20 DEF PollError
<1>21. CASE UNCHANGED vars
  BY <1>5, <1>21 DEF vars, clusterVars, managerVars, requestVars
<1> QED
  BY <1>1, <1>2, <1>3, <1>4, <1>6, <1>7, <1>8, <1>9, <1>10, <1>11, <1>12, <1>13, <1>14, <1>15,
     <1>16, <1>17, <1>18, <1>19, <1>20, <1>21
     DEF Next, Reconciles, Takes, Creates, Calls, Deletes

-----------------------------------------------------------------------------
(* The theorems. *)

\* No step takes a fault back.
LEMMA FaultsStay == TypeOK /\ [Next]_vars /\ faults' = 0 => faults = 0
<1> SUFFICES ASSUME TypeOK, [Next]_vars, faults' = 0 PROVE faults = 0
  OBVIOUS
<1>1. faults \in Nat
  BY ClusterBoundsAssumption DEF TypeOK, ClusterTypeOK
<1>2. ASSUME NEW reply, Charge(reply) PROVE faults = 0
  BY <1>1, <1>2 DEF Charge
<1>3. CASE UNCHANGED faults
  BY <1>3
<1>4. CASE faults' = faults + 1
  BY <1>1, <1>4
<1>5. CASE Start \/ \E u \in User : Adopt(u)
  BY <1>3, <1>4, <1>5 DEF Start, Adopt, clusterVars
<1>6. ASSUME NEW u \in User, ReconcileCall(u) \/ UndoCall(u) \/ EvictCall(u) PROVE faults = 0
  BY <1>2, <1>6 DEF ReconcileCall, UndoCall, EvictCall, DeleteCall
<1>7. CASE Serve \/ CleanupIdle \/ Tick \/ Crash \/ ClusterMoves \/ UNCHANGED vars
  BY <1>3, <1>7 DEF Serve, CleanupIdle, Tick, Crash, ClusterMoves, ClusterStep, PodStarts, PodEnds,
                    PodDrained, PodRemoved, PvcRemoved, clusterVars, vars
<1>8. ASSUME NEW r \in Req, Arrive(r) \/ Finish(r) \/ BeginCreate(r) \/ PodReady(r) \/ PodNotReady(r)
      PROVE  faults = 0
  BY <1>3, <1>8 DEF Arrive, Finish, BeginCreate, PodReady, PodNotReady, clusterVars
<1>9. ASSUME NEW r \in Req, Calls(r) \/ PollError(r) PROVE faults = 0
  BY <1>2, <1>4, <1>9 DEF Calls, CreatePvc, CreateSecret, CreatePod, CreateService, PollError
<1>10. ASSUME NEW r \in Req, Reuse(r) PROVE faults = 0
  BY <1>2, <1>3, <1>10 DEF Reuse
<1>11. ASSUME HealthCheck PROVE faults = 0
  <2>1. PICK dead \in SUBSET DeadPods : faults' = faults + Cardinality(DeadPods \ dead)
    BY <1>11 DEF HealthCheck
  <2>2. Cardinality(DeadPods \ dead) \in Nat
    BY UserAssumption, FS_Subset, FS_CardinalityType DEF DeadPods, TypeOK
  <2> QED
    BY <1>1, <2>1, <2>2
<1>12. ASSUME PvcSweep PROVE faults = 0
  BY <1>1, <1>12 DEF PvcSweep, cleanup_expired_pvcs
<1> QED
  BY <1>5, <1>6, <1>7, <1>8, <1>9, <1>10, <1>11, <1>12
     DEF Next, Reconciles, Takes, Creates, Deletes

\* The order of creates and deletes, as long as no call has raised.
FaultFreeInv == TypeOK /\ LockInv /\ (faults = 0 => OrderInv)

LEMMA FaultFree == Spec => []FaultFreeInv
<1>1. Init => FaultFreeInv
  BY InitTypeOK, InitLockInv, InitOrderInv DEF FaultFreeInv
<1>2. FaultFreeInv /\ [Next]_vars => FaultFreeInv'
  BY NextTypeOK, NextLockInv, NextOrderInv, FaultsStay DEF FaultFreeInv
<1> QED
  BY <1>1, <1>2, PTL DEF Spec

\* The key the proxy sends to a running pod is the key the pod was started
\* with, across evictions, failed starts, crashes and adoptions, as long as no
\* call to the cluster has raised.
THEOREM KeysAgree == Spec => []KeyAgreement
<1>1. FaultFreeInv => KeyAgreement
  BY DEF FaultFreeInv, TypeOK, KeyAgreement, OrderInv, OrderOf, SecretOfLivePod, ProxyKnowsSecret,
         Live, PodExists
<1> QED
  BY <1>1, FaultFree, PTL

\* A proxy that serves requests loses sight of no live pod, as long as no call
\* to the cluster has raised.
THEOREM NoPodLost == Spec => []NoLeakedPod
<1>1. FaultFreeInv => NoLeakedPod
  BY DEF FaultFreeInv, NoLeakedPod, OrderInv, OrderOf, LivePodKnown, WorkInPlace, Live
<1> QED
  BY <1>1, FaultFree, PTL

\* While requests are served each live pod takes up one of the places.
LEMMA LivePodsHavePlaces ==
    ASSUME TypeOK, LockInv, OrderInv, mode = "up"
    PROVE  {u \in User : Live(u)} \in SUBSET Occupied
<1> SUFFICES ASSUME NEW u \in User, Live(u) PROVE u \in Occupied
  OBVIOUS
<1>1. OrderOf(u) /\ (u \in pods \/ Owner(u) \/ work[u] \in {"service", "pod"})
  BY DEF OrderInv, OrderOf, LivePodKnown, WorkInPlace
<1>2. Owner(u) => job.step \in {"service", "waiting", "undo"}
  BY <1>1, HolderFacts, NoReqAssumption
     DEF OrderOf, CreatedInOrder, TypeOK, CallStep, Owner
<1> QED
  BY <1>1, <1>2 DEF Occupied, Placed, Leaving

\* As long as no call has raised and the proxy has not restarted, there are never
\* more live pods in the cluster than max_concurrent_pods, whatever evictions,
\* sweeps, failed starts and drains there are.
THEOREM ClusterWithinLimit == Spec => []LivePodsWithinLimit
<1> DEFINE I == FaultFreeInv /\ SlotInv
<1>1. Init => I
  BY InitTypeOK, InitLockInv, InitOrderInv, InitSlotInv DEF FaultFreeInv
<1>2. I /\ [Next]_vars => I'
  BY NextTypeOK, NextLockInv, NextOrderInv, NextSlotInv, FaultsStay DEF FaultFreeInv
<1>3. I => LivePodsWithinLimit
  <2> SUFFICES ASSUME FaultFreeInv, SlotInv, faults = 0, crashes = 0
               PROVE  Cardinality({u \in User : Live(u)}) <= MaxPods
    BY DEF LivePodsWithinLimit
  <2>1. CASE mode = "up"
    <3>1. Occupied \in SUBSET User /\ Cardinality(Occupied) <= MaxPods
      BY <2>1 DEF FaultFreeInv, TypeOK, SlotInv, Occupied, Placed, Leaving
    <3>2. {u \in User : Live(u)} \in SUBSET Occupied
      BY <2>1, LivePodsHavePlaces DEF FaultFreeInv
    <3>3. IsFiniteSet(Occupied) /\ Cardinality(Occupied) \in Nat
      BY <3>1, UserAssumption, FS_Subset, FS_CardinalityType
    <3>4. /\ IsFiniteSet({u \in User : Live(u)})
          /\ Cardinality({u \in User : Live(u)}) <= Cardinality(Occupied)
      BY <3>2, <3>3, FS_Subset
    <3>5. Cardinality({u \in User : Live(u)}) \in Nat
      BY <3>4, FS_CardinalityType
    <3> QED
      BY <3>1, <3>3, <3>4, <3>5, MaxPodsAssumption
  <2>2. CASE mode # "up"
    <3>1. {u \in User : Live(u)} = {}
      BY <2>2 DEF SlotInv, Live
    <3> QED
      BY <3>1, FS_EmptySet, MaxPodsAssumption
  <2> QED
    BY <2>1, <2>2
<1> QED
  BY <1>1, <1>2, <1>3, PTL DEF Spec

-----------------------------------------------------------------------------
(* Per-user PVCs. *)

\* The pod that runs has a PVC nobody has deleted.
RunsOnBound(u) == Live(u) /\ kpod[u].phase = "Running" => pvc[u].state = "bound"

\* A creation past the first call has stamped the PVC: it is no older than the wait.
CreationStamped(u) ==
    Owner(u) /\ job.step \in {"secret", "pod", "service", "waiting"} /\ pvc[u].state = "bound" =>
        pvc[u].age <= job.waited

PvcOf(u) == RunsOnBound(u) /\ CreationStamped(u)

PvcInv == \A u \in User : PvcOf(u)

LEMMA InitPvcInv == Init => PvcInv
BY DEF Init, ClusterInit, NoPod, NoJob, PvcInv, PvcOf, RunsOnBound, CreationStamped, Live, PodExists

-----------------------------------------------------------------------------
(* The parts of a step. *)

\* A step that neither starts the pod nor touches the PVC, and lets the creation
\* of the user go on or end, keeps both.
LEMMA PvcElsewhere ==
    ASSUME NEW u \in User, PvcOf(u), pvc'[u] = pvc[u],
           Live(u)' /\ kpod'[u].phase = "Running" => Live(u) /\ kpod[u].phase = "Running",
           \/ ~Owner(u)' \/ job'.step \notin {"secret", "pod", "service", "waiting"}
           \/ Owner(u) /\ job.step \in {"secret", "pod", "service", "waiting"}
              /\ job'.waited = job.waited
    PROVE  PvcOf(u)'
BY DEF PvcOf, RunsOnBound, CreationStamped

\* Annotating a PVC is all that release_pvc and touch_pvc do to a retained one.
LEMMA StampedOrAsBefore ==
    ASSUME TypeOK, RetentionCoversStart, NEW v \in User, NEW reply,
           release_pvc(v, reply) \/ touch_pvc(v, reply), NEW u \in User
    PROVE  \/ pvc'[u] = pvc[u]
           \/ pvc'[u].state = pvc[u].state /\ pvc'[u].age = 0
<1>1. annotate_pvc(v, reply)
  BY DEF release_pvc, touch_pvc, RetentionCoversStart
<1>2. pvc \in [User -> Pvc]
  BY DEF TypeOK, ClusterTypeOK
<1>3. pvc' = pvc \/ pvc' = [pvc EXCEPT ![v] = [pvc[v] EXCEPT !.age = 0]]
  BY <1>1 DEF annotate_pvc
<1>4. /\ [pvc[v] EXCEPT !.age = 0].state = pvc[v].state
      /\ [pvc[v] EXCEPT !.age = 0].age = 0
  BY <1>2 DEF Pvc
<1>5. CASE pvc' = pvc
  BY <1>5
<1>6. CASE pvc' = [pvc EXCEPT ![v] = [pvc[v] EXCEPT !.age = 0]]
  <2>1. pvc'[u] = IF u = v THEN [pvc[v] EXCEPT !.age = 0] ELSE pvc[u]
    BY <1>2, <1>6
  <2> QED
    BY <1>4, <2>1
<1> QED
  BY <1>3, <1>5, <1>6

\* A deletion call keeps every user's PVC, or stamps it.
LEMMA DeleteCallPvc ==
    ASSUME TypeOK, PvcInv, RetentionCoversStart, faults = 0, faults' = 0,
           NEW v \in User, NEW reply \in Replies, DeleteCall(v, reply),
           UNCHANGED <<lock, job>> \/ lock' = NoReq
    PROVE  PvcInv'
<1> USE NoReqAssumption
<1> SUFFICES ASSUME NEW u \in User PROVE PvcOf(u)'
  BY DEF PvcInv
<1>1. PvcOf(u) /\ kpod[u] \in [phase : Phase, term : BOOLEAN, key : Key \cup {NoKey}]
  BY DEF PvcInv, TypeOK, ClusterTypeOK
<1>2. Live(u)' /\ kpod'[u].phase = "Running" => Live(u) /\ kpod[u].phase = "Running"
  <2>1. kpod'[u] = kpod[u] \/ kpod'[u] = [kpod[u] EXCEPT !.term = TRUE]
    BY DeleteCallFree
  <2> QED
    BY <1>1, <2>1 DEF Live, PodExists
<1>3. \/ pvc'[u] = pvc[u]
      \/ pvc'[u].state = pvc[u].state /\ pvc'[u].age = 0
  <2>1. pvc' = pvc \/ release_pvc(v, reply)
    BY DEF DeleteCall
  <2> QED
    BY <2>1, StampedOrAsBefore
<1>4. job.waited \in Nat
  BY TimeoutsAssumption DEF TypeOK
<1>5. Owner(u)' => UNCHANGED <<lock, job>>
  BY DEF Owner
<1> QED
  BY <1>1, <1>2, <1>3, <1>4, <1>5 DEF PvcOf, RunsOnBound, CreationStamped, Owner

\* A creation that fails, or goes on past the first call, changes no PVC.
LEMMA JobPvc ==
    ASSUME TypeOK, PvcInv, NEW r \in Req, lock = r, UNCHANGED pvc,
           \A u \in User : Live(u)' /\ kpod'[u].phase = "Running" =>
                               Live(u) /\ kpod[u].phase = "Running",
           \/ FailCreate
           \/ \E step \in {"pod", "service", "waiting"} :
                 Advance(step) /\ job.step \in {"secret", "pod", "service"}
    PROVE  PvcInv'
<1> USE NoReqAssumption
<1> SUFFICES ASSUME NEW u \in User PROVE PvcOf(u)'
  BY DEF PvcInv
<1>1. CASE FailCreate
  <2>1. ~Owner(u)'
    BY <1>1 DEF FailCreate, Owner
  <2> QED
    BY <2>1, PvcElsewhere DEF PvcInv
<1>2. ASSUME NEW step \in {"pod", "service", "waiting"}, Advance(step),
             job.step \in {"secret", "pod", "service"}
      PROVE  PvcOf(u)'
  <2>1. job'.waited = job.waited /\ (Owner(u)' <=> Owner(u))
    BY <1>2 DEF Advance, Owner, TypeOK
  <2> QED
    BY <1>2, <2>1, PvcElsewhere DEF PvcInv
<1> QED
  BY <1>1, <1>2

-----------------------------------------------------------------------------
(* One step. *)

\* The sweep deletes no PVC under a pod that runs: its user is tracked, or being
\* created, and then the PVC is no older than the wait.
LEMMA SweepPvc ==
    ASSUME TypeOK, LockInv, OrderInv, PvcInv, RetentionCoversStart, PvcSweep
    PROVE  PvcInv'
<1> USE NoReqAssumption
<1> SUFFICES ASSUME NEW u \in User PROVE PvcOf(u)'
  BY DEF PvcInv
<1>1. /\ mode = "up" /\ work[u] = "none" /\ job.step \in {"none", "waiting"}
      /\ UNCHANGED <<kpod, lock, job>> /\ PerUser /\ RetainPvc /\ StartupTimeout <= Ttl
  BY StorageAssumption
     DEF PvcSweep, LoopFree, NoWork, requestVars, cleanup_expired_pvcs, SweepsPvcs,
         RetentionCoversStart
<1>2. PICK gone \in SUBSET ExpiredPvcs(pods) :
         pvc' = [w \in User |-> IF w \in gone THEN [pvc[w] EXCEPT !.state = "terminating"]
                                ELSE pvc[w]]
  BY DEF PvcSweep, cleanup_expired_pvcs
<1>3. CASE u \notin gone
  <2>1. pvc'[u] = pvc[u]
    BY <1>2, <1>3
  <2> QED
    BY <1>1, <2>1 DEF PvcInv, PvcOf, RunsOnBound, CreationStamped, Live, PodExists, Owner
<1>4. CASE u \in gone
  <2>1. u \notin pods /\ pvc[u].state = "bound" /\ pvc[u].age > Ttl
    BY <1>4 DEF ExpiredPvcs
  <2>2. pvc[u] \in Pvc /\ pvc[u].age \in Nat /\ job.waited \in 0..StartupTimeout
    BY ClusterBoundsAssumption DEF TypeOK, ClusterTypeOK, Pvc
  <2>3. ~Owner(u)
    <3>1. SUFFICES ASSUME Owner(u) PROVE FALSE
      OBVIOUS
    <3>2. job.step = "waiting"
      BY <1>1, <3>1, HolderFacts DEF Owner
    <3> QED
      BY <1>1, <2>1, <2>2, <3>1, <3>2, StorageAssumption, TimeoutsAssumption
         DEF PvcInv, PvcOf, CreationStamped
  <2>4. ~Live(u)
    BY <1>1, <2>1, <2>3 DEF OrderInv, OrderOf, LivePodKnown
  <2> QED
    BY <1>1, <2>3, <2>4 DEF PvcOf, RunsOnBound, CreationStamped, Live, PodExists, Owner
<1> QED
  BY <1>3, <1>4

\* A tick ages the PVC and the wait together.
LEMMA TickPvc ==
    ASSUME TypeOK, LockInv, PvcInv, Tick
    PROVE  PvcInv'
<1> USE NoReqAssumption
<1> SUFFICES ASSUME NEW u \in User PROVE PvcOf(u)'
  BY DEF PvcInv
<1>1. /\ pvc[u] \in Pvc /\ pvc[u].age \in Nat /\ job.waited \in Nat
      /\ UNCHANGED <<kpod, lock>>
  BY ClusterBoundsAssumption, TimeoutsAssumption DEF TypeOK, ClusterTypeOK, Pvc, Tick
<1>2. pvc'[u] = IF PvcExists(u) THEN [pvc[u] EXCEPT !.age = Older(pvc[u].age)] ELSE pvc[u]
  BY DEF Tick, PvcsAge
<1>3. /\ pvc'[u].state = pvc[u].state
      /\ pvc'[u].age <= pvc[u].age + 1
  <2>1. /\ [pvc[u] EXCEPT !.age = Older(pvc[u].age)].state = pvc[u].state
        /\ [pvc[u] EXCEPT !.age = Older(pvc[u].age)].age = Older(pvc[u].age)
    BY <1>1 DEF Pvc
  <2>2. Older(pvc[u].age) <= pvc[u].age + 1 /\ pvc[u].age <= pvc[u].age + 1
    BY <1>1 DEF Older
  <2> QED
    BY <1>2, <2>1, <2>2
<1>4. Owner(u) => /\ job.step \in {"none", "waiting"}
                  /\ job.step = "waiting" => job'.waited = job.waited + 1
                  /\ job'.step = job.step
  <2>1. Owner(u) => LoopFree
    BY HolderFacts DEF Tick
  <2>2. job.step = "waiting" => job' = [job EXCEPT !.waited = job.waited + 1]
    BY DEF Tick
  <2>3. job.step # "waiting" => job' = job
    BY DEF Tick
  <2> QED
    BY <2>1, <2>2, <2>3 DEF LoopFree, TypeOK
<1>5. PvcOf(u) /\ pvc'[u].age \in Nat
  <2>1. Older(pvc[u].age) \in Nat
    BY <1>1, ClusterBoundsAssumption DEF Older
  <2> QED
    BY <1>1, <1>2, <2>1 DEF PvcInv, Pvc
<1> QED
  BY <1>1, <1>3, <1>4, <1>5 DEF PvcOf, RunsOnBound, CreationStamped, Live, PodExists, Owner

\* The first call of a creation finds the PVC, and stamps it, or makes it.
LEMMA CreatePvcPvc ==
    ASSUME TypeOK, PvcInv, faults = 0, faults' = 0, NEW r \in Req, CreatePvc(r)
    PROVE  PvcInv'
<1> USE NoReqAssumption
<1> SUFFICES ASSUME NEW u \in User PROVE PvcOf(u)'
  BY DEF PvcInv
<1>1. PICK reply \in Replies :
         /\ create_user_pvc(UserOf[r], reply) /\ Charge(reply)
         /\ IF CreateUserPvcRaises(UserOf[r], reply) THEN FailCreate ELSE Advance("secret")
  BY DEF CreatePvc
<1>2. reply = "ok" /\ Took(reply) /\ Advance("secret")
  BY <1>1, ChargeFree DEF CreateUserPvcRaises
<1>3. /\ kpod' = kpod /\ lock = r /\ lock' = r /\ job.waited \in Nat /\ job'.waited = job.waited
      /\ UserOf[r] \in User
  BY <1>2, UserOfAssumption, TimeoutsAssumption DEF CreatePvc, Creating, Advance, TypeOK
<1>4. \A w \in User \ {UserOf[r]} : pvc'[w] = pvc[w]
  BY <1>1, <1>3 DEF create_user_pvc, touch_pvc, annotate_pvc, create_pvc, TypeOK, ClusterTypeOK
<1>5. /\ pvc'[UserOf[r]].age = 0
      /\ pvc[UserOf[r]].state = "bound" => pvc'[UserOf[r]].state = "bound"
  <2>1. pvc \in [User -> Pvc] /\ pvc[UserOf[r]] \in Pvc
    BY <1>3 DEF TypeOK, ClusterTypeOK
  <2>2. CASE PvcExists(UserOf[r])
    <3>1. pvc'[UserOf[r]] = [pvc[UserOf[r]] EXCEPT !.age = 0]
      BY <1>1, <1>2, <1>3, <2>1, <2>2 DEF create_user_pvc, touch_pvc, annotate_pvc
    <3> QED
      BY <2>1, <3>1 DEF Pvc
  <2>3. CASE ~PvcExists(UserOf[r])
    <3>1. pvc'[UserOf[r]] = [state |-> "bound", age |-> 0]
      BY <1>1, <1>2, <1>3, <2>1, <2>3 DEF create_user_pvc, create_pvc
    <3> QED
      BY <3>1
  <2> QED
    BY <2>2, <2>3
<1>6. CASE u = UserOf[r]
  BY <1>3, <1>5, <1>6 DEF PvcInv, PvcOf, RunsOnBound, CreationStamped, Live, PodExists
<1>7. CASE u # UserOf[r]
  <2>1. ~Owner(u)' /\ pvc'[u] = pvc[u]
    BY <1>3, <1>4, <1>7 DEF Owner
  <2> QED
    BY <1>3, <2>1, PvcElsewhere DEF PvcInv, Live, PodExists
<1> QED
  BY <1>6, <1>7

\* Every step that raises no call keeps the PVCs of the pods that run.
LEMMA NextPvcInv ==
    ASSUME TypeOK, LockInv, OrderInv, PvcInv, RetentionCoversStart, [Next]_vars,
           faults = 0, faults' = 0
    PROVE  PvcInv'
<1> USE NoReqAssumption
<1>1. CASE UNCHANGED <<kpod, pvc, lock, job>>
  BY <1>1 DEF PvcInv, PvcOf, RunsOnBound, CreationStamped, Live, PodExists, Owner
<1>2. CASE Start \/ Serve
  BY <1>1, <1>2 DEF Start, Serve, clusterVars, requestVars
<1>3. ASSUME NEW v \in User, Adopt(v) PROVE PvcInv'
  BY <1>1, <1>3 DEF Adopt, clusterVars, requestVars
<1>4. ASSUME NEW v \in User, ReconcileCall(v) \/ EvictCall(v) PROVE PvcInv'
  <2>1. UNCHANGED <<lock, job>> /\ \E reply \in Replies : DeleteCall(v, reply)
    BY <1>4 DEF ReconcileCall, EvictCall, requestVars
  <2> QED
    BY <2>1, DeleteCallPvc
<1>5. ASSUME NEW v \in User, UndoCall(v) PROVE PvcInv'
  <2>1. /\ UNCHANGED <<lock, job>> \/ lock' = NoReq
        /\ \E reply \in Replies : DeleteCall(v, reply)
    BY <1>5 DEF UndoCall, FailCreate
  <2> QED
    BY <2>1, DeleteCallPvc
<1>6. ASSUME NEW r \in Req, Arrive(r) \/ Finish(r) PROVE PvcInv'
  BY <1>1, <1>6 DEF Arrive, Finish, clusterVars
<1>7. ASSUME NEW r \in Req, Reuse(r) PROVE PvcInv'
  <2>1. PICK reply \in Replies : touch_pvc(UserOf[r], reply) /\ Charge(reply)
    BY <1>7 DEF Reuse, RetentionCoversStart
  <2>2. UserOf[r] \in User /\ lock = NoReq /\ UNCHANGED <<kpod, lock, job>>
    BY <1>7, UserOfAssumption DEF Reuse, MyTurn
  <2>3. ASSUME NEW u \in User PROVE PvcOf(u)'
    <3>1. pvc'[u] = pvc[u] \/ pvc'[u].state = pvc[u].state
      BY <2>1, <2>2, StampedOrAsBefore
    <3> QED
      BY <2>2, <3>1 DEF PvcInv, PvcOf, RunsOnBound, CreationStamped, Live, PodExists, Owner
  <2> QED
    BY <2>3 DEF PvcInv
<1>8. ASSUME NEW r \in Req, BeginCreate(r) PROVE PvcInv'
  <2>1. UNCHANGED <<kpod, pvc>> /\ job'.step = "pvc"
    BY <1>8 DEF BeginCreate, clusterVars, RetentionCoversStart
  <2> QED
    BY <2>1 DEF PvcInv, PvcOf, RunsOnBound, CreationStamped, Live, PodExists
<1>9. ASSUME NEW r \in Req, CreatePvc(r) PROVE PvcInv'
  BY <1>9, CreatePvcPvc
<1>10. ASSUME NEW r \in Req, CreateSecret(r) \/ CreateService(r) PROVE PvcInv'
  <2>1. /\ lock = r /\ UNCHANGED <<kpod, pvc>>
        /\ \/ FailCreate
           \/ \E step \in {"pod", "service", "waiting"} :
                 Advance(step) /\ job.step \in {"secret", "pod", "service"}
    BY <1>10 DEF CreateSecret, CreateService, Creating
  <2> QED
    BY <2>1, JobPvc DEF Live, PodExists
<1>11. ASSUME NEW r \in Req, CreatePod(r) PROVE PvcInv'
  <2>1. /\ lock = r /\ pvc' = pvc
        /\ \/ FailCreate
           \/ \E step \in {"pod", "service", "waiting"} :
                 Advance(step) /\ job.step \in {"secret", "pod", "service"}
    BY <1>11 DEF CreatePod, Creating
  <2>2. \A u \in User : kpod'[u] = kpod[u] \/ kpod'[u].phase = "Pending"
    <3>1. \/ kpod' = kpod
          \/ kpod' = [kpod EXCEPT ![UserOf[r]] =
                         [phase |-> "Pending", term |-> FALSE, key |-> NoKey]]
      BY <1>11 DEF CreatePod, create_pod
    <3> QED
      BY <3>1 DEF TypeOK, ClusterTypeOK
  <2> QED
    BY <2>1, <2>2, JobPvc DEF Live, PodExists
<1>12. ASSUME NEW r \in Req, PodReady(r) \/ PodNotReady(r) PROVE PvcInv'
  <2>1. UNCHANGED <<kpod, pvc>> /\ job'.step \in {"none", "undo"}
    BY <1>12 DEF PodReady, PodNotReady, clusterVars, NoJob, TypeOK
  <2> QED
    BY <2>1 DEF PvcInv, PvcOf, RunsOnBound, CreationStamped, Live, PodExists
<1>13. ASSUME NEW r \in Req, PollError(r) PROVE FALSE
  BY <1>13 DEF PollError
<1>14. CASE CleanupIdle \/ HealthCheck
  BY <1>1, <1>14 DEF CleanupIdle, HealthCheck, clusterVars, requestVars
<1>15. CASE PvcSweep
  BY <1>15, SweepPvc
<1>16. CASE Tick
  BY <1>16, TickPvc
<1>17. CASE Crash
  <2>1. UNCHANGED <<kpod, pvc>> /\ lock' = NoReq
    BY <1>17 DEF Crash, clusterVars
  <2> QED
    BY <2>1 DEF PvcInv, PvcOf, RunsOnBound, CreationStamped, Live, PodExists, Owner
<1>18. CASE ClusterMoves
  <2>1. PICK v \in User :
           \/ PodStarts(v)
           \/ \E phase \in Ended : PodEnds(v, phase)
           \/ PodDrained(v) \/ PodRemoved(v) \/ PvcRemoved(v)
    BY <1>18 DEF ClusterMoves, ClusterStep
  <2>2. UNCHANGED <<lock, job>>
    BY <1>18 DEF ClusterMoves, requestVars
  <2>3. ASSUME NEW u \in User PROVE PvcOf(u)'
    <3>1. PvcOf(u) /\ kpod[u] \in [phase : Phase, term : BOOLEAN, key : Key \cup {NoKey}]
      BY DEF PvcInv, TypeOK, ClusterTypeOK
    <3>2. CASE PodStarts(v)
      <4>1. pvc' = pvc /\ (kpod'[u] = kpod[u] \/ pvc[u].state = "bound")
        BY <3>2 DEF PodStarts, Startable, ClaimReady, RetentionCoversStart, TypeOK, ClusterTypeOK
      <4> QED
        BY <2>2, <3>1, <4>1 DEF PvcOf, RunsOnBound, CreationStamped, Live, PodExists, Owner
    <3>3. ASSUME NEW phase \in Ended, PodEnds(v, phase)
          PROVE  pvc' = pvc /\ (kpod'[u] = kpod[u] \/ kpod'[u].phase # "Running")
      BY <3>1, <3>3 DEF PodEnds, Ended, TypeOK, ClusterTypeOK
    <3>4. CASE PodDrained(v) \/ PodRemoved(v)
      <4>1. pvc' = pvc /\ (kpod'[u] = kpod[u] \/ kpod'[u].term \/ kpod'[u].phase = "none")
        BY <3>1, <3>4 DEF PodDrained, PodRemoved, NoPod, TypeOK, ClusterTypeOK
      <4> QED
        BY <2>2, <3>1, <4>1 DEF PvcOf, RunsOnBound, CreationStamped, Live, PodExists, Owner
    <3>5. CASE PvcRemoved(v)
      <4>1. /\ kpod' = kpod
            /\ pvc'[u] = pvc[u] \/ (kpod[u].phase # "Running" /\ pvc'[u].state # "bound")
        BY <3>5 DEF PvcRemoved, NoPvc, TypeOK, ClusterTypeOK
      <4> QED
        BY <2>2, <3>1, <4>1 DEF PvcOf, RunsOnBound, CreationStamped, Live, PodExists, Owner
    <3> QED
      BY <2>1, <2>2, <3>1, <3>2, <3>3, <3>4, <3>5
         DEF PvcOf, RunsOnBound, CreationStamped, Live, PodExists, Owner
  <2> QED
    BY <2>3 DEF PvcInv
<1>19. CASE UNCHANGED vars
  BY <1>1, <1>19 DEF vars, clusterVars, requestVars
<1> QED
  BY <1>2, <1>3, <1>4, <1>5, <1>6, <1>7, <1>8, <1>9, <1>10, <1>11, <1>12, <1>13, <1>14, <1>15,
     <1>16, <1>17, <1>18, <1>19
     DEF Next, Reconciles, Takes, Creates, Calls, Deletes

\* The PVC of a tracked terminal that runs is not deleted under it, as long as
\* no call has raised and the retention time covers a start.
THEOREM RetainedPvcKept == Spec => []PvcInUseKept
<1> DEFINE I == FaultFreeInv /\ (faults = 0 /\ RetentionCoversStart => PvcInv)
<1>1. Init => I
  BY InitTypeOK, InitLockInv, InitOrderInv, InitPvcInv DEF FaultFreeInv
<1>2. I /\ [Next]_vars => I'
  <2>1. FaultFreeInv /\ [Next]_vars => FaultFreeInv'
    BY NextTypeOK, NextLockInv, NextOrderInv, FaultsStay DEF FaultFreeInv
  <2>2. I /\ [Next]_vars /\ faults' = 0 /\ RetentionCoversStart => PvcInv'
    BY FaultsStay, NextPvcInv DEF FaultFreeInv
  <2> QED
    BY <2>1, <2>2 DEF RetentionCoversStart, PerUser
<1>3. I => PvcInUseKept
  BY DEF FaultFreeInv, PvcInUseKept, PvcInv, PvcOf, RunsOnBound, Live, PodExists, TypeOK
<1> QED
  BY <1>1, <1>2, <1>3, PTL DEF Spec
=============================================================================
