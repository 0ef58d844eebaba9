------------------------ MODULE SharedStorageProofs ------------------------
(* In sharedRWO mode all pods are on one node until a call raises, for any  *)
(* number of users, nodes, crashes and lost nodes.                          *)
EXTENDS SharedStorage, FiniteSetTheorems, TLAPS

LEMMA NoPodType == NoPod \in Pods
BY DEF NoPod, Pods, Phase

LEMMA InitTypeOK == Init => TypeOK
<1> SUFFICES ASSUME Init PROVE TypeOK
  OBVIOUS
<1>1. pod \in [User -> Pods]
  BY NoPodType DEF Init
<1>2. volume \in BOOLEAN
  BY DEF Init
<1>3. creating = Nobody /\ step = "none" /\ step \in {"none", "volume", "pod", "waiting"}
  BY DEF Init
<1>4. faults \in 0..MaxFaults /\ crashes \in 0..MaxCrashes
  BY BoundsAssumption DEF Init
<1> QED
  BY <1>1, <1>2, <1>3, <1>4 DEF Init, TypeOK

LEMMA DeletedType ==
    ASSUME NEW p \in Pods
    PROVE  Deleted(p) \in Pods
BY NoPodType DEF Deleted, Pods

LEMMA NextTypeOK == TypeOK /\ [Next]_vars => TypeOK'
<1> SUFFICES ASSUME TypeOK, [Next]_vars PROVE TypeOK'
  OBVIOUS
<1> USE NobodyAssumption, BoundsAssumption DEF TypeOK
<1>1. ASSUME NEW u \in User, NEW n \in Node, Schedule(u, n) PROVE TypeOK'
  <2>1. pod' \in [User -> Pods]
    BY <1>1 DEF Schedule, Pods
  <2> QED
    BY <1>1, <2>1 DEF Schedule, creation, bounds
<1>2. ASSUME NEW u \in User, Starts(u) \/ Ends(u) \/ Removed(u) PROVE TypeOK'
  <2>1. pod' \in [User -> Pods]
    BY <1>2, NoPodType DEF Starts, Ends, Removed, Pods, Phase
  <2> QED
    BY <1>2, <2>1 DEF Starts, Ends, Removed, creation, bounds
<1>3. ASSUME NEW u \in User, Begin(u) \/ Raises(u) \/ Ready(u) PROVE TypeOK'
  <2>1. CASE Begin(u)
    BY <2>1 DEF Begin, cluster, bounds
  <2>2. CASE Raises(u)
    BY <2>2 DEF Raises, EndCreation, cluster
  <2>3. CASE Ready(u)
    BY <2>3 DEF Ready, EndCreation, cluster, bounds
  <2> QED
    BY <1>3, <2>1, <2>2, <2>3
<1>4. ASSUME NEW u \in User, LookUp(u) PROVE TypeOK'
  <2>1. NodesFound \subseteq Node \cup {NoNode}
    BY DEF NodesFound, Pods
  <2> QED
    BY <1>4, <2>1 DEF LookUp, bounds
<1>5. ASSUME NEW u \in User, CreatePod(u) PROVE TypeOK'
  <2>1. [phase |-> "Pending", node |-> found, term |-> FALSE] \in Pods
    BY DEF Pods, Phase
  <2>2. CASE Exists(u)
    BY <1>5, <2>2 DEF CreatePod, EndCreation, bounds
  <2>3. CASE ~Exists(u)
    <3>1. pod' = [pod EXCEPT ![u] = [phase |-> "Pending", node |-> found, term |-> FALSE]]
      BY <1>5, <2>3 DEF CreatePod
    <3>2. pod' \in [User -> Pods]
      BY <2>1, <3>1
    <3> QED
      BY <1>5, <2>3, <3>2 DEF CreatePod, bounds
  <2> QED
    BY <2>2, <2>3
<1>6. ASSUME NEW u \in User, NotReady(u) \/ DeleteTerminal(u) PROVE TypeOK'
  <2>1. pod' \in [User -> Pods]
    BY <1>6, DeletedType DEF NotReady, DeleteTerminal, Pods
  <2> QED
    BY <1>6, <2>1 DEF NotReady, DeleteTerminal, EndCreation, creation, bounds
<1>7. ASSUME NEW n \in Node, NodeLost(n) PROVE TypeOK'
  <2>1. pod' \in [User -> Pods]
    BY <1>7 DEF NodeLost, Pods, Phase
  <2> QED
    BY <1>7, <2>1 DEF NodeLost, creation, bounds
<1>8. CASE Crash
  BY <1>8 DEF Crash, EndCreation, cluster
<1>9. CASE Start
  <2>1. pod' \in [User -> Pods]
    BY <1>9, DeletedType DEF Start, Pods
  <2>2. tracked' \subseteq User /\ faults' \in 0..MaxFaults /\ volume' \in BOOLEAN
    BY <1>9 DEF Start
  <2> QED
    BY <1>9, <2>1, <2>2 DEF Start, creation
<1>10. CASE UNCHANGED vars
  BY <1>10 DEF vars, cluster, creation, bounds
<1> QED
  BY <1>1, <1>2, <1>3, <1>4, <1>5, <1>6, <1>7, <1>8, <1>9, <1>10 DEF Next

\* The types of the variables, and a creation is of a user without a terminal.
THEOREM TypeCorrect == Spec => []TypeOK
BY InitTypeOK, NextTypeOK, PTL DEF Spec

-----------------------------------------------------------------------------
(* The inductive invariant.                                                 *)

Unplaced(u) == Exists(u) /\ pod[u].node = NoNode

\* The pod that has no node yet is the only pod, and a serving proxy is still
\* creating it: no lookup can come across it.
Alone(u) ==
    /\ pod[u].phase = "Pending"
    /\ \A v \in User : Exists(v) => v = u
    /\ cached = NoNode /\ found = NoNode
    /\ mode = "up" => creating = u /\ step = "waiting"

\* A pod created without a node will be the only one.
CreatedAlone ==
    step = "pod" /\ found = NoNode => cached = NoNode /\ \A u \in User : ~Exists(u)

InMind == {pod[u].node : u \in User} \cup {cached, found}

Agree(S) == \A m, n \in S \ {NoNode} : m = n

NodeInv ==
    /\ \A u \in User : ~Exists(u) => pod[u].node = NoNode
    /\ \A u \in User : Unplaced(u) => Alone(u)
    /\ CreatedAlone
    /\ Agree(InMind)

IInv == TypeOK /\ (faults = 0 => NodeInv)

LEMMA FewerAgree ==
    ASSUME NEW S, NEW T, S \subseteq T \cup {NoNode}, Agree(T)
    PROVE  Agree(S)
BY DEF Agree

LEMMA InitNodeInv == Init => NodeInv
BY DEF Init, NodeInv, Exists, Unplaced, NoPod, CreatedAlone, InMind, Agree

\* A call that has raised stays counted.
LEMMA FaultsStay == TypeOK /\ [Next]_vars /\ faults' = 0 => faults = 0
<1> SUFFICES ASSUME TypeOK, [Next]_vars, faults' = 0, faults # 0 PROVE FALSE
  OBVIOUS
<1>1. faults \in Nat /\ MaxFaults \in Nat
  BY BoundsAssumption DEF TypeOK
<1>2. CASE \E u \in User : Raises(u) \/ DeleteTerminal(u)
  BY <1>1, <1>2 DEF Raises, DeleteTerminal
<1>3. CASE Start
  BY <1>1, <1>3 DEF Start
<1> QED
  BY <1>1, <1>2, <1>3 DEF Next, vars, bounds, Schedule, Starts, Ends, Removed, NodeLost,
     Begin, LookUp, CreatePod, Ready, NotReady, Crash

\* The nodes that pods have: each keeps its own, or loses it.
LEMMA PodsOnlyGo ==
    ASSUME NodeInv, CreatedAlone',
           \A u \in User : pod'[u] = pod[u] \/ pod'[u] = NoPod
                             \/ (Placed(u) /\ pod'[u].phase # "none" /\ pod'[u].node = pod[u].node),
           cached' \in {cached, NoNode}, found' \in {found, NoNode},
           \A u \in User : Unplaced(u) /\ Unplaced(u)' /\ mode' = "up"
                             => creating' = u /\ step' = "waiting"
    PROVE  NodeInv'
<1>1. \A u \in User : ~Exists(u)' => pod'[u].node = NoNode
  BY DEF NodeInv, Exists, NoPod
<1>2. ASSUME NEW u \in User, Unplaced(u)' PROVE Alone(u)'
  <2>1. pod'[u] = pod[u] /\ Unplaced(u)
    BY <1>2 DEF Unplaced, Exists, Placed, NoPod
  <2>2. Alone(u)
    BY <2>1 DEF NodeInv
  <2>3. \A v \in User : Exists(v)' => Exists(v)
    BY DEF Exists, Placed, NoPod
  <2> QED
    BY <1>2, <2>1, <2>2, <2>3 DEF Alone
<1>3. InMind' \subseteq InMind \cup {NoNode}
  BY DEF InMind, NoPod
<1>4. Agree(InMind)'
  BY <1>3, FewerAgree DEF NodeInv, Agree
<1> QED
  BY <1>1, <1>2, <1>4 DEF NodeInv

LEMMA ScheduleKeeps ==
    ASSUME TypeOK, NodeInv, NEW u \in User, NEW n \in Node, Schedule(u, n)
    PROVE  NodeInv'
<1>1. /\ pod' = [pod EXCEPT ![u] = [pod[u] EXCEPT !.node = n]]
      /\ pod[u] \in Pods /\ Unplaced(u) /\ n # NoNode
  BY NobodyAssumption DEF Schedule, TypeOK, Unplaced, Exists
<1>2. pod'[u].node = n /\ pod'[u].phase = pod[u].phase /\ \A v \in User \ {u} : pod'[v] = pod[v]
  BY <1>1 DEF TypeOK, Pods
<1>3. Alone(u) /\ \A v \in User \ {u} : ~Exists(v) /\ pod[v].node = NoNode
  BY <1>1 DEF NodeInv, Alone
<1>4. UNCHANGED <<cached, found, step>>
  BY DEF Schedule, creation
<1>5. InMind' \subseteq {n, NoNode}
  BY <1>2, <1>3, <1>4 DEF InMind, Alone
<1>6. Agree(InMind)'
  BY <1>5 DEF Agree
<1>7. \A v \in User : ~Unplaced(v)' /\ (~Exists(v)' => pod'[v].node = NoNode)
  BY <1>1, <1>2, <1>3 DEF Unplaced, Exists
<1>8. CreatedAlone'
  BY <1>1, <1>4 DEF CreatedAlone, NodeInv, Unplaced
<1> QED
  BY <1>6, <1>7, <1>8 DEF NodeInv

LEMMA LookUpKeeps ==
    ASSUME TypeOK, NodeInv, NEW u \in User, LookUp(u)
    PROVE  NodeInv'
<1>1. pod' = pod /\ found' = cached' /\ cached' \in NodesFound /\ step' = "pod"
  BY DEF LookUp
<1>2. \A v \in User : ~Unplaced(v)
  BY DEF LookUp, NodeInv, Alone
<1>3. NodesFound \subseteq InMind \cup {NoNode}
  BY DEF NodesFound, InMind
<1>4. InMind' \subseteq InMind \cup {NoNode}
  BY <1>1, <1>3 DEF InMind
<1>5. Agree(InMind)'
  BY <1>4, FewerAgree DEF NodeInv, Agree
<1>6. ASSUME found' = NoNode, NEW v \in User PROVE ~Exists(v)
  BY <1>1, <1>2, <1>6 DEF NodesFound, Unplaced
<1>7. CreatedAlone'
  BY <1>1, <1>6 DEF CreatedAlone, Exists
<1> QED
  BY <1>1, <1>2, <1>5, <1>7 DEF NodeInv, Unplaced, Exists

LEMMA CreatePodKeeps ==
    ASSUME TypeOK, NodeInv, NEW u \in User, CreatePod(u)
    PROVE  NodeInv'
<1>1. \A v \in User : ~Unplaced(v)
  BY DEF CreatePod, NodeInv, Alone
<1>2. CASE Exists(u)
  <2>1. pod' = pod /\ found' = NoNode /\ cached' = cached /\ step' = "none"
    BY <1>2 DEF CreatePod, EndCreation
  <2> QED
    BY <1>1, <2>1, PodsOnlyGo DEF CreatedAlone
<1>3. CASE ~Exists(u)
  <2>1. pod' = [pod EXCEPT ![u] = [phase |-> "Pending", node |-> found, term |-> FALSE]]
    BY <1>3 DEF CreatePod
  <2>2. step' = "waiting" /\ creating' = u /\ UNCHANGED <<cached, found, mode>>
    BY <1>3 DEF CreatePod
  <2>3. /\ pod'[u] = [phase |-> "Pending", node |-> found, term |-> FALSE]
        /\ \A v \in User \ {u} : pod'[v] = pod[v]
    BY <2>1 DEF TypeOK
  <2>4. InMind' \subseteq InMind \cup {NoNode}
    BY <2>2, <2>3 DEF InMind
  <2>5. Agree(InMind)'
    BY <2>4, FewerAgree DEF NodeInv, Agree
  <2>6. ASSUME NEW v \in User, Unplaced(v)' PROVE Alone(v)'
    <3>1. v = u /\ found = NoNode
      BY <1>1, <2>3, <2>6 DEF Unplaced, Exists
    <3>2. cached = NoNode /\ \A w \in User : ~Exists(w)
      BY <3>1 DEF NodeInv, CreatedAlone, CreatePod
    <3> QED
      BY <2>2, <2>3, <3>1, <3>2 DEF Alone, Exists
  <2>7. \A v \in User : ~Exists(v)' => pod'[v].node = NoNode
    BY <2>3 DEF NodeInv, Exists
  <2> QED
    BY <2>2, <2>5, <2>6, <2>7 DEF NodeInv, CreatedAlone
<1> QED
  BY <1>2, <1>3

LEMMA DeletedGoes ==
    ASSUME TypeOK, NodeInv, NEW u \in User
    PROVE  \/ Deleted(pod[u]) = NoPod
           \/ Placed(u) /\ Deleted(pod[u]).phase # "none" /\ Deleted(pod[u]).node = pod[u].node
BY DEF Deleted, Placed, Exists, TypeOK, Pods

\* The cluster's steps that only move a pod on.
LEMMA ClusterKeeps ==
    ASSUME TypeOK, NodeInv, NEW u \in User, Starts(u) \/ Ends(u) \/ Removed(u)
    PROVE  NodeInv'
<1>1. /\ \A v \in User \ {u} : pod'[v] = pod[v]
      /\ \/ pod'[u] = NoPod
         \/ Placed(u) /\ pod'[u].phase # "none" /\ pod'[u].node = pod[u].node
  BY NobodyAssumption DEF Starts, Ends, Removed, TypeOK, Pods, Placed, Exists
<1>2. UNCHANGED <<cached, found, step, creating, mode>>
  BY DEF Starts, Ends, Removed, creation
<1>3. CreatedAlone'
  BY <1>1, <1>2 DEF NodeInv, CreatedAlone, Exists, NoPod, Placed
<1> QED
  BY <1>1, <1>2, <1>3, PodsOnlyGo DEF NodeInv, Alone

LEMMA NodeLostKeeps ==
    ASSUME TypeOK, NodeInv, NEW n \in Node, NodeLost(n)
    PROVE  NodeInv'
<1>1. ASSUME NEW u \in User
      PROVE  \/ pod'[u] = pod[u]
             \/ Placed(u) /\ pod'[u].phase # "none" /\ pod'[u].node = pod[u].node
  <2>1. CASE pod[u].node = n
    <3>1. pod'[u] = [pod[u] EXCEPT !.phase = "Failed", !.term = TRUE] /\ pod[u] \in Pods
      BY <2>1 DEF NodeLost, TypeOK
    <3>2. pod'[u].phase = "Failed" /\ pod'[u].node = pod[u].node
      BY <3>1 DEF Pods
    <3> QED
      BY <2>1, <3>2, NobodyAssumption DEF NodeInv, Placed
  <2>2. CASE pod[u].node # n
    BY <2>2 DEF NodeLost
  <2> QED
    BY <2>1, <2>2
<1>2. UNCHANGED <<cached, found, step, creating, mode>>
  BY DEF NodeLost, creation
<1>3. CreatedAlone'
  BY <1>1, <1>2 DEF NodeInv, CreatedAlone, Exists, Placed
<1> QED
  BY <1>1, <1>2, <1>3, PodsOnlyGo DEF NodeInv, Alone

\* The end of a creation: its pod has a node or is deleted.
LEMMA EndKeeps ==
    ASSUME TypeOK, NodeInv, NEW u \in User, Ready(u) \/ NotReady(u)
    PROVE  NodeInv'
<1>1. /\ \A v \in User \ {u} : pod'[v] = pod[v]
      /\ pod'[u] \in {pod[u], Deleted(pod[u])}
  BY DEF Ready, NotReady, TypeOK, cluster
<1>2. cached' = cached /\ found' = NoNode /\ step' = "none" /\ creating = u /\ mode = "up"
  BY DEF Ready, NotReady, EndCreation
<1>3. CreatedAlone'
  BY <1>2 DEF CreatedAlone
<1>4. \A v \in User \ {u} : ~Unplaced(v)
  BY <1>2 DEF NodeInv, Alone
<1>5. ~Unplaced(u)'
  <2>1. CASE Ready(u)
    BY <2>1 DEF Ready, NodeInv, Alone, Unplaced, Exists, cluster
  <2>2. CASE NotReady(u)
    <3>1. pod'[u] = Deleted(pod[u])
      BY <2>2 DEF NotReady, TypeOK
    <3> QED
      BY <3>1, DeletedGoes DEF Unplaced, Exists, NoPod, Placed
  <2> QED
    BY <2>1, <2>2
<1> QED
  BY <1>1, <1>2, <1>3, <1>4, <1>5, DeletedGoes, PodsOnlyGo

LEMMA DeleteTerminalKeeps ==
    ASSUME TypeOK, NodeInv, NEW u \in User, DeleteTerminal(u)
    PROVE  NodeInv'
<1>1. /\ \A v \in User \ {u} : pod'[v] = pod[v]
      /\ pod'[u] \in {pod[u], Deleted(pod[u])}
  BY DEF DeleteTerminal, TypeOK
<1>2. UNCHANGED <<cached, found, step, creating, mode>>
  BY DEF DeleteTerminal, creation
<1>3. CreatedAlone'
  BY <1>2 DEF CreatedAlone, DeleteTerminal
<1> QED
  BY <1>1, <1>2, <1>3, DeletedGoes, PodsOnlyGo DEF NodeInv, Alone

LEMMA StartKeeps ==
    ASSUME TypeOK, NodeInv, faults = 0, Start, faults' = 0
    PROVE  NodeInv'
<1>1. PICK seen \in SUBSET {u \in User : Exists(u)} :
        /\ tracked' = {u \in seen : pod[u].phase = "Running"}
        /\ pod' = [u \in User |-> IF u \in seen \ tracked' THEN Deleted(pod[u]) ELSE pod[u]]
        /\ ~\E u \in User \ seen : Exists(u)
  BY DEF Start
<1>2. UNCHANGED <<cached, found, step, creating>> /\ step = "none"
  BY DEF Start, creation, TypeOK
<1>3. \A u \in User : ~Unplaced(u)'
  <2> SUFFICES ASSUME NEW u \in User, Unplaced(u)' PROVE FALSE
    OBVIOUS
  <2>1. CASE u \in seen \ tracked'
    BY <1>1, <2>1, DeletedGoes DEF Unplaced, Exists, NoPod, Placed
  <2>2. CASE u \notin seen \ tracked'
    <3>1. pod'[u] = pod[u]
      BY <1>1, <2>2
    <3> QED
      BY <1>1, <2>2, <3>1 DEF Unplaced, Exists, NodeInv, Alone
  <2> QED
    BY <2>1, <2>2
<1>4. CreatedAlone'
  BY <1>2 DEF CreatedAlone
<1>5. \A u \in User : pod'[u] = pod[u] \/ pod'[u] = NoPod
        \/ (Placed(u) /\ pod'[u].phase # "none" /\ pod'[u].node = pod[u].node)
  BY <1>1, DeletedGoes
<1> QED
  BY <1>2, <1>3, <1>4, <1>5, PodsOnlyGo

LEMMA NextNodeInv ==
    ASSUME TypeOK, NodeInv, faults = 0, [Next]_vars, faults' = 0
    PROVE  NodeInv'
<1>1. ASSUME NEW u \in User, Begin(u) PROVE NodeInv'
  <2>1. UNCHANGED <<pod, cached, mode>> /\ found' = NoNode /\ step' = "volume"
    BY <1>1 DEF Begin, cluster
  <2>2. \A v \in User : ~Unplaced(v)
    BY <1>1, NobodyAssumption DEF Begin, NodeInv, Alone
  <2>3. CreatedAlone'
    BY <2>1 DEF CreatedAlone
  <2> QED
    BY <2>1, <2>2, <2>3, PodsOnlyGo
<1>2. ASSUME NEW u \in User, Raises(u) PROVE NodeInv'
  BY <1>2 DEF Raises
<1>3. CASE Crash
  <2>1. pod' = pod /\ cached' = NoNode /\ found' = NoNode /\ step' = "none" /\ mode' = "down"
    BY <1>3 DEF Crash, EndCreation, cluster
  <2>2. CreatedAlone'
    BY <2>1 DEF CreatedAlone
  <2> QED
    BY <2>1, <2>2, PodsOnlyGo
<1>4. CASE UNCHANGED vars
  <2>1. UNCHANGED <<pod, cached, found, step, creating, mode>>
    BY <1>4 DEF vars, cluster, creation
  <2>2. CreatedAlone'
    BY <2>1 DEF NodeInv, CreatedAlone, Exists
  <2> QED
    BY <2>1, <2>2, PodsOnlyGo DEF NodeInv, Alone
<1> QED
  BY <1>1, <1>2, <1>3, <1>4, ScheduleKeeps, ClusterKeeps, NodeLostKeeps, LookUpKeeps,
     CreatePodKeeps, EndKeeps, DeleteTerminalKeeps, StartKeeps DEF Next

LEMMA IInvOneNode == IInv => OneNode
<1> SUFFICES ASSUME IInv, faults = 0 PROVE OneNode
  BY DEF OneNode
<1> DEFINE S == ({pod[u].node : u \in {v \in User : Exists(v)}} \cup {cached, found}) \ {NoNode}
<1>1. \A m, n \in S : m = n
  BY DEF IInv, NodeInv, Agree, InMind
<1>2. CASE S = {}
  BY <1>2, FS_EmptySet DEF OneNode
<1>3. CASE S # {}
  <2>1. PICK n \in S : TRUE
    BY <1>3
  <2>2. S = {n}
    <3> HIDE DEF S
    <3> QED
      BY <1>1, <2>1
  <2>3. Cardinality(S) = 1
    BY <2>2, FS_Singleton
  <2> QED
    BY <2>3 DEF OneNode
<1> QED
  BY <1>2, <1>3

\* In sharedRWO mode all pods there are, and the node the proxy has in mind, agree
\* on one node until a call raises, whatever the scheduler does and whichever
\* nodes are lost, across crashes and reconciliation.
THEOREM OneNodeUntilCallRaises == Spec => []OneNode
<1>1. Init => IInv
  BY InitTypeOK, InitNodeInv DEF IInv
<1>2. IInv /\ [Next]_vars => IInv'
  BY NextTypeOK, NextNodeInv, FaultsStay DEF IInv
<1> QED
  BY <1>1, <1>2, IInvOneNode, PTL DEF Spec
=============================================================================
