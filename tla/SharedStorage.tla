---------------------------- MODULE SharedStorage ----------------------------
(***************************************************************************)
(* StorageManager (storage.py) in sharedRWO mode: one PVC for all users,   *)
(* which only one node can mount at a time.  The pods are to be placed on  *)
(* one node: get_shared_pvc_node looks for a pod that has the PVC, and a   *)
(* new pod gets that pod's node as its nodeName.  The first node found is  *)
(* kept for the life of the process.                                       *)
(*                                                                         *)
(* The pod manager is reduced to what matters here: creations run one at a *)
(* time under its lock, the lookup and the creation of the pod without     *)
(* giving way to another coroutine, a terminal may be deleted any time,    *)
(* and a restart adopts the running pods and deletes the others.           *)
(* Secrets, keys and services are left out: the calls for them show only   *)
(* as creations that end with their pod left behind.                       *)
(*                                                                         *)
(* External behaviour: a pod without a nodeName is given a node by the     *)
(* scheduler, any node (the volume is one the scheduler can attach         *)
(* anywhere); one with a nodeName bypasses the scheduler; a pod starts on  *)
(* a node that is there, and that no other node's pod keeps from mounting  *)
(* the volume.                                                             *)
(***************************************************************************)
EXTENDS Naturals, FiniteSets

CONSTANTS
    User,          \* the users' hashes
    Nobody,        \* no user: nothing is being created
    Node,          \* the nodes of the cluster
    NoNode,        \* None: no node
    MaxFaults,     \* bound: how many calls may raise
    MaxCrashes,    \* bound: how often the proxy may die
    MaxLosses      \* bound: how many nodes may be lost

ASSUME NobodyAssumption == Nobody \notin User /\ NoNode \notin Node
ASSUME BoundsAssumption == MaxFaults \in Nat /\ MaxCrashes \in Nat /\ MaxLosses \in Nat

VARIABLES
    pod,        \* the pod of each user: phase, node, Terminating mark
    nodes,      \* the nodes that are there
    volume,     \* the shared PVC exists
    tracked,    \* the users in _pods
    creating,   \* the user whose terminal is being created
    step,       \* and what comes next for it
    found,      \* the node the lookup has found for it
    cached,     \* _shared_pvc_node
    mode,       \* "up" while the proxy serves requests
    faults, crashes

cluster == <<pod, nodes, volume>>
creation == <<creating, step, found>>
bounds == <<faults, crashes>>
vars == <<cluster, tracked, creation, cached, mode, bounds>>

Phase == {"none", "Pending", "Running", "Failed"}
NoPod == [phase |-> "none", node |-> NoNode, term |-> FALSE]

Pods == [phase : Phase, node : Node \cup {NoNode}, term : BOOLEAN]

TypeOK ==
    /\ pod \in [User -> Pods]
    /\ nodes \subseteq Node
    /\ volume \in BOOLEAN
    /\ tracked \subseteq User
    /\ creating \in User \cup {Nobody}
    /\ step \in {"none", "volume", "pod", "waiting"}
    /\ creating = Nobody <=> step = "none"
    /\ creating # Nobody => mode = "up" /\ creating \notin tracked
    /\ found \in Node \cup {NoNode} /\ cached \in Node \cup {NoNode}
    /\ mode \in {"down", "up"}
    /\ faults \in 0..MaxFaults /\ crashes \in 0..MaxCrashes

Init ==
    /\ pod = [u \in User |-> NoPod]
    /\ nodes = Node
    /\ volume = FALSE
    /\ tracked = {}
    /\ creating = Nobody /\ step = "none" /\ found = NoNode
    /\ cached = NoNode
    /\ mode = "down"
    /\ faults = 0 /\ crashes = 0

Exists(u) == pod[u].phase # "none"
Placed(u) == Exists(u) /\ pod[u].node # NoNode

-----------------------------------------------------------------------------
(* The cluster. *)

\* The scheduler places a pod.
Schedule(u, n) ==
    /\ pod[u].phase = "Pending" /\ pod[u].node = NoNode /\ ~pod[u].term
    /\ n \in nodes
    /\ pod' = [pod EXCEPT ![u].node = n]
    /\ UNCHANGED <<nodes, volume, tracked, creation, cached, mode, bounds>>

\* The nodes that have the volume mounted.
Mounting == {pod[u].node : u \in {v \in User : pod[v].phase = "Running"}}

Starts(u) ==
    /\ pod[u].phase = "Pending" /\ ~pod[u].term
    /\ pod[u].node \in nodes /\ volume
    /\ Mounting \subseteq {pod[u].node}
    /\ pod' = [pod EXCEPT ![u].phase = "Running"]
    /\ UNCHANGED <<nodes, volume, tracked, creation, cached, mode, bounds>>

\* A pod ends, or was never accepted by the node it was given.
Ends(u) ==
    /\ Placed(u) /\ pod[u].phase \in {"Pending", "Running"}
    /\ pod' = [pod EXCEPT ![u].phase = "Failed"]
    /\ UNCHANGED <<nodes, volume, tracked, creation, cached, mode, bounds>>

\* A deleted pod goes: one that was never placed at once, any other in time.
Removed(u) ==
    /\ pod[u].term
    /\ pod' = [pod EXCEPT ![u] = NoPod]
    /\ UNCHANGED <<nodes, volume, tracked, creation, cached, mode, bounds>>

\* A node is lost: its pods fail, and are deleted.
NodeLost(n) ==
    /\ n \in nodes /\ Cardinality(Node \ nodes) < MaxLosses
    /\ nodes' = nodes \ {n}
    /\ pod' = [u \in User |-> IF pod[u].node = n
                              THEN [pod[u] EXCEPT !.phase = "Failed", !.term = TRUE]
                              ELSE pod[u]]
    /\ UNCHANGED <<volume, tracked, creation, cached, mode, bounds>>

Deleted(p) == IF p.phase = "none" \/ p.node = NoNode THEN NoPod ELSE [p EXCEPT !.term = TRUE]

-----------------------------------------------------------------------------
(* get_or_create and _create_pod_resources *)

\* (Mutant: the table is not looked at.)
BeginAgain(u) ==
    /\ mode = "up" /\ creating = Nobody
    /\ creating' = u /\ step' = "volume" /\ found' = NoNode
    /\ UNCHANGED <<cluster, tracked, cached, mode, bounds>>

Begin(u) ==
    /\ mode = "up" /\ creating = Nobody /\ u \notin tracked
    /\ creating' = u /\ step' = "volume" /\ found' = NoNode
    /\ UNCHANGED <<cluster, tracked, cached, mode, bounds>>

EndCreation == creating' = Nobody /\ step' = "none" /\ found' = NoNode

\* ensure_shared_pvc and get_shared_pvc_node: the node kept from an earlier
\* lookup, else the node of the first pod listed with the PVC, which may have
\* none yet.  (Names decide which is listed first: any may be.)
\* (Mutant: pods that are being deleted are not looked at.)
NodesFoundAmongLive ==
    IF cached # NoNode THEN {cached}
    ELSE IF \E v \in User : Exists(v) /\ ~pod[v].term
         THEN {pod[v].node : v \in {w \in User : Exists(w) /\ ~pod[w].term}} ELSE {NoNode}

NodesFound ==
    IF cached # NoNode THEN {cached}
    ELSE IF \E v \in User : Exists(v)
         THEN {pod[v].node : v \in {w \in User : Exists(w)}} ELSE {NoNode}

LookUp(u) ==
    /\ mode = "up" /\ creating = u /\ step = "volume"
    /\ volume' = TRUE
    /\ \E n \in NodesFound : found' = n /\ cached' = n
    /\ step' = "pod"
    /\ UNCHANGED <<pod, nodes, tracked, creating, mode, bounds>>

\* create_pod with the node found, or without any: a pod of that name that is
\* still there makes it raise (409).
CreatePod(u) ==
    /\ mode = "up" /\ creating = u /\ step = "pod"
    /\ IF Exists(u)
       THEN EndCreation /\ UNCHANGED pod
       ELSE /\ pod' = [pod EXCEPT ![u] = [phase |-> "Pending", node |-> found, term |-> FALSE]]
            /\ step' = "waiting"
            /\ UNCHANGED <<creating, found>>
    /\ UNCHANGED <<nodes, volume, tracked, cached, mode, bounds>>

Ready(u) ==
    /\ mode = "up" /\ creating = u /\ step = "waiting"
    /\ pod[u].phase = "Running"
    /\ tracked' = tracked \cup {u}
    /\ EndCreation
    /\ UNCHANGED <<cluster, cached, mode, bounds>>

\* Not ready in time, or failed: the pod is deleted again.
NotReady(u) ==
    /\ mode = "up" /\ creating = u /\ step = "waiting"
    /\ pod' = [pod EXCEPT ![u] = Deleted(@)]
    /\ EndCreation
    /\ UNCHANGED <<nodes, volume, tracked, cached, mode, bounds>>

\* A call raises: what has been created stays.
Raises(u) ==
    /\ mode = "up" /\ creating = u
    /\ faults < MaxFaults /\ faults' = faults + 1
    /\ EndCreation
    /\ UNCHANGED <<cluster, tracked, cached, mode, crashes>>

-----------------------------------------------------------------------------
(* Evictions and sweeps; the proxy's death and return. *)

\* Only between two polls of a creation do other coroutines run.
DeleteTerminal(u) ==
    /\ mode = "up" /\ step \in {"none", "waiting"} /\ u \in tracked
    /\ tracked' = tracked \ {u}
    /\ \/ pod' = [pod EXCEPT ![u] = Deleted(@)] /\ UNCHANGED faults
       \/ faults < MaxFaults /\ faults' = faults + 1 /\ UNCHANGED pod
    /\ UNCHANGED <<nodes, volume, creation, cached, mode, crashes>>

Crash ==
    /\ mode = "up" /\ crashes < MaxCrashes
    /\ crashes' = crashes + 1
    /\ mode' = "down"
    /\ tracked' = {}
    /\ cached' = NoNode
    /\ EndCreation
    /\ UNCHANGED <<cluster, faults>>

\* lifespan makes sure of the PVC, and goes on if it cannot; start adopts what
\* runs and deletes the rest, pod by pod until a call raises.
Start ==
    /\ mode = "down" /\ mode' = "up"
    /\ \E ensured \in BOOLEAN : \E seen \in SUBSET {u \in User : Exists(u)} :
         /\ volume' = (volume \/ ensured)
         /\ tracked' = {u \in seen : pod[u].phase = "Running"}
         /\ pod' = [u \in User |-> IF u \in seen \ tracked' THEN Deleted(pod[u]) ELSE pod[u]]
         /\ faults' = faults + (IF ensured THEN 0 ELSE 1)
                             + (IF \E u \in User \ seen : Exists(u) THEN 1 ELSE 0)
    /\ faults' <= MaxFaults
    /\ UNCHANGED <<nodes, creation, cached, crashes>>

Next ==
    \/ \E u \in User :
        \/ \E n \in Node : Schedule(u, n)
        \/ Starts(u) \/ Ends(u) \/ Removed(u)
        \/ Begin(u) \/ LookUp(u) \/ CreatePod(u)
        \/ Ready(u) \/ NotReady(u) \/ Raises(u)
        \/ DeleteTerminal(u)
    \/ \E n \in Node : NodeLost(n)
    \/ Crash \/ Start

Spec == Init /\ [][Next]_vars

-----------------------------------------------------------------------------
(* Properties. *)

\* As long as no call has raised, the pods there are, those that are going
\* included, and the node the proxy has in mind agree on one node: nobody waits
\* for a volume that is mounted elsewhere.  It rests on the lock, which keeps a
\* pod without a node from being looked at (storage.py 61-70, client.py 294-304).
OneNode ==
    faults = 0 =>
        Cardinality(({pod[u].node : u \in {v \in User : Exists(v)}} \cup {cached, found})
                        \ {NoNode}) <= 1
=============================================================================
