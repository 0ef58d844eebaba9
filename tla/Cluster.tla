------------------------------ MODULE Cluster ------------------------------
(***************************************************************************)
(* The Kubernetes namespace of the terminals, as k8s/client.py uses it.    *)
(*                                                                         *)
(* Every user owns at most one pod, one service, one secret and one PVC,   *)
(* all named after the user's hash (models.py, TerminalPod.create), so a   *)
(* user stands for the four names.  The client calls are synchronous and   *)
(* retried (tenacity, three attempts); an action of the proxy sees one     *)
(* call with its retries as a single step that ends in a Reply:            *)
(*   "ok"     the call was carried out and returned,                       *)
(*   "error"  it was not carried out and raised,                           *)
(*   "lost"   it was carried out, yet raised (the reply was lost and the   *)
(*            retry failed too; a retried create then meets its own 409).  *)
(* A create that finds its object raises whatever the reply (409 is an     *)
(* ApiException); a delete that finds nothing returns (404 is ignored).    *)
(*                                                                         *)
(* Deletion of a pod is graceful: the object stays, Terminating and with   *)
(* the phase it had, until the kubelet is done with it.  A PVC in use by a *)
(* pod stays Terminating until that pod is done.  The pod learns its API  *)
(* key from the secret when its container starts, and only then            *)
(* (secretKeyRef, restartPolicy Never: pod_builder.py).                    *)
(*                                                                         *)
(* Simplifications: node placement, IP addresses and the shared PVC of the *)
(* "shared" modes are left out; the phases Failed and Unknown are one.     *)
(***************************************************************************)
EXTENDS Naturals, FiniteSets

CONSTANTS
    User,          \* the users' hashes
    Key,           \* API keys
    NoKey,         \* no API key: a secret that is not there
    StorageMode,   \* "none", "perUser" or "shared" (config.py, StorageMode)
    MaxAge,        \* bound: ages saturate here
    MaxFaults      \* bound: how many calls may raise

ASSUME UserAssumption == IsFiniteSet(User)
ASSUME NoKeyAssumption == NoKey \notin Key
ASSUME StorageModeAssumption == StorageMode \in {"none", "perUser", "shared"}
ASSUME ClusterBoundsAssumption == MaxAge \in Nat /\ MaxFaults \in Nat

VARIABLES
    kpod,          \* the pod of each user: phase, Terminating mark, the key it runs with
    service,       \* the users that have a service
    secret,        \* the API key in each user's secret
    pvc,           \* each user's PVC and the time since its last-active annotation
    faults         \* how many calls have raised so far

clusterVars == <<kpod, service, secret, pvc, faults>>

PerUser == StorageMode = "perUser"

Ended == {"Succeeded", "Failed"}
Phase == {"none", "Pending", "Running"} \cup Ended
NoPod == [phase |-> "none", term |-> FALSE, key |-> NoKey]
NoPvc == [state |-> "none", age |-> 0]
Pvc == [state : {"none", "bound", "terminating"}, age : 0..MaxAge]

ClusterTypeOK ==
    /\ kpod \in [User -> [phase : Phase, term : BOOLEAN, key : Key \cup {NoKey}]]
    /\ service \subseteq User
    /\ secret \in [User -> Key \cup {NoKey}]
    /\ pvc \in [User -> Pvc]
    /\ faults \in 0..MaxFaults

ClusterInit ==
    /\ kpod = [u \in User |-> NoPod]
    /\ service = {}
    /\ secret = [u \in User |-> NoKey]
    /\ pvc = [u \in User |-> NoPvc]
    /\ faults = 0

-----------------------------------------------------------------------------
(* How a call may end, and what it costs of the bound on faults. *)

Replies == {"ok"} \cup (IF faults < MaxFaults THEN {"error", "lost"} ELSE {})
Took(reply) == reply # "error"
Charge(reply) == faults' = IF reply = "ok" THEN faults ELSE faults + 1

PodExists(u) == kpod[u].phase # "none"
SecretExists(u) == secret[u] # NoKey
PvcExists(u) == pvc[u].state # "none"

(* The calls of k8s/client.py that change the cluster. *)

create_secret(u, k, reply) ==
    secret' = IF Took(reply) /\ ~SecretExists(u) THEN [secret EXCEPT ![u] = k] ELSE secret

create_pod(u, reply) ==
    kpod' = IF Took(reply) /\ ~PodExists(u)
            THEN [kpod EXCEPT ![u] = [phase |-> "Pending", term |-> FALSE, key |-> NoKey]]
            ELSE kpod

create_service(u, reply) ==
    service' = IF Took(reply) THEN service \cup {u} ELSE service

create_pvc(u, reply) ==
    pvc' = IF Took(reply) /\ ~PvcExists(u)
           THEN [pvc EXCEPT ![u] = [state |-> "bound", age |-> 0]]
           ELSE pvc

delete_service(u, reply) ==
    service' = IF Took(reply) THEN service \ {u} ELSE service

delete_pod(u, reply) ==
    kpod' = IF Took(reply) /\ PodExists(u) THEN [kpod EXCEPT ![u].term = TRUE] ELSE kpod

delete_secret(u, reply) ==
    secret' = IF Took(reply) THEN [secret EXCEPT ![u] = NoKey] ELSE secret

delete_pvc(u, reply) ==
    pvc' = IF Took(reply) /\ PvcExists(u)
           THEN [pvc EXCEPT ![u].state = "terminating"]
           ELSE pvc

annotate_pvc(u, reply) ==
    pvc' = IF Took(reply) /\ PvcExists(u) THEN [pvc EXCEPT ![u].age = 0] ELSE pvc

-----------------------------------------------------------------------------
(* What the cluster does by itself. *)

\* Only in perUser mode does a pod mount a claim of its user, and the kubelet
\* mounts none that is being deleted.
ClaimReady(u) == PerUser => pvc[u].state = "bound"

\* What the pod's manifest refers to is there: the secret its environment is
\* filled from, and the claim.
Startable(u) == SecretExists(u) /\ ClaimReady(u)

\* The kubelet starts the container, with the key the secret holds now.
PodStarts(u) ==
    /\ kpod[u].phase = "Pending" /\ ~kpod[u].term
    /\ Startable(u)
    /\ kpod' = [kpod EXCEPT ![u].phase = "Running", ![u].key = secret[u]]
    /\ UNCHANGED <<service, secret, pvc, faults>>

\* The container exits, is killed, or the node is lost.
PodEnds(u, phase) ==
    /\ kpod[u].phase \in {"Pending", "Running"}
    /\ kpod' = [kpod EXCEPT ![u].phase = phase, ![u].key = NoKey]
    /\ UNCHANGED <<service, secret, pvc, faults>>

\* Somebody other than the proxy deletes the pod (a node drain, an operator).
PodDrained(u) ==
    /\ PodExists(u) /\ ~kpod[u].term
    /\ kpod' = [kpod EXCEPT ![u].term = TRUE]
    /\ UNCHANGED <<service, secret, pvc, faults>>

\* The grace period is over: the pod's name is free again.
PodRemoved(u) ==
    /\ kpod[u].term
    /\ kpod' = [kpod EXCEPT ![u] = NoPod]
    /\ UNCHANGED <<service, secret, pvc, faults>>

\* A Terminating PVC goes once no container uses it; whether it waits for a pod
\* that is still Pending depends on how far the pod's scheduling has come.
PvcRemoved(u) ==
    /\ pvc[u].state = "terminating"
    /\ kpod[u].phase # "Running"
    /\ pvc' = [pvc EXCEPT ![u] = NoPvc]
    /\ UNCHANGED <<kpod, service, secret, faults>>

ClusterStep ==
    \E u \in User :
        \/ PodStarts(u)
        \/ \E phase \in Ended : PodEnds(u, phase)
        \/ PodDrained(u)
        \/ PodRemoved(u)
        \/ PvcRemoved(u)

Older(age) == IF age < MaxAge THEN age + 1 ELSE age

\* Time since the last-active annotation of every PVC there is.
PvcsAge == pvc' = [u \in User |-> IF PvcExists(u)
                                  THEN [pvc[u] EXCEPT !.age = Older(@)] ELSE pvc[u]]
=============================================================================
