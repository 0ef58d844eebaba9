------------------------------ MODULE Storage ------------------------------
(***************************************************************************)
(* StorageManager (storage.py) in perUser mode: the PVC of a user is       *)
(* created or found again, annotated when its user is active, deleted with *)
(* the terminal when PVCs are not retained, and swept after a retention    *)
(* time when they are.  Errors of annotating and deleting are logged and   *)
(* swallowed; errors of reading and creating are raised.                   *)
(*                                                                         *)
(* The operators are parts of the pod manager's actions: they give the     *)
(* next value of pvc and, for create_user_pvc, say whether it raises.      *)
(***************************************************************************)
EXTENDS Cluster

CONSTANTS
    RetainPvc,     \* storage_retain_pvc
    Ttl            \* storage_pvc_retention_ttl_seconds, in ticks; 0: for ever

ASSUME StorageAssumption == RetainPvc \in BOOLEAN /\ Ttl \in Nat

\* touch_pvc: annotate the PVC with the current time, whatever comes back.
touch_pvc(u, reply) == annotate_pvc(u, reply)

\* delete_user_pvc, whatever comes back.
delete_user_pvc(u, reply) ==
    IF PerUser THEN delete_pvc(u, reply) ELSE UNCHANGED pvc

\* create_user_pvc after its get_pvc has answered: a PVC that is there, be it
\* Terminating, is taken as it is and touched; otherwise one is created.
create_user_pvc(u, reply) ==
    IF PvcExists(u) THEN touch_pvc(u, reply) ELSE create_pvc(u, reply)

CreateUserPvcRaises(u, reply) == ~PvcExists(u) /\ reply # "ok"

\* The last part of _delete_pod: keep the PVC, stamped, or delete it too.
release_pvc(u, reply) ==
    IF RetainPvc THEN touch_pvc(u, reply) ELSE delete_user_pvc(u, reply)

\* cleanup_expired_pvcs: the PVCs it deletes, given the users it takes for active.
SweepsPvcs == RetainPvc /\ Ttl > 0 /\ PerUser

\* (Mutant: the sweep does not look at the active users.)
ExpiredPvcsOfAll(active) == {u \in User : pvc[u].state = "bound" /\ pvc[u].age > Ttl}

ExpiredPvcs(active) ==
    {u \in User \ active : pvc[u].state = "bound" /\ pvc[u].age > Ttl}

\* Deletes the expired PVCs one by one: a delete that fails is logged and skipped
\* (these faults are not counted), and the process may die on the way.
cleanup_expired_pvcs(active) ==
    /\ SweepsPvcs
    /\ \E gone \in (SUBSET ExpiredPvcs(active)) \ {{}} :
         pvc' = [u \in User |-> IF u \in gone
                                THEN [pvc[u] EXCEPT !.state = "terminating"] ELSE pvc[u]]
    /\ UNCHANGED faults
=============================================================================
