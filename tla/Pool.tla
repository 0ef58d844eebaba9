-------------------------------- MODULE Pool --------------------------------
(***************************************************************************)
(* What the pod manager promises the routes (get_or_create, called through *)
(* get_terminal_for_user), with nothing said of Kubernetes objects, keys,  *)
(* queues or clocks: a pool of at most one terminal per user.              *)
(*                                                                         *)
(* One terminal is created at a time.  It is begun only for a user without *)
(* one, and only with room for it: a full pool gives up one terminal first,*)
(* and never more than one.  A request leaves with its user's terminal, or *)
(* with an error that changes nothing for the other users.  Terminals may  *)
(* vanish at any time, but the one being created does not, and the process *)
(* may die; what it then finds again it has before it answers requests.    *)
(***************************************************************************)
EXTENDS Naturals, FiniteSets

CONSTANTS
    User,        \* users
    Req,         \* requests
    UserOf,      \* the user of each request
    Nobody,      \* no request is creating a terminal
    Room         \* the terminals the pool is meant to hold

VARIABLES
    up,          \* requests are served
    terminals,   \* the users that have a terminal
    creator,     \* the request that a terminal is being created for
    status       \* where each request is with its terminal

poolVars == <<up, terminals, creator, status>>

Init ==
    /\ up = FALSE
    /\ terminals = {}
    /\ creator = Nobody
    /\ status = [r \in Req |-> "idle"]

\* A request asks for its user's terminal.
Ask(r) ==
    /\ up /\ status[r] = "idle"
    /\ status' = [status EXCEPT ![r] = "asking"]
    /\ UNCHANGED <<up, terminals, creator>>

\* It is given the terminal there is.
Share(r) ==
    /\ up /\ status[r] = "asking" /\ creator = Nobody
    /\ UserOf[r] \in terminals
    /\ status' = [status EXCEPT ![r] = "served"]
    /\ UNCHANGED <<up, terminals, creator>>

\* There is none: one is begun, a full pool gives up one of the others.
Begin(r) ==
    /\ up /\ status[r] = "asking" /\ creator = Nobody
    /\ UserOf[r] \notin terminals
    /\ creator' = r
    /\ status' = [status EXCEPT ![r] = "creating"]
    /\ IF Cardinality(terminals) < Room
       THEN terminals' = terminals
       ELSE \E u \in terminals : terminals' = terminals \ {u}
    /\ UNCHANGED up

\* The new terminal is ready.
Grant(r) ==
    /\ up /\ creator = r /\ status[r] = "creating"
    /\ UserOf[r] \notin terminals
    /\ creator' = Nobody
    /\ terminals' = terminals \cup {UserOf[r]}
    /\ status' = [status EXCEPT ![r] = "served"]
    /\ UNCHANGED up

\* It could not be created.
Refuse(r) ==
    /\ up /\ creator = r /\ status[r] = "creating"
    /\ creator' = Nobody
    /\ status' = [status EXCEPT ![r] = "idle"]
    /\ UNCHANGED <<up, terminals>>

\* The request is done with its terminal.
Leave(r) ==
    /\ up /\ status[r] = "served"
    /\ status' = [status EXCEPT ![r] = "idle"]
    /\ UNCHANGED <<up, terminals, creator>>

\* Terminals are taken away, be they in use or not.
Vanish ==
    /\ up
    /\ \E gone \in (SUBSET terminals) \ {{}} : terminals' = terminals \ gone
    /\ UNCHANGED <<up, creator, status>>

\* Before it serves, the pool finds terminals again; no limit is promised here.
Recover(u) ==
    /\ ~up
    /\ terminals' = terminals \cup {u}
    /\ UNCHANGED <<up, creator, status>>

Open ==
    /\ ~up
    /\ up' = TRUE
    /\ UNCHANGED <<terminals, creator, status>>

\* The process dies.
Die ==
    /\ up' = FALSE
    /\ terminals' = {}
    /\ creator' = Nobody
    /\ status' = [r \in Req |-> "idle"]

Next ==
    \/ \E r \in Req : Ask(r) \/ Share(r) \/ Begin(r) \/ Grant(r) \/ Refuse(r) \/ Leave(r)
    \/ \E u \in User : Recover(u)
    \/ Vanish \/ Open \/ Die

Spec == Init /\ [][Next]_poolVars
=============================================================================
