-------------------------- MODULE MCRollingUpdate --------------------------
(* One user with a request at either proxy. *)
EXTENDS RollingUpdate, TLC

CONSTANTS u1, r1

OnlyUser == r1 :> u1
=============================================================================
