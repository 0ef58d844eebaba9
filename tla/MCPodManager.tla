---------------------------- MODULE MCPodManager ----------------------------
(* Small instances of PodManager for TLC. *)
EXTENDS PoolRefinement, TLC

CONSTANTS u1, u2, r1, r2, r3

\* One request of each user.
OneEach == r1 :> u1 @@ r2 :> u2

\* Two requests of the first user, one of the second.
TwoAndOne == r1 :> u1 @@ r2 :> u1 @@ r3 :> u2

\* A single user with one request, or with two.
OnlyUser == r1 :> u1
Both == r1 :> u1 @@ r2 :> u1

\* Keys are interchangeable.
KeySymmetry == Permutations(Key)
=============================================================================
