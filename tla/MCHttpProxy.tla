----------------------------- MODULE MCHttpProxy -----------------------------
(* Small instances of HttpProxy for TLC. *)
EXTENDS HttpProxy, TLC

\* Requests are interchangeable.
ReqSymmetry == Permutations(Req)
=============================================================================
