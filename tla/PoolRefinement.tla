--------------------------- MODULE PoolRefinement ---------------------------
(***************************************************************************)
(* The pod manager implements the pool: its table is the pool's terminals, *)
(* the holder of its lock the creator; the queue, the keys, the Kubernetes *)
(* objects, the sequences of calls and the clocks are hidden.              *)
(***************************************************************************)
EXTENDS PodManager

\* What a request's position in get_or_create means to the pool.
StatusOf(r) ==
    CASE pc[r] = "queued"   -> "asking"
      [] pc[r] = "creating" -> "creating"
      [] pc[r] = "proxying" -> "served"
      [] OTHER              -> "idle"

Abstract == INSTANCE Pool WITH
    Nobody <- NoReq,
    Room <- MaxPods,
    up <- mode = "up",
    terminals <- pods,
    creator <- lock,
    status <- [r \in Req |-> StatusOf(r)]

\* Whatever calls fail, sweeps run and processes die, the routes see a pool:
\* one creation at a time, never for a user who has a terminal; one eviction for
\* a creation, only when the pool is full; an error that costs nobody else a terminal
\* (get_or_create 109-142 with everything it calls).
ImplementsPool == Abstract!Spec
=============================================================================
