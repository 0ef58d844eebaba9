--------------------------- MODULE CircuitBreaker ---------------------------
(***************************************************************************)
(* One circuit breaker (circuit_breaker.py) and the HTTP requests to one   *)
(* user's terminal that consult it (proxy/http.py, proxy_request with a    *)
(* pod_key).                                                               *)
(*                                                                         *)
(* The breaker's lock covers each of its three methods whole and none of   *)
(* them waits inside, so a method is one step.  Between can_execute and    *)
(* the outcome a request waits for the pod while others come and go: an    *)
(* outcome may be recorded in another state than the one that admitted     *)
(* the request.  A request also may end without any record: proxy_request  *)
(* records ConnectError and TimeoutException as failures and any response  *)
(* as a success, but a reset connection (ReadError, RemoteProtocolError)   *)
(* and a client that leaves while its body is read pass it by.             *)
(* HttpProxy.tla composes the breaker with the requests' way to the pod.   *)
(*                                                                         *)
(* Simplifications: the time since the last failure saturates at           *)
(* RecoveryTimeout and the failure count at MaxCount; the code compares    *)
(* them with RecoveryTimeout and FailureThreshold only.  History counts    *)
(* saturate one past what they are compared with.                          *)
(***************************************************************************)
EXTENDS Naturals, FiniteSets

CONSTANTS
    Req,                 \* requests, each reused for ever
    FailureThreshold,    \* failure_threshold
    RecoveryTimeout,     \* recovery_timeout, in ticks
    HalfOpenMaxCalls,    \* half_open_max_calls
    MaxCount,            \* bound: failures are counted up to here
    Never                \* _last_failure_time is None

ASSUME ReqAssumption == IsFiniteSet(Req)
ASSUME ThresholdAssumption == FailureThreshold \in Nat \ {0}
ASSUME TimeoutAssumption == RecoveryTimeout \in Nat /\ Never \notin Nat
ASSUME HalfOpenAssumption == HalfOpenMaxCalls \in Nat
ASSUME CountAssumption == MaxCount \in Nat /\ MaxCount >= FailureThreshold

VARIABLES
    state,           \* _state
    failures,        \* _failure_count
    sinceFailure,    \* the time since _last_failure_time
    halfOpenCalls,   \* _half_open_calls
    pc,              \* what each request is doing
    probes,          \* history: the requests admitted since the breaker went half open,
    silent,          \*   the requests that ended without a record since then,
    late             \*   and the failures recorded since it last opened

history == <<probes, silent, late>>
vars == <<state, failures, sinceFailure, halfOpenCalls, pc, history>>

TypeOK ==
    /\ state \in {"closed", "open", "half_open"}
    /\ failures \in 0..MaxCount
    /\ sinceFailure \in 0..RecoveryTimeout \cup {Never}
    /\ halfOpenCalls \in 0..HalfOpenMaxCalls
    /\ pc \in [Req -> {"idle", "sent"}]
    /\ probes \in 0..HalfOpenMaxCalls + 2
    /\ silent \in 0..HalfOpenMaxCalls + 1
    /\ late \in Nat

Init ==
    /\ state = "closed"
    /\ failures = 0
    /\ sinceFailure = Never
    /\ halfOpenCalls = 0
    /\ pc = [r \in Req |-> "idle"]
    /\ probes = 0
    /\ silent = 0
    /\ late = 0

\* One more, up to a bound.
Counted(n, bound) == IF n < bound THEN n + 1 ELSE n

-----------------------------------------------------------------------------
(* can_execute *)

Recovered == sinceFailure # Never /\ sinceFailure >= RecoveryTimeout

\* The breaker would let the next request through.
Admits ==
    \/ state = "closed"
    \/ state = "open" /\ Recovered
    \/ state = "half_open" /\ halfOpenCalls < HalfOpenMaxCalls

\* (Mutant: one trial call more.)
TrialLeftOffByOne == halfOpenCalls <= HalfOpenMaxCalls

TrialLeft == halfOpenCalls < HalfOpenMaxCalls

\* (Mutant: a breaker that has recovered admits requests and stays open.)
CanExecuteStaysOpen(r) ==
    /\ pc[r] = "idle" /\ Admits
    /\ pc' = [pc EXCEPT ![r] = "sent"]
    /\ UNCHANGED <<state, failures, sinceFailure, halfOpenCalls, history>>

\* The request goes out.  (One that is refused gets a 503 and changes nothing.)
CanExecute(r) ==
    /\ pc[r] = "idle"
    /\ pc' = [pc EXCEPT ![r] = "sent"]
    /\ \/ /\ state = "closed"
          /\ UNCHANGED <<state, halfOpenCalls, probes, silent>>
       \/ /\ state = "open" /\ Recovered
          /\ state' = "half_open"
          /\ halfOpenCalls' = 0
          /\ probes' = 1
          /\ silent' = 0
       \/ /\ state = "half_open" /\ TrialLeft
          /\ halfOpenCalls' = halfOpenCalls + 1
          /\ probes' = Counted(probes, HalfOpenMaxCalls + 2)
          /\ UNCHANGED <<state, silent>>
    /\ UNCHANGED <<failures, sinceFailure, late>>

-----------------------------------------------------------------------------
(* The outcome of a request. *)

Ends(r) == pc[r] = "sent" /\ pc' = [pc EXCEPT ![r] = "idle"]

\* Any response of the pod, a 5xx too.
\* (Mutant: a success does not close a half-open breaker.)
RecordSuccessForgetsTrial(r) ==
    /\ Ends(r)
    /\ failures' = IF state = "closed" THEN 0 ELSE failures
    /\ UNCHANGED <<state, sinceFailure, halfOpenCalls, history>>

\* (Mutant: a half-open breaker starts its trials anew instead of closing.)
RecordSuccessRestartsTrials(r) ==
    /\ Ends(r)
    /\ failures' = IF state = "open" THEN failures ELSE 0
    /\ halfOpenCalls' = IF state = "half_open" THEN 0 ELSE halfOpenCalls
    /\ UNCHANGED <<state, sinceFailure, history>>

RecordSuccess(r) ==
    /\ Ends(r)
    /\ failures' = IF state = "open" THEN failures ELSE 0
    /\ state' = IF state = "half_open" THEN "closed" ELSE state
    /\ halfOpenCalls' = IF state = "half_open" THEN 0 ELSE halfOpenCalls
    /\ UNCHANGED <<sinceFailure, history>>

\* ConnectError or TimeoutException.
\* (Mutant: reopening leaves the trial calls counted.)
RecordFailureKeepsTrials(r) ==
    /\ Ends(r)
    /\ failures' = Counted(failures, MaxCount)
    /\ sinceFailure' = 0
    /\ state' = IF state = "closed" /\ failures + 1 < FailureThreshold THEN "closed" ELSE "open"
    /\ late' = IF state = "open" THEN late + 1 ELSE 0
    /\ UNCHANGED <<halfOpenCalls, probes, silent>>

RecordFailure(r) ==
    /\ Ends(r)
    /\ failures' = Counted(failures, MaxCount)
    /\ sinceFailure' = 0
    /\ state' = IF state = "closed" /\ failures + 1 < FailureThreshold THEN "closed" ELSE "open"
    /\ halfOpenCalls' = IF state = "half_open" THEN 0 ELSE halfOpenCalls
    /\ late' = IF state = "open" THEN late + 1 ELSE 0
    /\ UNCHANGED <<probes, silent>>

\* Any other exception: proxy_request records nothing.
Unrecorded(r) ==
    /\ Ends(r)
    /\ silent' = Counted(silent, HalfOpenMaxCalls + 1)
    /\ UNCHANGED <<state, failures, sinceFailure, halfOpenCalls, probes, late>>

Tick ==
    /\ sinceFailure # Never /\ sinceFailure < RecoveryTimeout
    /\ sinceFailure' = sinceFailure + 1
    /\ UNCHANGED <<state, failures, halfOpenCalls, pc, history>>

Outcome(r) == RecordSuccess(r) \/ RecordFailure(r) \/ Unrecorded(r)

Next == (\E r \in Req : CanExecute(r) \/ Outcome(r)) \/ Tick

Spec == Init /\ [][Next]_vars

-----------------------------------------------------------------------------
(* Properties. *)

\* The four fields never contradict each other, in whatever state the late
\* outcomes of earlier requests are recorded: a closed breaker is below the
\* threshold, one that is not has reached it and knows when it last failed,
\* trial calls are counted only while half open, and a half-open breaker has
\* seen no failure for recovery_timeout (circuit_breaker.py 41-90).
BreakerInv ==
    /\ state = "closed" => failures < FailureThreshold
    /\ state # "closed" => failures >= FailureThreshold /\ sinceFailure # Never
    /\ state # "half_open" => halfOpenCalls = 0
    /\ state = "half_open" => Recovered

\* A half-open breaker lets through one request more than half_open_max_calls,
\* the one that makes it half open, and never another, however requests and
\* outcomes of earlier requests interleave (lines 47-62).
ProbesBounded == state = "half_open" => probes <= HalfOpenMaxCalls + 1

\* The requests admitted and not yet ended.
InFlight == {r \in Req : pc[r] = "sent"}

\* No trial of a half-open breaker is lost sight of: each is in flight or has
\* ended without a record, a recorded outcome having ended the half-open state.
\* So a breaker that has used up its trials either waits for one of them or has
\* lost them all (lines 55-62, 66-90).
TrialsAccounted == state = "half_open" => probes <= silent + Cardinality(InFlight)

\* A failure recorded while the breaker is open pushes its recovery back
\* (lines 80-81), but nobody is admitted meanwhile: an outage is prolonged at
\* most once by each request that was in flight when it began.
OutageBounded == state = "open" => late + Cardinality(InFlight) < Cardinality(Req)

\* The breaker stays shut only if all its trial requests ended without a record,
\* more than half_open_max_calls of them: otherwise it would again and again
\* admit a request, however late the outcomes of earlier requests arrive.
ShutOnlyBySilence == []<>(Admits \/ silent > HalfOpenMaxCalls)

\* What proxy_request tells a client it refuses: "Terminal pod is temporarily
\* unavailable" (proxy/http.py:62).  So the breaker will admit requests again.
NeverShutForever == []<>Admits
=============================================================================
