----------------------------- MODULE Middleware -----------------------------
(***************************************************************************)
(* What every HTTP request goes through before and after its route: the    *)
(* size limit and the rate limit (main.py), and the request metrics        *)
(* (metrics.py).  The size limit was added last, so it comes first.        *)
(*                                                                         *)
(* Each client address has a list of the times of its admitted requests;   *)
(* it is trimmed and extended without waiting in between.  The times are   *)
(* those of the system's clock, which may be set back while the proxy      *)
(* runs.  While a route works on one request, others pass.                 *)
(*                                                                         *)
(* Simplifications: all requests are to one method and path (the metrics   *)
(* keep a list for each); a status is an error or it is not.               *)
(***************************************************************************)
EXTENDS Integers, SequencesExt

CONSTANTS
    Client,        \* client addresses
    Req,           \* requests a route is working on
    Limit,         \* REQUESTS_PER_MINUTE (300)
    Window,        \* the minute, in ticks
    MaxSamples,    \* latencies kept at most (1000)
    KeepSamples,   \* latencies kept when there are more (500)
    NotStarted,    \* no time: the route has no request
    MaxTime,       \* bound: time ends here
    MaxSetback,    \* bound: how far the clock may be set back
    MaxRecords     \* bound: how many requests are recorded

ASSUME LimitAssumption == Limit \in Nat /\ Window \in Nat
ASSUME SamplesAssumption == KeepSamples \in Nat /\ MaxSamples \in Nat /\ KeepSamples <= MaxSamples
ASSUME NotStartedAssumption == NotStarted \notin Int
ASSUME BoundsAssumption == MaxTime \in Nat /\ MaxSetback \in Nat /\ MaxRecords \in Nat

VARIABLES
    real,          \* the time
    setback,       \* by how much the clock is behind it
    stamps,        \* request_counts: the clock's time at each client's last requests
    admitted,      \* history: the real times at which each client's requests were admitted
    started,       \* the clock's time at which the route got each request
    latencies,     \* _request_latencies
    recorded,      \* history: all latencies ever recorded
    errors         \* _error_counts

vars == <<real, setback, stamps, admitted, started, latencies, recorded, errors>>

now == real - setback

\* What the clock has shown, and what may lie between two looks at it.
Times == -setback..real

TypeOK ==
    /\ real \in 0..MaxTime /\ setback \in 0..MaxSetback
    /\ stamps \in [Client -> Seq(Times)] /\ \A c \in Client : Len(stamps[c]) <= Limit
    /\ admitted \in [Client -> Seq(0..real)]
    /\ started \in [Req -> Times \cup {NotStarted}]
    /\ latencies \in Seq(Times) /\ Len(latencies) <= MaxSamples
    /\ recorded \in Seq(Times) /\ Len(recorded) <= MaxRecords
    /\ errors \in 0..Len(recorded)

Init ==
    /\ real = 0 /\ setback = 0
    /\ stamps = [c \in Client |-> <<>>]
    /\ admitted = [c \in Client |-> <<>>]
    /\ started = [r \in Req |-> NotStarted]
    /\ latencies = <<>> /\ recorded = <<>>
    /\ errors = 0

-----------------------------------------------------------------------------
(* metrics.py *)

\* record_request
\* (Mutant: it keeps the first samples, not the last.)
TrimmedToFirst(samples) ==
    IF Len(samples) > MaxSamples THEN SubSeq(samples, 1, KeepSamples) ELSE samples

\* (Mutant: it keeps them all.)
TrimmedNever(samples) == samples

Trimmed(samples) ==
    IF Len(samples) > MaxSamples
    THEN SubSeq(samples, Len(samples) - KeepSamples + 1, Len(samples)) ELSE samples

record_request(latency, isError) ==
    /\ Len(recorded) < MaxRecords
    /\ latencies' = Trimmed(Append(latencies, latency))
    /\ recorded' = Append(recorded, latency)
    /\ errors' = IF isError THEN errors + 1 ELSE errors

\* _calculate_percentile: the element of the sorted values at index n*p/100,
\* rounded down, or the last one.
\* (Mutant: the index is counted from one.)
PercentileIndexFromOne(n, p) ==
    LET i == (n * p) \div 100 + 1 IN IF i < n - 1 THEN i ELSE n - 1

PercentileIndex(n, p) == LET i == (n * p) \div 100 IN IF i < n - 1 THEN i ELSE n - 1

\* sorted: the values in an order in which they ascend.
Ascends(values, order) ==
    \A i, j \in DOMAIN values : i < j => values[order[i]] <= values[order[j]]

Sorted(values) ==
    LET order == CHOOSE o \in Bijection(DOMAIN values, DOMAIN values) : Ascends(values, o)
    IN  [i \in DOMAIN values |-> values[order[i]]]

Percentile(values, p) ==
    IF values = <<>> THEN 0
    ELSE Sorted(values)[PercentileIndex(Len(values), p) + 1]

-----------------------------------------------------------------------------
(* main.py *)

\* request_size_limit_middleware: 413, before the rate limit sees the request.
TooLarge ==
    /\ record_request(0, TRUE)
    /\ UNCHANGED <<real, setback, stamps, admitted, started>>

\* The elements of a list at the given places, in their order.
Place(places, i) == Cardinality({j \in places : j <= i})

Kept(list, places) ==
    [n \in 1..Cardinality(places) |-> list[CHOOSE i \in places : Place(places, i) = n]]

\* The client's requests of the last minute.
\* (Mutant: a request is forgotten within its minute.)
FreshStampsShort(c) == Kept(stamps[c], {i \in DOMAIN stamps[c] : now - stamps[c][i] < Window - 1})

FreshStamps(c) == Kept(stamps[c], {i \in DOMAIN stamps[c] : now - stamps[c][i] < Window})

\* rate_limit_middleware: 429.
\* (Mutant: a request that is refused counts like one that is admitted.)
LimitedButCounted(c) ==
    /\ Len(FreshStamps(c)) >= Limit
    /\ stamps' = [stamps EXCEPT ![c] = Append(FreshStamps(c), now)]
    /\ record_request(0, TRUE)
    /\ UNCHANGED <<real, setback, admitted, started>>

Limited(c) ==
    /\ Len(FreshStamps(c)) >= Limit
    /\ stamps' = [stamps EXCEPT ![c] = FreshStamps(c)]
    /\ record_request(0, TRUE)
    /\ UNCHANGED <<real, setback, admitted, started>>

\* The request goes on to its route.
Admit(r, c) ==
    /\ started[r] = NotStarted
    /\ Len(FreshStamps(c)) < Limit
    /\ stamps' = [stamps EXCEPT ![c] = Append(FreshStamps(c), now)]
    /\ admitted' = [admitted EXCEPT ![c] = Append(@, real)]
    /\ started' = [started EXCEPT ![r] = now]
    /\ UNCHANGED <<real, setback, latencies, recorded, errors>>

\* The route has answered.  (The latency is negative when the clock was set
\* back by more than the route took.)
Respond(r, isError) ==
    /\ started[r] # NotStarted
    /\ record_request(now - started[r], isError)
    /\ started' = [started EXCEPT ![r] = NotStarted]
    /\ UNCHANGED <<real, setback, stamps, admitted>>

\* The route has raised what no handler catches: a 500 no metric hears of.
Escape(r) ==
    /\ started[r] # NotStarted
    /\ started' = [started EXCEPT ![r] = NotStarted]
    /\ UNCHANGED <<real, setback, stamps, admitted, latencies, recorded, errors>>

Tick ==
    /\ real < MaxTime
    /\ real' = real + 1
    /\ UNCHANGED <<setback, stamps, admitted, started, latencies, recorded, errors>>

\* Somebody, or a time daemon, sets the clock back.
ClockSetBack ==
    /\ setback < MaxSetback
    /\ setback' = setback + 1
    /\ UNCHANGED <<real, stamps, admitted, started, latencies, recorded, errors>>

Next ==
    \/ TooLarge
    \/ \E c \in Client : Limited(c) \/ \E r \in Req : Admit(r, c)
    \/ \E r \in Req : Escape(r) \/ \E isError \in BOOLEAN : Respond(r, isError)
    \/ Tick \/ ClockSetBack

Spec == Init /\ [][Next]_vars

-----------------------------------------------------------------------------
(* Properties. *)

\* How many of a client's requests were admitted in the Window that ends at t.
AdmittedBefore(c, t) ==
    Cardinality({i \in DOMAIN admitted[c] : admitted[c][i] \in t - Window + 1 .. t})

\* In no minute of real time, wherever it begins, does a client get more than
\* REQUESTS_PER_MINUTE requests through, even if the clock is set back: the list
\* is trimmed by the clock, on use only, and counts admitted requests (207-220).
RateBounded == \A c \in Client : \A t \in 0..real : AdmittedBefore(c, t) <= Limit

\* A client is refused only for requests it was granted within the last minute:
\* refused ones do not count against it, nor do other clients' or older ones,
\* unless the clock was set back.
RefusedForCause ==
    setback = 0 => \A c \in Client : Len(FreshStamps(c)) = AdmittedBefore(c, real)

\* The samples are the latest there were, and enough of them, however often the
\* list has been cut (metrics.py 23-25).
SamplesAreLatest ==
    /\ IsSuffix(latencies, recorded)
    /\ Len(latencies) >= (IF Len(recorded) < KeepSamples THEN Len(recorded) ELSE KeepSamples)

\* A percentile is one of the samples, with at least p of 100 of them up to it
\* and at most p of 100 below it (_calculate_percentile 54-60).
PercentileRight ==
    \A p \in {50, 90, 95, 99} : latencies # <<>> =>
        LET v == Percentile(latencies, p)
            UpTo(w) == Cardinality({i \in DOMAIN latencies : latencies[i] <= w})
            n == Len(latencies)
        IN  /\ v \in ToSet(latencies)
            /\ 100 * UpTo(v) >= p * n /\ 100 * UpTo(v - 1) <= p * n
=============================================================================
