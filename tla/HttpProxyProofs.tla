--------------------------- MODULE HttpProxyProofs ---------------------------
(* The circuit breaker's invariants, for every threshold, timeout and limit *)
(* and every number of requests; that the HTTP proxy keeps them; and that a *)
(* request's key is never staler than the terminal it was given.            *)
EXTENDS HttpProxy, FiniteSetTheorems, TLAPS

-----------------------------------------------------------------------------
(* The breaker. *)

\* The request that makes the breaker half open is not counted, the others are.
ProbesAccounted == state = "half_open" => probes = halfOpenCalls + 1

\* The inductive invariant but for OutageBounded, which rests on it.
IInv == TypeOK /\ BreakerInv /\ ProbesAccounted

LEMMA InitIInv == Init => IInv
BY ThresholdAssumption, CountAssumption, HalfOpenAssumption, TimeoutAssumption
   DEF Init, IInv, TypeOK, BreakerInv, ProbesAccounted

\* Each method of the breaker, called in whatever state, keeps the invariant.
LEMMA NextIInv == IInv /\ [Next]_vars => IInv'
<1> SUFFICES ASSUME IInv, [Next]_vars PROVE IInv'
  OBVIOUS
<1> USE ThresholdAssumption, CountAssumption, HalfOpenAssumption, TimeoutAssumption
<1> USE DEF IInv, TypeOK, BreakerInv, ProbesAccounted, Recovered, Counted, history
<1>1. ASSUME NEW r \in Req, CanExecute(r) PROVE IInv'
  <2>1. CASE state = "closed"
    BY <1>1, <2>1 DEF CanExecute
  <2>2. CASE state = "open" /\ Recovered
    BY <1>1, <2>2 DEF CanExecute
  <2>3. CASE state = "half_open" /\ TrialLeft
    BY <1>1, <2>3 DEF CanExecute, TrialLeft
  <2> QED
    BY <1>1, <2>1, <2>2, <2>3 DEF CanExecute
<1>2. ASSUME NEW r \in Req, RecordSuccess(r) PROVE IInv'
  BY <1>2 DEF RecordSuccess, Ends
<1>3. ASSUME NEW r \in Req, RecordFailure(r) PROVE IInv'
  BY <1>3 DEF RecordFailure, Ends
<1>4. ASSUME NEW r \in Req, Unrecorded(r) PROVE IInv'
  BY <1>4 DEF Unrecorded, Ends
<1>5. CASE Tick
  BY <1>5 DEF Tick
<1>6. CASE UNCHANGED vars
  BY <1>6 DEF vars
<1> QED
  BY <1>1, <1>2, <1>3, <1>4, <1>5, <1>6 DEF Next, Outcome

\* A request that ends leaves one fewer in flight, and fewer than there are.
LEMMA EndsInFlight ==
    ASSUME TypeOK, NEW r \in Req, Ends(r)
    PROVE  /\ Cardinality(InFlight) \in Nat /\ Cardinality(InFlight') \in Nat
           /\ Cardinality(InFlight') = Cardinality(InFlight) - 1
           /\ Cardinality(InFlight) <= Cardinality(Req)
<1>1. InFlight \subseteq Req /\ r \in InFlight /\ InFlight' = InFlight \ {r}
  BY DEF InFlight, Ends, TypeOK
<1>2. IsFiniteSet(InFlight) /\ Cardinality(InFlight) <= Cardinality(Req)
  BY <1>1, ReqAssumption, FS_Subset
<1>3. IsFiniteSet(InFlight') /\ Cardinality(InFlight') = Cardinality(InFlight) - 1
  BY <1>1, <1>2, FS_RemoveElement
<1> QED
  BY <1>2, <1>3, FS_CardinalityType

\* A breaker that is open admits nobody: each late failure uses up one of the
\* requests that were in flight when it opened.
LEMMA NextOutageBounded ==
    ASSUME IInv, OutageBounded, [Next]_vars
    PROVE  OutageBounded'
<1> USE DEF OutageBounded, IInv, TypeOK
<1>1. ASSUME NEW r \in Req, CanExecute(r) PROVE OutageBounded'
  BY <1>1 DEF CanExecute
<1>2. ASSUME NEW r \in Req, RecordSuccess(r) PROVE OutageBounded'
  <2>1. state' = "open" => state = "open" /\ late' = late
    BY <1>2 DEF RecordSuccess, history
  <2> QED
    BY <1>2, <2>1, ReqAssumption, FS_CardinalityType, EndsInFlight DEF RecordSuccess
<1>3. ASSUME NEW r \in Req, RecordFailure(r) PROVE OutageBounded'
  <2>1. CASE state = "open"
    BY <1>3, <2>1, ReqAssumption, FS_CardinalityType, EndsInFlight DEF RecordFailure
  <2>2. CASE state # "open"
    BY <1>3, <2>2, ReqAssumption, FS_CardinalityType, EndsInFlight DEF RecordFailure
  <2> QED
    BY <2>1, <2>2
<1>4. ASSUME NEW r \in Req, Unrecorded(r) PROVE OutageBounded'
  BY <1>4, ReqAssumption, FS_CardinalityType, EndsInFlight DEF Unrecorded
<1>5. CASE Tick
  BY <1>5 DEF Tick, InFlight, history
<1>6. CASE UNCHANGED vars
  BY <1>6 DEF vars, InFlight, history
<1> QED
  BY <1>1, <1>2, <1>3, <1>4, <1>5, <1>6 DEF Next, Outcome

\* A request admitted is one more in flight.
LEMMA AdmittedInFlight ==
    ASSUME TypeOK, NEW r \in Req, CanExecute(r)
    PROVE  /\ Cardinality(InFlight) \in Nat
           /\ Cardinality(InFlight') = Cardinality(InFlight) + 1
<1>1. r \notin InFlight /\ InFlight' = InFlight \cup {r}
  BY DEF InFlight, CanExecute, TypeOK
<1>2. IsFiniteSet(InFlight)
  BY ReqAssumption, FS_Subset DEF InFlight
<1> QED
  BY <1>1, <1>2, FS_AddElement, FS_CardinalityType

\* While the breaker is half open a request that ends leaves the flight without a
\* record: a record would have ended the half-open state.
LEMMA NextTrialsAccounted ==
    ASSUME IInv, TrialsAccounted, [Next]_vars
    PROVE  TrialsAccounted'
<1> USE HalfOpenAssumption DEF TrialsAccounted, IInv, TypeOK
<1>1. ASSUME NEW r \in Req, CanExecute(r) PROVE TrialsAccounted'
  <2>1. /\ Cardinality(InFlight) \in Nat
        /\ Cardinality(InFlight') = Cardinality(InFlight) + 1
    BY <1>1, AdmittedInFlight
  <2>2. CASE state = "closed"
    BY <1>1, <2>2 DEF CanExecute
  <2>3. CASE state = "open" /\ Recovered
    BY <1>1, <2>1, <2>3 DEF CanExecute
  <2>4. CASE state = "half_open" /\ TrialLeft
    BY <1>1, <2>1, <2>4 DEF CanExecute, Counted
  <2> QED
    BY <1>1, <2>2, <2>3, <2>4 DEF CanExecute
<1>2. ASSUME NEW r \in Req, RecordSuccess(r) PROVE TrialsAccounted'
  BY <1>2 DEF RecordSuccess
<1>3. ASSUME NEW r \in Req, RecordFailure(r) PROVE TrialsAccounted'
  BY <1>3 DEF RecordFailure
<1>4. ASSUME NEW r \in Req, Unrecorded(r) PROVE TrialsAccounted'
  <2>1. /\ Cardinality(InFlight) \in Nat /\ Cardinality(InFlight') \in Nat
        /\ Cardinality(InFlight') = Cardinality(InFlight) - 1
    BY <1>4, EndsInFlight DEF Unrecorded
  <2>2. state' = state /\ probes' = probes /\ silent' = Counted(silent, HalfOpenMaxCalls + 1)
    BY <1>4 DEF Unrecorded
  <2>3. state = "half_open" => probes <= HalfOpenMaxCalls + 1
    BY DEF ProbesAccounted
  <2> QED
    BY <2>1, <2>2, <2>3 DEF Counted
<1>5. CASE Tick
  BY <1>5 DEF Tick, InFlight, history
<1>6. CASE UNCHANGED vars
  BY <1>6 DEF vars, InFlight, history
<1> QED
  BY <1>1, <1>2, <1>3, <1>4, <1>5, <1>6 DEF Next, Outcome

\* Every value the breaker's fields take is one of their type (lines 22-34).
THEOREM BreakerTypeCorrect == Spec => []TypeOK
<1>1. IInv => TypeOK
  BY DEF IInv
<1> QED
  BY InitIInv, NextIInv, <1>1, PTL DEF Spec

\* The four fields of the breaker never contradict each other, whatever late
\* outcomes are recorded (circuit_breaker.py 41-90).
THEOREM BreakerCorrect == Spec => []BreakerInv
<1>1. IInv => BreakerInv
  BY DEF IInv
<1> QED
  BY InitIInv, NextIInv, <1>1, PTL DEF Spec

\* Late failures push the recovery of an open breaker back (line 81), but each
\* request in flight does so at most once, for any number of them.
THEOREM OutagesBounded == Spec => []OutageBounded
<1>1. Init => OutageBounded
  BY DEF Init, OutageBounded
<1>2. IInv /\ OutageBounded /\ [Next]_vars => OutageBounded'
  BY NextOutageBounded
<1> QED
  BY InitIInv, NextIInv, <1>1, <1>2, PTL DEF Spec

\* What the code guarantees in place of half_open_max_calls: at most one more.
THEOREM AtMostOneMoreProbe == Spec => []ProbesBounded
<1>1. IInv => ProbesBounded
  BY HalfOpenAssumption DEF IInv, TypeOK, ProbesAccounted, ProbesBounded
<1> QED
  BY InitIInv, NextIInv, <1>1, PTL DEF Spec

\* An open or half-open breaker that has failed within recovery_timeout admits
\* nobody: whatever late outcome is recorded, a failing pod is left alone.
THEOREM FailingPodLeftAlone ==
    Spec => [][state # "closed" /\ ~Recovered => \A r \in Req : ~CanExecute(r)]_vars
<1>1. IInv => (state # "closed" /\ ~Recovered => \A r \in Req : ~CanExecute(r))
  BY DEF IInv, BreakerInv, CanExecute
<1> QED
  BY InitIInv, NextIInv, <1>1, PTL DEF Spec

\* No trial of a half-open breaker is lost sight of: each is in flight or has
\* ended without a record (circuit_breaker.py 55-62, 66-90), for any number of
\* requests and trials.
THEOREM EveryTrialAccounted == Spec => []TrialsAccounted
<1>1. Init => TrialsAccounted
  BY DEF Init, TrialsAccounted
<1>2. IInv /\ TrialsAccounted /\ [Next]_vars => TrialsAccounted'
  BY NextTrialsAccounted
<1> QED
  BY InitIInv, NextIInv, <1>1, <1>2, PTL DEF Spec

-----------------------------------------------------------------------------
(* The composition implements the breaker. *)

LEMMA ProxyStepIsBreakerStep == [ProxyNext]_proxyVars => [Next]_vars
<1> SUFFICES ASSUME [ProxyNext]_proxyVars PROVE [Next]_vars
  OBVIOUS
<1>1. CASE TerminalCreated \/ TerminalDeleted \/ PodDies
  BY <1>1 DEF TerminalCreated, TerminalDeleted, PodDies
<1>2. CASE OthersConnect \/ OthersDisconnect
  BY <1>2 DEF OthersConnect, OthersDisconnect
<1>3. ASSUME NEW r \in Req, Request(r) PROVE Next
  BY <1>3 DEF Request, Next
<1>4. ASSUME NEW r \in Req, Advances(r) PROVE UNCHANGED vars
  BY <1>4 DEF Advances, BodyRead, Connect
<1>5. ASSUME NEW r \in Req, Completes(r) PROVE Next
  BY <1>5 DEF Completes, ClientLeaves, NoConnection, Answered, NoAnswer, ConnectionLost,
              Next, Outcome
<1>6. CASE Passes
  BY <1>6 DEF Passes, Next
<1>7. CASE UNCHANGED proxyVars
  BY <1>7 DEF proxyVars
<1> QED
  BY <1>1, <1>2, <1>3, <1>4, <1>5, <1>6, <1>7 DEF ProxyNext

\* Whatever the proxy, the terminals and the other users do, the breaker is
\* used as its module says (proxy_request calls it nowhere else): the registry
\* keeps one breaker, and every theorem about the breaker holds in the proxy.
THEOREM ProxyImplementsBreaker == ProxySpec => Spec
<1>1. ProxyInit => Init
  BY DEF ProxyInit
<1> QED
  BY <1>1, ProxyStepIsBreakerStep, PTL DEF ProxySpec, Spec

\* So the breaker's invariants hold in the proxy, whatever becomes of terminals,
\* pods and connections while requests wait (proxy/http.py 52-120).
THEOREM ProxyKeepsBreaker ==
    ProxySpec => [](BreakerInv /\ ProbesBounded /\ OutageBounded /\ TrialsAccounted)
BY ProxyImplementsBreaker, BreakerCorrect, AtMostOneMoreProbe, OutagesBounded,
   EveryTrialAccounted, PTL

-----------------------------------------------------------------------------
(* Types, and what a request's key can be. *)

LEMMA InitProxyTypeOK == ProxyInit => ProxyTypeOK
<1> SUFFICES ASSUME ProxyInit PROVE ProxyTypeOK
  OBVIOUS
<1>1. TypeOK
  BY InitIInv DEF ProxyInit, IInv
<1>2. pc = [r \in Req |-> "idle"]
  BY DEF ProxyInit, Init
<1> QED
  BY <1>1, <1>2, PoolAssumption DEF ProxyInit, ProxyTypeOK, Terminals

\* What Done and the breaker's record of an outcome do to the request's place.
LEMMA DoneTypes ==
    ASSUME ProxyTypeOK, NEW r \in Req, Ends(r), Done(r), TypeOK'
    PROVE  ProxyTypeOK'
BY PoolAssumption DEF ProxyTypeOK, TypeOK, Ends, Done, podVars, Terminals

LEMMA ConnectionsType ==
    ASSUME ProxyTypeOK
    PROVE  Connections \in Nat /\ others <= Connections
<1>1. IsFiniteSet({r \in Req : stage[r] = "wire"})
  BY ReqAssumption, FS_Subset
<1>2. Cardinality({r \in Req : stage[r] = "wire"}) \in Nat
  BY <1>1, FS_CardinalityType
<1> QED
  BY <1>2, PoolAssumption DEF ProxyTypeOK, Connections

LEMMA NextProxyTypeOK ==
    ASSUME IInv, ProxyTypeOK, [ProxyNext]_proxyVars
    PROVE  ProxyTypeOK'
<1>0. TypeOK'
  BY ProxyStepIsBreakerStep, NextIInv DEF IInv
<1>1. CASE TerminalCreated
  BY <1>0, <1>1, PoolAssumption
     DEF TerminalCreated, ProxyTypeOK, Terminals, vars, requestVars
<1>2. CASE TerminalDeleted
  BY <1>0, <1>2, PoolAssumption
     DEF TerminalDeleted, ProxyTypeOK, Terminals, vars, requestVars
<1>3. CASE PodDies
  BY <1>0, <1>3, PoolAssumption
     DEF PodDies, ProxyTypeOK, Terminals, vars, requestVars
<1>4. CASE OthersConnect
  BY <1>0, <1>4, PoolAssumption, ConnectionsType
     DEF OthersConnect, ProxyTypeOK, Terminals, vars, podVars, requestVars
<1>5. CASE OthersDisconnect
  BY <1>0, <1>5, PoolAssumption
     DEF OthersDisconnect, ProxyTypeOK, Terminals, vars, podVars, requestVars
<1>6. ASSUME NEW r \in Req, Request(r) PROVE ProxyTypeOK'
  <2>1. pc' = [pc EXCEPT ![r] = "sent"]
    BY <1>6 DEF Request, CanExecute
  <2>2. stage' = [stage EXCEPT ![r] = "body"] /\ held' = [held EXCEPT ![r] = terminal]
    BY <1>6 DEF Request
  <2>3. \A q \in Req : pc'[q] = "sent" <=> stage'[q] # "none"
    BY <2>1, <2>2 DEF ProxyTypeOK, TypeOK
  <2> QED
    BY <1>0, <1>6, <2>2, <2>3, PoolAssumption DEF Request, ProxyTypeOK, Terminals, podVars
<1>7. ASSUME NEW r \in Req, BodyRead(r) PROVE ProxyTypeOK'
  BY <1>0, <1>7 DEF BodyRead, ProxyTypeOK, vars, podVars
<1>8. ASSUME NEW r \in Req, Connect(r) PROVE ProxyTypeOK'
  BY <1>0, <1>8, PoolAssumption DEF Connect, ProxyTypeOK, vars, podVars, Terminals
<1>9. ASSUME NEW r \in Req, Completes(r) PROVE ProxyTypeOK'
  <2>1. CASE ClientLeaves(r)
    BY <1>0, <2>1, DoneTypes DEF ClientLeaves, Unrecorded, ProxyTypeOK
  <2>2. CASE NoConnection(r)
    BY <1>0, <2>2, DoneTypes DEF NoConnection, RecordFailure, ProxyTypeOK
  <2>3. CASE Answered(r)
    BY <1>0, <2>3, DoneTypes DEF Answered, RecordSuccess, ProxyTypeOK
  <2>4. CASE NoAnswer(r)
    BY <1>0, <2>4, DoneTypes DEF NoAnswer, RecordFailure, ProxyTypeOK
  <2>5. CASE ConnectionLost(r)
    BY <1>0, <2>5, DoneTypes DEF ConnectionLost, Unrecorded, ProxyTypeOK
  <2> QED
    BY <1>9, <2>1, <2>2, <2>3, <2>4, <2>5 DEF Completes
<1>10. CASE Passes
  BY <1>0, <1>10 DEF Passes, Tick, ProxyTypeOK, podVars, requestVars
<1>11. CASE UNCHANGED proxyVars
  BY <1>0, <1>11 DEF proxyVars, vars, podVars, requestVars, ProxyTypeOK
<1> QED
  BY <1>1, <1>2, <1>3, <1>4, <1>5, <1>6, <1>7, <1>8, <1>9, <1>10, <1>11
     DEF ProxyNext, Advances

\* Every state of the proxy and its breaker has the types of the variables;
\* a request is past the breaker exactly while it waits for something.
THEOREM ProxyTypeCorrect == ProxySpec => []ProxyTypeOK
<1>1. ProxyInit => IInv /\ ProxyTypeOK
  BY InitIInv, InitProxyTypeOK DEF ProxyInit
<1>2. IInv /\ ProxyTypeOK /\ [ProxyNext]_proxyVars => (IInv /\ ProxyTypeOK)'
  BY NextIInv, ProxyStepIsBreakerStep, NextProxyTypeOK
<1> QED
  BY <1>1, <1>2, PTL DEF ProxySpec

\* Terminals are numbered as they are made: the one there is was made last, a
\* request holds a number that was given, and reaches a pod no older than it;
\* when it reaches a newer one, the terminal it holds is no more.
NumberedInOrder ==
    /\ terminal \in {0, made}
    /\ \A r \in Req : stage[r] # "none" => held[r] # 0 /\ held[r] <= made
    /\ \A r \in Req : reached[r] # 0 =>
         /\ stage[r] = "wire"
         /\ held[r] <= reached[r] /\ reached[r] <= made
         /\ reached[r] # held[r] => terminal # held[r]

LEMMA NextNumberedInOrder ==
    ASSUME ProxyTypeOK, NumberedInOrder, [ProxyNext]_proxyVars
    PROVE  NumberedInOrder'
<1> USE PoolAssumption DEF ProxyTypeOK, Terminals, NumberedInOrder
<1>1. CASE TerminalCreated
  BY <1>1 DEF TerminalCreated, requestVars
<1>2. CASE TerminalDeleted
  BY <1>2 DEF TerminalDeleted, requestVars
<1>3. CASE PodDies \/ OthersConnect \/ OthersDisconnect
  BY <1>3 DEF PodDies, OthersConnect, OthersDisconnect, podVars, requestVars
<1>4. ASSUME NEW r \in Req, Request(r) PROVE NumberedInOrder'
  <2>1. stage[r] = "none" /\ reached[r] = 0
    BY <1>4 DEF Request, CanExecute
  <2> QED
    BY <1>4, <2>1 DEF Request, podVars
<1>5. ASSUME NEW r \in Req, BodyRead(r) PROVE NumberedInOrder'
  BY <1>5 DEF BodyRead, podVars
<1>6. ASSUME NEW r \in Req, Connect(r) PROVE NumberedInOrder'
  BY <1>6 DEF Connect, podVars
<1>7. ASSUME NEW r \in Req, Completes(r) PROVE NumberedInOrder'
  <2>1. Done(r)
    BY <1>7 DEF Completes, ClientLeaves, NoConnection, Answered, NoAnswer, ConnectionLost
  <2> QED
    BY <2>1 DEF Done, podVars
<1>8. CASE Passes \/ UNCHANGED proxyVars
  BY <1>8 DEF Passes, proxyVars, podVars, requestVars
<1> QED
  BY <1>1, <1>2, <1>3, <1>4, <1>5, <1>6, <1>7, <1>8 DEF ProxyNext, Advances

\* The key a request was given before it waited (line 73) is another than its
\* pod's only if its user's terminal was replaced meanwhile, for any number of
\* requests, terminals and connections.
THEOREM KeyStaleOnlyAfterReplacement == ProxySpec => []StaleKeyOnlyAfterReplacement
<1>1. ProxyInit => IInv /\ ProxyTypeOK /\ NumberedInOrder
  BY InitIInv, InitProxyTypeOK DEF ProxyInit, NumberedInOrder
<1>2. IInv /\ ProxyTypeOK /\ NumberedInOrder /\ [ProxyNext]_proxyVars
        => (IInv /\ ProxyTypeOK /\ NumberedInOrder)'
  BY NextIInv, ProxyStepIsBreakerStep, NextProxyTypeOK, NextNumberedInOrder
<1>3. ProxyTypeOK /\ NumberedInOrder => StaleKeyOnlyAfterReplacement
  BY DEF ProxyTypeOK, NumberedInOrder, StaleKeyOnlyAfterReplacement
<1> QED
  BY <1>1, <1>2, <1>3, PTL DEF ProxySpec
=============================================================================
