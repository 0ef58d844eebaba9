------------------------------ MODULE HttpProxy ------------------------------
(***************************************************************************)
(* HttpProxy.proxy_request (proxy/http.py) for the requests of one user,   *)
(* composed with the user's circuit breaker, the terminal each request was *)
(* given, and the HTTP client all users share.                             *)
(*                                                                         *)
(* The registry (circuit_breaker.py 93-111) keeps one breaker per user     *)
(* hash and its remove is never called, so the breaker outlives the user's *)
(* pods; other users' requests meet this user only in the HTTP client,     *)
(* whose connections are limited.  A route gets the terminal and asks the  *)
(* breaker without waiting in between (neither lock is contended then);    *)
(* afterwards the request waits for its client's body, for a connection,   *)
(* and for the pod, and any number of other things may happen.             *)
(*                                                                         *)
(* A terminal is known by its number, which stands for its API key too.    *)
(* All of a user's terminals have the same service name, so a connection   *)
(* leads to whichever pod is behind the service when it is opened.         *)
(*                                                                         *)
(* Simplifications: connections are not kept alive from one request to the *)
(* next; headers, paths and bodies are left out; a restart of the proxy,   *)
(* which forgets breakers and requests alike, is the initial state.        *)
(***************************************************************************)
EXTENDS CircuitBreaker

CONSTANTS
    PoolSize,       \* the connections of the HTTP client (httpx's default: 100)
    MaxTerminals    \* bound: how many terminals the user gets, one after the other

ASSUME PoolAssumption == PoolSize \in Nat \ {0} /\ MaxTerminals \in Nat \ {0}

VARIABLES
    terminal,    \* the user's terminal in _pods, 0 if there is none
    pod,         \* the pod behind the user's service, 0 if nothing answers there
    made,        \* how many terminals the user has had
    stage,       \* what an admitted request waits for
    held,        \* the terminal, and so the key, each request was given
    reached,     \* the pod each request's connection leads to
    others       \* connections in use by other users' requests

podVars == <<terminal, pod, made>>
requestVars == <<stage, held, reached>>
proxyVars == <<vars, podVars, requestVars, others>>

Terminals == 1..MaxTerminals

ProxyTypeOK ==
    /\ TypeOK
    /\ terminal \in {0} \cup Terminals /\ pod \in {0, terminal} /\ made \in 0..MaxTerminals
    /\ stage \in [Req -> {"none", "body", "queue", "wire"}]
    /\ \A r \in Req : pc[r] = "sent" <=> stage[r] # "none"
    /\ held \in [Req -> 0..MaxTerminals]
    /\ reached \in [Req -> 0..MaxTerminals]
    /\ others \in 0..PoolSize

ProxyInit ==
    /\ Init
    /\ terminal = 0 /\ pod = 0 /\ made = 0
    /\ stage = [r \in Req |-> "none"]
    /\ held = [r \in Req |-> 0]
    /\ reached = [r \in Req |-> 0]
    /\ others = 0

-----------------------------------------------------------------------------
(* The user's terminal, and the other users. *)

\* get_or_create makes a terminal for the user.
\* (Mutant: the entry keeps the key of the terminal before.)
TerminalCreatedWithOldKey ==
    /\ terminal = 0 /\ made < MaxTerminals
    /\ made' = made + 1
    /\ terminal' = made
    /\ pod' = made + 1
    /\ UNCHANGED <<vars, requestVars, others>>

TerminalCreated ==
    /\ terminal = 0 /\ made < MaxTerminals
    /\ made' = made + 1
    /\ terminal' = made + 1
    /\ pod' = made + 1
    /\ UNCHANGED <<vars, requestVars, others>>

\* It is evicted, idle, or found dead: service and pod are deleted.
TerminalDeleted ==
    /\ terminal # 0
    /\ terminal' = 0 /\ pod' = 0
    /\ UNCHANGED <<vars, made, requestVars, others>>

\* Its container ends; the terminal stays in _pods until somebody notices.
PodDies ==
    /\ pod # 0
    /\ pod' = 0
    /\ UNCHANGED <<vars, terminal, made, requestVars, others>>

Connections == others + Cardinality({r \in Req : stage[r] = "wire"})

\* Other users' requests take connections and give them back.
OthersConnect ==
    /\ Connections < PoolSize
    /\ others' = others + 1
    /\ UNCHANGED <<vars, podVars, requestVars>>

OthersDisconnect ==
    /\ others > 0
    /\ others' = others - 1
    /\ UNCHANGED <<vars, podVars, requestVars>>

-----------------------------------------------------------------------------
(* proxy_request *)

\* The route has its terminal and the breaker admits the request.  (A request
\* that is refused gets a 503 and changes nothing.)
Request(r) ==
    /\ terminal # 0
    /\ CanExecute(r)
    /\ stage' = [stage EXCEPT ![r] = "body"]
    /\ held' = [held EXCEPT ![r] = terminal]
    /\ UNCHANGED <<podVars, reached, others>>

\* await request.body()
BodyRead(r) ==
    /\ stage[r] = "body"
    /\ stage' = [stage EXCEPT ![r] = "queue"]
    /\ UNCHANGED <<vars, podVars, held, reached, others>>

\* client.request gets a connection; with no pod behind the service it fails.
Connect(r) ==
    /\ stage[r] = "queue"
    /\ Connections < PoolSize
    /\ stage' = [stage EXCEPT ![r] = "wire"]
    /\ reached' = [reached EXCEPT ![r] = pod]
    /\ UNCHANGED <<vars, podVars, held, others>>

Done(r) ==
    /\ stage' = [stage EXCEPT ![r] = "none"]
    /\ held' = [held EXCEPT ![r] = 0]
    /\ reached' = [reached EXCEPT ![r] = 0]
    /\ UNCHANGED <<podVars, others>>

\* The client leaves before its body has come: ClientDisconnect, outside the
\* try, so that the breaker hears nothing.
ClientLeaves(r) ==
    /\ stage[r] = "body"
    /\ Unrecorded(r)
    /\ Done(r)

\* No connection in time: PoolTimeout is a TimeoutException.
NoConnection(r) ==
    /\ stage[r] = "queue" /\ Connections = PoolSize
    /\ RecordFailure(r)
    /\ Done(r)

\* Any response, be it the 401 of a pod that does not know the key.
Answered(r) ==
    /\ stage[r] = "wire" /\ reached[r] # 0
    /\ RecordSuccess(r)
    /\ Done(r)

\* ConnectError when nothing is there, else a timeout.
NoAnswer(r) ==
    /\ stage[r] = "wire"
    /\ RecordFailure(r)
    /\ Done(r)

\* The connection breaks: ReadError, RemoteProtocolError.
ConnectionLost(r) ==
    /\ stage[r] = "wire" /\ reached[r] # 0
    /\ Unrecorded(r)
    /\ Done(r)

Advances(r) == BodyRead(r) \/ Connect(r)
Completes(r) ==
    \/ ClientLeaves(r) \/ NoConnection(r)
    \/ Answered(r) \/ NoAnswer(r) \/ ConnectionLost(r)

Passes == Tick /\ UNCHANGED <<podVars, requestVars, others>>

ProxyNext ==
    \/ TerminalCreated \/ TerminalDeleted \/ PodDies
    \/ OthersConnect \/ OthersDisconnect
    \/ \E r \in Req : Request(r) \/ Advances(r) \/ Completes(r)
    \/ Passes

ProxySpec == ProxyInit /\ [][ProxyNext]_proxyVars

\* A request ends: httpx bounds the wait for a connection and for an answer
\* (300 seconds), and a body is read to its end or its client leaves.  Time
\* passes.  Nothing is assumed of clients, pods and other users.
ProxyFairSpec ==
    /\ ProxySpec
    /\ \A r \in Req : WF_proxyVars(Advances(r) \/ Completes(r))
    /\ WF_proxyVars(Passes)

-----------------------------------------------------------------------------
(* Properties. *)

\* A request is sent with the key it was given before it waited for its body
\* and its connection (line 73): it meets a pod with another key only when its
\* user's terminal has been replaced meanwhile, and then always a newer one.
StaleKeyOnlyAfterReplacement ==
    \A r \in Req : stage[r] = "wire" /\ reached[r] \notin {0, held[r]} =>
        held[r] < reached[r] /\ terminal # held[r]

\* Once failures stop, a breaker that goes on admitting requests closes for
\* good: no outcome that is late, and no success that an open breaker ignores,
\* makes it reopen (record_success 66-75 against can_execute 47-62).
Heals ==
    /\ <>[][\A r \in Req : ~RecordFailure(r) /\ ~Unrecorded(r)]_proxyVars
    /\ []<><<\E r \in Req : CanExecute(r)>>_proxyVars
    => <>[](state = "closed")
=============================================================================
