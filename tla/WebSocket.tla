------------------------------ MODULE WebSocket ------------------------------
(***************************************************************************)
(* Terminal sessions over WebSockets: the handler websocket_terminal       *)
(* (main.py) and WebSocketProxy.proxy_websocket (proxy/websocket.py).      *)
(*                                                                         *)
(* A session is opened in stages: the handler accepts the client, waits    *)
(* for its auth message, gets the user's terminal, connects to it, and     *)
(* then relays with two pumps, one for each direction.  The pumps are      *)
(* gathered: the session is over when both have ended, and a pump ends     *)
(* only when its own source ends, or when it has something to send and     *)
(* cannot.  All sessions connect through one aiohttp session, whose        *)
(* connections are limited; a session keeps its connection to the end.     *)
(*                                                                         *)
(* External behaviour: the framework delivers a client's messages before   *)
(* its disconnect and raises when something is sent to a client that has   *)
(* gone; aiohttp raises when something is sent on a closed connection.     *)
(*                                                                         *)
(* Simplifications: an API key is set (without one there is no auth        *)
(* message); what messages say is left out but for the auth message's      *)
(* being right; at most one message is under way in a direction.           *)
(***************************************************************************)
EXTENDS Naturals, FiniteSets

CONSTANTS
    Session,         \* sessions
    MaxConnections   \* connections of the aiohttp session (its default: 100)

ASSUME MaxConnectionsAssumption == MaxConnections \in Nat

VARIABLES
    phase,       \* how far the handler of each session is
    client,      \* each client: not come yet, here, or gone
    fromClient,  \* the sessions with a message of the client to be received
    terminal,    \* the terminal's side of the connection: none, open, closed, lost
    fromTerminal,\* the sessions with a message of the terminal to be received
    pumpUp,      \* the sessions whose client_to_upstream runs
    pumpDown,    \* the sessions whose upstream_to_client runs
    code         \* the code the client's socket was closed with

vars == <<phase, client, fromClient, terminal, fromTerminal, pumpUp, pumpDown, code>>

Opening == {"auth", "getting", "connecting"}
Codes == {"none", "1000", "1008", "1011"}

TypeOK ==
    /\ phase \in [Session -> {"new", "relay", "ended"} \cup Opening]
    /\ client \in [Session -> {"away", "here", "gone"}]
    /\ terminal \in [Session -> {"none", "open", "closed", "lost"}]
    /\ fromClient \subseteq Session /\ fromTerminal \subseteq Session
    /\ pumpUp \cup pumpDown \subseteq {s \in Session : phase[s] = "relay"}
    /\ \A s \in Session : phase[s] = "relay" <=> terminal[s] # "none"
    /\ code \in [Session -> Codes]

Init ==
    /\ phase = [s \in Session |-> "new"]
    /\ client = [s \in Session |-> "away"]
    /\ terminal = [s \in Session |-> "none"]
    /\ fromClient = {} /\ fromTerminal = {}
    /\ pumpUp = {} /\ pumpDown = {}
    /\ code = [s \in Session |-> "none"]

Goto(s, p) == phase' = [phase EXCEPT ![s] = p]

\* client_ws.close: without effect on a client that has gone, or a second time.
Close(s, c) ==
    code' = IF client[s] = "here" /\ code[s] = "none" THEN [code EXCEPT ![s] = c] ELSE code

-----------------------------------------------------------------------------
(* The client and the terminal. *)

ClientSpeaks(s) ==
    /\ phase[s] \in Opening \cup {"relay"} /\ client[s] = "here" /\ s \notin fromClient
    /\ fromClient' = fromClient \cup {s}
    /\ UNCHANGED <<phase, client, terminal, fromTerminal, pumpUp, pumpDown, code>>

ClientGoes(s) ==
    /\ phase[s] \in Opening \cup {"relay"} /\ client[s] = "here"
    /\ client' = [client EXCEPT ![s] = "gone"]
    /\ UNCHANGED <<phase, fromClient, terminal, fromTerminal, pumpUp, pumpDown, code>>

TerminalSpeaks(s) ==
    /\ terminal[s] = "open" /\ s \notin fromTerminal
    /\ fromTerminal' = fromTerminal \cup {s}
    /\ UNCHANGED <<phase, client, fromClient, terminal, pumpUp, pumpDown, code>>

\* The shell exits, the pod is deleted (closed), or its node is lost without a
\* word: neither side of the relay has a heartbeat.
TerminalGoes(s, how) ==
    /\ terminal[s] = "open"
    /\ terminal' = [terminal EXCEPT ![s] = how]
    /\ UNCHANGED <<phase, client, fromClient, fromTerminal, pumpUp, pumpDown, code>>

-----------------------------------------------------------------------------
(* websocket_terminal *)

Accept(s) ==
    /\ phase[s] = "new"
    /\ Goto(s, "auth")
    /\ client' = [client EXCEPT ![s] = "here"]
    /\ UNCHANGED <<fromClient, terminal, fromTerminal, pumpUp, pumpDown, code>>

\* The first message is the key, and the query names a user.
AuthRight(s) ==
    /\ phase[s] = "auth" /\ s \in fromClient
    /\ fromClient' = fromClient \ {s}
    /\ Goto(s, "getting")
    /\ UNCHANGED <<client, terminal, fromTerminal, pumpUp, pumpDown, code>>

\* It is anything else, or the query names nobody.
AuthWrong(s) ==
    /\ phase[s] = "auth" /\ s \in fromClient
    /\ fromClient' = fromClient \ {s}
    /\ Close(s, "1008")
    /\ Goto(s, "ended")
    /\ UNCHANGED <<client, terminal, fromTerminal, pumpUp, pumpDown>>

\* Ten seconds without a message, or the client has gone.
\* (Mutant: the handler waits for the message without a limit.)
AuthOnlyByMessage(s) ==
    /\ phase[s] = "auth" /\ s \notin fromClient /\ client[s] = "gone"
    /\ Goto(s, "ended")
    /\ UNCHANGED <<client, fromClient, terminal, fromTerminal, pumpUp, pumpDown, code>>

AuthTimeout(s) ==
    /\ phase[s] = "auth" /\ s \notin fromClient
    /\ Close(s, "1008")
    /\ Goto(s, "ended")
    /\ UNCHANGED <<client, fromClient, terminal, fromTerminal, pumpUp, pumpDown>>

\* get_terminal_for_user returns, or raises one of the two errors it has.
TerminalGot(s) ==
    /\ phase[s] = "getting"
    /\ Goto(s, "connecting")
    /\ UNCHANGED <<client, fromClient, terminal, fromTerminal, pumpUp, pumpDown, code>>

TerminalRefused(s) ==
    /\ phase[s] = "getting"
    /\ Close(s, "1011")
    /\ Goto(s, "ended")
    /\ UNCHANGED <<client, fromClient, terminal, fromTerminal, pumpUp, pumpDown>>

-----------------------------------------------------------------------------
(* proxy_websocket *)

Connected == {s \in Session : phase[s] = "relay"}

\* ws_connect succeeds, the terminal's key is sent, and both pumps start.
Connect(s) ==
    /\ phase[s] = "connecting"
    /\ Cardinality(Connected) < MaxConnections
    /\ Goto(s, "relay")
    /\ terminal' = [terminal EXCEPT ![s] = "open"]
    /\ pumpUp' = pumpUp \cup {s}
    /\ pumpDown' = pumpDown \cup {s}
    /\ UNCHANGED <<client, fromClient, fromTerminal, code>>

\* It raises: nothing answers, the handshake fails, or no connection is free.
\* The client's socket is closed, and then once more (suppressed).
ConnectFails(s) ==
    /\ phase[s] = "connecting"
    /\ Close(s, "1011")
    /\ Goto(s, "ended")
    /\ UNCHANGED <<client, fromClient, terminal, fromTerminal, pumpUp, pumpDown>>

\* client_to_upstream sends a message on; sending on a connection that is known
\* to be closed ends the pump (before upstream_to_client has read the close,
\* what is sent may just be lost), sending to a lost node makes the loss known.
\* (Mutant: the pump swallows the exception and goes on.)
RelayUpForEver(s) ==
    /\ s \in pumpUp /\ s \in fromClient
    /\ fromClient' = fromClient \ {s}
    /\ terminal' = IF terminal[s] = "lost" THEN [terminal EXCEPT ![s] = "closed"] ELSE terminal
    /\ UNCHANGED <<phase, client, fromTerminal, pumpUp, pumpDown, code>>

RelayUp(s) ==
    /\ s \in pumpUp /\ s \in fromClient
    /\ fromClient' = fromClient \ {s}
    /\ terminal' = IF terminal[s] = "lost" THEN [terminal EXCEPT ![s] = "closed"] ELSE terminal
    /\ \/ terminal[s] = "closed" /\ pumpUp' = pumpUp \ {s}
       \/ (terminal[s] = "closed" => s \in pumpDown) /\ UNCHANGED pumpUp
    /\ UNCHANGED <<phase, client, fromTerminal, pumpDown, code>>

\* (Mutant: the client's leaving is taken for an empty message.)
ClientLeftUnnoticed(s) ==
    /\ s \in pumpUp /\ s \notin fromClient /\ client[s] = "gone"
    /\ UNCHANGED vars

ClientLeft(s) ==
    /\ s \in pumpUp /\ s \notin fromClient /\ client[s] = "gone"
    /\ pumpUp' = pumpUp \ {s}
    /\ UNCHANGED <<phase, client, fromClient, terminal, fromTerminal, pumpDown, code>>

\* upstream_to_client sends a message on; sending to a gone client ends the pump.
RelayDown(s) ==
    /\ s \in pumpDown /\ s \in fromTerminal
    /\ fromTerminal' = fromTerminal \ {s}
    /\ pumpDown' = IF client[s] = "gone" THEN pumpDown \ {s} ELSE pumpDown
    /\ UNCHANGED <<phase, client, fromClient, terminal, pumpUp, code>>

TerminalLeft(s) ==
    /\ s \in pumpDown /\ s \notin fromTerminal /\ terminal[s] = "closed"
    /\ pumpDown' = pumpDown \ {s}
    /\ UNCHANGED <<phase, client, fromClient, terminal, fromTerminal, pumpUp, code>>

\* gather returns: the connection is closed, then the client's socket.
\* (Mutant: the client's socket is closed on errors only.)
SessionOverSilently(s) ==
    /\ phase[s] = "relay" /\ s \notin pumpUp /\ s \notin pumpDown
    /\ Goto(s, "ended")
    /\ terminal' = [terminal EXCEPT ![s] = "none"]
    /\ fromTerminal' = fromTerminal \ {s}
    /\ UNCHANGED <<client, fromClient, pumpUp, pumpDown, code>>

\* (Mutant: the end of one pump ends the session, the other pump goes on.)
SessionOverWithOnePump(s) ==
    /\ phase[s] = "relay" /\ ~{s} \subseteq pumpUp \cap pumpDown
    /\ Close(s, "1000")
    /\ Goto(s, "ended")
    /\ terminal' = [terminal EXCEPT ![s] = "none"]
    /\ fromTerminal' = fromTerminal \ {s}
    /\ UNCHANGED <<client, fromClient, pumpUp, pumpDown>>

SessionOver(s) ==
    /\ phase[s] = "relay" /\ s \notin pumpUp /\ s \notin pumpDown
    /\ Close(s, "1000")
    /\ Goto(s, "ended")
    /\ terminal' = [terminal EXCEPT ![s] = "none"]
    /\ fromTerminal' = fromTerminal \ {s}
    /\ UNCHANGED <<client, fromClient, pumpUp, pumpDown>>

\* The client has seen the close, or is gone: its next session may come.
NextSession(s) ==
    /\ phase[s] = "ended"
    /\ Goto(s, "new")
    /\ client' = [client EXCEPT ![s] = "away"]
    /\ fromClient' = fromClient \ {s}
    /\ code' = [code EXCEPT ![s] = "none"]
    /\ UNCHANGED <<terminal, fromTerminal, pumpUp, pumpDown>>

Handles(s) ==
    \/ AuthRight(s) \/ AuthWrong(s) \/ AuthTimeout(s)
    \/ TerminalGot(s) \/ TerminalRefused(s)
    \/ Connect(s) \/ ConnectFails(s)
    \/ SessionOver(s)

Pumps(s) == RelayUp(s) \/ ClientLeft(s)
PumpsDown(s) == RelayDown(s) \/ TerminalLeft(s)

Next == \E s \in Session :
    \/ Accept(s) \/ ClientSpeaks(s) \/ ClientGoes(s)
    \/ TerminalSpeaks(s) \/ \E how \in {"closed", "lost"} : TerminalGoes(s, how)
    \/ Handles(s) \/ Pumps(s) \/ PumpsDown(s)
    \/ NextSession(s)

Spec == Init /\ [][Next]_vars

\* The event loop runs each handler and each pump that can go on; the waits of
\* the opening are limited (10 seconds for the auth message, the pod's startup
\* timeout, aiohttp's 300 seconds).  Nothing is assumed of clients and terminals.
Fairness == \A s \in Session : WF_vars(Handles(s)) /\ WF_vars(Pumps(s)) /\ WF_vars(PumpsDown(s))

FairSpec == Spec /\ Fairness

-----------------------------------------------------------------------------
(* Properties. *)

\* However a session ends, its client is told so or has gone by itself: each
\* early return, each exception and the end of both pumps close its socket
\* (main.py 614-652, websocket.py 90-98).
NobodyLeftHanging == \A s \in Session :
    phase[s] = "ended" => code[s] # "none" \/ client[s] = "gone"

\* No client keeps a session in its opening for ever, silent or gone as it may be.
OpeningEnds == \A s \in Session : phase[s] \in Opening ~> phase[s] \notin Opening

\* A session is over once its client has gone and its terminal has closed, in
\* whatever order, with whatever still under way.
EndsWithBoth == \A s \in Session :
    client[s] = "gone" /\ terminal[s] = "closed" ~> phase[s] # "relay"

\* A session that has lost one side stays, and keeps its connection, only as
\* long as the other side is silent (gather, line 84, waits for both pumps):
\* for good only if the terminal speaks no more, or the client neither speaks
\* nor leaves.
LingersOnlyInSilence == \A s \in Session :
    /\ <>[](phase[s] = "relay" /\ client[s] = "gone") => <>[][~TerminalSpeaks(s)]_vars
    /\ <>[](phase[s] = "relay" /\ terminal[s] = "closed")
         => <>[](client[s] = "here") /\ <>[][~ClientSpeaks(s)]_vars
=============================================================================
