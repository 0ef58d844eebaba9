-------------------------- MODULE WebSocketProofs --------------------------
(* No session ends without a word to its client, for any number of sessions *)
(* and connections.                                                         *)
EXTENDS WebSocket, TLAPS

\* A session's client has come; once the session has ended it was told so, or
\* it left.
Known(s) == phase[s] # "new" => client[s] # "away"

IInv == TypeOK /\ (\A s \in Session : Known(s)) /\ NobodyLeftHanging

LEMMA InitIInv == Init => IInv
BY DEF Init, IInv, TypeOK, Known, NobodyLeftHanging, Codes

\* close leaves the client told or gone.
LEMMA CloseTells ==
    ASSUME TypeOK, NEW s \in Session, client[s] # "away", NEW c \in Codes \ {"none"}, Close(s, c)
    PROVE  /\ code' \in [Session -> Codes]
           /\ \A t \in Session \ {s} : code'[t] = code[t]
           /\ code'[s] # "none" \/ client[s] = "gone"
BY DEF Close, TypeOK

\* The ways a session ends before it has a terminal.
LEMMA RefusedKeeps ==
    ASSUME IInv, NEW s \in Session,
           AuthWrong(s) \/ AuthTimeout(s) \/ TerminalRefused(s) \/ ConnectFails(s)
    PROVE  IInv'
<1>1. PICK c \in Codes \ {"none"} : Close(s, c)
  BY DEF AuthWrong, AuthTimeout, TerminalRefused, ConnectFails, Codes
<1>2. /\ phase[s] \in Opening /\ phase' = [phase EXCEPT ![s] = "ended"]
      /\ fromClient' \subseteq Session
      /\ UNCHANGED <<client, terminal, fromTerminal, pumpUp, pumpDown>>
  BY DEF AuthWrong, AuthTimeout, TerminalRefused, ConnectFails, Goto, Opening, IInv, TypeOK
<1>3. client[s] # "away"
  BY <1>2 DEF IInv, Known, Opening
<1>4. /\ code' \in [Session -> Codes]
      /\ \A t \in Session \ {s} : code'[t] = code[t]
      /\ code'[s] # "none" \/ client[s] = "gone"
  BY <1>1, <1>3, CloseTells DEF IInv
<1>5. TypeOK'
  BY <1>2, <1>4 DEF IInv, TypeOK, Opening
<1>6. \A t \in Session : Known(t)'
  BY <1>2 DEF IInv, Known, Opening, TypeOK
<1>7. NobodyLeftHanging'
  BY <1>2, <1>4 DEF IInv, NobodyLeftHanging, TypeOK
<1> QED
  BY <1>5, <1>6, <1>7 DEF IInv

LEMMA SessionOverKeeps ==
    ASSUME IInv, NEW s \in Session, SessionOver(s)
    PROVE  IInv'
<1>1. /\ phase[s] = "relay" /\ s \notin pumpUp /\ s \notin pumpDown /\ Close(s, "1000")
      /\ phase' = [phase EXCEPT ![s] = "ended"]
      /\ terminal' = [terminal EXCEPT ![s] = "none"]
      /\ fromTerminal' \subseteq Session
      /\ UNCHANGED <<client, fromClient, pumpUp, pumpDown>>
  BY DEF SessionOver, Goto, IInv, TypeOK
<1>2. client[s] # "away"
  BY <1>1 DEF IInv, Known
<1>3. /\ code' \in [Session -> Codes]
      /\ \A t \in Session \ {s} : code'[t] = code[t]
      /\ code'[s] # "none" \/ client[s] = "gone"
  BY <1>1, <1>2, CloseTells DEF IInv, Codes
<1>4. TypeOK'
  BY <1>1, <1>3 DEF IInv, TypeOK
<1>5. \A t \in Session : Known(t)'
  BY <1>1 DEF IInv, Known, TypeOK
<1>6. NobodyLeftHanging'
  BY <1>1, <1>3 DEF IInv, NobodyLeftHanging, TypeOK
<1> QED
  BY <1>4, <1>5, <1>6 DEF IInv

\* The steps that take a session on without ending it.
LEMMA OpeningKeeps ==
    ASSUME IInv, NEW s \in Session,
           Accept(s) \/ AuthRight(s) \/ TerminalGot(s) \/ Connect(s) \/ NextSession(s)
    PROVE  IInv'
<1>1. TypeOK'
  BY DEF Accept, AuthRight, TerminalGot, Connect, NextSession, Goto, IInv, TypeOK, Opening, Codes
<1>2. \A t \in Session : Known(t)'
  BY DEF Accept, AuthRight, TerminalGot, Connect, NextSession, Goto, IInv, TypeOK, Known
<1>3. NobodyLeftHanging'
  BY DEF Accept, AuthRight, TerminalGot, Connect, NextSession, Goto, IInv, TypeOK,
     NobodyLeftHanging
<1> QED
  BY <1>1, <1>2, <1>3 DEF IInv

\* What the two sides do, and what the pumps do of it.
LEMMA RelayKeeps ==
    ASSUME IInv, NEW s \in Session,
           \/ ClientSpeaks(s) \/ ClientGoes(s) \/ TerminalSpeaks(s)
           \/ \E how \in {"closed", "lost"} : TerminalGoes(s, how)
           \/ Pumps(s) \/ PumpsDown(s)
    PROVE  IInv'
<1>1. phase' = phase /\ code' = code
  BY DEF ClientSpeaks, ClientGoes, TerminalSpeaks, TerminalGoes, Pumps, PumpsDown, RelayUp,
     ClientLeft, RelayDown, TerminalLeft
<1>2. client' \in {client, [client EXCEPT ![s] = "gone"]}
  BY DEF ClientSpeaks, ClientGoes, TerminalSpeaks, TerminalGoes, Pumps, PumpsDown, RelayUp,
     ClientLeft, RelayDown, TerminalLeft
<1>3. TypeOK'
  <2>1. /\ fromClient' \subseteq Session /\ fromTerminal' \subseteq Session
        /\ pumpUp' \subseteq pumpUp /\ pumpDown' \subseteq pumpDown
    BY DEF ClientSpeaks, ClientGoes, TerminalSpeaks, TerminalGoes, Pumps, PumpsDown, RelayUp,
       ClientLeft, RelayDown, TerminalLeft, IInv, TypeOK
  <2>2. \/ terminal' = terminal
        \/ terminal[s] # "none" /\ \E how \in {"closed", "lost"} : terminal' = [terminal EXCEPT ![s] = how]
    BY DEF ClientSpeaks, ClientGoes, TerminalSpeaks, TerminalGoes, Pumps, PumpsDown, RelayUp,
       ClientLeft, RelayDown, TerminalLeft
  <2> QED
    BY <1>1, <1>2, <2>1, <2>2 DEF IInv, TypeOK
<1>4. \A t \in Session : Known(t)'
  BY <1>1, <1>2 DEF IInv, TypeOK, Known
<1>5. NobodyLeftHanging'
  BY <1>1, <1>2 DEF IInv, TypeOK, NobodyLeftHanging
<1> QED
  BY <1>3, <1>4, <1>5 DEF IInv

LEMMA NextIInv == IInv /\ [Next]_vars => IInv'
<1> SUFFICES ASSUME IInv, [Next]_vars PROVE IInv'
  OBVIOUS
<1>1. CASE UNCHANGED vars
  BY <1>1 DEF vars, IInv, TypeOK, Known, NobodyLeftHanging
<1>2. ASSUME NEW s \in Session, Handles(s) PROVE IInv'
  BY <1>2, RefusedKeeps, SessionOverKeeps, OpeningKeeps DEF Handles
<1> QED
  BY <1>1, <1>2, OpeningKeeps, RelayKeeps DEF Next

\* The pumps and the connection belong to the relay, and no code is sent but the
\* three the handlers use.
THEOREM SessionsTypeCorrect == Spec => []TypeOK
<1>1. IInv => TypeOK
  BY DEF IInv
<1> QED
  BY <1>1, InitIInv, NextIInv, PTL DEF Spec

\* Whichever of the handlers' returns or exceptions ends a session, its client
\* is told so unless it has gone.
THEOREM EveryClientTold == Spec => []NobodyLeftHanging
<1>1. IInv => NobodyLeftHanging
  BY DEF IInv
<1> QED
  BY <1>1, InitIInv, NextIInv, PTL DEF Spec
=============================================================================
