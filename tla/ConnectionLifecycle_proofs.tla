---------------------- MODULE ConnectionLifecycle_proofs ----------------------
(***************************************************************************)
(* Proofs about ConnectionLifecycle, for any set of callers, any bound on  *)
(* the attempt counter and any answers of the server and the callbacks.    *)
(***************************************************************************)
EXTENDS ConnectionLifecycle, TLAPS

\* Where run() takes up each of the four states.
LEMMA ResumeState ==
  \A n \in Nat :
    /\ Resume("Disconnected", n) = "idle"
    /\ Resume("Connecting", n) \in {"backoff", "refresh"}
    /\ Resume("Connected", n) = "loop"
    /\ Resume("Closed", n) = "done"
  BY DEF Resume

\* The attempt counter stays within its bound.
LEMMA CountAttemptType ==
  \A n \in 0 .. MaxAttempts : CountAttempt(n) \in 0 .. MaxAttempts
  BY LifecycleAssumption DEF CountAttempt

\* Answering callers gives each of them a status, and leaves nobody waiting who is answered.
LEMMA AnswerType ==
  ASSUME call \in [Callers -> CallStatus],
         NEW S, S = {c \in Callers : call[c] = "waiting"},
         NEW a \in Answers
  PROVE  /\ Answer(S, a) \in [Callers -> CallStatus]
         /\ {c \in Callers : Answer(S, a)[c] = "waiting"} = {}
  BY DEF Answer, CallStatus, Answers

-------------------------------------------------------------------------------
(* The safety invariants that hold whatever the callbacks answer.             *)

Inv == TypeOK /\ ControlMatchesState /\ WaitersServed /\ NoLeakedTransport

\* What move_to_disconnected() leaves behind.
LEMMA DisconnectedParts ==
  ASSUME Inv, MoveToDisconnected
  PROVE  /\ state' = "Disconnected" /\ link' = "none"
         /\ connect_requested' \in BOOLEAN /\ batch_active' \in BOOLEAN
         /\ connect_waiters' \subseteq Callers /\ call' \in [Callers -> CallStatus]
         /\ WaitersServed'
<1>1. connect_waiters' = {} /\ call' = Answer(connect_waiters, "disconnected")
  BY DEF MoveToDisconnected
<1>2. /\ Answer(connect_waiters, "disconnected") \in [Callers -> CallStatus]
      /\ {c \in Callers : Answer(connect_waiters, "disconnected")[c] = "waiting"} = {}
  BY AnswerType DEF Inv, TypeOK, WaitersServed, Answers
<1>3. WaitersServed'
  BY <1>1, <1>2 DEF WaitersServed
<1> QED BY <1>1, <1>2, <1>3 DEF MoveToDisconnected

LEMMA InitInv == LifeInit => Inv
<1> SUFFICES ASSUME LifeInit PROVE Inv
  OBVIOUS
<1>1. TypeOK
  <2>1. reconnect_attempts \in 0 .. MaxAttempts
    BY LifecycleAssumption DEF LifeInit
  <2>2. token \in BOOLEAN
    BY LifecycleAssumption DEF LifeInit
  <2> QED BY <2>1, <2>2 DEF LifeInit, TypeOK, ClientState, Control, Link, CallStatus
<1>2. WaitersServed
  BY DEF LifeInit, WaitersServed
<1>3. ControlMatchesState /\ NoLeakedTransport
  BY DEF LifeInit, ControlMatchesState, NoLeakedTransport
<1> QED BY <1>1, <1>2, <1>3 DEF Inv

LEMMA ApplicationInv == Inv /\ Application => Inv'
<1> SUFFICES ASSUME Inv, Application PROVE Inv'
  OBVIOUS
<1> USE DEF Inv, TypeOK, ClientState, Control, Link, callVars, tokenVars
<1>1. ASSUME NEW c \in Callers, CallConnect(c) PROVE Inv'
  <2>1. TypeOK' BY <1>1 DEF CallConnect, CallStatus, Answers
  <2>2. WaitersServed' BY <1>1 DEF CallConnect, WaitersServed
  <2>3. (ControlMatchesState /\ NoLeakedTransport)'
    BY <1>1 DEF CallConnect, ControlMatchesState, NoLeakedTransport
  <2> QED BY <2>1, <2>2, <2>3
<1>2. ASSUME NEW c \in Callers, HandleConnect(c) PROVE Inv'
  <2>1. CASE state = "Disconnected"
    <3>1. /\ connect_requested' = TRUE
          /\ connect_waiters' = connect_waiters \union {c}
          /\ call' = [call EXCEPT ![c] = "waiting"]
          /\ state' = "Connecting"
          /\ pc' \in {"backoff", "refresh"}
      BY <1>2, <2>1, ResumeState DEF HandleConnect
    <3>2. pc = "idle" /\ link = "none"
      BY <1>2, <2>1 DEF HandleConnect, TakesCommands, ControlMatchesState, NoLeakedTransport
    <3>3. TypeOK' BY <1>2, <3>1 DEF HandleConnect, CallStatus, Answers
    <3>4. WaitersServed' BY <1>2, <3>1 DEF WaitersServed
    <3>5. (ControlMatchesState /\ NoLeakedTransport)'
      BY <1>2, <3>1, <3>2 DEF HandleConnect, ControlMatchesState, NoLeakedTransport
    <3> QED BY <3>3, <3>4, <3>5
  <2>2. CASE state = "Connecting"
    <3>1. TypeOK' BY <1>2, <2>2 DEF HandleConnect, CallStatus, Answers
    <3>2. WaitersServed' BY <1>2, <2>2 DEF HandleConnect, WaitersServed
    <3>3. (ControlMatchesState /\ NoLeakedTransport)'
      BY <1>2, <2>2 DEF HandleConnect, ControlMatchesState, NoLeakedTransport
    <3> QED BY <3>1, <3>2, <3>3
  <2>3. CASE state = "Connected"
    <3>1. TypeOK' BY <1>2, <2>3 DEF HandleConnect, CallStatus, Answers
    <3>2. WaitersServed' BY <1>2, <2>3 DEF HandleConnect, WaitersServed
    <3>3. (ControlMatchesState /\ NoLeakedTransport)'
      BY <1>2, <2>3 DEF HandleConnect, ControlMatchesState, NoLeakedTransport
    <3> QED BY <3>1, <3>2, <3>3
  <2> QED BY <1>2, <2>1, <2>2, <2>3 DEF HandleConnect
<1>3. ASSUME NEW c \in Callers, RejectAfterClose(c) PROVE Inv'
  <2>1. TypeOK' BY <1>3 DEF RejectAfterClose, CallStatus, Answers
  <2>2. WaitersServed' BY <1>3 DEF RejectAfterClose, WaitersServed
  <2>3. (ControlMatchesState /\ NoLeakedTransport)'
    BY <1>3 DEF RejectAfterClose, ControlMatchesState, NoLeakedTransport
  <2> QED BY <2>1, <2>2, <2>3
<1>4. CASE HandleDisconnect
  <2>1. pc' = "idle" BY <1>4, ResumeState DEF HandleDisconnect
  <2>2. TypeOK' /\ WaitersServed'
    BY <1>4, <2>1, DisconnectedParts DEF HandleDisconnect
  <2>3. (ControlMatchesState /\ NoLeakedTransport)'
    BY <1>4, <2>1 DEF HandleDisconnect, MoveToDisconnected, ControlMatchesState, NoLeakedTransport
  <2> QED BY <2>2, <2>3
<1>5. CASE HandleClose
  <2>1. pc' = "done" BY <1>5, ResumeState DEF HandleClose
  <2>2. TypeOK' /\ WaitersServed'
    BY <1>5, <2>1, AnswerType DEF HandleClose, MoveToClosed, WaitersServed, Answers
  <2>3. (ControlMatchesState /\ NoLeakedTransport)'
    BY <1>5, <2>1 DEF HandleClose, MoveToClosed, ControlMatchesState, NoLeakedTransport
  <2> QED BY <2>2, <2>3
<1>6. ASSUME NEW t \in TokenValues, HandleSetToken(t) PROVE Inv'
  BY <1>6, LifecycleAssumption DEF HandleSetToken, ControlMatchesState, WaitersServed, NoLeakedTransport
<1>7. CASE StartBatching
  BY <1>7 DEF StartBatching, ControlMatchesState, WaitersServed, NoLeakedTransport
<1>8. CASE StopBatching
  BY <1>8 DEF StopBatching, ControlMatchesState, WaitersServed, NoLeakedTransport
<1>9. CASE DropHandles
  BY <1>9 DEF DropHandles, ControlMatchesState, WaitersServed, NoLeakedTransport
<1> QED BY <1>1, <1>2, <1>3, <1>4, <1>5, <1>6, <1>7, <1>8, <1>9 DEF Application

LEMMA CycleInv == Inv /\ ConnectCycle => Inv'
<1> SUFFICES ASSUME Inv, ConnectCycle PROVE Inv'
  OBVIOUS
<1> USE DEF Inv, TypeOK, ClientState, Control, Link, callVars, tokenVars
<1>1. CASE BackoffExpires
  BY <1>1 DEF BackoffExpires, ControlMatchesState, WaitersServed, NoLeakedTransport
<1>2. CASE RefreshToken
  <2>1. CASE TokenNotRefreshed
    BY <1>2, <2>1, CountAttemptType
    DEF TokenNotRefreshed, ControlMatchesState, WaitersServed, NoLeakedTransport
  <2>2. CASE TokenRefreshed
    BY <1>2, <2>2, CountAttemptType
    DEF TokenRefreshed, ControlMatchesState, WaitersServed, NoLeakedTransport
  <2>3. CASE TokenUnauthorized
    <3>1. TypeOK' /\ WaitersServed'
      BY <2>3, CountAttemptType, DisconnectedParts DEF TokenUnauthorized
    <3>2. (ControlMatchesState /\ NoLeakedTransport)'
      BY <2>3 DEF TokenUnauthorized, MoveToDisconnected, ControlMatchesState, NoLeakedTransport
    <3> QED BY <3>1, <3>2
  <2>4. CASE TokenRefreshFails
    <3>1. reconnect_attempts' \in 0 .. MaxAttempts /\ reconnect_attempts' \in Nat
      BY <2>4, CountAttemptType, LifecycleAssumption DEF TokenRefreshFails
    <3>2. state = "Connecting"
      BY <2>4 DEF TokenRefreshFails, ControlMatchesState
    <3>3. pc' \in {"backoff", "refresh"}
      BY <2>4, <3>1, <3>2, ResumeState DEF TokenRefreshFails
    <3> QED BY <2>4, <3>1, <3>2, <3>3
         DEF TokenRefreshFails, ControlMatchesState, WaitersServed, NoLeakedTransport
  <2> QED BY <1>2, <2>1, <2>2, <2>3, <2>4 DEF RefreshToken
<1>3. CASE OpenTransport
  <2>1. CASE TransportOpens
    BY <2>1 DEF TransportOpens, ControlMatchesState, WaitersServed, NoLeakedTransport
  <2>2. CASE TransportFails
    <3>1. state \in {"Connecting", "Disconnected"}
      BY <2>2 DEF TransportFails, ControlMatchesState
    <3>2. \/ state = "Connecting" /\ pc' \in {"backoff", "refresh"}
          \/ state = "Disconnected" /\ pc' = "idle"
      BY <2>2, <3>1, ResumeState DEF TransportFails
    <3> QED BY <2>2, <3>2
         DEF TransportFails, ControlMatchesState, WaitersServed, NoLeakedTransport
  <2> QED BY <1>3, <2>1, <2>2 DEF OpenTransport
<1>4. CASE SendConnect
  BY <1>4 DEF SendConnect, ControlMatchesState, WaitersServed, NoLeakedTransport
<1>5. ASSUME NEW e, OnHandshakeFailure(e), pc \in {"handshake", "await"} PROVE Inv'
  <2>1. CASE e = "permanent"
    <3>1. pc' = "idle"
      BY <1>5, <2>1, ResumeState DEF OnHandshakeFailure, MoveToDisconnected
    <3>2. TypeOK' /\ WaitersServed'
      BY <1>5, <2>1, <3>1, DisconnectedParts DEF OnHandshakeFailure
    <3>3. (ControlMatchesState /\ NoLeakedTransport)'
      BY <1>5, <2>1, <3>1
      DEF OnHandshakeFailure, MoveToDisconnected, ControlMatchesState, NoLeakedTransport
    <3> QED BY <3>2, <3>3
  <2>2. CASE e # "permanent"
    <3>1. state \in {"Connecting", "Disconnected"} /\ state' = state
      BY <1>5, <2>2 DEF OnHandshakeFailure, ControlMatchesState
    <3>2. \/ state = "Connecting" /\ pc' \in {"backoff", "refresh"}
          \/ state = "Disconnected" /\ pc' = "idle"
      BY <1>5, <2>2, <3>1, ResumeState DEF OnHandshakeFailure
    <3> QED BY <1>5, <2>2, <3>2
         DEF OnHandshakeFailure, ControlMatchesState, WaitersServed, NoLeakedTransport
  <2> QED BY <2>1, <2>2
<1>6. CASE HandshakeLost
  BY <1>5, <1>6 DEF HandshakeLost
<1>7. ASSUME NEW e \in HandshakeErrors, ConnectRefused(e) PROVE Inv'
  BY <1>5, <1>7 DEF ConnectRefused
<1>8. ASSUME NEW r \in BOOLEAN, HandshakeDisconnectPush(r) PROVE Inv'
  <2>1. CASE r /\ connect_requested
    BY <1>8, <2>1 DEF HandshakeDisconnectPush, OnTransportClose, ControlMatchesState,
      WaitersServed, NoLeakedTransport
  <2>2. CASE ~(r /\ connect_requested)
    <3>1. TypeOK' /\ WaitersServed'
      BY <1>8, <2>2, DisconnectedParts DEF HandshakeDisconnectPush, OnTransportClose
    <3>2. (ControlMatchesState /\ NoLeakedTransport)'
      BY <1>8, <2>2 DEF HandshakeDisconnectPush, OnTransportClose, MoveToDisconnected,
        ControlMatchesState, NoLeakedTransport
    <3> QED BY <3>1, <3>2
  <2> QED BY <2>1, <2>2
<1>9. CASE ConnectAccepted
  BY <1>9, LifecycleAssumption
  DEF ConnectAccepted, ControlMatchesState, WaitersServed, NoLeakedTransport
<1>10. CASE FinishConnect
  <2>1. TypeOK' /\ WaitersServed'
    BY <1>10, AnswerType DEF FinishConnect, WaitersServed, Answers
  <2>2. (ControlMatchesState /\ NoLeakedTransport)'
    BY <1>10 DEF FinishConnect, ControlMatchesState, NoLeakedTransport
  <2> QED BY <2>1, <2>2
<1> QED BY <1>1, <1>2, <1>3, <1>4, <1>6, <1>7, <1>8, <1>9, <1>10 DEF ConnectCycle

LEMMA LoopInv == Inv /\ ConnectedLoop => Inv'
<1> SUFFICES ASSUME Inv, ConnectedLoop PROVE Inv'
  OBVIOUS
<1> USE DEF Inv, TypeOK, ClientState, Control, Link, callVars, tokenVars
<1>1. ASSUME NEW r \in BOOLEAN, LoseConnection(r), pc = "loop" PROVE Inv'
  <2>1. CASE r /\ connect_requested
    <3>1. state' = "Connecting" /\ pc' \in {"backoff", "refresh"}
      BY <1>1, <2>1, ResumeState DEF LoseConnection, OnTransportClose
    <3> QED BY <1>1, <2>1, <3>1 DEF LoseConnection, OnTransportClose, ControlMatchesState,
         WaitersServed, NoLeakedTransport
  <2>2. CASE ~(r /\ connect_requested)
    <3>1. state' = "Disconnected" /\ pc' = "idle"
      BY <1>1, <2>2, ResumeState DEF LoseConnection, OnTransportClose, MoveToDisconnected
    <3>2. TypeOK' /\ WaitersServed'
      BY <1>1, <2>2, <3>1, DisconnectedParts DEF LoseConnection, OnTransportClose
    <3>3. (ControlMatchesState /\ NoLeakedTransport)'
      BY <1>1, <2>2, <3>1 DEF LoseConnection, OnTransportClose, MoveToDisconnected,
        ControlMatchesState, NoLeakedTransport
    <3> QED BY <3>2, <3>3
  <2> QED BY <2>1, <2>2
<1>2. ASSUME NEW r \in BOOLEAN, TransportCloses(r) \/ DisconnectPush(r) PROVE Inv'
  BY <1>1, <1>2 DEF TransportCloses, DisconnectPush
<1>3. CASE DecodeError \/ PingTimeout \/ CommandFailure
  BY <1>1, <1>3 DEF DecodeError, PingTimeout, CommandFailure
<1>4. ASSUME NEW o \in TokenOutcomes, RefreshTimer(o) PROVE Inv'
  <2>1. CASE o = "unauthorized"
    <3>1. state' = "Disconnected" /\ pc' = "idle"
      BY <1>4, <2>1, ResumeState DEF RefreshTimer, MoveToDisconnected
    <3>2. TypeOK' /\ WaitersServed'
      BY <1>4, <2>1, <3>1, DisconnectedParts DEF RefreshTimer
    <3>3. (ControlMatchesState /\ NoLeakedTransport)'
      BY <1>4, <2>1, <3>1
      DEF RefreshTimer, MoveToDisconnected, ControlMatchesState, NoLeakedTransport
    <3> QED BY <3>2, <3>3
  <2>2. CASE o # "unauthorized"
    BY <1>4, <2>2 DEF RefreshTimer, ControlMatchesState, WaitersServed, NoLeakedTransport
  <2> QED BY <2>1, <2>2
<1> QED BY <1>2, <1>3, <1>4 DEF ConnectedLoop

\* The inductive step over the whole next-state relation.
LEMMA NextInv == Inv /\ [LifeNext]_lifeVars => Inv'
<1> SUFFICES ASSUME Inv, [LifeNext]_lifeVars PROVE Inv'
  OBVIOUS
<1>1. CASE LinkBreaks
  BY <1>1 DEF LinkBreaks, Inv, TypeOK, Link, callVars, tokenVars, ControlMatchesState,
    WaitersServed, NoLeakedTransport
<1>2. CASE UNCHANGED lifeVars
  BY <1>2 DEF lifeVars, Inv, TypeOK, ControlMatchesState, WaitersServed, NoLeakedTransport
<1> QED BY <1>1, <1>2, ApplicationInv, CycleInv, LoopInv DEF LifeNext

\* The invariants of the connection task hold in every reachable state: its variables keep
\* their types, the task waits where its state says, no connect() caller is forgotten, and
\* no old transport is held when an attempt begins.
THEOREM Safety ==
  LifeSpec => [](TypeOK /\ ControlMatchesState /\ WaitersServed /\ NoLeakedTransport)
<1>1. Inv => TypeOK /\ ControlMatchesState /\ WaitersServed /\ NoLeakedTransport
  BY DEF Inv
<1> QED BY <1>1, InitInv, NextInv, PTL DEF LifeSpec

\* Each variable of the connection task keeps its type, the attempt counter its bound.
THEOREM LifecycleTyped == LifeSpec => []TypeOK
BY Safety, PTL

\* No attempt begins on an old transport, and the task never rests on one.
THEOREM TransportNeverLeaked == LifeSpec => []NoLeakedTransport
BY Safety, PTL

-------------------------------------------------------------------------------
(* What holds when get_token never answers Unauthorized.  Without that the    *)
(* cycle goes on to the transport with the client Disconnected, and a run of  *)
(* TLC shows ConnectionWanted violated.                                       *)

\* An attempt that can still succeed belongs to a client that is Connecting.
Attempting ==
  pc \in {"open", "handshake"} \/ (pc = "await" /\ link # "none") => state = "Connecting"

WantedInv ==
  /\ ConnectionWanted
  /\ state = "Disconnected" => connect_requested = FALSE
  /\ RefreshedBeforeRetry
  /\ Attempting

LEMMA WantedNext ==
  ASSUME "unauthorized" \notin TokenOutcomes,
         Inv, WantedInv, [LifeNext]_lifeVars
  PROVE  WantedInv' /\ [ClientStatesSpec!Next]_<<state, connect_requested>>
<1> DEFINE Abstract == [ClientStatesSpec!Next]_<<state, connect_requested>>
<1> USE DEF Inv, ControlMatchesState, NoLeakedTransport, WantedInv, ConnectionWanted,
        RefreshedBeforeRetry, Attempting, callVars, tokenVars,
        ClientStatesSpec!Next, ClientStatesSpec!Connect, ClientStatesSpec!Establish,
        ClientStatesSpec!Lose, ClientStatesSpec!GiveUp, ClientStatesSpec!Close
<1>0. TypeOK
  OBVIOUS
<1>t. state \in ClientState
  BY <1>0 DEF TypeOK
<1>1. CASE Application
  <2>1. ASSUME NEW c \in Callers, CallConnect(c) \/ RejectAfterClose(c)
        PROVE WantedInv' /\ Abstract
    BY <2>1 DEF CallConnect, RejectAfterClose
  <2>2. ASSUME NEW c \in Callers, HandleConnect(c) PROVE WantedInv' /\ Abstract
    <3>1. reconnect_attempts \in Nat
      BY <1>0, LifecycleAssumption DEF TypeOK
    <3>2. CASE state = "Disconnected"
      <4>1. /\ connect_requested' = TRUE /\ state' = "Connecting" /\ link' = link
            /\ pc' \in {"backoff", "refresh"} /\ refresh_required' = refresh_required
        BY <2>2, <3>1, <3>2, ResumeState DEF HandleConnect
      <4> QED BY <3>2, <4>1
    <3>3. CASE state \in {"Connecting", "Connected"}
      BY <2>2, <3>3 DEF HandleConnect
    <3> QED BY <2>2, <3>2, <3>3 DEF HandleConnect
  <2>3. CASE HandleDisconnect
    <3>1. /\ state' = "Disconnected" /\ pc' = "idle" /\ connect_requested' = FALSE
          /\ pc \in {"idle", "backoff", "loop"}
      BY <2>3, <1>0, LifecycleAssumption, ResumeState
      DEF HandleDisconnect, MoveToDisconnected, TakesCommands, TypeOK
    <3> QED BY <1>t, <3>1 DEF ClientState
  <2>4. CASE HandleClose
    <3>1. /\ state' = "Closed" /\ pc' = "done" /\ connect_requested' = connect_requested
          /\ pc \in {"idle", "backoff", "loop"}
      BY <2>4, <1>0, LifecycleAssumption, ResumeState
      DEF HandleClose, MoveToClosed, TakesCommands, TypeOK
    <3> QED BY <3>1
  <2>5. CASE \/ \E t \in TokenValues : HandleSetToken(t)
             \/ StartBatching \/ StopBatching \/ DropHandles
    BY <2>5 DEF HandleSetToken, StartBatching, StopBatching, DropHandles
  <2> QED BY <1>1, <2>1, <2>2, <2>3, <2>4, <2>5 DEF Application
<1>2. CASE ConnectCycle
  <2>1. CASE BackoffExpires
    BY <2>1 DEF BackoffExpires
  <2>2. CASE RefreshToken
    <3>1. CASE TokenNotRefreshed \/ TokenRefreshed
      BY <3>1 DEF TokenNotRefreshed, TokenRefreshed
    <3>2. CASE TokenRefreshFails
      <4>1. reconnect_attempts' \in Nat
        BY <1>0, <3>2, CountAttemptType, LifecycleAssumption DEF TokenRefreshFails, TypeOK
      <4>2. state = "Connecting" /\ pc' \in {"backoff", "refresh"}
        BY <3>2, <4>1, ResumeState DEF TokenRefreshFails
      <4> QED BY <3>2, <4>2 DEF TokenRefreshFails
    <3>3. ~TokenUnauthorized
      BY DEF TokenUnauthorized
    <3> QED BY <2>2, <3>1, <3>2, <3>3 DEF RefreshToken
  <2>3. CASE OpenTransport
    <3>1. state = "Connecting" /\ reconnect_attempts \in Nat
      BY <1>0, <2>3, LifecycleAssumption
      DEF OpenTransport, TransportOpens, TransportFails, TypeOK
    <3>2. CASE TransportOpens
      BY <3>1, <3>2 DEF TransportOpens
    <3>3. CASE TransportFails
      BY <3>1, <3>3, ResumeState DEF TransportFails
    <3> QED BY <2>3, <3>2, <3>3 DEF OpenTransport
  <2>4. CASE SendConnect
    BY <2>4 DEF SendConnect
  <2>5. ASSUME NEW e, OnHandshakeFailure(e), pc \in {"handshake", "await"}
        PROVE WantedInv' /\ Abstract
    <3>1. state \in {"Connecting", "Disconnected"} /\ reconnect_attempts \in Nat
      BY <1>0, <2>5, LifecycleAssumption DEF TypeOK
    <3>2. CASE e = "permanent"
      <4>1. state' = "Disconnected" /\ pc' = "idle" /\ connect_requested' = FALSE
        BY <2>5, <3>1, <3>2, ResumeState DEF OnHandshakeFailure, MoveToDisconnected
      <4> QED BY <3>1, <4>1
    <3>3. CASE e # "permanent"
      <4>1. /\ state' = state /\ connect_requested' = connect_requested
            /\ pc' \in {"idle", "backoff", "refresh"}
        BY <2>5, <3>1, <3>3, ResumeState DEF OnHandshakeFailure
      <4> QED BY <4>1
    <3> QED BY <3>2, <3>3
  <2>6. CASE HandshakeLost \/ \E e \in HandshakeErrors : ConnectRefused(e)
    BY <2>5, <2>6 DEF HandshakeLost, ConnectRefused
  <2>7. ASSUME NEW r \in BOOLEAN, HandshakeDisconnectPush(r) PROVE WantedInv' /\ Abstract
    BY <2>7 DEF HandshakeDisconnectPush, OnTransportClose, MoveToDisconnected
  <2>8. CASE ConnectAccepted
    BY <2>8 DEF ConnectAccepted
  <2>9. CASE FinishConnect
    BY <2>9 DEF FinishConnect
  <2> QED BY <1>2, <2>1, <2>2, <2>3, <2>4, <2>6, <2>7, <2>8, <2>9 DEF ConnectCycle
<1>3. CASE ConnectedLoop
  <2>1. ASSUME NEW r \in BOOLEAN, LoseConnection(r), pc = "loop" PROVE WantedInv' /\ Abstract
    <3>1. reconnect_attempts \in Nat
      BY <1>0, LifecycleAssumption DEF TypeOK
    <3>2. CASE r /\ connect_requested
      <4>1. /\ state' = "Connecting" /\ pc' \in {"backoff", "refresh"}
            /\ connect_requested' = connect_requested
        BY <2>1, <3>1, <3>2, ResumeState DEF LoseConnection, OnTransportClose
      <4> QED BY <2>1, <3>2, <4>1
    <3>3. CASE ~(r /\ connect_requested)
      <4>1. state' = "Disconnected" /\ pc' = "idle" /\ connect_requested' = FALSE
        BY <2>1, <3>1, <3>3, ResumeState DEF LoseConnection, OnTransportClose, MoveToDisconnected
      <4> QED BY <2>1, <4>1
    <3> QED BY <3>2, <3>3
  <2>2. CASE \E r \in BOOLEAN : TransportCloses(r) \/ DisconnectPush(r)
    BY <2>1, <2>2 DEF TransportCloses, DisconnectPush
  <2>3. CASE DecodeError \/ PingTimeout \/ CommandFailure
    BY <2>1, <2>3 DEF DecodeError, PingTimeout, CommandFailure
  <2>4. ASSUME NEW o \in TokenOutcomes, RefreshTimer(o) PROVE WantedInv' /\ Abstract
    <3>1. UNCHANGED <<state, pc, connect_requested, link, refresh_required>>
      BY <2>4 DEF RefreshTimer
    <3> QED BY <3>1
  <2> QED BY <1>3, <2>2, <2>3, <2>4 DEF ConnectedLoop
<1>4. CASE LinkBreaks
  BY <1>4 DEF LinkBreaks
<1>5. CASE UNCHANGED lifeVars
  BY <1>5 DEF lifeVars
<1> QED BY <1>1, <1>2, <1>3, <1>4, <1>5 DEF LifeNext

LEMMA WantedInit == LifeInit => WantedInv /\ ClientStatesSpec!Init
  BY DEF LifeInit, WantedInv, ConnectionWanted, RefreshedBeforeRetry, Attempting,
    ClientStatesSpec!Init

\* As long as get_token never answers Unauthorized, the actor is Connecting or Connected
\* only while connect() wants it, and never repeats a Connect with a token the server
\* called expired.
THEOREM Wanted ==
  ASSUME "unauthorized" \notin TokenOutcomes
  PROVE  LifeSpec => [](ConnectionWanted /\ RefreshedBeforeRetry)
<1>1. LifeSpec => [](Inv /\ WantedInv)
  <2>1. Inv /\ WantedInv /\ [LifeNext]_lifeVars => (Inv /\ WantedInv)'
    BY NextInv, WantedNext
  <2> QED BY <2>1, InitInv, WantedInit, PTL DEF LifeSpec
<1>2. WantedInv => ConnectionWanted /\ RefreshedBeforeRetry
  BY DEF WantedInv
<1> QED BY <1>1, <1>2, PTL

\* Under the same condition, get_token is asked again before a Connect follows the
\* server's "token expired".
THEOREM NoStaleToken ==
  ASSUME "unauthorized" \notin TokenOutcomes
  PROVE  LifeSpec => []RefreshedBeforeRetry
BY Wanted, PTL

\* Under the same condition the actor implements ClientStates: every step of the task,
\* its callbacks and its peers is a move the client state machine allows, or none.
THEOREM Refinement ==
  ASSUME "unauthorized" \notin TokenOutcomes
  PROVE  LifeSpec => ImplementsClientStates
<1>1. LifeSpec => [](Inv /\ WantedInv)
  <2>1. Inv /\ WantedInv /\ [LifeNext]_lifeVars => (Inv /\ WantedInv)'
    BY NextInv, WantedNext
  <2> QED BY <2>1, InitInv, WantedInit, PTL DEF LifeSpec
<1>2. Inv /\ WantedInv /\ [LifeNext]_lifeVars
        => [ClientStatesSpec!Next]_<<state, connect_requested>>
  BY WantedNext
<1> QED BY <1>1, <1>2, WantedInit, PTL
     DEF LifeSpec, ImplementsClientStates, ClientStatesSpec!Spec

-------------------------------------------------------------------------------
(* The handshake and batching.                                                *)

\* With batching confined to connections, a batch is open only on one.
BatchInv == HandshakeGoesOut /\ (batch_active => state = "Connected")

LEMMA BatchNext ==
  ASSUME BatchUse # "anytime", Inv, BatchInv, [LifeNext]_lifeVars
  PROVE  BatchInv'
<1> USE DEF Inv, ControlMatchesState, NoLeakedTransport, BatchInv, HandshakeGoesOut,
        callVars, tokenVars
<1>n. reconnect_attempts \in Nat /\ state \in ClientState
  BY LifecycleAssumption DEF TypeOK
<1>m. MoveToDisconnected => link' = "none" /\ ~batch_active'
  BY DEF MoveToDisconnected
<1>1. CASE Application
  <2>1. ASSUME NEW c \in Callers, HandleConnect(c) PROVE BatchInv'
    <3>1. CASE state = "Disconnected"
      <4>1. pc' \in {"backoff", "refresh"} /\ batch_active' = batch_active
        BY <2>1, <3>1, <1>n, ResumeState DEF HandleConnect
      <4> QED BY <3>1, <4>1
    <3>2. CASE state \in {"Connecting", "Connected"}
      BY <2>1, <3>2 DEF HandleConnect, TakesCommands
    <3> QED BY <2>1, <3>1, <3>2 DEF HandleConnect
  <2>2. CASE HandleDisconnect
    BY <2>2, <1>m DEF HandleDisconnect
  <2>3. CASE HandleClose
    BY <2>3 DEF HandleClose, MoveToClosed
  <2>4. ASSUME NEW c \in Callers, CallConnect(c) \/ RejectAfterClose(c) PROVE BatchInv'
    BY <2>4 DEF CallConnect, RejectAfterClose
  <2>5. CASE \/ \E t \in TokenValues : HandleSetToken(t)
             \/ StartBatching \/ StopBatching \/ DropHandles
    BY <2>5 DEF HandleSetToken, StartBatching, StopBatching, DropHandles, TakesCommands
  <2> QED BY <1>1, <2>1, <2>2, <2>3, <2>4, <2>5 DEF Application
<1>2. CASE ConnectCycle
  <2>1. CASE BackoffExpires
    BY <2>1 DEF BackoffExpires
  <2>2. CASE RefreshToken
    <3>1. CASE TokenNotRefreshed \/ TokenRefreshed
      BY <3>1 DEF TokenNotRefreshed, TokenRefreshed
    <3>2. CASE TokenUnauthorized
      BY <3>2, <1>m DEF TokenUnauthorized
    <3>3. CASE TokenRefreshFails
      BY <3>3 DEF TokenRefreshFails
    <3> QED BY <2>2, <3>1, <3>2, <3>3 DEF RefreshToken
  <2>3. CASE OpenTransport
    <3>1. CASE TransportOpens
      BY <3>1 DEF TransportOpens
    <3>2. CASE TransportFails
      BY <3>2 DEF TransportFails
    <3> QED BY <2>3, <3>1, <3>2 DEF OpenTransport
  <2>4. CASE SendConnect
    <3>1. ~batch_active
      BY <2>4 DEF SendConnect
    <3> QED BY <2>4, <3>1 DEF SendConnect
  <2>5. ASSUME NEW e, OnHandshakeFailure(e), pc \in {"handshake", "await"} PROVE BatchInv'
    BY <2>5, <1>m DEF OnHandshakeFailure, MoveToDisconnected
  <2>6. CASE HandshakeLost \/ \E e \in HandshakeErrors : ConnectRefused(e)
    BY <2>5, <2>6 DEF HandshakeLost, ConnectRefused
  <2>7. ASSUME NEW r \in BOOLEAN, HandshakeDisconnectPush(r) PROVE BatchInv'
    BY <2>7, <1>m DEF HandshakeDisconnectPush, OnTransportClose
  <2>8. CASE ConnectAccepted \/ FinishConnect
    BY <2>8 DEF ConnectAccepted, FinishConnect
  <2> QED BY <1>2, <2>1, <2>2, <2>3, <2>4, <2>6, <2>7, <2>8 DEF ConnectCycle
<1>3. CASE ConnectedLoop
  <2>1. ASSUME NEW r \in BOOLEAN, LoseConnection(r) PROVE BatchInv'
    BY <2>1, <1>m DEF LoseConnection, OnTransportClose
  <2>2. CASE \/ \E r \in BOOLEAN : TransportCloses(r) \/ DisconnectPush(r)
             \/ DecodeError \/ PingTimeout \/ CommandFailure
    BY <2>1, <2>2 DEF TransportCloses, DisconnectPush, DecodeError, PingTimeout, CommandFailure
  <2>3. ASSUME NEW o \in TokenOutcomes, RefreshTimer(o) PROVE BatchInv'
    BY <2>3, <1>m DEF RefreshTimer
  <2> QED BY <1>3, <2>2, <2>3 DEF ConnectedLoop
<1>4. CASE LinkBreaks
  BY <1>4 DEF LinkBreaks
<1>5. CASE UNCHANGED lifeVars
  BY <1>5 DEF lifeVars
<1> QED BY <1>1, <1>2, <1>3, <1>4, <1>5 DEF LifeNext

\* An application that batches only while connected never has its handshake parked in the
\* batch queue, however connections are lost and regained.
THEOREM HandshakeNeverBatched ==
  ASSUME BatchUse # "anytime"
  PROVE  LifeSpec => []HandshakeGoesOut
<1>1. LifeInit => BatchInv
  BY DEF LifeInit, BatchInv, HandshakeGoesOut
<1>2. Inv /\ BatchInv /\ [LifeNext]_lifeVars => (Inv /\ BatchInv)'
  BY NextInv, BatchNext
<1>3. BatchInv => HandshakeGoesOut
  BY DEF BatchInv
<1> QED BY <1>1, <1>2, <1>3, InitInv, PTL DEF LifeSpec
===============================================================================
