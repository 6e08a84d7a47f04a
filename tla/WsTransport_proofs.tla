--------------------------- MODULE WsTransport_proofs ---------------------------
(***************************************************************************)
(* What holds of every WebSocket connection, whatever the bounds, the peer *)
(* and the close codes.                                                    *)
(***************************************************************************)
EXTENDS WsTransport, SequenceTheorems, TLAPS

-------------------------------------------------------------------------------
(* Sequences: what moves a message from one queue to the next.                *)

LEMMA AppendAtEnd ==
  ASSUME NEW S, NEW s \in Seq(S), NEW t \in Seq(S), NEW e \in S
  PROVE  s \o Append(t, e) = Append(s \o t, e)
<1>1. Append(t, e) = t \o <<e>> BY AppendIsConcat
<1>2. <<e>> \in Seq(S) OBVIOUS
<1>3. s \o t \in Seq(S) BY ConcatProperties
<1>4. Append(s \o t, e) = (s \o t) \o <<e>> BY <1>3, AppendIsConcat
<1>5. (s \o t) \o <<e>> = s \o (t \o <<e>>) BY <1>2, ConcatAssociative
<1> QED BY <1>1, <1>4, <1>5

LEMMA HeadMoves ==
  ASSUME NEW S, NEW s \in Seq(S), NEW t \in Seq(S), t # <<>>
  PROVE  Append(s, Head(t)) \o Tail(t) = s \o t
<1>1. /\ Head(t) \in S /\ Tail(t) \in Seq(S) BY HeadTailProperties
<1>2. <<Head(t)>> \o Tail(t) = t
  <2>1. /\ <<Head(t)>> \in Seq(S) BY <1>1
  <2>2. /\ <<Head(t)>> \o Tail(t) \in Seq(S)
        /\ Len(<<Head(t)>> \o Tail(t)) = 1 + Len(Tail(t))
        /\ \A i \in 1 .. 1 + Len(Tail(t)) :
             (<<Head(t)>> \o Tail(t))[i] = IF i <= 1 THEN Head(t) ELSE Tail(t)[i - 1]
    BY <1>1, <2>1, ConcatProperties
  <2>3. /\ Len(Tail(t)) = Len(t) - 1
        /\ \A i \in 1 .. Len(Tail(t)) : Tail(t)[i] = t[i + 1]
        /\ Len(t) \in Nat \ {0}
        /\ Head(t) = t[1]
    BY HeadTailProperties, EmptySeq
  <2>4. \A i \in 1 .. Len(t) : (<<Head(t)>> \o Tail(t))[i] = t[i] BY <2>2, <2>3
  <2> QED BY <2>2, <2>3, <2>4, SeqEqual
<1>3. Append(s, Head(t)) = s \o <<Head(t)>> BY <1>1, AppendIsConcat
<1>4. (s \o <<Head(t)>>) \o Tail(t) = s \o (<<Head(t)>> \o Tail(t)) BY <1>1, ConcatAssociative
<1> QED BY <1>2, <1>3, <1>4

\* What a task holds in its hand is a sequence of at most one message.
LEMMA OneInHand ==
  ASSUME NEW S, NEW s \in Seq(S), Len(s) = 1
  PROVE  /\ s[1] \in S
         /\ s = <<s[1]>>
<1>1. 1 \in 1 .. Len(s) OBVIOUS
<1>2. s[1] \in S BY <1>1, ElementOfSeq
<1>3. <<s[1]>> \in Seq(S) /\ Len(<<s[1]>>) = 1 /\ <<s[1]>>[1] = s[1] BY <1>2
<1> QED BY <1>2, <1>3, SeqEqual

LEMMA OneTail ==
  ASSUME NEW S, NEW s \in Seq(S), Len(s) = 1
  PROVE  /\ s # <<>>
         /\ Head(s) = s[1]
         /\ Tail(s) = <<>>
<1>1. s # <<>>
  <2>1. Len(<<>>) = 0 /\ 1 # 0 BY EmptySeq
  <2> QED BY <2>1, Zenon
<1>2. /\ Tail(s) \in Seq(S) /\ Len(Tail(s)) = 0 /\ Head(s) = s[1]
  BY <1>1, HeadTailProperties
<1> QED BY <1>1, <1>2, EmptySeq

LEMMA NoneInHand ==
  ASSUME NEW S, NEW s \in Seq(S), Len(s) = 0
  PROVE  s = <<>>
BY EmptySeq

\* Two channels, a task between them and what has come out: a \o (b \o (c \o d)), newest
\* last.  A message that enters, or moves from one place to the next, keeps the order.
LEMMA Moves ==
  ASSUME NEW S, NEW a \in Seq(S), NEW b \in Seq(S), NEW c \in Seq(S), b # <<>>
  PROVE  Append(a, Head(b)) \o (Tail(b) \o c) = a \o (b \o c)
<1>1. /\ Head(b) \in S /\ Tail(b) \in Seq(S) BY HeadTailProperties
<1>2. Append(a, Head(b)) \in Seq(S) BY <1>1, AppendProperties
<1>3. Append(a, Head(b)) \o (Tail(b) \o c) = (Append(a, Head(b)) \o Tail(b)) \o c
  BY <1>1, <1>2, ConcatAssociative
<1>4. Append(a, Head(b)) \o Tail(b) = a \o b BY HeadMoves
<1>5. (a \o b) \o c = a \o (b \o c) BY ConcatAssociative
<1> QED BY <1>3, <1>4, <1>5

\* The task takes a message in its hand.
LEMMA Taken ==
  ASSUME NEW S, NEW d \in Seq(S), d # <<>>
  PROVE  <<Head(d)>> \o Tail(d) = <<>> \o d
<1>1. <<>> \in Seq(S) BY EmptySeq
<1>2. Append(<<>>, Head(d)) \o Tail(d) = <<>> \o d BY <1>1, HeadMoves
<1>3. Append(<<>>, Head(d)) = <<Head(d)>> OBVIOUS
<1> QED BY <1>2, <1>3

\* The task lets go of it.
LEMMA Given ==
  ASSUME NEW S, NEW b \in Seq(S), NEW c \in Seq(S), NEW d \in Seq(S), Len(c) = 1
  PROVE  Append(b, c[1]) \o (<<>> \o d) = b \o (c \o d)
<1>1. c # <<>> /\ Head(c) = c[1] /\ Tail(c) = <<>> BY OneTail
<1>2. Append(b, Head(c)) \o (Tail(c) \o d) = b \o (c \o d) BY <1>1, Moves
<1> QED BY <1>1, <1>2

-------------------------------------------------------------------------------
(* Types and bounds.                                                          *)

Endings == [kind : {"open", "dropped", "ended"}, code : Nat, reconnect : BOOLEAN]

LEMMA ParseCloseTyped ==
  ASSUME NEW r \in CloseReasons \union {Bare}
  PROVE  /\ ParseClose(r) \in Endings
         /\ ParseClose(r).kind = "ended"
<1>1. r \in [kind : {"bare", "plain", "advice"}, code : Nat, advice : Nat, reconnect : BOOLEAN]
  <2>1. Bare \in [kind : {"bare", "plain", "advice"}, code : Nat, advice : Nat, reconnect : BOOLEAN]
    BY DEF Bare
  <2> QED BY <2>1, TransportAssumption
<1>2. MapCloseCode(r.code) \in Endings /\ MapCloseCode(r.code).kind = "ended"
  <2>1. r.code \in Nat BY <1>1
  <2>2. ShouldReconnectOnDisconnect(r.code) \in BOOLEAN BY DEF ShouldReconnectOnDisconnect
  <2> QED
    BY <2>1, <2>2 DEF MapCloseCode, Ended, Endings, TRANSPORT_CLOSED, MESSAGE_SIZE_LIMIT
<1> QED BY <1>1, <1>2 DEF ParseClose, Ended, Endings, TRANSPORT_CLOSED

LEMMA MessagesTyped ==
  /\ \A k \in Nat : Data(k) \in Message
  /\ \A r \in CloseReasons \union {Bare} : Close(r) \in Message
BY DEF Data, Close, Message

LEMMA TypeInit == Init => TypeOK
BY TransportAssumption DEF Init, TypeOK, Open

LEMMA TypeStep == TypeOK /\ [Next]_vars => TypeOK'
<1> SUFFICES ASSUME TypeOK, [Next]_vars PROVE TypeOK'
  OBVIOUS
<1> USE TransportAssumption, MessagesTyped DEF TypeOK
<1>1. CASE ActorSends BY <1>1 DEF ActorSends, writeVars, readVars
<1>2. CASE SendAccepted BY <1>2 DEF SendAccepted, ReceiverAlive, readVars
<1>3. CASE SendRefused BY <1>3 DEF SendRefused, writeVars, readVars
<1>4. CASE ActorTakesFrame
  <2>1. Head(frame_q) \in Message /\ Tail(frame_q) \in Seq(Message)
        /\ Len(Tail(frame_q)) = Len(frame_q) - 1
    BY <1>4, HeadTailProperties DEF ActorTakesFrame
  <2>2. Head(frame_q).reason \in CloseReasons \union {Bare} BY <2>1 DEF Message
  <2>3. ParseClose(Head(frame_q).reason) \in Endings BY <2>2, ParseCloseTyped
  <2>4. /\ delivered' \in Seq(Message)
        /\ UNCHANGED <<writeVars, pushed, in_socket, reader, reading, ws, peer>>
    BY <1>4, <2>1 DEF ActorTakesFrame
  <2>5. /\ actor' \in {"idle", "gone"}
        /\ frame_q' \in Seq(Message) /\ Len(frame_q') <= Capacity
        /\ outcome' \in Endings
    <3>1. <<>> \in Seq(Message) /\ Len(<<>>) = 0 BY EmptySeq
    <3>2. CASE LeavesWith(ParseClose(Head(frame_q).reason))
      BY <3>1, <3>2, <2>3 DEF LeavesWith
    <3>3. CASE frame_q' = Tail(frame_q) /\ UNCHANGED <<actor, outcome>>
      BY <3>3, <1>4, <2>1 DEF ActorTakesFrame, Endings
    <3> QED BY <1>4, <3>2, <3>3 DEF ActorTakesFrame
  <2> QED BY <2>4, <2>5 DEF Endings, writeVars
<1>5. CASE ActorDrops BY <1>5 DEF ActorDrops, LeavesWith, Dropped, writeVars
<1>6. CASE WriterTakes BY <1>6 DEF WriterTakes, readVars, actorVars
<1>7. CASE WriterSeesEnd BY <1>7 DEF WriterSeesEnd, readVars, actorVars
<1>8. CASE WriterSends
  <2>1. writing[1] \in Nat BY <1>8, OneInHand DEF WriterSends
  <2>2. out_socket' \in Seq(Nat) BY <1>8, <2>1 DEF WriterSends
  <2> QED BY <1>8, <2>2 DEF WriterSends, readVars, actorVars
<1>9. CASE WriterFails BY <1>9 DEF WriterFails, readVars, actorVars
<1>10. CASE WriterCloses
  <2>1. out_socket' \in Seq(Nat) 
    <3>1. Append(out_socket, CloseFrame) \in Seq(Nat) BY AppendProperties DEF CloseFrame
    <3> QED BY <3>1, <1>10 DEF WriterCloses
  <2> QED BY <1>10, <2>1 DEF WriterCloses, readVars, actorVars
<1>11. CASE ReaderReads BY <1>11 DEF ReaderReads, writeVars, actorVars
<1>12. CASE ReaderFails BY <1>12 DEF ReaderFails, writeVars, actorVars
<1>13. CASE ReaderForwards
  <2>1. reading[1] \in Message BY <1>13, OneInHand DEF ReaderForwards
  <2>2. /\ frame_q' \in Seq(Message) /\ Len(frame_q') <= Capacity
        /\ UNCHANGED <<pushed, in_socket, actorVars, ws, peer>>
    BY <1>13, <2>1 DEF ReaderForwards
  <2>3. CASE ReaderEnds BY <2>2, <2>3 DEF ReaderEnds, actorVars
  <2>4. CASE reader' = "next" /\ reading' = <<>> /\ UNCHANGED writeVars
    BY <2>2, <2>4 DEF writeVars, actorVars
  <2> QED BY <1>13, <2>3, <2>4 DEF ReaderForwards
<1>14. CASE ReaderRefused BY <1>14 DEF ReaderRefused, ReaderEnds, actorVars
<1>15. CASE PeerReads
  <2>1. Head(out_socket) \in Nat /\ out_socket' \in Seq(Nat)
    BY <1>15, HeadTailProperties DEF PeerReads
  <2>2. received' \in Seq(Nat) /\ peer' \in {"open", "asked", "closed"}
    <3>1. Append(received, Head(out_socket)) \in Seq(Nat) BY <2>1, AppendProperties
    <3> QED BY <3>1, <1>15 DEF PeerReads
  <2> QED BY <1>15, <2>1, <2>2 DEF PeerReads, readVars, actorVars
<1>16. CASE PeerSends BY <1>16 DEF PeerSends, PeerSays, writeVars, actorVars
<1>17. CASE PeerAnswersClose BY <1>17 DEF PeerAnswersClose, PeerSays, writeVars, actorVars
<1>18. ASSUME NEW r \in CloseReasons, PeerCloses(r) PROVE TypeOK'
  BY <1>18 DEF PeerCloses, PeerSays, writeVars, actorVars
<1>19. CASE LinkBreaks
  <2>1. in_socket' \in Seq(Message) /\ out_socket' \in Seq(Nat) 
    <3>1. <<>> \in Seq(Message) /\ <<>> \in Seq(Nat) BY EmptySeq
    <3> QED BY <3>1, <1>19 DEF LinkBreaks
  <2> QED BY <1>19, <2>1 DEF LinkBreaks, actorVars
<1>20. CASE UNCHANGED vars BY <1>20 DEF vars
<1> QED
  BY <1>1, <1>2, <1>3, <1>4, <1>5, <1>6, <1>7, <1>8, <1>9, <1>10, <1>11, <1>12, <1>13, <1>14,
     <1>15, <1>16, <1>17, <1>18, <1>19, <1>20 DEF Next

-------------------------------------------------------------------------------
(* Commands.                                                                  *)

\* A Close frame is written last, so what precedes it on the socket are commands.
Command == Nat \ {0}
CommandsTyped ==
  writer # "done" =>
    /\ accepted \in Seq(Command) /\ write_q \in Seq(Command) /\ writing \in Seq(Command)
    /\ out_socket \in Seq(Command) /\ received \in Seq(Command)

CommandInv == TypeOK /\ CommandsTyped /\ CommandsInOrder

LEMMA CommandInit == Init => CommandsTyped /\ CommandsInOrder
BY DEF Init, CommandsTyped, CommandsInOrder

\* The writer lives on only if it lived before; the connection does not come back.
LEMMA WriterStep ==
  ASSUME CommandInv, [Next]_vars, writer' \in {"recv", "sending"}, ws' = "open"
  PROVE  /\ writer \in {"recv", "sending"}
         /\ ws = "open"
<1> USE DEF CommandInv
<1>0. CASE UNCHANGED vars BY <1>0 DEF vars
<1>1. CASE ActorSends \/ SendAccepted \/ SendRefused \/ ActorTakesFrame \/ ActorDrops
  BY <1>1 DEF ActorSends, SendAccepted, SendRefused, ActorTakesFrame, ActorDrops, writeVars
<1>2. CASE WriterTakes \/ WriterSeesEnd \/ WriterSends \/ WriterFails \/ WriterCloses
  BY <1>2 DEF WriterTakes, WriterSeesEnd, WriterSends, WriterFails, WriterCloses
<1>3. CASE ReaderReads \/ ReaderFails \/ ReaderForwards \/ ReaderRefused
  BY <1>3 DEF TypeOK, ReaderReads, ReaderFails, ReaderForwards, ReaderRefused, ReaderEnds, writeVars
<1>4. CASE PeerReads \/ PeerSends \/ PeerAnswersClose \/ LinkBreaks
  BY <1>4 DEF PeerReads, PeerSends, PeerAnswersClose, PeerSays, LinkBreaks, writeVars
<1>5. ASSUME NEW r \in CloseReasons, PeerCloses(r)
      PROVE  writer \in {"recv", "sending"} /\ ws = "open"
  BY <1>5 DEF PeerCloses, PeerSays, writeVars
<1> QED BY <1>0, <1>1, <1>2, <1>3, <1>4, <1>5 DEF Next

\* What a step leaves of the commands when it only concerns frames.
LEMMA CommandsAlone ==
  ASSUME CommandInv, [Next]_vars,
         UNCHANGED <<accepted, write_q, writing, out_socket, received>>
  PROVE  /\ writer' # "done" => writer # "done"
         /\ CommandsTyped'
         /\ CommandsInOrder'
<1>1. writer' # "done" => writer # "done"
  <2>0. CASE UNCHANGED vars BY <2>0 DEF vars
  <2>1. CASE ActorSends \/ SendAccepted \/ SendRefused \/ ActorTakesFrame \/ ActorDrops
    BY <2>1 DEF ActorSends, SendAccepted, SendRefused, ActorTakesFrame, ActorDrops, writeVars
  <2>2. CASE WriterTakes \/ WriterSeesEnd \/ WriterSends \/ WriterFails \/ WriterCloses
    BY <2>2 DEF WriterTakes, WriterSeesEnd, WriterSends, WriterFails, WriterCloses
  <2>3. CASE ReaderReads \/ ReaderFails \/ ReaderForwards \/ ReaderRefused
    BY <2>3 DEF ReaderReads, ReaderFails, ReaderForwards, ReaderRefused, ReaderEnds, writeVars
  <2>4. CASE PeerReads \/ PeerSends \/ PeerAnswersClose \/ LinkBreaks
    BY <2>4 DEF PeerReads, PeerSends, PeerAnswersClose, PeerSays, LinkBreaks, writeVars
  <2>5. ASSUME NEW r \in CloseReasons, PeerCloses(r)
        PROVE  writer' # "done" => writer # "done"
    BY <2>5 DEF PeerCloses, PeerSays, writeVars
  <2> QED BY <2>0, <2>1, <2>2, <2>3, <2>4, <2>5 DEF Next
<1>2. CommandsTyped' BY <1>1 DEF CommandInv, CommandsTyped
<1>3. CommandsInOrder' BY WriterStep DEF CommandInv, CommandsInOrder
<1> QED BY <1>1, <1>2, <1>3

LEMMA CommandStep == CommandInv /\ [Next]_vars => CommandsTyped' /\ CommandsInOrder'
<1> SUFFICES ASSUME CommandInv, [Next]_vars PROVE CommandsTyped' /\ CommandsInOrder'
  OBVIOUS
<1>0. TypeOK /\ CommandsTyped /\ CommandsInOrder BY DEF CommandInv
<1>1. CASE SendAccepted
  <2>1. Len(accepted) + 1 \in Command BY <1>0 DEF TypeOK, Command
  <2>2. CommandsTyped'
    BY <1>0, <1>1, <2>1, AppendProperties DEF CommandsTyped, SendAccepted
  <2>3. received \o (out_socket \o (writing \o write_q'))
          = Append(received \o (out_socket \o (writing \o write_q)), Len(accepted) + 1)
    <3>1. /\ received \in Seq(Nat) /\ out_socket \in Seq(Nat) /\ writing \in Seq(Nat)
          /\ write_q \in Seq(Nat)
      BY <1>0 DEF TypeOK
    <3>2. PICK e \in Nat : e = Len(accepted) + 1 BY <2>1 DEF Command
    <3>3. writing \o Append(write_q, e) = Append(writing \o write_q, e) BY <3>1, AppendAtEnd
    <3>4. writing \o write_q \in Seq(Nat) BY <3>1, ConcatProperties
    <3>5. out_socket \o (writing \o write_q) \in Seq(Nat) BY <3>1, <3>4, ConcatProperties
    <3>6. \A q \in Seq(Nat) : /\ out_socket \o Append(q, e) = Append(out_socket \o q, e)
                              /\ received \o Append(q, e) = Append(received \o q, e)
      BY <3>1, AppendAtEnd
    <3>7. received \o (out_socket \o (writing \o Append(write_q, e)))
            = Append(received \o (out_socket \o (writing \o write_q)), e)
      BY <3>3, <3>4, <3>5, <3>6, Zenon
    <3> QED BY <1>1, <3>2, <3>7 DEF SendAccepted
  <2>4. CommandsInOrder' BY <1>0, <1>1, <2>3 DEF CommandsInOrder, SendAccepted
  <2> QED BY <2>2, <2>4
<1>2. CASE WriterTakes
  <2>1. writing = <<>> BY <1>0, <1>2, NoneInHand DEF TypeOK, WriterTakes
  <2>2. Head(write_q) \in Command /\ Tail(write_q) \in Seq(Command)
    BY <1>0, <1>2, HeadTailProperties DEF CommandsTyped, WriterTakes
  <2>3. CommandsTyped' BY <1>0, <1>2, <2>2 DEF CommandsTyped, WriterTakes
  <2>4. writing' \o write_q' = writing \o write_q
    BY <1>0, <1>2, <2>1, Taken DEF TypeOK, WriterTakes
  <2>5. CommandsInOrder' BY <1>0, <1>2, <2>4 DEF CommandsInOrder, WriterTakes
  <2> QED BY <2>3, <2>5
<1>3. CASE WriterSends
  <2>1. Len(writing) = 1 BY <1>0, <1>3 DEF TypeOK, WriterSends
  <2>2. writing[1] \in Command
    BY <1>0, <1>3, <2>1, OneInHand DEF CommandsTyped, WriterSends
  <2>3. <<>> \in Seq(Command) BY EmptySeq
  <2>4. Append(out_socket, writing[1]) \in Seq(Command)
    BY <1>0, <1>3, <2>2, AppendProperties DEF CommandsTyped, WriterSends
  <2>5. CommandsTyped' BY <1>0, <1>3, <2>3, <2>4 DEF CommandsTyped, WriterSends
  <2>6. out_socket' \o (writing' \o write_q) = out_socket \o (writing \o write_q)
    <3>1. out_socket \in Seq(Nat) /\ writing \in Seq(Nat) /\ write_q \in Seq(Nat)
      BY <1>0 DEF TypeOK
    <3>2. Append(out_socket, writing[1]) \o (<<>> \o write_q) = out_socket \o (writing \o write_q)
      BY <2>1, <3>1, Given
    <3> QED BY <1>3, <3>2 DEF WriterSends
  <2>7. CommandsInOrder' BY <1>0, <1>3, <2>6 DEF CommandsInOrder, WriterSends
  <2> QED BY <2>5, <2>7
<1>4. CASE PeerReads
  <2>0. CASE writer = "done"
    BY <1>4, <2>0 DEF PeerReads, CommandsTyped, CommandsInOrder
  <2>1. CASE writer # "done"
    <3>1. Head(out_socket) \in Command /\ Tail(out_socket) \in Seq(Command)
      BY <1>0, <1>4, <2>1, HeadTailProperties DEF CommandsTyped, PeerReads
    <3>2. received' = Append(received, Head(out_socket)) /\ out_socket' = Tail(out_socket)
      BY <1>4, <3>1 DEF PeerReads, Command, CloseFrame
    <3>3. CommandsTyped'
      BY <1>0, <1>4, <2>1, <3>1, <3>2, AppendProperties DEF CommandsTyped, PeerReads
    <3>4. received' \o (out_socket' \o (writing' \o write_q'))
            = received \o (out_socket \o (writing \o write_q))
      <4>1. /\ received \in Seq(Nat) /\ out_socket \in Seq(Nat) /\ out_socket # <<>>
        BY <1>0, <1>4 DEF TypeOK, PeerReads
      <4>2. writing \o write_q \in Seq(Nat) BY <1>0, ConcatProperties DEF TypeOK
      <4>3. Append(received, Head(out_socket)) \o (Tail(out_socket) \o (writing \o write_q))
              = received \o (out_socket \o (writing \o write_q))
        <5>1. \A q \in Seq(Nat) :
                Append(received, Head(out_socket)) \o (Tail(out_socket) \o q)
                  = received \o (out_socket \o q)
          BY <4>1, Moves
        <5> QED BY <4>2, <5>1, Zenon
      <4>4. writing' = writing /\ write_q' = write_q BY <1>4 DEF PeerReads
      <4> QED BY <3>2, <4>3, <4>4
    <3>5. CommandsInOrder' BY <1>0, <1>4, <3>4 DEF CommandsInOrder, PeerReads
    <3> QED BY <3>3, <3>5
  <2> QED BY <2>0, <2>1
<1>5. CASE WriterFails
  <2>1. <<>> \in Seq(Command) BY EmptySeq
  <2> QED BY <1>0, <1>5, <2>1 DEF WriterFails, CommandsTyped, CommandsInOrder
<1>6. CASE WriterCloses
  BY <1>6 DEF WriterCloses, CommandsTyped, CommandsInOrder
<1>7. CASE ReaderEnds
  BY <1>7 DEF ReaderEnds, CommandsTyped, CommandsInOrder
<1>8. CASE ReaderForwards
  BY <1>7, <1>8, CommandsAlone DEF ReaderForwards, writeVars
<1>9. CASE LinkBreaks
  <2>1. <<>> \in Seq(Command) BY EmptySeq
  <2> QED BY <1>0, <1>9, <2>1 DEF LinkBreaks, CommandsTyped, CommandsInOrder
<1>10. CASE ActorSends \/ SendRefused \/ ActorTakesFrame \/ ActorDrops \/ WriterSeesEnd
             \/ ReaderReads \/ ReaderFails \/ PeerSends \/ PeerAnswersClose
  BY <1>10, CommandsAlone
     DEF ActorSends, SendRefused, ActorTakesFrame, ActorDrops, WriterSeesEnd, ReaderReads,
         ReaderFails, PeerSends, PeerAnswersClose, PeerSays, writeVars
<1>11. ASSUME NEW r \in CloseReasons, PeerCloses(r) PROVE CommandsTyped' /\ CommandsInOrder'
  BY <1>11, CommandsAlone DEF PeerCloses, PeerSays, writeVars
<1>12. CASE UNCHANGED vars BY <1>12, CommandsAlone DEF vars
<1>13. CASE ReaderRefused BY <1>7, <1>13 DEF ReaderRefused
<1> QED
  BY <1>1, <1>2, <1>3, <1>4, <1>5, <1>6, <1>8, <1>9, <1>10, <1>11, <1>12, <1>13 DEF Next

-------------------------------------------------------------------------------
(* Frames.                                                                    *)

FrameInv == TypeOK /\ FramesInOrder

\* A reader that has ended, a broken connection and a departed actor stay so.
LEMMA ListeningStep ==
  ASSUME FrameInv, [Next]_vars, reader' # "done", ws' # "broken", actor' # "gone"
  PROVE  reader # "done" /\ ws # "broken" /\ actor # "gone"
<1>0. CASE UNCHANGED vars BY <1>0 DEF vars
<1>1. CASE ActorSends \/ SendAccepted \/ SendRefused \/ ActorTakesFrame \/ ActorDrops
  BY <1>1 DEF ActorSends, SendAccepted, SendRefused, ActorTakesFrame, ActorDrops, readVars, LeavesWith
<1>2. CASE WriterTakes \/ WriterSeesEnd \/ WriterSends \/ WriterFails \/ WriterCloses
  BY <1>2 DEF WriterTakes, WriterSeesEnd, WriterSends, WriterFails, WriterCloses, readVars, actorVars
<1>3. CASE ReaderReads \/ ReaderFails \/ ReaderForwards \/ ReaderRefused
  BY <1>3 DEF ReaderReads, ReaderFails, ReaderForwards, ReaderRefused, ReaderEnds, actorVars
<1>4. CASE PeerReads \/ PeerSends \/ PeerAnswersClose \/ LinkBreaks
  BY <1>4 DEF PeerReads, PeerSends, PeerAnswersClose, PeerSays, LinkBreaks, readVars, actorVars
<1>5. ASSUME NEW r \in CloseReasons, PeerCloses(r)
      PROVE  reader # "done" /\ ws # "broken" /\ actor # "gone"
  BY <1>5 DEF PeerCloses, PeerSays, actorVars
<1> QED BY <1>0, <1>1, <1>2, <1>3, <1>4, <1>5 DEF Next

\* What the peer says enters at the socket.
LEMMA PeerSaysInOrder ==
  ASSUME FrameInv, [Next]_vars, NEW m \in Message, PeerSays(m)
  PROVE  FramesInOrder'
<1>1. /\ delivered \in Seq(Message) /\ frame_q \in Seq(Message)
      /\ reading \in Seq(Message) /\ in_socket \in Seq(Message)
  BY DEF FrameInv, TypeOK
<1>2. reading \o Append(in_socket, m) = Append(reading \o in_socket, m) BY <1>1, AppendAtEnd
<1>3. reading \o in_socket \in Seq(Message) BY <1>1, ConcatProperties
<1>4. frame_q \o (reading \o in_socket) \in Seq(Message) BY <1>1, <1>3, ConcatProperties
<1>5. \A q \in Seq(Message) : /\ frame_q \o Append(q, m) = Append(frame_q \o q, m)
                               /\ delivered \o Append(q, m) = Append(delivered \o q, m)
  BY <1>1, AppendAtEnd
<1>6. delivered \o (frame_q \o (reading \o Append(in_socket, m)))
        = Append(delivered \o (frame_q \o (reading \o in_socket)), m)
  BY <1>2, <1>3, <1>4, <1>5, Zenon
<1>7. /\ pushed' = Append(pushed, m) /\ in_socket' = Append(in_socket, m)
      /\ reading' = reading /\ frame_q' = frame_q /\ delivered' = delivered
  BY DEF PeerSays, actorVars
<1> QED BY <1>6, <1>7, ListeningStep DEF FrameInv, FramesInOrder

LEMMA FrameInit == Init => FramesInOrder
BY DEF Init, FramesInOrder

LEMMA FrameStep == FrameInv /\ [Next]_vars => FramesInOrder'
<1> SUFFICES ASSUME FrameInv, [Next]_vars PROVE FramesInOrder'
  OBVIOUS
<1>0. TypeOK /\ FramesInOrder BY DEF FrameInv
<1>a. /\ delivered \in Seq(Message) /\ frame_q \in Seq(Message)
      /\ reading \in Seq(Message) /\ in_socket \in Seq(Message)
  BY <1>0 DEF TypeOK
<1>1. CASE ActorTakesFrame
  <2>1. CASE Head(frame_q).kind = "close"
    BY <1>1, <2>1 DEF ActorTakesFrame, LeavesWith, FramesInOrder
  <2>2. CASE Head(frame_q).kind # "close"
    <3>1. reading \o in_socket \in Seq(Message) BY <1>a, ConcatProperties
    <3>2. \A q \in Seq(Message) : Append(delivered, Head(frame_q)) \o (Tail(frame_q) \o q)
                                   = delivered \o (frame_q \o q)
      BY <1>a, <1>1, Moves DEF ActorTakesFrame
    <3>3. Append(delivered, Head(frame_q)) \o (Tail(frame_q) \o (reading \o in_socket))
            = delivered \o (frame_q \o (reading \o in_socket))
      BY <3>1, <3>2, Zenon
    <3>4. /\ delivered' = Append(delivered, Head(frame_q)) /\ frame_q' = Tail(frame_q)
          /\ reading' = reading /\ in_socket' = in_socket /\ pushed' = pushed
      BY <1>1, <2>2 DEF ActorTakesFrame
    <3> QED BY <1>0, <3>3, <3>4, ListeningStep DEF FramesInOrder
  <2> QED BY <2>1, <2>2
<1>2. CASE ActorDrops
  BY <1>2 DEF ActorDrops, LeavesWith, FramesInOrder
<1>3. CASE ReaderReads
  <2>1. reading = <<>> BY <1>0, <1>3, NoneInHand DEF TypeOK, ReaderReads
  <2>2. reading' \o in_socket' = reading \o in_socket
    BY <1>a, <1>3, <2>1, Taken DEF ReaderReads
  <2> QED BY <1>0, <1>3, <2>2, ListeningStep DEF ReaderReads, actorVars, FramesInOrder
<1>4. CASE ReaderFails
  BY <1>4 DEF ReaderFails, FramesInOrder
<1>5. CASE ReaderForwards
  <2>1. CASE reading[1].kind = "close"
    BY <1>5, <2>1 DEF ReaderForwards, ReaderEnds, FramesInOrder
  <2>2. CASE reading[1].kind # "close"
    <3>1. Len(reading) = 1 BY <1>0, <1>5 DEF TypeOK, ReaderForwards
    <3>2. Append(frame_q, reading[1]) \o (<<>> \o in_socket) = frame_q \o (reading \o in_socket)
      <4>2. reading # <<>> /\ Head(reading) = reading[1] /\ Tail(reading) = <<>>
        BY <1>a, <3>1, OneTail
      <4>4. Append(frame_q, Head(reading)) \o (Tail(reading) \o in_socket)
              = frame_q \o (reading \o in_socket)
        BY <1>a, <4>2, Moves
      <4> QED BY <4>2, <4>4
    <3>3. /\ frame_q' = Append(frame_q, reading[1]) /\ reading' = <<>>
          /\ in_socket' = in_socket /\ pushed' = pushed /\ delivered' = delivered
      BY <1>5, <2>2 DEF ReaderForwards, actorVars
    <3> QED BY <1>0, <3>2, <3>3, ListeningStep DEF FramesInOrder
  <2> QED BY <2>1, <2>2
<1>6. CASE ReaderRefused
  BY <1>6 DEF ReaderRefused, ReaderEnds, FramesInOrder
<1>7. CASE PeerSends
  <2>1. Len(pushed) + 1 \in Nat BY <1>0 DEF TypeOK
  <2> QED BY <1>7, <2>1, MessagesTyped, PeerSaysInOrder DEF PeerSends
<1>8. CASE PeerAnswersClose
  BY <1>8, MessagesTyped, PeerSaysInOrder DEF PeerAnswersClose
<1>9. ASSUME NEW r \in CloseReasons, PeerCloses(r) PROVE FramesInOrder'
  BY <1>9, MessagesTyped, PeerSaysInOrder DEF PeerCloses
<1>10. CASE LinkBreaks BY <1>10 DEF LinkBreaks, FramesInOrder
<1>11. CASE ActorSends \/ SendAccepted \/ SendRefused \/ WriterTakes \/ WriterSeesEnd
              \/ WriterSends \/ WriterFails \/ WriterCloses \/ PeerReads \/ UNCHANGED vars
  <2>1. UNCHANGED <<pushed, delivered, frame_q, reading, in_socket>>
    BY <1>11
       DEF ActorSends, SendAccepted, SendRefused, WriterTakes, WriterSeesEnd, WriterSends,
           WriterFails, WriterCloses, PeerReads, readVars, actorVars, vars
  <2> QED BY <1>0, <2>1, ListeningStep DEF FramesInOrder
<1> QED
  BY <1>1, <1>2, <1>3, <1>4, <1>5, <1>6, <1>7, <1>8, <1>9, <1>10, <1>11 DEF Next

-------------------------------------------------------------------------------
(* Giving up.                                                                 *)

Items(q) == {q[k] : k \in 1 .. Len(q)}

\* A Close on its way is the peer's own, or one without a payload that the reader made.
Told(q) == \A m \in Items(q) : m.kind = "close" => m.reason = Bare \/ m \in Items(pushed)

\* The actor stops taking frames with the first Close.
NoClose(q) == \A m \in Items(q) : m.kind # "close"

GivesUp ==
  outcome.kind = "ended" =>
    /\ ~outcome.reconnect => \E m \in Items(pushed) : m.kind = "close" /\ Terminal(m.reason)
    /\ outcome.reconnect => \A m \in Items(delivered) : m.kind = "close" => ~Terminal(m.reason)

GiveUpInv ==
  /\ TypeOK
  /\ Told(frame_q) /\ Told(reading) /\ Told(in_socket)
  /\ actor # "gone" => outcome.kind = "open" /\ NoClose(delivered)
  /\ GivesUp

LEMMA ItemsAppend ==
  ASSUME NEW S, NEW q \in Seq(S), NEW e \in S
  PROVE  Items(Append(q, e)) = Items(q) \union {e}
<1>1. /\ Len(Append(q, e)) = Len(q) + 1 /\ Len(q) \in Nat
      /\ \A k \in 1 .. Len(q) : Append(q, e)[k] = q[k]
      /\ Append(q, e)[Len(q) + 1] = e
  BY AppendProperties, LenProperties
<1> QED BY <1>1 DEF Items

LEMMA ItemsTail ==
  ASSUME NEW S, NEW q \in Seq(S), q # <<>>
  PROVE  /\ Head(q) \in Items(q)
         /\ Items(Tail(q)) \subseteq Items(q)
<1>1. /\ Len(Tail(q)) = Len(q) - 1 /\ Head(q) = q[1]
      /\ \A k \in 1 .. Len(Tail(q)) : Tail(q)[k] = q[k + 1]
  BY HeadTailProperties
<1>2. Len(q) \in Nat \ {0} BY EmptySeq
<1> QED BY <1>1, <1>2 DEF Items

LEMMA ItemsFew ==
  /\ Items(<<>>) = {}
  /\ \A e : Items(<<e>>) = {e}
BY DEF Items

LEMMA MappedCode ==
  ASSUME NEW n \in Nat
  PROVE  MapCloseCode(n).reconnect
           <=> ~(n = 1009 \/ n \in 3500 .. 3999 \/ n \in 4500 .. 4999)
<1>1. CASE n \in {1000, 1001} \/ n = 1009 BY <1>1 DEF MapCloseCode, Ended
<1>2. CASE n >= 3000
  <2>1. MapCloseCode(n) = Ended(n, ShouldReconnectOnDisconnect(n)) BY <1>2 DEF MapCloseCode
  <2>2. CASE n \in 3500 .. 3999 \/ n \in 4500 .. 4999
    <3>1. ShouldReconnectOnDisconnect(n) = FALSE BY <2>2 DEF ShouldReconnectOnDisconnect
    <3> QED BY <2>1, <2>2, <3>1 DEF Ended
  <2>3. CASE ~(n \in 3500 .. 3999 \/ n \in 4500 .. 4999)
    <3>1. ShouldReconnectOnDisconnect(n) = TRUE BY <2>3 DEF ShouldReconnectOnDisconnect
    <3> QED BY <1>2, <2>1, <2>3, <3>1 DEF Ended
  <2> QED BY <2>2, <2>3
<1>3. CASE n \notin {1000, 1001} /\ n # 1009 /\ n < 3000 BY <1>3 DEF MapCloseCode, Ended
<1> QED BY <1>1, <1>2, <1>3

\* The decision of the code tables.
LEMMA ReconnectUnlessTerminal ==
  ASSUME NEW r \in CloseReasons \union {Bare}
  PROVE  ParseClose(r).reconnect <=> ~Terminal(r)
<1>1. CASE r = Bare BY <1>1 DEF Bare, ParseClose, Terminal, Ended
<1>2. CASE r \in CloseReasons
  <2>1. r \in [kind : {"bare", "plain", "advice"}, code : Nat, advice : Nat, reconnect : BOOLEAN]
    BY <1>2, TransportAssumption
  <2>2. MapCloseCode(r.code).reconnect
          <=> ~(r.code = 1009 \/ r.code \in 3500 .. 3999 \/ r.code \in 4500 .. 4999)
    <3>1. PICK n \in Nat : n = r.code BY <2>1
    <3>2. MapCloseCode(n).reconnect
            <=> ~(n = 1009 \/ n \in 3500 .. 3999 \/ n \in 4500 .. 4999)
      BY MappedCode
    <3> QED BY <3>1, <3>2
  <2>3. CASE r.kind = "bare" BY <2>3 DEF ParseClose, Terminal, Ended
  <2>4. CASE r.kind = "plain" BY <2>2, <2>4 DEF ParseClose, Terminal
  <2>5. CASE r.kind = "advice" BY <2>1, <2>5 DEF ParseClose, Terminal, Ended
  <2> QED BY <2>1, <2>3, <2>4, <2>5
<1> QED BY <1>1, <1>2

LEMMA GiveUpInit == Init => GiveUpInv
BY TypeInit, ItemsFew DEF Init, GiveUpInv, Told, NoClose, GivesUp, Open

\* The peer only ever adds to what it has said.
LEMMA PeerSaysTold ==
  ASSUME GiveUpInv, TypeOK', NEW m \in Message, PeerSays(m)
  PROVE  GiveUpInv'
<1>1. pushed \in Seq(Message) /\ in_socket \in Seq(Message) BY DEF GiveUpInv, TypeOK
<1>2. /\ Items(pushed') = Items(pushed) \union {m}
      /\ Items(in_socket') = Items(in_socket) \union {m}
  BY <1>1, ItemsAppend DEF PeerSays
<1>3. Items(frame_q') = Items(frame_q) /\ Items(reading') = Items(reading)
      /\ Items(delivered') = Items(delivered) /\ actor' = actor /\ outcome' = outcome
  BY DEF PeerSays, actorVars, Items
<1>4. Told(frame_q)' /\ Told(reading)' /\ Told(in_socket)'
  BY <1>2, <1>3 DEF GiveUpInv, Told
<1>5. NoClose(delivered)' <=> NoClose(delivered) BY <1>3 DEF NoClose
<1>6. GivesUp' BY <1>2, <1>3 DEF GiveUpInv, GivesUp
<1> QED BY <1>3, <1>4, <1>5, <1>6 DEF GiveUpInv

LEMMA GiveUpStep == GiveUpInv /\ [Next]_vars => GiveUpInv'
<1> SUFFICES ASSUME GiveUpInv, [Next]_vars PROVE GiveUpInv'
  OBVIOUS
<1>0. TypeOK /\ TypeOK' BY TypeStep DEF GiveUpInv
<1>a. /\ delivered \in Seq(Message) /\ frame_q \in Seq(Message)
      /\ reading \in Seq(Message) /\ in_socket \in Seq(Message)
  BY <1>0 DEF TypeOK
<1>1. CASE ActorTakesFrame
  <2>1. /\ Head(frame_q) \in Message
        /\ Items(Tail(frame_q)) \subseteq Items(frame_q)
        /\ Head(frame_q) \in Items(frame_q)
        /\ Items(delivered') = Items(delivered) \union {Head(frame_q)}
    BY <1>a, <1>1, HeadTailProperties, ItemsTail, ItemsAppend DEF ActorTakesFrame
  <2>2. /\ pushed' = pushed /\ reading' = reading /\ in_socket' = in_socket /\ actor = "idle"
        /\ outcome.kind = "open" /\ NoClose(delivered)
    BY <1>1 DEF ActorTakesFrame, GiveUpInv
  <2>3. CASE Head(frame_q).kind = "close"
    <3>1. /\ actor' = "gone" /\ frame_q' = <<>>
          /\ outcome' = ParseClose(Head(frame_q).reason)
      BY <1>1, <2>3 DEF ActorTakesFrame, LeavesWith
    <3>2. Head(frame_q).reason \in CloseReasons \union {Bare} BY <2>1 DEF Message
    <3>3. outcome'.reconnect <=> ~Terminal(Head(frame_q).reason)
      BY <3>1, <3>2, ReconnectUnlessTerminal
    <3>4. ~Terminal(Bare) BY DEF Terminal, Bare
    <3>5. Head(frame_q).reason = Bare \/ Head(frame_q) \in Items(pushed)
      BY <2>1, <2>3 DEF GiveUpInv, Told
    <3>6. GivesUp' BY <2>1, <2>2, <2>3, <3>3, <3>4, <3>5 DEF GivesUp, NoClose
    <3>7. Told(frame_q)' /\ Told(reading)' /\ Told(in_socket)'
      BY <2>2, <3>1, ItemsFew DEF GiveUpInv, Told
    <3> QED BY <1>0, <3>1, <3>6, <3>7 DEF GiveUpInv
  <2>4. CASE Head(frame_q).kind # "close"
    <3>1. actor' = actor /\ outcome' = outcome /\ frame_q' = Tail(frame_q)
      BY <1>1, <2>4 DEF ActorTakesFrame
    <3>2. NoClose(delivered)' BY <2>1, <2>2, <2>4 DEF NoClose
    <3>3. Told(frame_q)' /\ Told(reading)' /\ Told(in_socket)'
      BY <2>1, <2>2, <3>1 DEF GiveUpInv, Told
    <3>4. GivesUp' BY <2>2, <3>1 DEF GivesUp
    <3> QED BY <1>0, <2>2, <3>1, <3>2, <3>3, <3>4 DEF GiveUpInv
  <2> QED BY <2>3, <2>4
<1>2. CASE ActorDrops
  <2>1. /\ actor' = "gone" /\ outcome' = Dropped /\ frame_q' = <<>>
        /\ pushed' = pushed /\ reading' = reading /\ in_socket' = in_socket
    BY <1>2 DEF ActorDrops, LeavesWith
  <2>2. Told(frame_q)' /\ Told(reading)' /\ Told(in_socket)'
    BY <2>1, ItemsFew DEF GiveUpInv, Told
  <2>3. GivesUp' BY <2>1 DEF GivesUp, Dropped
  <2> QED BY <1>0, <2>1, <2>2, <2>3 DEF GiveUpInv
<1>3. CASE ReaderReads
  <2>1. /\ Head(in_socket) \in Items(in_socket)
        /\ Items(in_socket') \subseteq Items(in_socket)
        /\ Items(reading') = {Head(in_socket)}
    BY <1>a, <1>3, ItemsTail, ItemsFew DEF ReaderReads
  <2>2. /\ pushed' = pushed /\ frame_q' = frame_q /\ actor' = actor
        /\ outcome' = outcome /\ delivered' = delivered
    BY <1>3 DEF ReaderReads, actorVars
  <2>3. Told(frame_q)' /\ Told(reading)' /\ Told(in_socket)'
    BY <2>1, <2>2 DEF GiveUpInv, Told
  <2> QED BY <1>0, <2>2, <2>3 DEF GiveUpInv, NoClose, GivesUp
<1>4. CASE ReaderFails
  <2>1. Items(reading') = {Close(Bare)} BY <1>4, ItemsFew DEF ReaderFails
  <2>2. /\ pushed' = pushed /\ frame_q' = frame_q /\ in_socket' = in_socket /\ actor' = actor
        /\ outcome' = outcome /\ delivered' = delivered
    BY <1>4 DEF ReaderFails, actorVars
  <2>3. Close(Bare).reason = Bare BY DEF Close
  <2>4. Told(frame_q)' /\ Told(reading)' /\ Told(in_socket)'
    BY <2>1, <2>2, <2>3 DEF GiveUpInv, Told
  <2> QED BY <1>0, <2>2, <2>4 DEF GiveUpInv, NoClose, GivesUp
<1>5. CASE ReaderForwards
  <2>1. reading[1] \in Message /\ Items(reading) = {reading[1]}
    <3>1. Len(reading) = 1 BY <1>0, <1>5 DEF TypeOK, ReaderForwards
    <3>2. reading[1] \in Message /\ reading = <<reading[1]>> BY <1>a, <3>1, OneInHand
    <3> QED BY <3>2, ItemsFew
  <2>2. /\ Items(frame_q') = Items(frame_q) \union {reading[1]}
        /\ reading' = <<>>
    BY <1>a, <1>5, <2>1, ItemsAppend DEF ReaderForwards, ReaderEnds
  <2>3. /\ pushed' = pushed /\ in_socket' = in_socket /\ actor' = actor
        /\ outcome' = outcome /\ delivered' = delivered
    BY <1>5 DEF ReaderForwards, actorVars
  <2>4. Told(frame_q)' /\ Told(reading)' /\ Told(in_socket)'
    BY <2>1, <2>2, <2>3, ItemsFew DEF GiveUpInv, Told
  <2> QED BY <1>0, <2>3, <2>4 DEF GiveUpInv, NoClose, GivesUp
<1>6. CASE ReaderRefused
  <2>1. /\ pushed' = pushed /\ in_socket' = in_socket /\ frame_q' = frame_q /\ reading' = <<>>
        /\ actor' = actor /\ outcome' = outcome /\ delivered' = delivered
    BY <1>6 DEF ReaderRefused, ReaderEnds, actorVars
  <2>2. Told(frame_q)' /\ Told(reading)' /\ Told(in_socket)'
    BY <2>1, ItemsFew DEF GiveUpInv, Told
  <2> QED BY <1>0, <2>1, <2>2 DEF GiveUpInv, NoClose, GivesUp
<1>7. CASE PeerSends
  <2>1. Len(pushed) + 1 \in Nat BY <1>0 DEF TypeOK
  <2> QED BY <1>0, <1>7, <2>1, MessagesTyped, PeerSaysTold DEF PeerSends
<1>8. CASE PeerAnswersClose
  BY <1>0, <1>8, MessagesTyped, PeerSaysTold DEF PeerAnswersClose
<1>9. ASSUME NEW r \in CloseReasons, PeerCloses(r) PROVE GiveUpInv'
  BY <1>0, <1>9, MessagesTyped, PeerSaysTold DEF PeerCloses
<1>10. CASE LinkBreaks
  <2>1. /\ pushed' = pushed /\ reading' = reading /\ frame_q' = frame_q
        /\ in_socket' \in {in_socket, <<>>}
        /\ actor' = actor /\ outcome' = outcome /\ delivered' = delivered
    BY <1>10 DEF LinkBreaks, actorVars
  <2>2. Told(frame_q)' /\ Told(reading)' /\ Told(in_socket)'
    BY <2>1, ItemsFew DEF GiveUpInv, Told
  <2> QED BY <1>0, <2>1, <2>2 DEF GiveUpInv, NoClose, GivesUp
<1>11. CASE ActorSends \/ SendAccepted \/ SendRefused
  <2>1. /\ UNCHANGED <<pushed, delivered, frame_q, reading, in_socket, outcome>>
        /\ actor # "gone"
    BY <1>11 DEF ActorSends, SendAccepted, SendRefused, readVars
  <2> QED BY <1>0, <2>1 DEF GiveUpInv, Told, NoClose, GivesUp
<1>12. CASE WriterTakes \/ WriterSeesEnd \/ WriterSends \/ WriterFails \/ WriterCloses
              \/ PeerReads \/ UNCHANGED vars
  <2>1. UNCHANGED <<pushed, delivered, frame_q, reading, in_socket, actor, outcome>>
    BY <1>12
       DEF WriterTakes, WriterSeesEnd, WriterSends, WriterFails, WriterCloses, PeerReads,
           readVars, actorVars, vars
  <2> QED BY <1>0, <2>1 DEF GiveUpInv, Told, NoClose, GivesUp
<1> QED
  BY <1>1, <1>2, <1>3, <1>4, <1>5, <1>6, <1>7, <1>8, <1>9, <1>10, <1>11, <1>12 DEF Next

-------------------------------------------------------------------------------
(* The specification.                                                         *)

\* Every queue stays within its bound and holds what belongs there.
THEOREM TransportTyped == Spec => []TypeOK
<1> QED BY TypeInit, TypeStep, PTL DEF Spec

\* send_data() loses, repeats and reorders nothing while the writer lives.
THEOREM CommandsKept == Spec => []CommandsInOrder
<1>1. Init => CommandInv BY TypeInit, CommandInit DEF CommandInv
<1>2. CommandInv /\ [Next]_vars => CommandInv' BY TypeStep, CommandStep DEF CommandInv
<1>3. CommandInv => CommandsInOrder BY DEF CommandInv
<1> QED BY <1>1, <1>2, <1>3, PTL DEF Spec

\* The reader loses, repeats and reorders nothing while the actor listens.
THEOREM FramesKept == Spec => []FramesInOrder
<1>1. Init => FrameInv BY TypeInit, FrameInit DEF FrameInv
<1>2. FrameInv /\ [Next]_vars => FrameInv' BY TypeStep, FrameStep DEF FrameInv
<1>3. FrameInv => FramesInOrder BY DEF FrameInv
<1> QED BY <1>1, <1>2, <1>3, PTL DEF Spec

\* The client gives up only on a Close of the peer that tells it to, and comes back
\* from every other end.
THEOREM GivesUpSafely == Spec => []GivesUpOnlyWhenTold
<1>1. GiveUpInv => GivesUpOnlyWhenTold
  BY DEF GiveUpInv, GivesUp, GivesUpOnlyWhenTold, Items
<1> QED BY <1>1, GiveUpInit, GiveUpStep, PTL DEF Spec
===============================================================================
