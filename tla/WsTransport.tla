------------------------------ MODULE WsTransport ------------------------------
(***************************************************************************)
(* One WebSocket connection of transport.rs, from connect() until the      *)
(* socket is released.  Four tasks meet at two bounded channels and a      *)
(* socket that is bounded in both directions:                              *)
(*                                                                         *)
(*   actor --write_q--> writer --out_socket--> peer                        *)
(*   actor <--frame_q-- reader <--in_socket--- peer                        *)
(*                                                                         *)
(* The actor takes frames only when it is not inside send_data(), which    *)
(* waits for room in write_q.  The reader ends the writer when it ends.    *)
(* Commands are numbered in the order the actor sends them.                *)
(***************************************************************************)
EXTENDS Codes, Sequences

CONSTANTS
  Capacity,        \* room in write_q and in frame_q (256 in the code)
  SocketCapacity,  \* messages the socket holds in each direction
  MaxCommands,     \* bound: commands the actor sends
  MaxFrames,       \* bound: data frames the peer sends
  CloseReasons     \* what the peer's Close frame may say

\* A Close frame without a payload, a code with a plain text, or JSON disconnect
\* advice in the text (fields it leaves out are 0 and FALSE).
Bare == [kind |-> "bare", code |-> 0, advice |-> 0, reconnect |-> FALSE]

ASSUME TransportAssumption ==
  /\ Capacity \in Nat \ {0}
  /\ SocketCapacity \in Nat \ {0}
  /\ MaxCommands \in Nat
  /\ MaxFrames \in Nat
  /\ \A r \in CloseReasons :
       r \in [kind : {"bare", "plain", "advice"}, code : Nat, advice : Nat, reconnect : BOOLEAN]

VARIABLES
  actor,       \* "idle" in its select, "sending" in send_data(), "gone": sink and stream dropped
  accepted,    \* commands send_data() has accepted, in order
  write_q,     \* the channel from ChannelSink to the writer
  writer,      \* "recv", "sending", "closing", "done"
  writing,     \* the command in the writer's hand, if any
  out_socket,  \* written and not yet read by the peer
  received,    \* commands the peer has read
  ws,          \* the WebSocket: "open", "closing" (the peer's Close has been read), "broken"
  peer,        \* "open", "asked" (it has read the client's Close), "closed"
  pushed,      \* messages the peer has sent
  in_socket,   \* sent by the peer and not yet read
  reader,      \* "next", "forwarding", "done"
  reading,     \* the frame in the reader's hand, if any
  frame_q,     \* the channel from the reader to ChannelStream
  delivered,   \* frames the actor has taken
  outcome      \* how the connection ended for the actor

writeVars  == <<accepted, write_q, writer, writing, out_socket, received>>
readVars   == <<pushed, in_socket, reader, reading, frame_q>>
actorVars  == <<actor, delivered, outcome>>
vars       == <<actor, accepted, write_q, writer, writing, out_socket, received, ws, peer,
                pushed, in_socket, reader, reading, frame_q, delivered, outcome>>

\* The client's Close frame among the commands.
CloseFrame == 0

Data(k)  == [kind |-> "data", n |-> k, reason |-> Bare]
Close(r) == [kind |-> "close", n |-> 0, reason |-> r]

\* What the actor makes of a connection: still open, dropped by itself, or ended with
\* the code and the decision that on_transport_close() gets.
Ended(code, reconnect) == [kind |-> "ended", code |-> code, reconnect |-> reconnect]
Open    == [kind |-> "open", code |-> 0, reconnect |-> FALSE]
Dropped == [kind |-> "dropped", code |-> 0, reconnect |-> FALSE]

-------------------------------------------------------------------------------
(* Close codes.                                                               *)

\* map_close_code().
MapCloseCode(code) ==
  CASE code \in {1000, 1001} -> Ended(TRANSPORT_CLOSED, TRUE)
    [] code = 1009           -> Ended(MESSAGE_SIZE_LIMIT, FALSE)
    [] code >= 3000          -> Ended(code, ShouldReconnectOnDisconnect(code))
    [] OTHER                 -> Ended(TRANSPORT_CLOSED, TRUE)

\* parse_close(): JSON advice comes first.  Without a Close frame or a payload,
\* on_transport_close() takes the connection for lost.
ParseClose(r) ==
  CASE r.kind = "bare"   -> Ended(TRANSPORT_CLOSED, TRUE)
    [] r.kind = "advice" -> Ended(r.advice, r.reconnect)
    [] OTHER             -> MapCloseCode(r.code)

-------------------------------------------------------------------------------
Init ==
  /\ actor = "idle" /\ accepted = <<>>
  /\ write_q = <<>> /\ writer = "recv" /\ writing = <<>>
  /\ out_socket = <<>> /\ received = <<>>
  /\ ws = "open" /\ peer = "open"
  /\ pushed = <<>> /\ in_socket = <<>>
  /\ reader = "next" /\ reading = <<>> /\ frame_q = <<>>
  /\ delivered = <<>> /\ outcome = Open

-------------------------------------------------------------------------------
(* The actor.                                                                 *)

ActorSends ==
  /\ actor = "idle"
  /\ Len(accepted) < MaxCommands
  /\ actor' = "sending"
  /\ UNCHANGED <<writeVars, readVars, ws, peer, delivered, outcome>>

\* Mutant: the receiver outlives the writer, so a full queue is never refused.
ReceiverKept == TRUE

\* write_rx lives as long as the writer task.
ReceiverAlive == writer # "done"

\* Mutant: send_data() does not wait for room.
SendAcceptedAtOnce ==
  /\ actor = "sending"
  /\ ReceiverAlive
  /\ actor' = "idle"
  /\ accepted' = Append(accepted, Len(accepted) + 1)
  /\ write_q' = Append(write_q, Len(accepted) + 1)
  /\ UNCHANGED <<writer, writing, out_socket, received, readVars, ws, peer, delivered, outcome>>

\* ChannelSink::send_data() finds room.
SendAccepted ==
  /\ actor = "sending"
  /\ ReceiverAlive
  /\ Len(write_q) < Capacity
  /\ actor' = "idle"
  /\ accepted' = Append(accepted, Len(accepted) + 1)
  /\ write_q' = Append(write_q, Len(accepted) + 1)
  /\ UNCHANGED <<writer, writing, out_socket, received, readVars, ws, peer, delivered, outcome>>

\* The caller of send_data() gets the error; most ignore it.
SendRefused ==
  /\ actor = "sending"
  /\ ~ReceiverAlive
  /\ actor' = "idle"
  /\ UNCHANGED <<writeVars, readVars, ws, peer, delivered, outcome>>

\* sink and stream are dropped: the channel to the actor loses its receiver.
LeavesWith(how) ==
  /\ actor' = "gone"
  /\ outcome' = how
  /\ frame_q' = <<>>

\* ChannelStream::poll_next() in the connected loop.
ActorTakesFrame ==
  /\ actor = "idle"
  /\ frame_q # <<>>
  /\ delivered' = Append(delivered, Head(frame_q))
  /\ IF Head(frame_q).kind = "close"
     THEN LeavesWith(ParseClose(Head(frame_q).reason))
     ELSE frame_q' = Tail(frame_q) /\ UNCHANGED <<actor, outcome>>
  /\ UNCHANGED <<writeVars, pushed, in_socket, reader, reading, ws, peer>>

\* disconnect(), close(), the ping deadline and the other ways to give up a connection
\* are heard only where the actor takes frames.
ActorDrops ==
  /\ actor = "idle"
  /\ LeavesWith(Dropped)
  /\ UNCHANGED <<writeVars, pushed, in_socket, reader, reading, ws, peer, delivered>>

-------------------------------------------------------------------------------
(* The writer task.                                                           *)

WriterTakes ==
  /\ writer = "recv" /\ write_q # <<>>
  /\ writing' = <<Head(write_q)>>
  /\ write_q' = Tail(write_q)
  /\ writer' = "sending"
  /\ UNCHANGED <<accepted, out_socket, received, readVars, actorVars, ws, peer>>

\* Mutant: the writer task ends without closing the WebSocket.
WriterSeesEndAndStops ==
  /\ writer = "recv" /\ write_q = <<>> /\ actor = "gone"
  /\ writer' = "done"
  /\ UNCHANGED <<accepted, write_q, writing, out_socket, received, readVars, actorVars, ws, peer>>

\* recv() yields None once the sink is dropped and the queue is empty.
WriterSeesEnd ==
  /\ writer = "recv" /\ write_q = <<>> /\ actor = "gone"
  /\ writer' = "closing"
  /\ UNCHANGED <<accepted, write_q, writing, out_socket, received, readVars, actorVars, ws, peer>>

\* Mutant: a command that finds the socket full is given up, not awaited.
WriterSendsOrSkips ==
  /\ writer = "sending" /\ ws = "open"
  /\ out_socket' = IF Len(out_socket) < SocketCapacity THEN Append(out_socket, writing[1])
                   ELSE out_socket
  /\ writing' = <<>>
  /\ writer' = "recv"
  /\ UNCHANGED <<accepted, write_q, received, readVars, actorVars, ws, peer>>

WriterSends ==
  /\ writer = "sending" /\ ws = "open"
  /\ Len(out_socket) < SocketCapacity
  /\ out_socket' = Append(out_socket, writing[1])
  /\ writing' = <<>>
  /\ writer' = "recv"
  /\ UNCHANGED <<accepted, write_q, received, readVars, actorVars, ws, peer>>

\* send() fails on a broken connection, and after the peer's Close.
WriterFails ==
  /\ writer = "sending" /\ ws # "open"
  /\ writing' = <<>>
  /\ writer' = "closing"
  /\ UNCHANGED <<accepted, write_q, out_socket, received, readVars, actorVars, ws, peer>>

\* sink.close(), and the end of the task with its receiver.
WriterCloses ==
  /\ writer = "closing"
  /\ \/ /\ ws = "open" /\ Len(out_socket) < SocketCapacity
        /\ out_socket' = Append(out_socket, CloseFrame)
     \/ /\ ws # "open"
        /\ UNCHANGED out_socket
  /\ writer' = "done"
  /\ write_q' = <<>>
  /\ UNCHANGED <<accepted, writing, received, readVars, actorVars, ws, peer>>

-------------------------------------------------------------------------------
(* The reader task.                                                           *)

\* Ping, pong and raw frames are skipped in the code and left out here.
ReaderReads ==
  /\ reader = "next" /\ in_socket # <<>>
  /\ reading' = <<Head(in_socket)>>
  /\ in_socket' = Tail(in_socket)
  /\ reader' = "forwarding"
  /\ ws' = IF Head(in_socket).kind = "close" /\ ws = "open" THEN "closing" ELSE ws
  /\ UNCHANGED <<pushed, frame_q, writeVars, actorVars, peer>>

\* Mutant: an error is taken for a frame to skip.
ReaderFailsAndGoesOn ==
  /\ reader = "next" /\ in_socket = <<>> /\ ws = "broken"
  /\ UNCHANGED vars

ReaderFails ==
  /\ reader = "next" /\ in_socket = <<>> /\ ws = "broken"
  /\ reading' = <<Close(Bare)>>
  /\ reader' = "forwarding"
  /\ UNCHANGED <<pushed, in_socket, frame_q, writeVars, actorVars, ws, peer>>

\* The end of the reader task: write_task.abort() drops what the writer holds.
ReaderEnds ==
  /\ reader' = "done"
  /\ reading' = <<>>
  /\ writer' = "done"
  /\ writing' = <<>>
  /\ write_q' = <<>>
  /\ UNCHANGED <<accepted, out_socket, received>>

\* Mutant: try_send() in place of send().
ReaderForwardsOrDrops ==
  /\ reader = "forwarding" /\ actor # "gone"
  /\ frame_q' = IF Len(frame_q) < Capacity THEN Append(frame_q, reading[1]) ELSE frame_q
  /\ IF reading[1].kind = "close"
     THEN ReaderEnds
     ELSE reader' = "next" /\ reading' = <<>> /\ UNCHANGED writeVars
  /\ UNCHANGED <<pushed, in_socket, actorVars, ws, peer>>

ReaderForwards ==
  /\ reader = "forwarding" /\ actor # "gone"
  /\ Len(frame_q) < Capacity
  /\ frame_q' = Append(frame_q, reading[1])
  /\ IF reading[1].kind = "close"
     THEN ReaderEnds
     ELSE reader' = "next" /\ reading' = <<>> /\ UNCHANGED writeVars
  /\ UNCHANGED <<pushed, in_socket, actorVars, ws, peer>>

\* Nobody takes frames any more: the only way the reader learns of it.
ReaderRefused ==
  /\ reader = "forwarding" /\ actor = "gone"
  /\ ReaderEnds
  /\ UNCHANGED <<pushed, in_socket, frame_q, actorVars, ws, peer>>

-------------------------------------------------------------------------------
(* The peer and the network.                                                  *)

PeerReads ==
  /\ ws # "broken" /\ out_socket # <<>>
  /\ IF Head(out_socket) = CloseFrame
     THEN peer' = (IF peer = "open" THEN "asked" ELSE peer) /\ UNCHANGED received
     ELSE received' = Append(received, Head(out_socket)) /\ UNCHANGED peer
  /\ out_socket' = Tail(out_socket)
  /\ UNCHANGED <<accepted, write_q, writer, writing, readVars, actorVars, ws>>

PeerMaySend == ws = "open" /\ Len(in_socket) < SocketCapacity

PeerSays(m) ==
  /\ pushed' = Append(pushed, m)
  /\ in_socket' = Append(in_socket, m)
  /\ UNCHANGED <<reader, reading, frame_q, writeVars, actorVars, ws>>

PeerSends ==
  /\ PeerMaySend /\ peer = "open"
  /\ Len(pushed) < MaxFrames
  /\ PeerSays(Data(Len(pushed) + 1))
  /\ UNCHANGED peer

PeerCloses(r) ==
  /\ PeerMaySend /\ peer = "open"
  /\ PeerSays(Close(r))
  /\ peer' = "closed"

\* The closing handshake of RFC 6455.
PeerAnswersClose ==
  /\ PeerMaySend /\ peer = "asked"
  /\ PeerSays(Close(Bare))
  /\ peer' = "closed"

\* The connection fails; what has arrived may or may not still be read.
LinkBreaks ==
  /\ ws # "broken"
  /\ ws' = "broken"
  /\ out_socket' = <<>>
  /\ in_socket' \in {in_socket, <<>>}
  /\ UNCHANGED <<accepted, write_q, writer, writing, received, pushed, reader, reading, frame_q,
                 actorVars, peer>>

-------------------------------------------------------------------------------
Next ==
  \/ ActorSends \/ SendAccepted \/ SendRefused \/ ActorTakesFrame \/ ActorDrops
  \/ WriterTakes \/ WriterSeesEnd \/ WriterSends \/ WriterFails \/ WriterCloses
  \/ ReaderReads \/ ReaderFails \/ ReaderForwards \/ ReaderRefused
  \/ PeerReads \/ PeerSends \/ PeerAnswersClose
  \/ \E r \in CloseReasons : PeerCloses(r)
  \/ LinkBreaks

\* tokio does not starve a ready task; select! takes a frame sooner or later although
\* commands keep coming (its branches are polled in random order).
TaskFairness ==
  /\ WF_vars(SendAccepted) /\ WF_vars(SendRefused)
  /\ SF_vars(ActorTakesFrame)
  /\ WF_vars(WriterTakes) /\ WF_vars(WriterSeesEnd) /\ WF_vars(WriterSends)
  /\ WF_vars(WriterFails) /\ WF_vars(WriterCloses)
  /\ WF_vars(ReaderReads) /\ WF_vars(ReaderFails)
  /\ WF_vars(ReaderForwards) /\ WF_vars(ReaderRefused)

\* The premise of the liveness properties: a peer that reads, whether or not its own
\* sends have room, and answers a Close.  A peer that does neither holds the actor in
\* send_data() or the reader at its socket for ever.
PeerFairness == WF_vars(PeerReads) /\ WF_vars(PeerAnswersClose)

Spec     == Init /\ [][Next]_vars
FairSpec == Spec /\ TaskFairness /\ PeerFairness

-------------------------------------------------------------------------------
(* Properties.                                                                *)

Message ==
  [kind : {"data", "close"}, n : Nat, reason : CloseReasons \union {Bare}]

TypeOK ==
  /\ actor \in {"idle", "sending", "gone"}
  /\ writer \in {"recv", "sending", "closing", "done"}
  /\ reader \in {"next", "forwarding", "done"}
  /\ ws \in {"open", "closing", "broken"}
  /\ peer \in {"open", "asked", "closed"}
  /\ accepted \in Seq(Nat) /\ write_q \in Seq(Nat) /\ writing \in Seq(Nat)
  /\ out_socket \in Seq(Nat) /\ received \in Seq(Nat)
  /\ pushed \in Seq(Message) /\ in_socket \in Seq(Message) /\ reading \in Seq(Message)
  /\ frame_q \in Seq(Message) /\ delivered \in Seq(Message)
  /\ Len(write_q) <= Capacity /\ Len(frame_q) <= Capacity
  /\ Len(writing) = (IF writer = "sending" THEN 1 ELSE 0)
  /\ Len(reading) = (IF reader = "forwarding" THEN 1 ELSE 0)
  /\ outcome \in [kind : {"open", "dropped", "ended"}, code : Nat, reconnect : BOOLEAN]

\* While writer and connection live, every command send_data() accepted is read by the
\* peer or on its way there, once and in order (FIFO through two channels and a task).
CommandsInOrder ==
  ws = "open" /\ writer \in {"recv", "sending"} =>
    accepted = received \o (out_socket \o (writing \o write_q))

\* While the reader lives and the actor listens, every message of the peer has been
\* taken or is on its way, in order: a full queue delays frames and loses none.
FramesInOrder ==
  reader # "done" /\ ws # "broken" /\ actor # "gone" =>
    pushed = delivered \o (frame_q \o (reading \o in_socket))

\* The code tables: when the peer's Close says not to come back.
Terminal(r) ==
  \/ r.kind = "advice" /\ ~r.reconnect
  \/ r.kind = "plain" /\ (r.code = 1009 \/ r.code \in 3500 .. 3999 \/ r.code \in 4500 .. 4999)

\* The client gives up for good only on a Close of the peer that asks for it, and
\* whatever else ends the connection leads to another attempt.
GivesUpOnlyWhenTold ==
  outcome.kind = "ended" =>
    /\ ~outcome.reconnect =>
         \E k \in 1 .. Len(pushed) : pushed[k].kind = "close" /\ Terminal(pushed[k].reason)
    /\ outcome.reconnect =>
         \A k \in 1 .. Len(delivered) :
           delivered[k].kind = "close" => ~Terminal(delivered[k].reason)

\* send_data() comes back, so the actor hears frames, commands and its ping deadline
\* again, as long as the peer reads.
SendReturns == actor = "sending" ~> actor # "sending"

\* The end of a connection reaches the actor.
LossNoticed == (ws = "broken" \/ peer = "closed") ~> actor = "gone"

\* A connection the actor has dropped is closed and its tasks end.
SocketReleased == actor = "gone" ~> (reader = "done" /\ writer = "done")
===============================================================================
