--------------------------------- MODULE Streams ---------------------------------
(***************************************************************************)
(* Positions in streams over lost connections: client-side subscriptions   *)
(* (subscription.rs, subscriptions.rs), server-side subscriptions          *)
(* (server_subs.rs), publications and the server's pushes (push.rs), the   *)
(* recovery requested in Subscribe and Connect commands, and delta bases.  *)
(*                                                                         *)
(* ConnectionLifecycle and ConnectionActor model how connections and       *)
(* subscription attempts come and go; here an attempt succeeds or is cut   *)
(* off.  A connect cycle is one step: the task takes no commands in the    *)
(* handshake, so nothing of it is seen before its end.                     *)
(***************************************************************************)
EXTENDS Codes, FossilDelta

CONSTANTS
  ClientChannels,      \* channels with a Subscription in the registry
  ServerChannels,      \* channels the server subscribes the client to
  Epochs,              \* names of the streams a channel may have, one after the other
  Payload(_, _),       \* the data published at an epoch and offset
  JsonProtocol,        \* ProtocolType::Json
  WantsDelta,          \* SubscriptionConfig::delta is Fossil
  HistorySize,         \* publications the server retains
  UnsubscribeCodes,    \* codes of the server's unsubscribe pushes
  Refusals,            \* errors in Subscribe replies: records of code and temporary
  MaxPubs,             \* bound: publications in a stream
  MaxLosses,           \* bound: connections that end
  MaxWire,             \* bound: commands, and messages, on the wire before another joins them
  PatientApplication,  \* subscribe() only when nothing about the channel is on its way
  PromptResubscribes   \* no Resubscribe command outlives its connection

Channels == ClientChannels \union ServerChannels

NoEpoch == 0

\* Payloads are below 64 KiB, the lengths and offsets FossilDelta's numbers reach (its Size).
ASSUME StreamsAssumption ==
  /\ ClientChannels \intersect ServerChannels = {} /\ IsFiniteSet(ClientChannels)
  /\ Epochs \in Nat \ {0}
  /\ \A e \in 1 .. Epochs, n \in 1 .. MaxPubs :
       Payload(e, n) \in Seq(Byte) /\ Len(Payload(e, n)) < Half
  /\ {JsonProtocol, WantsDelta, PatientApplication, PromptResubscribes} \subseteq BOOLEAN
  /\ HistorySize \in Nat /\ {MaxPubs, MaxLosses, MaxWire} \subseteq Nat
  /\ UnsubscribeCodes \subseteq Nat
  /\ Refusals \subseteq [code : Nat \ {0, ALREADY_SUBSCRIBED}, temporary : BOOLEAN]

VARIABLES
  conn,         \* "up", "down" (sought again), "off" (disconnected)
  losses,       \* connections that have ended
  sub,          \* SubState of each client channel
  resub,        \* a Resubscribe command is on its way to the actor
  server_subs,  \* the registry of server-side subscriptions, or Unknown
  outbox,       \* commands on the wire
  inbox,        \* replies and pushes on the wire
  stream,       \* at the server: epoch and top offset of each channel
  held,         \* at the server: the subscriptions of this connection
  app           \* what the application has seen of each channel

vars       == <<conn, losses, sub, resub, server_subs, outbox, inbox, stream, held, app>>
clientVars == <<sub, resub, server_subs, app>>
serverVars == <<stream, held>>

Unknown == [recoverable |-> FALSE, offset |-> 0, epoch |-> NoEpoch]
NotHeld == [on |-> FALSE, delta |-> FALSE, base |-> 0]

\* base: the offset of the publication the server sent last, 0 when the next one is to be
\* sent in full.
Holding(delta, base) == [on |-> TRUE, delta |-> delta, base |-> base]

-------------------------------------------------------------------------------
(* What the application sees.                                                  *)

\* status: the last lifecycle event of a server-side subscription.  faults: "gap", a
\* publication is missing before this one and nothing said so; "repeat", it came before;
\* "garbled", these are not the published bytes.
Sees(a, epoch, offset, data) ==
  [a EXCEPT
     !.epoch = epoch,
     !.offset = offset,
     !.faults = @ \union
       (IF epoch = a.epoch /\ offset = a.offset + 1 THEN {}
        ELSE IF epoch = a.epoch /\ offset <= a.offset THEN {"repeat"} ELSE {"gap"})
       \union (IF data = Payload(epoch, offset) THEN {} ELSE {"garbled"})]

\* When a SubscribeResult tells a stream position.
Placed(result) == result.positioned \/ result.recoverable

\* A Subscribed event.  Unless it says recovered, the application reloads what it shows,
\* and is then at the stream position of the event.
SeesSubscribed(a, result) ==
  IF result.recovered \/ ~Placed(result) THEN a
  ELSE [a EXCEPT !.epoch = result.epoch, !.offset = result.offset]

-------------------------------------------------------------------------------
(* Publications.                                                               *)

\* delta: the publication is a delta against that at offset base.  negotiated: the server
\* sends deltas here, and so in JSON puts all data in a string.
Pub(epoch, offset, base, delta, negotiated) ==
  [epoch |-> epoch, offset |-> offset, base |-> base, delta |-> delta, negotiated |-> negotiated]

QuoteMark == 34
Quoted(data) == <<QuoteMark>> \o data \o <<QuoteMark>>

\* The data field as it arrives (escapes inside the string are left out).
InField(p, data) == IF JsonProtocol /\ p.negotiated THEN Quoted(data) ELSE data

Wire(p) ==
  InField(p, IF p.delta THEN DeltaOf(Payload(p.epoch, p.base), Payload(p.epoch, p.offset))
             ELSE Payload(p.epoch, p.offset))

\* unwrap_json_string().
UnwrapJsonString(data) ==
  IF Len(data) >= 2 /\ data[1] = QuoteMark /\ data[Len(data)] = QuoteMark
  THEN SubSeq(data, 2, Len(data) - 1) ELSE data

\* A delta that cannot be applied is handed on as it is, and the base stays.
DataAndBase(s, raw, new) ==
  IF new.ok THEN [data |-> new.data, base |-> new.data] ELSE [data |-> raw, base |-> s.prev_data]

\* Mutant: only full publications become the next base.
ApplyRawKeepingBase(s, raw, is_delta) ==
  IF is_delta THEN [DataAndBase(s, raw, ApplyDelta(s.prev_data, raw)) EXCEPT !.base = s.prev_data]
  ELSE DataAndBase(s, raw, Ok(raw))

\* What arrives is the new text or a delta against prev_data.
ApplyRaw(s, raw, is_delta) ==
  DataAndBase(s, raw, IF is_delta THEN ApplyDelta(s.prev_data, raw) ELSE Ok(raw))

\* SubState::apply_delta(): the data for the application, and prev_data.
ApplyPublicationDelta(s, data, is_delta) ==
  IF ~s.delta_negotiated THEN [data |-> data, base |-> s.prev_data]
  ELSE ApplyRaw(s, IF JsonProtocol THEN UnwrapJsonString(data) ELSE data, is_delta)

\* Mutant: the publication is shown but the position stays.
ShownWithoutPosition(both, p, applied) ==
  [sub |-> [both.sub EXCEPT !.prev_data = applied.base],
   app |-> Sees(both.app, p.epoch, p.offset, applied.data)]

\* Mutant: the position is that of the publication expected next.
ShownExpectingNext(both, p, applied) ==
  [sub |-> [both.sub EXCEPT !.offset = p.offset + 1, !.prev_data = applied.base],
   app |-> Sees(both.app, p.epoch, p.offset, applied.data)]

\* The publication's offset and the new base are kept, and the event goes out.
Shown(both, p, applied) ==
  [sub |-> [both.sub EXCEPT !.offset = p.offset, !.prev_data = applied.base],
   app |-> Sees(both.app, p.epoch, p.offset, applied.data)]

\* handle_publication() for a client-side subscription, in whatever state it is.
Published(both, p) == Shown(both, p, ApplyPublicationDelta(both.sub, Wire(p), p.delta))

\* The same for a server-side one; its data is handed on as it arrives.
ServerPublished(both, p) ==
  [sub |-> [both.sub EXCEPT !.offset = p.offset],
   app |-> Sees(both.app, p.epoch, p.offset, Wire(p))]

\* The loops over the publications of a result.
AllPublished(both, pubs) ==
  LET after[k \in 0 .. Len(pubs)] == IF k = 0 THEN both ELSE Published(after[k - 1], pubs[k])
  IN  after[Len(pubs)]

AllServerPublished(both, pubs) ==
  LET after[k \in 0 .. Len(pubs)] == IF k = 0 THEN both ELSE ServerPublished(after[k - 1], pubs[k])
  IN  after[Len(pubs)]

-------------------------------------------------------------------------------
(* Positions in requests, and the server's answer.                             *)

\* recover, offset and epoch of a SubscribeRequest.
Position(s) ==
  [recover |-> s.recover /\ (s.offset > 0 \/ s.epoch # NoEpoch), offset |-> s.offset, epoch |-> s.epoch]

\* A SubscribeResult.  The streams here are positioned and recoverable.
Result(epoch, offset, recovered, delta, publications) ==
  [epoch |-> epoch, offset |-> offset, recovered |-> recovered, delta |-> delta,
   positioned |-> TRUE, recoverable |-> TRUE, publications |-> publications]

\* SubscribeResult::default(), which "already subscribed" stands for.
NoResult ==
  [epoch |-> NoEpoch, offset |-> 0, recovered |-> FALSE, delta |-> FALSE,
   positioned |-> FALSE, recoverable |-> FALSE, publications |-> <<>>]

\* The server recovers what it retains of the same stream.  With deltas the first
\* publication is sent in full and each of the others against the one before it.
Recoverable(ch, at) ==
  /\ at.recover
  /\ at.epoch = stream[ch].epoch
  /\ at.offset <= stream[ch].top /\ stream[ch].top - at.offset <= HistorySize

Answer(ch, at, delta) ==
  LET s    == stream[ch]
      from == IF Recoverable(ch, at) THEN at.offset ELSE s.top
  IN  Result(s.epoch, s.top, Recoverable(ch, at), delta,
             [k \in 1 .. s.top - from |->
                Pub(s.epoch, from + k, from + k - 1, delta /\ k > 1, delta)])

HeldAfter(result) ==
  Holding(result.delta, IF result.publications = <<>> THEN 0 ELSE result.offset)

\* Mutant: what was missed is not shown.
SubscribedWithoutMissed(both, result) ==
  [sub |-> [both.sub EXCEPT !.state = "Subscribed",
                            !.delta_negotiated = result.delta,
                            !.recover = @ \/ result.recoverable,
                            !.offset = IF Placed(result) THEN result.offset ELSE @,
                            !.epoch = IF Placed(result) THEN result.epoch ELSE @],
   app |-> SeesSubscribed(both.app, result)]

\* Mutant: a stream that was not recovered keeps its old epoch.
SubscribedKeepingEpoch(both, result) ==
  AllPublished(
    [sub |-> [both.sub EXCEPT !.state = "Subscribed",
                              !.delta_negotiated = result.delta,
                              !.recover = @ \/ result.recoverable,
                              !.offset = IF Placed(result) THEN result.offset ELSE @],
     app |-> SeesSubscribed(both.app, result)],
    result.publications)

\* handle_subscribe_success().
Subscribed(both, result) ==
  AllPublished(
    [sub |-> [both.sub EXCEPT !.state = "Subscribed",
                              !.delta_negotiated = result.delta,
                              !.recover = @ \/ result.recoverable,
                              !.offset = IF Placed(result) THEN result.offset ELSE @,
                              !.epoch = IF Placed(result) THEN result.epoch ELSE @],
     app |-> SeesSubscribed(both.app, result)],
    result.publications)

Entry(result) ==
  [recoverable |-> result.recoverable, offset |-> result.offset, epoch |-> result.epoch]

\* Mutant: what was missed is not shown.
ServerSubscribedWithoutMissed(both, result) ==
  [sub |-> Entry(result),
   app |-> [SeesSubscribed(both.app, result) EXCEPT !.status = "subscribed"]]

\* A server-side subscription in the connect result: ServerSubscribed, then what was missed.
ServerSubscribed(both, result) ==
  AllServerPublished(
    [sub |-> Entry(result),
     app |-> [SeesSubscribed(both.app, result) EXCEPT !.status = "subscribed"]],
    result.publications)

-------------------------------------------------------------------------------
(* Init: SubState::new() with and without `since`.  Without, `recoverable` makes no        *)
(* difference before the first result.                                         *)

SubStateNew(since) ==
  [state |-> "Unsubscribed", offset |-> since.offset, epoch |-> since.epoch,
   recover |-> since.epoch # NoEpoch, delta_negotiated |-> FALSE, prev_data |-> <<>>]

Nowhere == [epoch |-> NoEpoch, offset |-> 0]

Init ==
  /\ conn = "off" /\ losses = 0
  /\ stream = [ch \in Channels |-> [epoch |-> 1, top |-> 0]]
  /\ held = [ch \in Channels |-> NotHeld]
  /\ \E since \in {Nowhere, [epoch |-> 1, offset |-> 0]} :
       /\ sub = [ch \in ClientChannels |-> SubStateNew(since)]
       /\ app = [ch \in Channels |->
                   LET at == IF ch \in ClientChannels THEN since ELSE Nowhere
                   IN  [status |-> "none", epoch |-> at.epoch, offset |-> at.offset, faults |-> {}]]
  /\ resub = [ch \in ClientChannels |-> FALSE]
  /\ server_subs = [ch \in ServerChannels |-> Unknown]
  /\ outbox = <<>> /\ inbox = <<>>

Known(ch) == server_subs[ch] # Unknown

-------------------------------------------------------------------------------
(* The connection.                                                             *)

Attempting == {ch \in ClientChannels : sub[ch].state = "Subscribing"}

\* In the order of some enumeration, as for the HashMap of the code.
SubscribeCommands(S) ==
  LET order == SetToSeq(S)
  IN  [k \in DOMAIN order |->
         [kind |-> "subscribe", ch |-> order[k], at |-> Position(sub[order[k]])]]

\* Mutant: a server-side subscription the server has dropped stays in the registry.
KeepsDroppedSubs(S, results) ==
  [ch \in ServerChannels |->
     IF ch \in S
     THEN ServerSubscribed([sub |-> server_subs[ch], app |-> app[ch]], results[ch]).sub
     ELSE server_subs[ch]]

\* process_server_subs(): the registry afterwards.
ServerSubsAfter(S, results) ==
  [ch \in ServerChannels |->
     IF ch \in S
     THEN ServerSubscribed([sub |-> server_subs[ch], app |-> app[ch]], results[ch]).sub
     ELSE Unknown]

\* A connect cycle succeeds: the server-side subscriptions S are in the result, and so are
\* those of the attempts that were resolved (B); resubscribe_all() sends the others.  In
\* the request a server-side subscription that is known and recoverable has its position.
Reconnect(S, B, deltas) ==
  /\ conn = "down"
  /\ B \subseteq Attempting
  /\ PromptResubscribes => \A ch \in ClientChannels : ~resub[ch]
  /\ LET results == [ch \in S \union B |->
           IF ch \in B THEN Answer(ch, Position(sub[ch]), deltas /\ WantsDelta)
           ELSE Answer(ch, [recover |-> server_subs[ch].recoverable,
                            offset |-> server_subs[ch].offset, epoch |-> server_subs[ch].epoch], FALSE)]
         both(ch) == Subscribed([sub |-> sub[ch], app |-> app[ch]], results[ch])
     IN
     /\ sub' = [ch \in ClientChannels |-> IF ch \in B THEN both(ch).sub ELSE sub[ch]]
     /\ server_subs' = ServerSubsAfter(S, results)
     /\ app' = [ch \in Channels |->
          CASE ch \in B -> both(ch).app
            [] ch \in S -> ServerSubscribed([sub |-> server_subs[ch], app |-> app[ch]], results[ch]).app
            [] ch \in ServerChannels \ S /\ Known(ch) -> [app[ch] EXCEPT !.status = "unsubscribed"]
            [] OTHER -> app[ch]]
     /\ held' = [ch \in Channels |-> IF ch \in S \union B THEN HeldAfter(results[ch]) ELSE NotHeld]
  /\ conn' = "up"
  /\ outbox' = SubscribeCommands(Attempting \ B)
  /\ inbox' = <<>>
  /\ UNCHANGED <<losses, resub, stream>>

Unwired ==
  /\ outbox' = <<>> /\ inbox' = <<>>
  /\ held' = [ch \in Channels |-> NotHeld]

\* on_transport_close() of a connection that is to be sought again: a loss, a ping or
\* request timeout, a disconnect push that allows it.
LoseConnection ==
  /\ conn = "up" /\ losses < MaxLosses
  /\ losses' = losses + 1
  /\ conn' = "down"
  /\ sub' = [ch \in ClientChannels |->
               IF sub[ch].state = "Subscribed" THEN [sub[ch] EXCEPT !.state = "Subscribing"] ELSE sub[ch]]
  /\ app' = [ch \in Channels |->
               IF ch \in ServerChannels /\ Known(ch) THEN [app[ch] EXCEPT !.status = "subscribing"]
               ELSE app[ch]]
  /\ Unwired
  /\ UNCHANGED <<resub, server_subs, stream>>

\* move_to_disconnected(), by disconnect() or by the server.  Positions are kept, but for
\* those of server-side subscriptions.
Disconnect ==
  /\ conn # "off" /\ losses < MaxLosses
  /\ losses' = losses + 1
  /\ conn' = "off"
  /\ sub' = [ch \in ClientChannels |->
               IF conn = "up" THEN [sub[ch] EXCEPT !.state = "Unsubscribed"] ELSE sub[ch]]
  /\ server_subs' = [ch \in ServerChannels |-> Unknown]
  /\ app' = [ch \in Channels |->
               IF ch \in ServerChannels /\ Known(ch) THEN [app[ch] EXCEPT !.status = "unsubscribed"]
               ELSE app[ch]]
  /\ Unwired
  /\ UNCHANGED <<resub, stream>>

Connect ==
  /\ conn = "off"
  /\ conn' = "down"
  /\ UNCHANGED <<losses, clientVars, outbox, inbox, serverVars>>

-------------------------------------------------------------------------------
(* Commands of the application, and Resubscribe.                               *)

About(ch, q) == \E k \in DOMAIN q : q[k].ch = ch

Still(ch) == ~About(ch, outbox) /\ ~About(ch, inbox) /\ ~resub[ch]

MayCommand == Len(outbox) < MaxWire

SendSubscribe(ch) ==
  outbox' = Append(outbox, [kind |-> "subscribe", ch |-> ch, at |-> Position(sub[ch])])

HandleSubscribe(ch) ==
  /\ sub[ch].state = "Unsubscribed" /\ MayCommand
  /\ PatientApplication => Still(ch)
  /\ sub' = [sub EXCEPT ![ch].state = "Subscribing"]
  /\ IF conn = "up" THEN SendSubscribe(ch) ELSE UNCHANGED outbox
  /\ UNCHANGED <<conn, losses, resub, server_subs, app, inbox, serverVars>>

HandleUnsubscribe(ch) ==
  /\ sub[ch].state # "Unsubscribed" /\ MayCommand
  /\ PatientApplication => sub[ch].state = "Subscribed" /\ ~About(ch, outbox)
  /\ sub' = [sub EXCEPT ![ch].state = "Unsubscribed"]
  /\ IF sub[ch].state = "Subscribed" /\ conn = "up"
     THEN outbox' = Append(outbox, [kind |-> "unsubscribe", ch |-> ch])
     ELSE UNCHANGED outbox
  /\ UNCHANGED <<conn, losses, resub, server_subs, app, inbox, serverVars>>

\* do_subscribe() does not ask whether the subscription is already there.
HandleResubscribe(ch) ==
  /\ resub[ch]
  /\ resub' = [resub EXCEPT ![ch] = FALSE]
  /\ IF conn = "up" /\ sub[ch].state # "Unsubscribed" THEN SendSubscribe(ch) ELSE UNCHANGED outbox
  /\ UNCHANGED <<conn, losses, sub, server_subs, app, inbox, serverVars>>

-------------------------------------------------------------------------------
(* Replies and pushes.                                                         *)

\* handle_subscribe_error(): a timer brings a Resubscribe, or the attempt is over.
HandleSubscribeError(m) ==
  /\ IF IsTemporary(m.code, m.temporary)
     THEN resub' = [resub EXCEPT ![m.ch] = TRUE] /\ UNCHANGED sub
     ELSE sub' = [sub EXCEPT ![m.ch].state = "Unsubscribed"] /\ UNCHANGED resub
  /\ UNCHANGED <<server_subs, app>>

\* resolve_pending(): "already subscribed", which comes without a result, is a success.
HandleSubscribeReply(m) ==
  IF m.code \in {0, ALREADY_SUBSCRIBED}
  THEN LET both == Subscribed([sub |-> sub[m.ch], app |-> app[m.ch]], m.result)
       IN  /\ sub' = [sub EXCEPT ![m.ch] = both.sub]
           /\ app' = [app EXCEPT ![m.ch] = both.app]
           /\ UNCHANGED <<resub, server_subs>>
  ELSE HandleSubscribeError(m)

\* handle_publication().
HandlePublication(m) ==
  IF m.ch \in ClientChannels
  THEN LET both == Published([sub |-> sub[m.ch], app |-> app[m.ch]], m.pub)
       IN  /\ sub' = [sub EXCEPT ![m.ch] = both.sub]
           /\ app' = [app EXCEPT ![m.ch] = both.app]
           /\ UNCHANGED <<resub, server_subs>>
  ELSE IF Known(m.ch)
  THEN LET both == ServerPublished([sub |-> server_subs[m.ch], app |-> app[m.ch]], m.pub)
       IN  /\ server_subs' = [server_subs EXCEPT ![m.ch] = both.sub]
           /\ app' = [app EXCEPT ![m.ch] = both.app]
           /\ UNCHANGED <<sub, resub>>
  ELSE UNCHANGED clientVars

\* Mutant: nobody subscribes again.
ServerUnsubscribeIsFinal(m) ==
  IF m.ch \in ClientChannels
  THEN /\ sub' = [sub EXCEPT ![m.ch].state =
                   IF ShouldResubscribeOnUnsubscribe(m.code) THEN "Subscribing" ELSE "Unsubscribed"]
       /\ UNCHANGED <<resub, server_subs, app>>
  ELSE /\ server_subs' = [server_subs EXCEPT ![m.ch] = Unknown]
       /\ app' = IF Known(m.ch) THEN [app EXCEPT ![m.ch].status = "unsubscribed"] ELSE app
       /\ UNCHANGED <<sub, resub>>

\* handle_server_unsubscribe().
HandleServerUnsubscribe(m) ==
  IF m.ch \in ClientChannels
  THEN /\ IF ShouldResubscribeOnUnsubscribe(m.code)
          THEN /\ sub' = [sub EXCEPT ![m.ch].state = "Subscribing"]
               /\ resub' = [resub EXCEPT ![m.ch] = TRUE]
          ELSE sub' = [sub EXCEPT ![m.ch].state = "Unsubscribed"] /\ UNCHANGED resub
       /\ UNCHANGED <<server_subs, app>>
  ELSE /\ server_subs' = [server_subs EXCEPT ![m.ch] = Unknown]
       /\ app' = IF Known(m.ch) THEN [app EXCEPT ![m.ch].status = "unsubscribed"] ELSE app
       /\ UNCHANGED <<sub, resub>>

\* handle_server_subscribe(): never recovered.
HandleServerSubscribe(m) ==
  /\ server_subs' = [server_subs EXCEPT ![m.ch] = Entry(m.result)]
  /\ app' = [app EXCEPT ![m.ch] =
               [SeesSubscribed(@, [m.result EXCEPT !.recovered = FALSE]) EXCEPT !.status = "subscribed"]]
  /\ UNCHANGED <<sub, resub>>

\* dispatch_reply() and handle_push().
HandleFrame ==
  /\ conn = "up" /\ inbox # <<>>
  /\ LET m == Head(inbox) IN
       CASE m.kind = "subscribed"  -> HandleSubscribeReply(m)
         [] m.kind = "publication" -> HandlePublication(m)
         [] m.kind = "unsubscribe" -> HandleServerUnsubscribe(m)
         [] m.kind = "subscribe"   -> HandleServerSubscribe(m)
  /\ inbox' = Tail(inbox)
  /\ UNCHANGED <<conn, losses, outbox, serverVars>>

-------------------------------------------------------------------------------
(* The server: external.                                                       *)

Says(m) == inbox' = Append(inbox, m)
Room    == Len(inbox) < MaxWire

Reply(ch, code, temporary, result) ==
  Says([kind |-> "subscribed", ch |-> ch, code |-> code, temporary |-> temporary, result |-> result])

ServerAccepts(c) ==
  \E delta \in {FALSE, WantsDelta} :
    LET result == Answer(c.ch, c.at, delta) IN
    /\ Reply(c.ch, 0, FALSE, result)
    /\ held' = [held EXCEPT ![c.ch] = HeldAfter(result)]

ServerRefuses(c) ==
  /\ \E e \in Refusals : Reply(c.ch, e.code, e.temporary, NoResult)
  /\ UNCHANGED held

ServerHandles ==
  /\ conn = "up" /\ outbox # <<>>
  /\ LET c == Head(outbox) IN
       \/ /\ c.kind = "unsubscribe"
          /\ held' = [held EXCEPT ![c.ch] = NotHeld]
          /\ UNCHANGED inbox
       \/ /\ c.kind = "subscribe" /\ held[c.ch].on
          /\ Reply(c.ch, ALREADY_SUBSCRIBED, FALSE, NoResult)
          /\ UNCHANGED held
       \/ c.kind = "subscribe" /\ ~held[c.ch].on /\ (ServerAccepts(c) \/ ServerRefuses(c))
  /\ outbox' = Tail(outbox)
  /\ UNCHANGED <<conn, losses, clientVars, stream>>

\* Somebody publishes.  A delta is sent only against the publication sent before.
Publish(ch, delta) ==
  /\ stream[ch].top < MaxPubs /\ Room
  /\ LET s == [stream[ch] EXCEPT !.top = @ + 1]
         h == held[ch]
     IN
     /\ delta => h.delta /\ h.base > 0
     /\ stream' = [stream EXCEPT ![ch] = s]
     /\ IF h.on
        THEN /\ Says([kind |-> "publication", ch |-> ch, pub |-> Pub(s.epoch, s.top, h.base, delta, h.delta)])
             /\ held' = [held EXCEPT ![ch].base = IF h.delta THEN s.top ELSE 0]
        ELSE UNCHANGED <<inbox, held>>
  /\ UNCHANGED <<conn, losses, clientVars, outbox>>

ServerUnsubscribes(ch, code) ==
  /\ held[ch].on /\ Room
  /\ held' = [held EXCEPT ![ch] = NotHeld]
  /\ Says([kind |-> "unsubscribe", ch |-> ch, code |-> code])
  /\ UNCHANGED <<conn, losses, clientVars, outbox, stream>>

ServerSubscribes(ch) ==
  /\ conn = "up" /\ ~held[ch].on /\ Room
  /\ held' = [held EXCEPT ![ch] = Holding(FALSE, 0)]
  /\ Says([kind |-> "subscribe", ch |-> ch,
           result |-> Answer(ch, [recover |-> FALSE, offset |-> 0, epoch |-> NoEpoch], FALSE)])
  /\ UNCHANGED <<conn, losses, clientVars, outbox, stream>>

\* The stream of a channel is lost with its history: the connection ends, and the channel
\* goes on under another epoch.
StreamRestarts(ch) ==
  /\ conn # "up"
  /\ stream[ch].epoch < Epochs
  /\ stream' = [stream EXCEPT ![ch] = [epoch |-> @.epoch + 1, top |-> 0]]
  /\ UNCHANGED <<conn, losses, clientVars, outbox, inbox, held>>

-------------------------------------------------------------------------------
Next ==
  \/ Connect \/ LoseConnection \/ Disconnect
  \/ \E S \in SUBSET ServerChannels, B \in SUBSET ClientChannels, deltas \in {FALSE, WantsDelta} :
       Reconnect(S, B, deltas)
  \/ \E ch \in ClientChannels : HandleSubscribe(ch) \/ HandleUnsubscribe(ch) \/ HandleResubscribe(ch)
  \/ HandleFrame \/ ServerHandles
  \/ \E ch \in Channels, delta \in {FALSE, WantsDelta} : Publish(ch, delta)
  \/ \E ch \in Channels, code \in UnsubscribeCodes : ServerUnsubscribes(ch, code)
  \/ \E ch \in ServerChannels : ServerSubscribes(ch)
  \/ \E ch \in Channels : StreamRestarts(ch)

Spec == Init /\ [][Next]_vars

\* tokio does not starve the actor, timers fire, and the server reads and answers.  The
\* first two are WF_vars(HandleFrame) and WF_vars(ServerHandles) with ENABLED written out.
\* The last is a premise: a server that is asked again and again refuses only so often.
FairSpec ==
  /\ Spec
  /\ <>[](conn = "up" /\ inbox # <<>>) => []<><<HandleFrame>>_vars
  /\ <>[](conn = "up" /\ outbox # <<>>) => []<><<ServerHandles>>_vars
  /\ \A ch \in ClientChannels : WF_vars(HandleResubscribe(ch))
  /\ \A ch \in ClientChannels : []<>About(ch, outbox) => []<>held[ch].on

-------------------------------------------------------------------------------
(* Properties.                                                                 *)

TypeOK ==
  /\ conn \in {"up", "down", "off"} /\ losses \in 0 .. MaxLosses
  /\ \A ch \in ClientChannels :
       /\ sub[ch].state \in {"Unsubscribed", "Subscribing", "Subscribed"}
       /\ sub[ch].offset \in 0 .. MaxPubs /\ sub[ch].epoch \in NoEpoch .. Epochs
       /\ sub[ch].recover \in BOOLEAN /\ sub[ch].delta_negotiated \in BOOLEAN
       /\ sub[ch].prev_data \in Seq(Byte)
  /\ resub \in [ClientChannels -> BOOLEAN]
  /\ server_subs \in [ServerChannels ->
       [recoverable : BOOLEAN, offset : 0 .. MaxPubs, epoch : NoEpoch .. Epochs]]
  /\ stream \in [Channels -> [epoch : 1 .. Epochs, top : 0 .. MaxPubs]]
  /\ held \in [Channels -> [on : BOOLEAN, delta : BOOLEAN, base : 0 .. MaxPubs]]
  /\ app \in [Channels ->
       [status : {"none", "subscribed", "subscribing", "unsubscribed"},
        epoch : NoEpoch .. Epochs, offset : 0 .. MaxPubs,
        faults : SUBSET {"gap", "repeat", "garbled"}]]

\* Over losses, recoveries and restarted streams, the application misses no publication
\* without a Subscribed event that says the stream was not recovered.
NoSilentGap == \A ch \in Channels : "gap" \notin app[ch].faults

\* ... and none is shown to it twice.
NoRepetition == \A ch \in Channels : "repeat" \notin app[ch].faults

\* Deltas are applied by the client: the application gets the bytes that were published.
PublicationsIntact == \A ch \in Channels : "garbled" \notin app[ch].faults

\* What the client will recover from is what the application has last been shown.
RecoversFromWhatWasShown ==
  /\ \A ch \in ClientChannels :
       sub[ch].epoch = app[ch].epoch /\ sub[ch].offset = app[ch].offset
  /\ \A ch \in ServerChannels : Known(ch) =>
       server_subs[ch].epoch = app[ch].epoch /\ server_subs[ch].offset = app[ch].offset

\* The application's events tell it which server-side subscriptions exist: nothing leaves
\* or enters the registry unseen, and a lost connection leaves them all "subscribing".
AppKnowsServerSubs ==
  \A ch \in ServerChannels :
    IF Known(ch) THEN app[ch].status = (IF conn = "up" THEN "subscribed" ELSE "subscribing")
    ELSE app[ch].status \in {"none", "unsubscribed"}

\* A subscription on a connection that lasts catches up with its stream.
CaughtUp(ch) == app[ch].epoch = stream[ch].epoch /\ app[ch].offset = stream[ch].top
Listening(ch) == conn = "up" /\ sub[ch].state = "Subscribed"
CatchesUp == \A ch \in ClientChannels : Listening(ch) ~> CaughtUp(ch) \/ ~Listening(ch)

\* An attempt on a connection that lasts comes to an end, after a server's unsubscribe too.
Trying(ch) == conn = "up" /\ sub[ch].state = "Subscribing"
AttemptsEnd == \A ch \in ClientChannels : Trying(ch) ~> ~Trying(ch)
===============================================================================
