----------------------------- MODULE Streams_proofs -----------------------------
(***************************************************************************)
(* Proofs about Streams, for any channels, payloads, codes and bounds: the *)
(* types, and the registry of server-side subscriptions.                   *)
(***************************************************************************)
EXTENDS Streams, FossilDelta_proofs, FiniteSetTheorems

-------------------------------------------------------------------------------
(* The loops over the publications of a result.                                *)

\* The publications of a result are handled one after the other ...
LEMMA AllPublishedUnfolds ==
  ASSUME NEW both, NEW pubs, Len(pubs) \in Nat
  PROVE  \E after :
           /\ after[0] = both
           /\ \A k \in 1 .. Len(pubs) : after[k] = Published(after[k - 1], pubs[k])
           /\ AllPublished(both, pubs) = after[Len(pubs)]
<1> DEFINE Steps(n, g) == g = [k \in 0 .. n |-> IF k = 0 THEN both ELSE Published(g[k - 1], pubs[k])]
           S == {n \in 0 .. Len(pubs) : \E g : Steps(n, g)}
<1>1. 0 \in S
  <2> DEFINE g == [k \in 0 .. 0 |-> both]
  <2>1. Steps(0, g)
    OBVIOUS
  <2> HIDE DEF g
  <2> QED BY <2>1
<1>2. ASSUME NEW n \in 1 .. Len(pubs), n - 1 \in S
      PROVE  n \in S
  <2>1. PICK g : Steps(n - 1, g)
    BY <1>2
  <2> DEFINE h == [k \in 0 .. n |-> IF k = n THEN Published(g[n - 1], pubs[n]) ELSE g[k]]
  <2>2. ASSUME NEW k \in 0 .. n
        PROVE  h[k] = IF k = 0 THEN both ELSE Published(h[k - 1], pubs[k])
    <3>1. CASE k = n
      <4>1. h[n] = Published(g[n - 1], pubs[n]) /\ h[n - 1] = g[n - 1] /\ n # 0
        OBVIOUS
      <4> QED BY <3>1, <4>1
    <3>2. CASE k # n /\ k = 0
      <4>1. g[0] = both
        BY <2>1
      <4> QED BY <3>2, <4>1
    <3>3. CASE k # n /\ k # 0
      <4>1. h[k] = g[k] /\ h[k - 1] = g[k - 1]
        BY <3>3
      <4>2. g[k] = Published(g[k - 1], pubs[k])
        <5>1. k \in 0 .. n - 1 /\ k # 0
          BY <3>3
        <5> QED BY <2>1, <5>1
      <4> QED BY <3>3, <4>1, <4>2
    <3> QED BY <3>1, <3>2, <3>3
  <2>3. Steps(n, h)
    BY <2>2
  <2> HIDE DEF h
  <2> QED BY <2>3
<1>3. Len(pubs) \in S
  <2> HIDE DEF S
  <2>1. 0 .. Len(pubs) \subseteq S
    BY <1>1, <1>2, UpTo
  <2> QED BY <2>1
<1>4. PICK g : Steps(Len(pubs), g)
  BY <1>3
<1> DEFINE after == CHOOSE f : Steps(Len(pubs), f)
<1>5. Steps(Len(pubs), after)
  BY <1>4
<1>6. AllPublished(both, pubs) = after[Len(pubs)]
  BY DEF AllPublished
<1> HIDE DEF after
<1>7. after[0] = both
  BY <1>5
<1>8. ASSUME NEW k \in 1 .. Len(pubs)
      PROVE  after[k] = Published(after[k - 1], pubs[k])
  BY <1>5
<1> QED BY <1>6, <1>7, <1>8

\* ... and so are those of a server-side subscription.
LEMMA AllServerPublishedUnfolds ==
  ASSUME NEW both, NEW pubs, Len(pubs) \in Nat
  PROVE  \E after :
           /\ after[0] = both
           /\ \A k \in 1 .. Len(pubs) : after[k] = ServerPublished(after[k - 1], pubs[k])
           /\ AllServerPublished(both, pubs) = after[Len(pubs)]
<1> DEFINE Steps(n, g) == g = [k \in 0 .. n |-> IF k = 0 THEN both ELSE ServerPublished(g[k - 1], pubs[k])]
           S == {n \in 0 .. Len(pubs) : \E g : Steps(n, g)}
<1>1. 0 \in S
  <2> DEFINE g == [k \in 0 .. 0 |-> both]
  <2>1. Steps(0, g)
    OBVIOUS
  <2> HIDE DEF g
  <2> QED BY <2>1
<1>2. ASSUME NEW n \in 1 .. Len(pubs), n - 1 \in S
      PROVE  n \in S
  <2>1. PICK g : Steps(n - 1, g)
    BY <1>2
  <2> DEFINE h == [k \in 0 .. n |-> IF k = n THEN ServerPublished(g[n - 1], pubs[n]) ELSE g[k]]
  <2>2. ASSUME NEW k \in 0 .. n
        PROVE  h[k] = IF k = 0 THEN both ELSE ServerPublished(h[k - 1], pubs[k])
    <3>1. CASE k = n
      <4>1. h[n] = ServerPublished(g[n - 1], pubs[n]) /\ h[n - 1] = g[n - 1] /\ n # 0
        OBVIOUS
      <4> QED BY <3>1, <4>1
    <3>2. CASE k # n /\ k = 0
      <4>1. g[0] = both
        BY <2>1
      <4> QED BY <3>2, <4>1
    <3>3. CASE k # n /\ k # 0
      <4>1. h[k] = g[k] /\ h[k - 1] = g[k - 1]
        BY <3>3
      <4>2. g[k] = ServerPublished(g[k - 1], pubs[k])
        <5>1. k \in 0 .. n - 1 /\ k # 0
          BY <3>3
        <5> QED BY <2>1, <5>1
      <4> QED BY <3>3, <4>1, <4>2
    <3> QED BY <3>1, <3>2, <3>3
  <2>3. Steps(n, h)
    BY <2>2
  <2> HIDE DEF h
  <2> QED BY <2>3
<1>3. Len(pubs) \in S
  <2> HIDE DEF S
  <2>1. 0 .. Len(pubs) \subseteq S
    BY <1>1, <1>2, UpTo
  <2> QED BY <2>1
<1>4. PICK g : Steps(Len(pubs), g)
  BY <1>3
<1> DEFINE after == CHOOSE f : Steps(Len(pubs), f)
<1>5. Steps(Len(pubs), after)
  BY <1>4
<1>6. AllServerPublished(both, pubs) = after[Len(pubs)]
  BY DEF AllServerPublished
<1> HIDE DEF after
<1>7. after[0] = both
  BY <1>5
<1>8. ASSUME NEW k \in 1 .. Len(pubs)
      PROVE  after[k] = ServerPublished(after[k - 1], pubs[k])
  BY <1>5
<1> QED BY <1>6, <1>7, <1>8

-------------------------------------------------------------------------------
(* Types.                                                                      *)

\* What a Subscription keeps.
SubStates ==
  [state : {"Unsubscribed", "Subscribing", "Subscribed"}, offset : 0 .. MaxPubs,
   epoch : NoEpoch .. Epochs, recover : BOOLEAN, delta_negotiated : BOOLEAN,
   prev_data : Seq(Byte)]

\* What the registry of server-side subscriptions keeps.
Entries == [recoverable : BOOLEAN, offset : 0 .. MaxPubs, epoch : NoEpoch .. Epochs]

\* What the application has seen of a channel.
AppStates ==
  [status : {"none", "subscribed", "subscribing", "unsubscribed"},
   epoch : NoEpoch .. Epochs, offset : 0 .. MaxPubs,
   faults : SUBSET {"gap", "repeat", "garbled"}]

\* Where a Subscribe command asks to recover from.
Positions == [recover : BOOLEAN, offset : 0 .. MaxPubs, epoch : NoEpoch .. Epochs]

\* A publication on the wire.
Publication ==
  {p \in [epoch : 1 .. Epochs, offset : 1 .. MaxPubs, base : 0 .. MaxPubs,
          delta : BOOLEAN, negotiated : BOOLEAN] : p.delta => p.base > 0}

\* The results of a server whose streams are recoverable.
SubscribeResults ==
  [epoch : 1 .. Epochs, offset : 0 .. MaxPubs, recovered : BOOLEAN, delta : BOOLEAN,
   positioned : {TRUE}, recoverable : {TRUE}, publications : Seq(Publication)]

\* What the client sends ...
Commands ==
  [kind : {"unsubscribe"}, ch : ClientChannels]
    \union [kind : {"subscribe"}, ch : ClientChannels, at : Positions]

\* ... and what it is sent.
Message ==
  [kind : {"publication"}, ch : Channels, pub : Publication]
    \union [kind : {"unsubscribe"}, ch : Channels, code : Nat]
    \union [kind : {"subscribe"}, ch : ServerChannels, result : SubscribeResults]
    \union [kind : {"subscribed"}, ch : ClientChannels, code : Nat, temporary : BOOLEAN,
            result : SubscribeResults \union {NoResult}]

\* TypeOK, with the types of the wire and of the server, which the client's types rest on.
TypeInv ==
  /\ conn \in {"up", "down", "off"} /\ losses \in 0 .. MaxLosses
  /\ sub \in [ClientChannels -> SubStates]
  /\ resub \in [ClientChannels -> BOOLEAN]
  /\ server_subs \in [ServerChannels -> Entries]
  /\ stream \in [Channels -> [epoch : 1 .. Epochs, top : 0 .. MaxPubs]]
  /\ held \in [Channels -> [on : BOOLEAN, delta : BOOLEAN, base : 0 .. MaxPubs]]
  /\ app \in [Channels -> AppStates]
  /\ inbox \in Seq(Message)
  /\ outbox \in Seq(Commands)

\* What the assumption says, in the forms the proofs use.
LEMMA Constants ==
  /\ Epochs \in Nat /\ Epochs > 0 /\ MaxPubs \in Nat /\ MaxLosses \in Nat
  /\ JsonProtocol \in BOOLEAN /\ WantsDelta \in BOOLEAN
  /\ \A e \in 1 .. Epochs, n \in 1 .. MaxPubs : Payload(e, n) \in Text /\ Payload(e, n) \in Seq(Byte)
  /\ UnsubscribeCodes \subseteq Nat
  /\ \A r \in Refusals : r.code \in Nat /\ r.code # 0 /\ r.code # ALREADY_SUBSCRIBED /\ r.temporary \in BOOLEAN
  /\ \A ch : ch \in ClientChannels => ch \notin ServerChannels
BY StreamsAssumption DEF Text, ALREADY_SUBSCRIBED

\* The application sees a publication.
LEMMA SeesType ==
  ASSUME NEW a \in AppStates, NEW e \in 1 .. Epochs, NEW o \in 1 .. MaxPubs, NEW data
  PROVE  Sees(a, e, o, data) \in AppStates
<1>1. e \in NoEpoch .. Epochs /\ o \in 0 .. MaxPubs
  BY Constants DEF NoEpoch
<1> DEFINE seen == a.faults \union
       (IF e = a.epoch /\ o = a.offset + 1 THEN {}
        ELSE IF e = a.epoch /\ o <= a.offset THEN {"repeat"} ELSE {"gap"})
       \union (IF data = Payload(e, o) THEN {} ELSE {"garbled"})
<1>2. seen \in SUBSET {"gap", "repeat", "garbled"}
  BY DEF AppStates
<1>3. Sees(a, e, o, data) = [a EXCEPT !.epoch = e, !.offset = o, !.faults = seen]
  BY DEF Sees, AppStates
<1> QED BY <1>1, <1>2, <1>3 DEF AppStates

\* A publication is sent as bytes.
LEMMA WireType ==
  ASSUME NEW p \in Publication
  PROVE  Wire(p) \in Seq(Byte)
<1>1. Payload(p.epoch, p.offset) \in Text /\ Payload(p.epoch, p.offset) \in Seq(Byte)
  BY Constants DEF Publication
<1> DEFINE data == IF p.delta THEN DeltaOf(Payload(p.epoch, p.base), Payload(p.epoch, p.offset))
                   ELSE Payload(p.epoch, p.offset)
<1>2. data \in Seq(Byte)
  <2>1. CASE p.delta
    <3>1. Payload(p.epoch, p.base) \in Text
      BY <2>1, Constants DEF Publication
    <3> QED BY <1>1, <3>1, <2>1, DeltaOfType
  <2> QED BY <1>1, <2>1
<1>3. <<QuoteMark>> \in Seq(Byte)
  BY DEF QuoteMark, Byte
<1> HIDE DEF data
<1>4. Quoted(data) \in Seq(Byte)
  BY <1>2, <1>3 DEF Quoted
<1>5. Wire(p) = InField(p, data)
  BY DEF Wire, data
<1> QED BY <1>2, <1>4, <1>5 DEF InField

\* unwrap_json_string() gives bytes.
LEMMA UnwrapType ==
  ASSUME NEW data \in Seq(Byte)
  PROVE  UnwrapJsonString(data) \in Seq(Byte)
BY DEF UnwrapJsonString

\* So does a delta that is applied, or fails.
LEMMA ApplyPublicationDeltaType ==
  ASSUME NEW s \in SubStates, NEW data \in Seq(Byte), NEW is_delta \in BOOLEAN
  PROVE  LET applied == ApplyPublicationDelta(s, data, is_delta)
         IN  applied.data \in Seq(Byte) /\ applied.base \in Seq(Byte)
<1>1. s.prev_data \in Seq(Byte)
  BY DEF SubStates
<1> DEFINE raw == IF JsonProtocol THEN UnwrapJsonString(data) ELSE data
<1>2. raw \in Seq(Byte)
  BY UnwrapType
<1> HIDE DEF raw
<1> DEFINE new == IF is_delta THEN ApplyDelta(s.prev_data, raw) ELSE Ok(raw)
<1>3. new.ok => new.data \in Seq(Byte)
  BY <1>1, <1>2, ApplyDeltaType DEF Ok
<1> HIDE DEF new
<1>4. DataAndBase(s, raw, new).data \in Seq(Byte) /\ DataAndBase(s, raw, new).base \in Seq(Byte)
  BY <1>1, <1>2, <1>3 DEF DataAndBase
<1>5. ApplyPublicationDelta(s, data, is_delta) =
        IF ~s.delta_negotiated THEN [data |-> data, base |-> s.prev_data] ELSE DataAndBase(s, raw, new)
  BY DEF ApplyPublicationDelta, ApplyRaw, raw, new
<1> QED BY <1>1, <1>4, <1>5

\* A publication is handled by a Subscription ...
LEMMA PublishedType ==
  ASSUME NEW both \in [sub : SubStates, app : AppStates], NEW p \in Publication
  PROVE  Published(both, p) \in [sub : SubStates, app : AppStates]
<1> DEFINE applied == ApplyPublicationDelta(both.sub, Wire(p), p.delta)
<1>1. applied.data \in Seq(Byte) /\ applied.base \in Seq(Byte)
  BY WireType, ApplyPublicationDeltaType DEF Publication
<1> HIDE DEF applied
<1>2. p.offset \in 1 .. MaxPubs /\ p.epoch \in 1 .. Epochs
  BY DEF Publication
<1>3. Sees(both.app, p.epoch, p.offset, applied.data) \in AppStates
  BY <1>2, SeesType
<1>4. [both.sub EXCEPT !.offset = p.offset, !.prev_data = applied.base] \in SubStates
  <2>1. both.sub \in SubStates /\ p.offset \in 0 .. MaxPubs
    BY <1>2, Constants
  <2> QED BY <1>1, <2>1 DEF SubStates
<1> QED BY <1>3, <1>4 DEF Published, Shown, applied

\* ... or as one of a server-side subscription.
LEMMA ServerPublishedType ==
  ASSUME NEW both \in [sub : Entries, app : AppStates], NEW p \in Publication
  PROVE  ServerPublished(both, p) \in [sub : Entries, app : AppStates]
<1>2. p.offset \in 1 .. MaxPubs /\ p.epoch \in 1 .. Epochs
  BY DEF Publication
<1>3. Sees(both.app, p.epoch, p.offset, Wire(p)) \in AppStates
  BY <1>2, SeesType
<1>4. [both.sub EXCEPT !.offset = p.offset] \in Entries
  BY <1>2, Constants DEF Entries
<1> QED BY <1>3, <1>4 DEF ServerPublished

\* All the publications of a result are ...
LEMMA AllPublishedType ==
  ASSUME NEW both \in [sub : SubStates, app : AppStates], NEW pubs \in Seq(Publication)
  PROVE  AllPublished(both, pubs) \in [sub : SubStates, app : AppStates]
<1>0. Len(pubs) \in Nat
  OBVIOUS
<1>1. PICK after : /\ after[0] = both
                   /\ \A k \in 1 .. Len(pubs) : after[k] = Published(after[k - 1], pubs[k])
                   /\ AllPublished(both, pubs) = after[Len(pubs)]
  BY <1>0, AllPublishedUnfolds
<1> DEFINE S == {k \in 0 .. Len(pubs) : after[k] \in [sub : SubStates, app : AppStates]}
<1>2. 0 \in S
  BY <1>1
<1>3. ASSUME NEW k \in 1 .. Len(pubs), k - 1 \in S
      PROVE  k \in S
  <2>1. pubs[k] \in Publication /\ after[k - 1] \in [sub : SubStates, app : AppStates]
    BY <1>3
  <2>2. after[k] \in [sub : SubStates, app : AppStates]
    BY <1>1, <2>1, PublishedType
  <2> QED BY <2>2
<1>4. Len(pubs) \in S
  <2> HIDE DEF S
  <2>1. 0 .. Len(pubs) \subseteq S
    BY <1>0, <1>2, <1>3, UpTo
  <2> QED BY <2>1
<1> QED BY <1>1, <1>4

\* ... and all those of a server-side subscription.
LEMMA AllServerPublishedType ==
  ASSUME NEW both \in [sub : Entries, app : AppStates], NEW pubs \in Seq(Publication)
  PROVE  AllServerPublished(both, pubs) \in [sub : Entries, app : AppStates]
<1>0. Len(pubs) \in Nat
  OBVIOUS
<1>1. PICK after : /\ after[0] = both
                   /\ \A k \in 1 .. Len(pubs) : after[k] = ServerPublished(after[k - 1], pubs[k])
                   /\ AllServerPublished(both, pubs) = after[Len(pubs)]
  BY <1>0, AllServerPublishedUnfolds
<1> DEFINE S == {k \in 0 .. Len(pubs) : after[k] \in [sub : Entries, app : AppStates]}
<1>2. 0 \in S
  BY <1>1
<1>3. ASSUME NEW k \in 1 .. Len(pubs), k - 1 \in S
      PROVE  k \in S
  <2>1. pubs[k] \in Publication /\ after[k - 1] \in [sub : Entries, app : AppStates]
    BY <1>3
  <2>2. after[k] \in [sub : Entries, app : AppStates]
    BY <1>1, <2>1, ServerPublishedType
  <2> QED BY <2>2
<1>4. Len(pubs) \in S
  <2> HIDE DEF S
  <2>1. 0 .. Len(pubs) \subseteq S
    BY <1>0, <1>2, <1>3, UpTo
  <2> QED BY <2>1
<1> QED BY <1>1, <1>4

\* The fields of a result.
LEMMA ResultFields ==
  ASSUME NEW result \in SubscribeResults
  PROVE  /\ result.recovered \in BOOLEAN /\ result.delta \in BOOLEAN /\ result.recoverable
         /\ result.recoverable \in BOOLEAN /\ result.positioned
         /\ result.epoch \in 1 .. Epochs /\ result.epoch \in NoEpoch .. Epochs
         /\ result.offset \in 0 .. MaxPubs /\ result.publications \in Seq(Publication)
<1>1. result.epoch \in 1 .. Epochs
  BY DEF SubscribeResults
<1>2. result.epoch \in NoEpoch .. Epochs
  BY <1>1, Constants DEF NoEpoch
<1> QED BY <1>1, <1>2 DEF SubscribeResults

\* A result makes a Subscription subscribed ...
LEMMA SubscribedType ==
  ASSUME NEW s \in SubStates, NEW a \in AppStates, NEW result \in SubscribeResults \union {NoResult}
  PROVE  Subscribed([sub |-> s, app |-> a], result) \in [sub : SubStates, app : AppStates]
<1>1. /\ result.recovered \in BOOLEAN /\ result.delta \in BOOLEAN /\ result.recoverable \in BOOLEAN
      /\ result.epoch \in NoEpoch .. Epochs /\ result.offset \in 0 .. MaxPubs
      /\ result.publications \in Seq(Publication)
  <2>1. CASE result \in SubscribeResults
    BY <2>1, ResultFields
  <2>2. CASE result = NoResult
    BY <2>2, Constants DEF NoResult, NoEpoch
  <2> QED BY <2>1, <2>2
<1> DEFINE s2 == [s EXCEPT !.state = "Subscribed",
                           !.delta_negotiated = result.delta,
                           !.recover = @ \/ result.recoverable,
                           !.offset = IF Placed(result) THEN result.offset ELSE @,
                           !.epoch = IF Placed(result) THEN result.epoch ELSE @]
<1>2. s2 \in SubStates
  BY <1>1 DEF SubStates
<1>3. SeesSubscribed(a, result) \in AppStates
  BY <1>1 DEF SeesSubscribed, AppStates
<1>4. Subscribed([sub |-> s, app |-> a], result) =
        AllPublished([sub |-> s2, app |-> SeesSubscribed(a, result)], result.publications)
  BY DEF Subscribed, s2
<1> HIDE DEF s2
<1> QED BY <1>1, <1>2, <1>3, <1>4, AllPublishedType

\* ... or an entry of the registry.
LEMMA ServerSubscribedType ==
  ASSUME NEW s, NEW a \in AppStates, NEW result \in SubscribeResults
  PROVE  ServerSubscribed([sub |-> s, app |-> a], result) \in [sub : Entries, app : AppStates]
<1>1. /\ result.recovered \in BOOLEAN /\ result.recoverable \in BOOLEAN
      /\ result.epoch \in NoEpoch .. Epochs /\ result.offset \in 0 .. MaxPubs
      /\ result.publications \in Seq(Publication)
  BY ResultFields
<1>2. Entry(result) \in Entries
  BY <1>1 DEF Entry, Entries
<1>3. [SeesSubscribed(a, result) EXCEPT !.status = "subscribed"] \in AppStates
  BY <1>1 DEF SeesSubscribed, AppStates
<1> QED BY <1>1, <1>2, <1>3, AllServerPublishedType DEF ServerSubscribed

\* What an answer is made of.
LEMMA Answers ==
  ASSUME NEW ch \in Channels, stream[ch] \in [epoch : 1 .. Epochs, top : 0 .. MaxPubs],
         NEW at \in Positions, NEW delta \in BOOLEAN
  PROVE  LET r == Answer(ch, at, delta) IN
         /\ r \in SubscribeResults
         /\ r.epoch = stream[ch].epoch /\ r.offset = stream[ch].top /\ r.delta = delta
         /\ r.recovered => r.epoch = at.epoch /\ r.offset = at.offset + Len(r.publications)
         /\ r.recovered => \A k \in 1 .. Len(r.publications) :
              r.publications[k] =
                Pub(r.epoch, at.offset + k, at.offset + k - 1, delta /\ k > 1, delta)
         /\ ~r.recovered => r.publications = <<>>
         /\ r.recovered <=> Recoverable(ch, at)
<1> DEFINE recovered == Recoverable(ch, at)
           top  == stream[ch].top
           epoch == stream[ch].epoch
           from == IF recovered THEN at.offset ELSE top
           n    == top - from
           pubs == [k \in 1 .. n |-> Pub(epoch, from + k, from + k - 1, delta /\ k > 1, delta)]
<1>1. top \in Nat /\ top <= MaxPubs /\ epoch \in 1 .. Epochs /\ at.offset \in Nat /\ MaxPubs \in Nat
  BY Constants DEF Positions
<1>2. recovered \in BOOLEAN /\ (recovered => at.epoch = epoch /\ at.offset <= top)
  BY DEF Recoverable
<1>3. Answer(ch, at, delta) = Result(epoch, top, recovered, delta, pubs)
  BY DEF Answer
<1> HIDE DEF recovered, top, epoch
<1>4. from \in Nat /\ n \in Nat /\ top = from + n /\ (recovered => from = at.offset) /\ (~recovered => n = 0)
  BY <1>1, <1>2
<1> HIDE DEF from, n
<1>5. ASSUME NEW k \in 1 .. n
      PROVE  Pub(epoch, from + k, from + k - 1, delta /\ k > 1, delta) \in Publication
  <2>1. from + k \in 1 .. MaxPubs /\ from + k - 1 \in 0 .. MaxPubs /\ (k > 1 => from + k - 1 > 0)
    BY <1>1, <1>4
  <2>2. (delta /\ k > 1) \in BOOLEAN
    OBVIOUS
  <2> QED BY <1>1, <2>1, <2>2 DEF Pub, Publication
<1>6. pubs \in Seq(Publication) /\ Len(pubs) = n
  BY <1>4, <1>5
<1>7. \A k \in 1 .. n : pubs[k] = Pub(epoch, from + k, from + k - 1, delta /\ k > 1, delta)
  OBVIOUS
<1>8. n = 0 => pubs = <<>>
  BY <1>6
<1> HIDE DEF pubs
<1>9. Answer(ch, at, delta) \in SubscribeResults
  BY <1>1, <1>2, <1>3, <1>6 DEF Result, SubscribeResults
<1> QED BY <1>1, <1>2, <1>3, <1>4, <1>6, <1>7, <1>8, <1>9 DEF Result, recovered, top, epoch

\* The commands of resubscribe_all(): one for each of the channels.
LEMMA CommandsOnce ==
  ASSUME NEW S \in SUBSET ClientChannels, TypeInv
  PROVE  LET q == SubscribeCommands(S) IN
         /\ q \in Seq(Commands)
         /\ \A k \in DOMAIN q :
              q[k].kind = "subscribe" /\ q[k].ch \in S /\ q[k].at = Position(sub[q[k].ch])
         /\ \A j, k \in DOMAIN q : q[j].ch = q[k].ch => j = k
<1> DEFINE order == SetToSeq(S)
<1>1. IsFiniteSet(S)
  BY StreamsAssumption, FS_Subset
<1>2. Cardinality(S) \in Nat /\ ExistsBijection(1 .. Cardinality(S), S)
  BY <1>1, FS_CardinalityType
<1>3. \E f \in [1 .. Cardinality(S) -> S] : IsInjective(f)
  BY <1>2 DEF ExistsBijection, Bijection, Injection
<1>4. order \in [1 .. Cardinality(S) -> S] /\ IsInjective(order)
  BY <1>3 DEF SetToSeq
<1> DEFINE q == [k \in DOMAIN order |->
                   [kind |-> "subscribe", ch |-> order[k], at |-> Position(sub[order[k]])]]
<1>5. SubscribeCommands(S) = q
  BY DEF SubscribeCommands
<1> HIDE DEF order
<1>6. DOMAIN q = 1 .. Cardinality(S)
  BY <1>4
<1>7. ASSUME NEW k \in DOMAIN q
      PROVE  q[k].kind = "subscribe" /\ q[k].ch \in S /\ q[k].at = Position(sub[q[k].ch]) /\ q[k] \in Commands
  <2>1. order[k] \in S
    BY <1>4
  <2>2. sub[order[k]] \in SubStates
    BY <2>1 DEF TypeInv
  <2>3. Position(sub[order[k]]) \in Positions
    BY <2>2 DEF Position, Positions, SubStates
  <2> QED BY <2>1, <2>3 DEF Commands
<1>8. \A j, k \in DOMAIN q : q[j].ch = q[k].ch => j = k
  BY <1>4 DEF IsInjective
<1>9. q \in Seq(Commands)
  <2>1. q \in [1 .. Cardinality(S) -> Commands]
    BY <1>6, <1>7
  <2> HIDE DEF q
  <2> QED BY <1>2, <2>1
<1> QED BY <1>5, <1>7, <1>8, <1>9

\* The position of a Subscription.
LEMMA PositionType ==
  ASSUME NEW s \in SubStates
  PROVE  Position(s) \in Positions
BY DEF Position, Positions, SubStates

\* What the server holds for a subscription.
LEMMA HeldAfterType ==
  ASSUME NEW r \in SubscribeResults
  PROVE  HeldAfter(r) \in [on : BOOLEAN, delta : BOOLEAN, base : 0 .. MaxPubs]
BY Constants, ResultFields DEF HeldAfter, Holding

-------------------------------------------------------------------------------
(* The types, step by step.                                                    *)

\* The types hold at the start ...
LEMMA TypeInit == Init => TypeInv
<1> SUFFICES ASSUME Init PROVE TypeInv
  OBVIOUS
<1>1. PICK since \in {Nowhere, [epoch |-> 1, offset |-> 0]} :
        /\ sub = [ch \in ClientChannels |-> SubStateNew(since)]
        /\ app = [ch \in Channels |->
                    LET at == IF ch \in ClientChannels THEN since ELSE Nowhere
                    IN  [status |-> "none", epoch |-> at.epoch, offset |-> at.offset, faults |-> {}]]
  BY DEF Init
<1>2. since.epoch \in NoEpoch .. Epochs /\ since.offset = 0 /\ Nowhere.epoch \in NoEpoch .. Epochs /\ Nowhere.offset = 0
  BY Constants DEF Nowhere, NoEpoch
<1>3. SubStateNew(since) \in SubStates
  BY <1>2, Constants DEF SubStateNew, SubStates
<1>4. app \in [Channels -> AppStates]
  BY <1>1, <1>2, Constants DEF AppStates
<1>5. inbox \in Seq(Message) /\ outbox \in Seq(Commands)
  BY DEF Init
<1>6. server_subs \in [ServerChannels -> Entries]
  BY Constants DEF Init, Unknown, Entries, NoEpoch
<1>7. /\ stream \in [Channels -> [epoch : 1 .. Epochs, top : 0 .. MaxPubs]]
      /\ held \in [Channels -> [on : BOOLEAN, delta : BOOLEAN, base : 0 .. MaxPubs]]
  BY Constants DEF Init, NotHeld
<1>8. conn \in {"up", "down", "off"} /\ losses \in 0 .. MaxLosses /\ resub \in [ClientChannels -> BOOLEAN]
  BY Constants DEF Init
<1> QED BY <1>1, <1>3, <1>4, <1>5, <1>6, <1>7, <1>8 DEF TypeInv

\* ... after a new connection ...
LEMMA TypeReconnect ==
  ASSUME TypeInv, NEW S \in SUBSET ServerChannels, NEW B \in SUBSET ClientChannels,
         NEW deltas \in {FALSE, WantsDelta}, Reconnect(S, B, deltas)
  PROVE  TypeInv'
<1> DEFINE result(ch) ==
             IF ch \in B THEN Answer(ch, Position(sub[ch]), deltas /\ WantsDelta)
             ELSE Answer(ch, [recover |-> server_subs[ch].recoverable,
                              offset |-> server_subs[ch].offset, epoch |-> server_subs[ch].epoch], FALSE)
           results == [ch \in S \union B |-> result(ch)]
           both(ch) == Subscribed([sub |-> sub[ch], app |-> app[ch]], results[ch])
           server(ch) == ServerSubscribed([sub |-> server_subs[ch], app |-> app[ch]], results[ch])
<1>1. ASSUME NEW ch \in S \union B
      PROVE  results[ch] \in SubscribeResults
  <2>1. ch \in Channels /\ stream[ch] \in [epoch : 1 .. Epochs, top : 0 .. MaxPubs]
    BY DEF TypeInv, Channels
  <2>2. CASE ch \in B
    <3>1. Position(sub[ch]) \in Positions /\ (deltas /\ WantsDelta) \in BOOLEAN
      BY <2>2, PositionType, Constants DEF TypeInv
    <3> QED BY <2>1, <2>2, <3>1, Answers
  <2>3. CASE ch \notin B
    <3>1. [recover |-> server_subs[ch].recoverable, offset |-> server_subs[ch].offset,
           epoch |-> server_subs[ch].epoch] \in Positions
      <4>1. server_subs[ch] \in Entries
        BY <2>3 DEF TypeInv
      <4> QED BY <4>1 DEF Entries, Positions
    <3> QED BY <2>1, <2>3, <3>1, Answers
  <2> QED BY <2>2, <2>3
<1>2. /\ sub' = [ch \in ClientChannels |-> IF ch \in B THEN both(ch).sub ELSE sub[ch]]
      /\ server_subs' = ServerSubsAfter(S, results)
      /\ app' = [ch \in Channels |->
           CASE ch \in B -> both(ch).app
             [] ch \in S -> server(ch).app
             [] ch \in ServerChannels \ S /\ Known(ch) -> [app[ch] EXCEPT !.status = "unsubscribed"]
             [] OTHER -> app[ch]]
      /\ held' = [ch \in Channels |-> IF ch \in S \union B THEN HeldAfter(results[ch]) ELSE NotHeld]
      /\ conn' = "up" /\ outbox' = SubscribeCommands(Attempting \ B) /\ inbox' = <<>>
      /\ UNCHANGED <<losses, resub, stream>>
  BY DEF Reconnect
<1> HIDE DEF results
<1>3. ASSUME NEW ch \in B
      PROVE  both(ch).sub \in SubStates /\ both(ch).app \in AppStates
  <2>1. both(ch) \in [sub : SubStates, app : AppStates]
    BY <1>1, SubscribedType DEF TypeInv, Channels
  <2> QED BY <2>1
<1>4. ASSUME NEW ch \in S
      PROVE  server(ch).sub \in Entries /\ server(ch).app \in AppStates
  <2>1. server(ch) \in [sub : Entries, app : AppStates]
    BY <1>1, ServerSubscribedType DEF TypeInv, Channels
  <2> QED BY <2>1
<1>5. server_subs' \in [ServerChannels -> Entries]
  <2>1. Unknown \in Entries
    BY Constants DEF Unknown, Entries, NoEpoch
  <2> QED BY <1>2, <1>4, <2>1 DEF ServerSubsAfter
<1> HIDE DEF both, server
<1>6. sub' \in [ClientChannels -> SubStates]
  BY <1>2, <1>3 DEF TypeInv
<1>7. app' \in [Channels -> AppStates]
  <2> SUFFICES ASSUME NEW ch \in Channels PROVE app'[ch] \in AppStates
    BY <1>2
  <2>1. app[ch] \in AppStates /\ [app[ch] EXCEPT !.status = "unsubscribed"] \in AppStates
    BY DEF TypeInv, AppStates
  <2> QED BY <1>2, <1>3, <1>4, <2>1
<1>8. held' \in [Channels -> [on : BOOLEAN, delta : BOOLEAN, base : 0 .. MaxPubs]]
  <2>1. NotHeld \in [on : BOOLEAN, delta : BOOLEAN, base : 0 .. MaxPubs]
    BY Constants DEF NotHeld
  <2> QED BY <1>1, <1>2, <2>1, HeldAfterType
<1>9. outbox' \in Seq(Commands) /\ inbox' \in Seq(Message)
  BY <1>2, CommandsOnce DEF Attempting
<1> QED BY <1>2, <1>5, <1>6, <1>7, <1>8, <1>9 DEF TypeInv

\* A queue grows by one.
LEMMA AppendType ==
  ASSUME NEW T, NEW q \in Seq(T), NEW m \in T
  PROVE  Append(q, m) \in Seq(T)
OBVIOUS

\* The application is told of a change ...
LEMMA StatusType ==
  ASSUME NEW a \in AppStates, NEW status \in {"none", "subscribed", "subscribing", "unsubscribed"}
  PROVE  [a EXCEPT !.status = status] \in AppStates
BY DEF AppStates

\* ... of the state of a Subscription.
LEMMA StateType ==
  ASSUME NEW s \in SubStates, NEW state \in {"Unsubscribed", "Subscribing", "Subscribed"}
  PROVE  [s EXCEPT !.state = state] \in SubStates
BY DEF SubStates

\* One subscription changes its state.
LEMMA SubStateType ==
  ASSUME TypeInv, NEW ch \in ClientChannels,
         NEW state \in {"Unsubscribed", "Subscribing", "Subscribed"}
  PROVE  [sub EXCEPT ![ch].state = state] \in [ClientChannels -> SubStates]
<1>1. sub[ch] \in SubStates /\ sub \in [ClientChannels -> SubStates]
  BY DEF TypeInv
<1>2. [sub[ch] EXCEPT !.state = state] \in SubStates
  BY <1>1, StateType
<1> QED BY <1>1, <1>2

\* ... after a connection is sought, or ends ...
LEMMA TypeConnection ==
  ASSUME TypeInv, Connect \/ LoseConnection \/ Disconnect
  PROVE  TypeInv'
<1>1. CASE Connect
  BY <1>1 DEF TypeInv, Connect, clientVars, serverVars
<1>2. NotHeld \in [on : BOOLEAN, delta : BOOLEAN, base : 0 .. MaxPubs]
  BY Constants DEF NotHeld
<1>3. Unwired => /\ inbox' \in Seq(Message) /\ outbox' \in Seq(Commands)
                 /\ held' \in [Channels -> [on : BOOLEAN, delta : BOOLEAN, base : 0 .. MaxPubs]]
  BY <1>2 DEF Unwired
<1>4. CASE LoseConnection
  <2>1. losses' \in 0 .. MaxLosses /\ conn' = "down"
    BY <1>4, Constants DEF TypeInv, LoseConnection
  <2>2. sub' \in [ClientChannels -> SubStates]
    BY <1>4, StateType DEF TypeInv, LoseConnection
  <2>3. app' \in [Channels -> AppStates]
    BY <1>4, StatusType DEF TypeInv, LoseConnection
  <2> QED BY <1>3, <1>4, <2>1, <2>2, <2>3 DEF TypeInv, LoseConnection
<1>5. CASE Disconnect
  <2>1. losses' \in 0 .. MaxLosses /\ conn' = "off"
    BY <1>5, Constants DEF TypeInv, Disconnect
  <2>2. sub' \in [ClientChannels -> SubStates]
    BY <1>5, StateType DEF TypeInv, Disconnect
  <2>3. app' \in [Channels -> AppStates]
    BY <1>5, StatusType DEF TypeInv, Disconnect
  <2>4. server_subs' \in [ServerChannels -> Entries]
    BY <1>5, Constants DEF Disconnect, Unknown, Entries, NoEpoch
  <2> QED BY <1>3, <1>5, <2>1, <2>2, <2>3, <2>4 DEF TypeInv, Disconnect
<1> QED BY <1>1, <1>4, <1>5

\* ... after the application's calls ...
LEMMA TypeCommands ==
  ASSUME TypeInv, NEW ch \in ClientChannels,
         HandleSubscribe(ch) \/ HandleUnsubscribe(ch) \/ HandleResubscribe(ch)
  PROVE  TypeInv'
<1>1. sub[ch] \in SubStates /\ Position(sub[ch]) \in Positions
  BY PositionType DEF TypeInv
<1>2. SendSubscribe(ch) => outbox' \in Seq(Commands)
  <2>1. [kind |-> "subscribe", ch |-> ch, at |-> Position(sub[ch])] \in Commands
    BY <1>1 DEF Commands
  <2> QED BY <2>1, AppendType DEF TypeInv, SendSubscribe
<1>3. Append(outbox, [kind |-> "unsubscribe", ch |-> ch]) \in Seq(Commands)
  <2>1. [kind |-> "unsubscribe", ch |-> ch] \in Commands
    BY DEF Commands
  <2> QED BY <2>1, AppendType DEF TypeInv
<1>4. CASE HandleSubscribe(ch)
  <2>1. outbox' \in Seq(Commands)
    BY <1>2, <1>4 DEF TypeInv, HandleSubscribe
  <2>2. sub' \in [ClientChannels -> SubStates]
    BY <1>1, <1>4, StateType DEF TypeInv, HandleSubscribe
  <2> QED BY <1>4, <2>1, <2>2 DEF TypeInv, HandleSubscribe, serverVars
<1>5. CASE HandleUnsubscribe(ch)
  <2>1. outbox' \in Seq(Commands)
    BY <1>3, <1>5 DEF TypeInv, HandleUnsubscribe
  <2>2. sub' \in [ClientChannels -> SubStates]
    BY <1>1, <1>5, StateType DEF TypeInv, HandleUnsubscribe
  <2> QED BY <1>5, <2>1, <2>2 DEF TypeInv, HandleUnsubscribe, serverVars
<1>6. CASE HandleResubscribe(ch)
  <2>1. outbox' \in Seq(Commands)
    BY <1>2, <1>6 DEF TypeInv, HandleResubscribe
  <2> QED BY <1>6, <2>1 DEF TypeInv, HandleResubscribe, serverVars
<1> QED BY <1>4, <1>5, <1>6

\* ... after a message ...
LEMMA TypeFrame ==
  ASSUME TypeInv, HandleFrame
  PROVE  TypeInv'
<1> DEFINE m == Head(inbox)
<1>1. m \in Message /\ inbox' \in Seq(Message)
  BY DEF TypeInv, HandleFrame
<1>2. m.ch \in Channels
  BY <1>1 DEF Message, Channels
<1>3. app[m.ch] \in AppStates
  BY <1>2 DEF TypeInv
<1>4. CASE m.kind = "subscribed"
  <2>1. m.ch \in ClientChannels /\ m.result \in SubscribeResults \union {NoResult}
    BY <1>1, <1>4 DEF Message
  <2>2. Subscribed([sub |-> sub[m.ch], app |-> app[m.ch]], m.result) \in [sub : SubStates, app : AppStates]
    BY <1>3, <2>1, SubscribedType DEF TypeInv
  <2>3. HandleSubscribeReply(m) /\ UNCHANGED <<conn, losses, outbox, stream, held>>
    BY <1>4 DEF HandleFrame, serverVars
  <2>4. CASE m.code \in {0, ALREADY_SUBSCRIBED}
    BY <1>1, <2>1, <2>2, <2>3, <2>4 DEF TypeInv, HandleSubscribeReply
  <2>5. CASE m.code \notin {0, ALREADY_SUBSCRIBED}
    <3>1. \/ resub' = [resub EXCEPT ![m.ch] = TRUE] /\ UNCHANGED sub
          \/ sub' = [sub EXCEPT ![m.ch].state = "Unsubscribed"] /\ UNCHANGED resub
      BY <2>3, <2>5 DEF HandleSubscribeReply, HandleSubscribeError
    <3>2. UNCHANGED <<server_subs, app>>
      BY <2>3, <2>5 DEF HandleSubscribeReply, HandleSubscribeError
    <3>3. sub' \in [ClientChannels -> SubStates] /\ resub' \in [ClientChannels -> BOOLEAN]
      BY <2>1, <3>1, SubStateType DEF TypeInv
    <3> QED BY <1>1, <2>3, <3>2, <3>3 DEF TypeInv
  <2> QED BY <2>4, <2>5
<1>5. CASE m.kind = "publication"
  <2>1. m.pub \in Publication
    BY <1>1, <1>5 DEF Message
  <2>2. HandlePublication(m) /\ UNCHANGED <<conn, losses, outbox, stream, held>>
    BY <1>5 DEF HandleFrame, serverVars
  <2>3. CASE m.ch \in ClientChannels
    <3>1. Published([sub |-> sub[m.ch], app |-> app[m.ch]], m.pub) \in [sub : SubStates, app : AppStates]
      BY <1>3, <2>1, <2>3, PublishedType DEF TypeInv
    <3> QED BY <1>1, <2>2, <2>3, <3>1 DEF TypeInv, HandlePublication
  <2>4. CASE m.ch \notin ClientChannels
    <3>1. m.ch \in ServerChannels
      BY <1>2, <2>4 DEF Channels
    <3>2. ServerPublished([sub |-> server_subs[m.ch], app |-> app[m.ch]], m.pub) \in [sub : Entries, app : AppStates]
      BY <1>3, <2>1, <3>1, ServerPublishedType DEF TypeInv
    <3> QED BY <1>1, <2>2, <2>4, <3>1, <3>2 DEF TypeInv, HandlePublication, clientVars
  <2> QED BY <2>3, <2>4
<1>6. CASE m.kind = "unsubscribe"
  <2>2. HandleServerUnsubscribe(m) /\ UNCHANGED <<conn, losses, outbox, stream, held>>
    BY <1>6 DEF HandleFrame, serverVars
  <2>3. CASE m.ch \in ClientChannels
    <3>1. sub' \in [ClientChannels -> SubStates]
      <4>1. \/ sub' = [sub EXCEPT ![m.ch].state = "Subscribing"]
            \/ sub' = [sub EXCEPT ![m.ch].state = "Unsubscribed"]
        BY <2>2, <2>3 DEF HandleServerUnsubscribe
      <4>2. /\ [sub EXCEPT ![m.ch].state = "Subscribing"] \in [ClientChannels -> SubStates]
            /\ [sub EXCEPT ![m.ch].state = "Unsubscribed"] \in [ClientChannels -> SubStates]
        BY <2>3, SubStateType
      <4> QED BY <4>1, <4>2
    <3> QED BY <1>1, <2>2, <2>3, <3>1 DEF TypeInv, HandleServerUnsubscribe
  <2>4. CASE m.ch \notin ClientChannels
    <3>1. Unknown \in Entries
      BY Constants DEF Unknown, Entries, NoEpoch
    <3>2. app' \in [Channels -> AppStates]
      BY <1>3, <2>2, <2>4, StatusType DEF TypeInv, HandleServerUnsubscribe
    <3> QED BY <1>1, <2>2, <2>4, <3>1, <3>2 DEF TypeInv, HandleServerUnsubscribe
  <2> QED BY <2>3, <2>4
<1>7. CASE m.kind = "subscribe"
  <2>1. m.ch \in ServerChannels /\ m.result \in SubscribeResults
    BY <1>1, <1>7 DEF Message
  <2>2. HandleServerSubscribe(m) /\ UNCHANGED <<conn, losses, outbox, stream, held>>
    BY <1>7 DEF HandleFrame, serverVars
  <2>3. Entry(m.result) \in Entries
    BY <2>1, ResultFields DEF Entry, Entries
  <2>4. SeesSubscribed(app[m.ch], [m.result EXCEPT !.recovered = FALSE]) \in AppStates
    <3> DEFINE r == [m.result EXCEPT !.recovered = FALSE]
    <3>1. r.epoch \in NoEpoch .. Epochs /\ r.offset \in 0 .. MaxPubs
      BY <2>1, ResultFields DEF SubscribeResults
    <3> HIDE DEF r
    <3>2. SeesSubscribed(app[m.ch], r) \in AppStates
      BY <1>3, <3>1 DEF SeesSubscribed, AppStates
    <3> QED BY <3>2 DEF r
  <2>5. app' \in [Channels -> AppStates]
    BY <1>2, <2>2, <2>4, StatusType DEF TypeInv, HandleServerSubscribe
  <2> QED BY <1>1, <2>1, <2>2, <2>3, <2>5 DEF TypeInv, HandleServerSubscribe
<1>8. m.kind \in {"publication", "unsubscribe", "subscribe", "subscribed"}
  BY <1>1 DEF Message
<1> QED BY <1>4, <1>5, <1>6, <1>7, <1>8

\* ... after the server has read a command ...
LEMMA TypeServer ==
  ASSUME TypeInv, ServerHandles
  PROVE  TypeInv'
<1> DEFINE c == Head(outbox)
           Held == [on : BOOLEAN, delta : BOOLEAN, base : 0 .. MaxPubs]
<1>1. c \in Commands /\ outbox' \in Seq(Commands) /\ c.ch \in ClientChannels
  BY DEF TypeInv, ServerHandles, Commands
<1>2. UNCHANGED <<conn, losses, sub, resub, server_subs, app, stream>>
  BY DEF ServerHandles, clientVars
<1>3. NotHeld \in Held
  BY Constants DEF NotHeld
<1>4. CASE c.kind = "unsubscribe"
  <2>1. held' = [held EXCEPT ![c.ch] = NotHeld] /\ UNCHANGED inbox
    BY <1>4 DEF ServerHandles
  <2> QED BY <1>1, <1>2, <1>3, <2>1 DEF TypeInv
<1>5. CASE c.kind = "subscribe"
  <2> DEFINE reply(code, temporary, result) ==
        [kind |-> "subscribed", ch |-> c.ch, code |-> code, temporary |-> temporary, result |-> result]
  <2>1. ASSUME NEW code \in Nat, NEW temporary \in BOOLEAN, NEW result \in SubscribeResults \union {NoResult}
        PROVE  reply(code, temporary, result) \in Message
    BY <1>1 DEF Message
  <2> HIDE DEF reply
  <2>2. \/ /\ inbox' = Append(inbox, reply(ALREADY_SUBSCRIBED, FALSE, NoResult)) /\ UNCHANGED held
        \/ /\ \E e \in Refusals : inbox' = Append(inbox, reply(e.code, e.temporary, NoResult))
           /\ UNCHANGED held
        \/ \E delta \in {FALSE, WantsDelta} :
             /\ inbox' = Append(inbox, reply(0, FALSE, Answer(c.ch, c.at, delta)))
             /\ held' = [held EXCEPT ![c.ch] = HeldAfter(Answer(c.ch, c.at, delta))]
    BY <1>5 DEF ServerHandles, ServerAccepts, ServerRefuses, Reply, Says, reply
  <2>3. ALREADY_SUBSCRIBED \in Nat
    BY DEF ALREADY_SUBSCRIBED
  <2>4. CASE inbox' = Append(inbox, reply(ALREADY_SUBSCRIBED, FALSE, NoResult)) /\ UNCHANGED held
    <3>1. reply(ALREADY_SUBSCRIBED, FALSE, NoResult) \in Message
      BY <2>1, <2>3
    <3>2. inbox' \in Seq(Message)
      BY <2>4, <3>1, AppendType DEF TypeInv
    <3> QED BY <1>1, <1>2, <2>4, <3>2 DEF TypeInv
  <2>5. ASSUME NEW e \in Refusals, inbox' = Append(inbox, reply(e.code, e.temporary, NoResult)), UNCHANGED held
        PROVE  TypeInv'
    <3>1. reply(e.code, e.temporary, NoResult) \in Message
      BY <2>1, Constants
    <3> QED BY <1>1, <1>2, <2>5, <3>1 DEF TypeInv
  <2>6. ASSUME NEW delta \in {FALSE, WantsDelta},
               inbox' = Append(inbox, reply(0, FALSE, Answer(c.ch, c.at, delta))),
               held' = [held EXCEPT ![c.ch] = HeldAfter(Answer(c.ch, c.at, delta))]
        PROVE  TypeInv'
    <3>1. c.at \in Positions
      BY <1>1, <1>5 DEF Commands
    <3>2. Answer(c.ch, c.at, delta) \in SubscribeResults
      BY <1>1, <3>1, Answers, Constants DEF TypeInv, Channels
    <3>3. HeldAfter(Answer(c.ch, c.at, delta)) \in Held
      BY <3>2, HeldAfterType
    <3>4. reply(0, FALSE, Answer(c.ch, c.at, delta)) \in Message
      BY <2>1, <3>2
    <3>5. inbox' \in Seq(Message)
      BY <2>6, <3>4, AppendType DEF TypeInv
    <3>6. held' \in [Channels -> Held]
      BY <2>6, <3>3 DEF TypeInv
    <3> QED BY <1>1, <1>2, <3>5, <3>6 DEF TypeInv
  <2> QED BY <2>2, <2>4, <2>5, <2>6
<1>6. c.kind \in {"subscribe", "unsubscribe"}
  BY <1>1 DEF Commands
<1> QED BY <1>4, <1>5, <1>6

\* ... and after its pushes.
LEMMA TypePushes ==
  ASSUME TypeInv, NEW ch \in Channels,
         \/ \E delta \in {FALSE, WantsDelta} : Publish(ch, delta)
         \/ \E code \in UnsubscribeCodes : ServerUnsubscribes(ch, code)
         \/ ch \in ServerChannels /\ ServerSubscribes(ch)
         \/ StreamRestarts(ch)
  PROVE  TypeInv'
<1> DEFINE Held == [on : BOOLEAN, delta : BOOLEAN, base : 0 .. MaxPubs]
           Stream == [epoch : 1 .. Epochs, top : 0 .. MaxPubs]
<1>1. stream[ch] \in Stream /\ held[ch] \in Held /\ NotHeld \in Held
  BY Constants DEF TypeInv, NotHeld
<1>2. ASSUME NEW delta \in {FALSE, WantsDelta}, Publish(ch, delta)
      PROVE  TypeInv'
  <2> DEFINE s == [stream[ch] EXCEPT !.top = @ + 1]
             p == Pub(s.epoch, s.top, held[ch].base, delta, held[ch].delta)
  <2>1. s \in Stream /\ s.top \in 1 .. MaxPubs /\ s.top \in 0 .. MaxPubs
    <3>1. stream[ch].top \in 0 .. MaxPubs /\ stream[ch].top < MaxPubs /\ s.top = stream[ch].top + 1
      BY <1>1, <1>2 DEF Publish
    <3>2. s.top \in 1 .. MaxPubs /\ s.top \in 0 .. MaxPubs
      BY <3>1, Constants
    <3> QED BY <1>1, <3>2
  <2>2. p \in Publication
    BY <1>1, <1>2, <2>1, Constants DEF Publish, Pub, Publication
  <2>3. [kind |-> "publication", ch |-> ch, pub |-> p] \in Message
    BY <2>2 DEF Message
  <2>4. stream' = [stream EXCEPT ![ch] = s] /\ UNCHANGED <<conn, losses, sub, resub, server_subs, app, outbox>>
    BY <1>2 DEF Publish, clientVars
  <2>5. \/ /\ inbox' = Append(inbox, [kind |-> "publication", ch |-> ch, pub |-> p])
           /\ held' = [held EXCEPT ![ch].base = IF held[ch].delta THEN s.top ELSE 0]
        \/ UNCHANGED <<inbox, held>>
    BY <1>2 DEF Publish, Says
  <2> HIDE DEF s, p
  <2>9. Append(inbox, [kind |-> "publication", ch |-> ch, pub |-> p]) \in Seq(Message)
    BY <2>3, AppendType DEF TypeInv
  <2>6. held' \in [Channels -> Held]
    <3>1. (IF held[ch].delta THEN s.top ELSE 0) \in 0 .. MaxPubs
      BY <2>1, Constants
    <3> HIDE DEF Held
    <3>2. ASSUME NEW h \in Held, NEW b \in 0 .. MaxPubs
          PROVE  [h EXCEPT !.base = b] \in Held
      BY DEF Held
    <3>3. held \in [Channels -> Held]
      BY DEF TypeInv, Held
    <3>4. \/ held' = [held EXCEPT ![ch] = [held[ch] EXCEPT !.base = IF held[ch].delta THEN s.top ELSE 0]]
          \/ held' = held
      BY <2>5
    <3> QED BY <1>1, <3>1, <3>2, <3>3, <3>4
  <2>7. inbox' \in Seq(Message)
    BY <2>5, <2>9 DEF TypeInv
  <2>8. stream' \in [Channels -> Stream]
    BY <2>1, <2>4 DEF TypeInv
  <2> QED BY <2>4, <2>6, <2>7, <2>8 DEF TypeInv
<1>3. ASSUME NEW code \in UnsubscribeCodes, ServerUnsubscribes(ch, code)
      PROVE  TypeInv'
  <2>1. [kind |-> "unsubscribe", ch |-> ch, code |-> code] \in Message
    BY Constants DEF Message
  <2> QED BY <1>1, <1>3, <2>1 DEF TypeInv, ServerUnsubscribes, Says, clientVars
<1>4. CASE ch \in ServerChannels /\ ServerSubscribes(ch)
  <2> DEFINE r == Answer(ch, [recover |-> FALSE, offset |-> 0, epoch |-> NoEpoch], FALSE)
  <2>1. [recover |-> FALSE, offset |-> 0, epoch |-> NoEpoch] \in Positions
    BY Constants DEF Positions, NoEpoch
  <2>2. r \in SubscribeResults
    BY <1>1, <2>1, Answers
  <2>3. [kind |-> "subscribe", ch |-> ch, result |-> r] \in Message
    BY <1>4, <2>2 DEF Message
  <2>4. Holding(FALSE, 0) \in Held
    BY Constants DEF Holding
  <2>5. /\ inbox' = Append(inbox, [kind |-> "subscribe", ch |-> ch, result |-> r])
        /\ held' = [held EXCEPT ![ch] = Holding(FALSE, 0)]
        /\ UNCHANGED <<conn, losses, sub, resub, server_subs, app, outbox, stream>>
    BY <1>4 DEF ServerSubscribes, Says, clientVars
  <2> HIDE DEF r
  <2>6. inbox' \in Seq(Message)
    BY <2>3, <2>5, AppendType DEF TypeInv
  <2> QED BY <2>4, <2>5, <2>6 DEF TypeInv
<1>5. CASE StreamRestarts(ch)
  <2>1. [epoch |-> stream[ch].epoch + 1, top |-> 0] \in Stream
    <3>1. stream[ch].epoch \in 1 .. Epochs /\ stream[ch].epoch < Epochs
      BY <1>1, <1>5 DEF StreamRestarts
    <3> QED BY <3>1, Constants
  <2> QED BY <1>5, <2>1 DEF TypeInv, StreamRestarts, clientVars
<1> QED BY <1>2, <1>3, <1>4, <1>5

\* Every step keeps them.
LEMMA TypeStep == TypeInv /\ [Next]_vars => TypeInv'
<1> SUFFICES ASSUME TypeInv, [Next]_vars PROVE TypeInv'
  OBVIOUS
<1>1. CASE UNCHANGED vars
  BY <1>1 DEF TypeInv, vars
<1>2. CASE Next
  <2>1. ASSUME NEW S \in SUBSET ServerChannels, NEW B \in SUBSET ClientChannels,
               NEW deltas \in {FALSE, WantsDelta}, Reconnect(S, B, deltas)
        PROVE  TypeInv'
    BY <2>1, TypeReconnect
  <2>2. ASSUME NEW ch \in ClientChannels,
               HandleSubscribe(ch) \/ HandleUnsubscribe(ch) \/ HandleResubscribe(ch)
        PROVE  TypeInv'
    BY <2>2, TypeCommands
  <2>3. ASSUME NEW ch \in Channels,
               \/ \E delta \in {FALSE, WantsDelta} : Publish(ch, delta)
               \/ \E code \in UnsubscribeCodes : ServerUnsubscribes(ch, code)
               \/ ch \in ServerChannels /\ ServerSubscribes(ch)
               \/ StreamRestarts(ch)
        PROVE  TypeInv'
    BY <2>3, TypePushes
  <2>4. ServerChannels \subseteq Channels
    BY DEF Channels
  <2> QED BY <1>2, <2>1, <2>2, <2>3, <2>4, TypeConnection, TypeFrame, TypeServer DEF Next
<1> QED BY <1>1, <1>2

\* The client's state has its types: offsets and epochs are the server's, the state of a
\* Subscription is one of its three, and prev_data holds bytes.
THEOREM TypesCorrect == Spec => []TypeOK
<1>1. TypeInv => TypeOK
  BY DEF TypeInv, TypeOK, SubStates, Entries, AppStates
<1> QED BY <1>1, TypeInit, TypeStep, PTL DEF Spec

-------------------------------------------------------------------------------
(* The registry of server-side subscriptions, and what the application was told. *)

\* Nobody subscribes to a stream that is not recoverable.
Registered ==
  /\ AppKnowsServerSubs
  /\ \A ch \in ServerChannels : Known(ch) => server_subs[ch].recoverable

\* A publication leaves an entry recoverable and its status as they were ...
LEMMA PublishedInPlace ==
  ASSUME NEW both \in [sub : Entries, app : AppStates], NEW p \in Publication
  PROVE  /\ ServerPublished(both, p).sub.recoverable = both.sub.recoverable
         /\ ServerPublished(both, p).app.status = both.app.status
<1>1. ServerPublished(both, p).sub = [both.sub EXCEPT !.offset = p.offset]
  BY DEF ServerPublished
<1>2. ServerPublished(both, p).app = Sees(both.app, p.epoch, p.offset, Wire(p))
  BY DEF ServerPublished
<1>3. both.sub \in Entries /\ both.app \in AppStates
  OBVIOUS
<1>4. ASSUME NEW e, NEW o, NEW data
      PROVE  Sees(both.app, e, o, data).status = both.app.status
  BY <1>3 DEF Sees, AppStates
<1> QED BY <1>1, <1>2, <1>3, <1>4 DEF Entries

\* ... and so do all those of a result.
LEMMA AllPublishedInPlace ==
  ASSUME NEW both \in [sub : Entries, app : AppStates], NEW pubs \in Seq(Publication)
  PROVE  /\ AllServerPublished(both, pubs).sub.recoverable = both.sub.recoverable
         /\ AllServerPublished(both, pubs).app.status = both.app.status
<1>0. Len(pubs) \in Nat
  OBVIOUS
<1>1. PICK after : /\ after[0] = both
                   /\ \A k \in 1 .. Len(pubs) : after[k] = ServerPublished(after[k - 1], pubs[k])
                   /\ AllServerPublished(both, pubs) = after[Len(pubs)]
  BY <1>0, AllServerPublishedUnfolds
<1> DEFINE S == {k \in 0 .. Len(pubs) : /\ after[k] \in [sub : Entries, app : AppStates]
                                        /\ after[k].sub.recoverable = both.sub.recoverable
                                        /\ after[k].app.status = both.app.status}
<1>2. 0 \in S
  BY <1>1
<1>3. ASSUME NEW k \in 1 .. Len(pubs), k - 1 \in S
      PROVE  k \in S
  <2>1. pubs[k] \in Publication /\ after[k - 1] \in [sub : Entries, app : AppStates]
    BY <1>3
  <2>2. /\ after[k] \in [sub : Entries, app : AppStates]
        /\ after[k].sub.recoverable = after[k - 1].sub.recoverable
        /\ after[k].app.status = after[k - 1].app.status
    <3>1. after[k] = ServerPublished(after[k - 1], pubs[k])
      BY <1>1
    <3> DEFINE b == after[k - 1]
               p == pubs[k]
    <3>2. b \in [sub : Entries, app : AppStates] /\ p \in Publication
      BY <2>1
    <3> HIDE DEF b, p
    <3>3. ServerPublished(b, p) \in [sub : Entries, app : AppStates]
      BY <3>2, ServerPublishedType
    <3>4. /\ ServerPublished(b, p).sub.recoverable = b.sub.recoverable
          /\ ServerPublished(b, p).app.status = b.app.status
      BY <3>2, PublishedInPlace
    <3> QED BY <3>1, <3>3, <3>4 DEF b, p
  <2> QED BY <1>3, <2>2
<1>4. Len(pubs) \in S
  <2> HIDE DEF S
  <2>1. 0 .. Len(pubs) \subseteq S
    BY <1>0, <1>2, <1>3, UpTo
  <2> QED BY <2>1
<1> QED BY <1>1, <1>4

\* Who is subscribed is told so.
LEMMA ServerSubscribedTold ==
  ASSUME NEW s, NEW a \in AppStates, NEW result \in SubscribeResults
  PROVE  LET both == ServerSubscribed([sub |-> s, app |-> a], result) IN
         both.sub.recoverable /\ both.app.status = "subscribed"
<1> DEFINE both == [sub |-> Entry(result),
                    app |-> [SeesSubscribed(a, result) EXCEPT !.status = "subscribed"]]
<1>1. /\ result.recoverable /\ result.epoch \in NoEpoch .. Epochs /\ result.offset \in 0 .. MaxPubs
      /\ result.recoverable \in BOOLEAN /\ result.publications \in Seq(Publication)
  BY ResultFields
<1>2. SeesSubscribed(a, result) \in AppStates
  BY <1>1 DEF SeesSubscribed, AppStates
<1>3. both \in [sub : Entries, app : AppStates] /\ both.sub.recoverable /\ both.app.status = "subscribed"
  BY <1>1, <1>2, StatusType DEF Entry, Entries, AppStates
<1>4. ServerSubscribed([sub |-> s, app |-> a], result) = AllServerPublished(both, result.publications)
  BY DEF ServerSubscribed
<1> HIDE DEF both
<1> QED BY <1>1, <1>3, <1>4, AllPublishedInPlace

\* Nobody is registered at the start.
LEMMA RegisteredInit == Init => Registered
<1> SUFFICES ASSUME Init PROVE Registered
  OBVIOUS
<1>1. \A ch \in ServerChannels : ~Known(ch) /\ app[ch].status = "none"
  BY DEF Init, Known, Channels
<1> QED BY <1>1 DEF Registered, AppKnowsServerSubs

\* The registry and what the application was told change together.
LEMMA RegisteredStep == TypeInv /\ Registered /\ [Next]_vars => Registered'
<1> SUFFICES ASSUME TypeInv, Registered, [Next]_vars PROVE Registered'
  OBVIOUS
<1> DEFINE Good(known, rec, status, up) ==
      IF known THEN rec /\ status = (IF up THEN "subscribed" ELSE "subscribing")
      ELSE status \in {"none", "unsubscribed"}
<1>a. Registered => \A ch \in ServerChannels :
                      Good(Known(ch), server_subs[ch].recoverable, app[ch].status, conn = "up")
  BY DEF Registered, AppKnowsServerSubs
<1>b. (\A ch \in ServerChannels :
         Good(Known(ch)', server_subs'[ch].recoverable, app'[ch].status, conn' = "up")) => Registered'
  BY DEF Registered, AppKnowsServerSubs
<1> SUFFICES ASSUME NEW ch \in ServerChannels
             PROVE  Good(Known(ch)', server_subs'[ch].recoverable, app'[ch].status, conn' = "up")
  BY <1>b
<1>g. Good(Known(ch), server_subs[ch].recoverable, app[ch].status, conn = "up")
  BY <1>a
<1>h. Known(ch)' <=> server_subs'[ch] # Unknown
  BY DEF Known
<1>i. /\ ch \in Channels /\ ch \notin ClientChannels /\ app[ch] \in AppStates /\ server_subs[ch] \in Entries
      /\ app \in [Channels -> AppStates] /\ server_subs \in [ServerChannels -> Entries]
  BY Constants DEF TypeInv, Channels
<1>j. ~Unknown.recoverable
  BY DEF Unknown
<1>k. UNCHANGED <<conn, app, server_subs>> =>
        Good(Known(ch)', server_subs'[ch].recoverable, app'[ch].status, conn' = "up")
  BY <1>g DEF Known
<1>l. \A status : [app[ch] EXCEPT !.status = status].status = status
  BY <1>i DEF AppStates
<1>1. CASE UNCHANGED vars
  BY <1>1, <1>k DEF vars
<1>2. CASE Connect
  <2>1. conn = "off" /\ conn' = "down" /\ UNCHANGED <<app, server_subs>>
    BY <1>2 DEF Connect, clientVars
  <2> QED BY <1>g, <2>1 DEF Known
<1>3. CASE LoseConnection
  <2>1. /\ conn' = "down" /\ UNCHANGED server_subs
        /\ app'[ch] = IF Known(ch) THEN [app[ch] EXCEPT !.status = "subscribing"] ELSE app[ch]
    BY <1>3, <1>i DEF LoseConnection
  <2> QED BY <1>g, <1>l, <2>1 DEF Known
<1>4. CASE Disconnect
  <2>1. /\ server_subs'[ch] = Unknown
        /\ app'[ch] = IF Known(ch) THEN [app[ch] EXCEPT !.status = "unsubscribed"] ELSE app[ch]
    BY <1>4, <1>i DEF Disconnect
  <2> QED BY <1>g, <1>h, <1>l, <2>1
<1>5. ASSUME NEW S \in SUBSET ServerChannels, NEW B \in SUBSET ClientChannels,
             NEW deltas \in {FALSE, WantsDelta}, Reconnect(S, B, deltas)
      PROVE  Good(Known(ch)', server_subs'[ch].recoverable, app'[ch].status, conn' = "up")
  <2> DEFINE result == Answer(ch, [recover |-> server_subs[ch].recoverable,
                                   offset |-> server_subs[ch].offset,
                                   epoch |-> server_subs[ch].epoch], FALSE)
             both == ServerSubscribed([sub |-> server_subs[ch], app |-> app[ch]], result)
  <2>1. conn' = "up"
    BY <1>5 DEF Reconnect
  <2>2. CASE ch \in S
    <3>1. [recover |-> server_subs[ch].recoverable, offset |-> server_subs[ch].offset,
           epoch |-> server_subs[ch].epoch] \in Positions
      BY <1>i DEF Entries, Positions
    <3>2. result \in SubscribeResults
      BY <1>i, <3>1, Answers DEF TypeInv
    <3>3. server_subs'[ch] = both.sub /\ app'[ch] = both.app
      BY <1>5, <1>i, <2>2 DEF Reconnect, ServerSubsAfter
    <3> HIDE DEF result
    <3>4. both.sub.recoverable /\ both.app.status = "subscribed"
      BY <1>i, <3>2, ServerSubscribedTold
    <3> QED BY <1>h, <1>j, <2>1, <3>3, <3>4
  <2>3. CASE ch \notin S
    <3>1. /\ server_subs'[ch] = Unknown
          /\ app'[ch] = IF Known(ch) THEN [app[ch] EXCEPT !.status = "unsubscribed"] ELSE app[ch]
      BY <1>5, <1>i, <2>3 DEF Reconnect, ServerSubsAfter
    <3> QED BY <1>g, <1>h, <1>l, <3>1
  <2> QED BY <2>2, <2>3
<1>6. ASSUME NEW c \in ClientChannels,
             HandleSubscribe(c) \/ HandleUnsubscribe(c) \/ HandleResubscribe(c)
      PROVE  Good(Known(ch)', server_subs'[ch].recoverable, app'[ch].status, conn' = "up")
  BY <1>6, <1>k DEF HandleSubscribe, HandleUnsubscribe, HandleResubscribe
<1>7. CASE HandleFrame
  <2> DEFINE m == Head(inbox)
  <2>1. m \in Message /\ conn = "up" /\ conn' = "up"
    BY <1>7 DEF HandleFrame, TypeInv
  <2>2. CASE m.ch # ch
    <3>1. app'[ch] = app[ch] /\ server_subs'[ch] = server_subs[ch]
      BY <1>7, <1>i, <2>1, <2>2 DEF HandleFrame, HandleSubscribeReply, HandleSubscribeError, HandlePublication,
         HandleServerUnsubscribe, HandleServerSubscribe, clientVars, Message
    <3> QED BY <1>g, <2>1, <3>1 DEF Known
  <2>3. CASE m.ch = ch /\ m.kind = "publication"
    <3>1. m.pub \in Publication /\ HandlePublication(m)
      BY <1>7, <2>1, <2>3 DEF HandleFrame, Message
    <3>2. CASE ~Known(ch)
      BY <1>i, <1>k, <2>1, <2>3, <3>1, <3>2 DEF HandlePublication, clientVars
    <3>3. CASE Known(ch)
      <4> DEFINE both == ServerPublished([sub |-> server_subs[ch], app |-> app[ch]], m.pub)
      <4>1. server_subs'[ch] = both.sub /\ app'[ch] = both.app
        BY <1>i, <2>3, <3>1, <3>3 DEF HandlePublication
      <4>2. both.sub.recoverable = server_subs[ch].recoverable /\ both.app.status = app[ch].status
        BY <1>i, <3>1, PublishedInPlace
      <4> QED BY <1>g, <1>h, <1>j, <2>1, <3>3, <4>1, <4>2
    <3> QED BY <3>2, <3>3
  <2>4. CASE m.ch = ch /\ m.kind = "unsubscribe"
    <3>1. HandleServerUnsubscribe(m)
      BY <1>7, <2>4 DEF HandleFrame
    <3>2. /\ server_subs'[ch] = Unknown
          /\ app'[ch] = IF Known(ch) THEN [app[ch] EXCEPT !.status = "unsubscribed"] ELSE app[ch]
      BY <1>i, <2>4, <3>1 DEF HandleServerUnsubscribe
    <3> QED BY <1>g, <1>h, <1>l, <3>2
  <2>5. CASE m.ch = ch /\ m.kind = "subscribe"
    <3>1. HandleServerSubscribe(m) /\ m.result \in SubscribeResults
      BY <1>7, <2>1, <2>5 DEF HandleFrame, Message
    <3> DEFINE r == [m.result EXCEPT !.recovered = FALSE]
    <3>2. r.epoch \in NoEpoch .. Epochs /\ r.offset \in 0 .. MaxPubs
      BY <3>1, ResultFields DEF SubscribeResults
    <3>3. server_subs'[ch] = Entry(m.result) /\ app'[ch] = [SeesSubscribed(app[ch], r) EXCEPT !.status = "subscribed"]
      BY <1>i, <2>5, <3>1 DEF HandleServerSubscribe
    <3> HIDE DEF r
    <3>4. SeesSubscribed(app[ch], r) \in AppStates
      BY <1>i, <3>2 DEF SeesSubscribed, AppStates
    <3>5. Entry(m.result).recoverable
      BY <3>1, ResultFields DEF Entry
    <3>6. app'[ch].status = "subscribed"
      BY <3>3, <3>4 DEF AppStates
    <3> QED BY <1>h, <1>j, <2>1, <3>3, <3>5, <3>6
  <2>6. m.ch = ch => m.kind # "subscribed"
    BY <1>i, <2>1 DEF Message
  <2>7. m.kind \in {"publication", "unsubscribe", "subscribe", "subscribed"}
    BY <2>1 DEF Message
  <2> QED BY <2>2, <2>3, <2>4, <2>5, <2>6, <2>7
<1>8. CASE ServerHandles
  BY <1>8, <1>k DEF ServerHandles, clientVars
<1>9. ASSUME NEW c \in Channels, NEW delta \in {FALSE, WantsDelta}, Publish(c, delta)
      PROVE  Good(Known(ch)', server_subs'[ch].recoverable, app'[ch].status, conn' = "up")
  BY <1>9, <1>k DEF Publish, clientVars
<1>10. ASSUME NEW c \in Channels, NEW code \in UnsubscribeCodes, ServerUnsubscribes(c, code)
       PROVE  Good(Known(ch)', server_subs'[ch].recoverable, app'[ch].status, conn' = "up")
  BY <1>10, <1>k DEF ServerUnsubscribes, clientVars
<1>11. ASSUME NEW c \in Channels, ServerSubscribes(c) \/ StreamRestarts(c)
       PROVE  Good(Known(ch)', server_subs'[ch].recoverable, app'[ch].status, conn' = "up")
  BY <1>11, <1>k DEF ServerSubscribes, StreamRestarts, clientVars
<1>12. ServerChannels \subseteq Channels
  BY DEF Channels
<1> HIDE DEF Good
<1> QED BY <1>1, <1>2, <1>3, <1>4, <1>5, <1>6, <1>7, <1>8, <1>9, <1>10, <1>11, <1>12 DEF Next

\* A channel is in the registry of server-side subscriptions exactly while the application was
\* last told that it is subscribed, or, between connections, subscribing.
THEOREM RegistryTold == Spec => []AppKnowsServerSubs
<1>1. Registered => AppKnowsServerSubs
  BY DEF Registered
<1>2. Init => TypeInv /\ Registered
  BY TypeInit, RegisteredInit
<1>3. TypeInv /\ Registered /\ [Next]_vars => (TypeInv /\ Registered)'
  BY TypeStep, RegisteredStep
<1> QED BY <1>1, <1>2, <1>3, PTL DEF Spec
===============================================================================
