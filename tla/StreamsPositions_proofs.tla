------------------------- MODULE StreamsPositions_proofs -------------------------
(***************************************************************************)
(* Proofs about Streams: the application sees every publication once and   *)
(* as it was published, or is told of the gap.  The state is looked at one *)
(* channel at a time: what is on the wire about a channel, what both ends  *)
(* keep of it and what the application has seen of it are one              *)
(* conversation, and the inductive invariant is what a conversation may    *)
(* look like.                                                              *)
(***************************************************************************)
EXTENDS Streams_proofs

-------------------------------------------------------------------------------
(* What a queue says of one channel.                                           *)

\* The messages or commands of a queue that are about a channel.
Of(ch, q) ==
  LET of[k \in 0 .. Len(q)] ==
        IF k = 0 THEN <<>> ELSE IF q[k].ch = ch THEN Append(of[k - 1], q[k]) ELSE of[k - 1]
  IN  of[Len(q)]

\* The steps of the projection.
Projects(of, ch, q) ==
  /\ of[0] = <<>>
  /\ \A k \in 1 .. Len(q) : of[k] = IF q[k].ch = ch THEN Append(of[k - 1], q[k]) ELSE of[k - 1]
  /\ Of(ch, q) = of[Len(q)]

\* A queue is projected one message at a time.
LEMMA OfUnfolds ==
  ASSUME NEW ch, NEW q, Len(q) \in Nat
  PROVE  \E of : Projects(of, ch, q)
<1> DEFINE Rest(g, k) == IF q[k].ch = ch THEN Append(g[k - 1], q[k]) ELSE g[k - 1]
           Steps(n, g) == g = [k \in 0 .. n |-> IF k = 0 THEN <<>> ELSE
                                 IF q[k].ch = ch THEN Append(g[k - 1], q[k]) ELSE g[k - 1]]
           S == {n \in 0 .. Len(q) : \E g : Steps(n, g)}
<1>1. 0 \in S
  <2> DEFINE g == [k \in 0 .. 0 |-> <<>>]
  <2>1. Steps(0, g)
    OBVIOUS
  <2> HIDE DEF g
  <2> QED BY <2>1
<1>2. ASSUME NEW n \in 1 .. Len(q), n - 1 \in S
      PROVE  n \in S
  <2>1. PICK g : Steps(n - 1, g)
    BY <1>2
  <2> DEFINE h == [k \in 0 .. n |-> IF k = n THEN Rest(g, n) ELSE g[k]]
  <2>2. ASSUME NEW k \in 0 .. n
        PROVE  h[k] = IF k = 0 THEN <<>> ELSE
                        IF q[k].ch = ch THEN Append(h[k - 1], q[k]) ELSE h[k - 1]
    <3>1. CASE k = n
      <4>1. h[n] = Rest(g, n) /\ h[n - 1] = g[n - 1] /\ n # 0
        OBVIOUS
      <4> QED BY <3>1, <4>1
    <3>2. CASE k # n /\ k = 0
      <4>1. g[0] = <<>>
        BY <2>1
      <4> QED BY <3>2, <4>1
    <3>3. CASE k # n /\ k # 0
      <4>1. h[k] = g[k] /\ h[k - 1] = g[k - 1]
        BY <3>3
      <4>2. g[k] = Rest(g, k)
        <5>1. k \in 0 .. n - 1 /\ k # 0
          BY <3>3
        <5> QED BY <2>1, <5>1
      <4> QED BY <3>3, <4>1, <4>2
    <3> QED BY <3>1, <3>2, <3>3
  <2>3. Steps(n, h)
    BY <2>2
  <2> HIDE DEF h, Steps
  <2> QED BY <2>3
<1>3. Len(q) \in S
  <2> HIDE DEF S
  <2>1. 0 .. Len(q) \subseteq S
    BY <1>1, <1>2, UpTo
  <2> QED BY <2>1
<1>4. PICK g : Steps(Len(q), g)
  BY <1>3
<1> DEFINE of == CHOOSE f : Steps(Len(q), f)
<1>5. Steps(Len(q), of)
  BY <1>4
<1>6. Of(ch, q) = of[Len(q)]
  BY DEF Of
<1> HIDE DEF of
<1>7. of[0] = <<>>
  BY <1>5
<1>8. ASSUME NEW k \in 1 .. Len(q)
      PROVE  of[k] = IF q[k].ch = ch THEN Append(of[k - 1], q[k]) ELSE of[k - 1]
  <2>1. k \in 0 .. Len(q) /\ k # 0
    OBVIOUS
  <2>2. \A i \in 0 .. Len(q) : of[i] = IF i = 0 THEN <<>> ELSE
                                IF q[i].ch = ch THEN Append(of[i - 1], q[i]) ELSE of[i - 1]
    BY <1>5
  <2> QED BY <2>1, <2>2
<1> QED BY <1>6, <1>7, <1>8 DEF Projects

\* An empty queue says nothing of a channel.
LEMMA OfEmpty == \A ch : Of(ch, <<>>) = <<>>
<1> TAKE ch
<1>1. Len(<<>>) \in Nat /\ Len(<<>>) = 0
  OBVIOUS
<1> QED BY <1>1, OfUnfolds DEF Projects

\* The projection keeps the messages about the channel.
LEMMA OfType ==
  ASSUME NEW T, NEW ch, NEW q \in Seq(T)
  PROVE  /\ Of(ch, q) \in Seq({m \in T : m.ch = ch})
         /\ Of(ch, q) = <<>> <=> \A k \in 1 .. Len(q) : q[k].ch # ch
<1>0. Len(q) \in Nat
  OBVIOUS
<1>1. PICK of : Projects(of, ch, q)
  BY <1>0, OfUnfolds
<1> USE DEF Projects
<1> DEFINE TC == {m \in T : m.ch = ch}
           S == {n \in 0 .. Len(q) : /\ of[n] \in Seq(TC)
                                     /\ of[n] = <<>> <=> \A k \in 1 .. n : q[k].ch # ch}
<1>2. 0 \in S
  <2>1. <<>> \in Seq(TC)
    OBVIOUS
  <2> HIDE DEF TC
  <2>2. of[0] \in Seq(TC) /\ of[0] = <<>>
    BY <1>1, <2>1
  <2>3. \A k \in 1 .. 0 : q[k].ch # ch
    OBVIOUS
  <2>4. of[0] = <<>> <=> \A k \in 1 .. 0 : q[k].ch # ch
    BY <2>2, <2>3
  <2>5. 0 \in 0 .. Len(q)
    BY <1>0
  <2> QED BY <2>2, <2>4, <2>5, Zenon
<1>3. ASSUME NEW n \in 1 .. Len(q), n - 1 \in S
      PROVE  n \in S
  <2>1. /\ of[n - 1] \in Seq(TC)
        /\ of[n - 1] = <<>> <=> \A k \in 1 .. n - 1 : q[k].ch # ch
        /\ of[n] = IF q[n].ch = ch THEN Append(of[n - 1], q[n]) ELSE of[n - 1]
    BY <1>1, <1>3
  <2>2. q[n] \in T
    OBVIOUS
  <2>3. CASE q[n].ch = ch
    <3>1. q[n] \in TC
      BY <2>2, <2>3
    <3> HIDE DEF TC
    <3>2. of[n] \in Seq(TC) /\ of[n] # <<>>
      BY <2>1, <2>3, <3>1
    <3> QED BY <2>3, <3>2
  <2>4. CASE q[n].ch # ch
    <3>1. of[n] = of[n - 1]
      BY <2>1, <2>4
    <3>2. (\A k \in 1 .. n : q[k].ch # ch) <=> (\A k \in 1 .. n - 1 : q[k].ch # ch)
      BY <2>4
    <3> QED BY <2>1, <3>1, <3>2
  <2> QED BY <2>3, <2>4
<1>4. Len(q) \in S
  <2> HIDE DEF S
  <2>1. 0 .. Len(q) \subseteq S
    BY <1>0, <1>2, <1>3, UpTo
  <2> QED BY <2>1
<1> QED BY <1>1, <1>4

\* A message joins the queue.
LEMMA OfAppend ==
  ASSUME NEW T, NEW ch, NEW q \in Seq(T), NEW m
  PROVE  Of(ch, Append(q, m)) = IF m.ch = ch THEN Append(Of(ch, q), m) ELSE Of(ch, q)
<1> DEFINE r == Append(q, m)
<1>0. /\ Len(q) \in Nat /\ Len(r) \in Nat /\ Len(r) = Len(q) + 1 /\ r[Len(q) + 1] = m
      /\ \A k \in 1 .. Len(q) : r[k] = q[k]
  OBVIOUS
<1> HIDE DEF r
<1>1. PICK of : Projects(of, ch, q)
  BY <1>0, OfUnfolds
<1>2. PICK og : Projects(og, ch, r)
  <2>1. Len(r) \in Nat
    BY <1>0
  <2> QED BY <2>1, OfUnfolds
<1> USE DEF Projects
<1> DEFINE S == {n \in 0 .. Len(q) : of[n] = og[n]}
<1>3. 0 \in S
  BY <1>0, <1>1, <1>2
<1>4. ASSUME NEW n \in 1 .. Len(q), n - 1 \in S
      PROVE  n \in S
  <2>1. of[n - 1] = og[n - 1] /\ r[n] = q[n] /\ n \in 1 .. Len(r)
    BY <1>0, <1>4
  <2>2. of[n] = IF q[n].ch = ch THEN Append(of[n - 1], q[n]) ELSE of[n - 1]
    BY <1>1
  <2>3. og[n] = IF r[n].ch = ch THEN Append(og[n - 1], r[n]) ELSE og[n - 1]
    BY <1>2, <2>1
  <2> QED BY <2>1, <2>2, <2>3
<1>5. Len(q) \in S
  <2> HIDE DEF S
  <2>1. 0 .. Len(q) \subseteq S
    BY <1>0, <1>3, <1>4, UpTo
  <2> QED BY <1>0, <2>1
<1>6. og[Len(q)] = Of(ch, q)
  BY <1>1, <1>5
<1>7. og[Len(r)] = IF r[Len(r)].ch = ch THEN Append(og[Len(r) - 1], r[Len(r)]) ELSE og[Len(r) - 1]
  BY <1>0, <1>2
<1>8. Of(ch, r) = IF m.ch = ch THEN Append(Of(ch, q), m) ELSE Of(ch, q)
  BY <1>0, <1>2, <1>6, <1>7
<1> QED BY <1>8 DEF r

\* The first message of the queue is handled.
LEMMA OfTail ==
  ASSUME NEW T, NEW ch, NEW q \in Seq(T), q # <<>>
  PROVE  IF Head(q).ch = ch
         THEN Of(ch, q) # <<>> /\ Head(Of(ch, q)) = Head(q) /\ Tail(Of(ch, q)) = Of(ch, Tail(q))
         ELSE Of(ch, q) = Of(ch, Tail(q))
<1> DEFINE r == Tail(q)
           first == IF Head(q).ch = ch THEN <<Head(q)>> ELSE <<>>
<1>0. /\ Len(q) \in Nat /\ Len(q) > 0 /\ Len(r) \in Nat /\ Len(q) = Len(r) + 1 /\ q[1] = Head(q) /\ q[1] \in T
      /\ \A k \in 1 .. Len(r) : r[k] = q[k + 1] /\ r[k] \in T
      /\ r \in Seq(T)
  OBVIOUS
<1> HIDE DEF r
<1>1. PICK of : Projects(of, ch, q)
  BY <1>0, OfUnfolds
<1>2. PICK og : Projects(og, ch, r)
  <2>1. Len(r) \in Nat
    BY <1>0
  <2> QED BY <2>1, OfUnfolds
<1> USE DEF Projects
<1> DEFINE S == {n \in 0 .. Len(r) : og[n] \in Seq(T) /\ of[n + 1] = first \o og[n]}
<1>3. 0 \in S
  <2>1. of[1] = IF q[1].ch = ch THEN Append(of[0], q[1]) ELSE of[0]
    <3>1. 1 \in 1 .. Len(q) /\ 1 - 1 = 0
      BY <1>0
    <3> QED BY <1>1, <3>1
  <2>2. of[1] = first
    BY <1>0, <1>1, <2>1
  <2>3. first \in Seq(T)
    BY <1>0
  <2> HIDE DEF first
  <2>4. first = first \o <<>> /\ <<>> \in Seq(T)
    BY <2>3
  <2>5. og[0] \in Seq(T) /\ of[0 + 1] = first \o og[0]
    BY <1>2, <2>2, <2>4
  <2> QED BY <1>0, <2>5
<1>4. ASSUME NEW n \in 1 .. Len(r), n - 1 \in S
      PROVE  n \in S
  <2>1. og[n - 1] \in Seq(T) /\ of[n] = first \o og[n - 1] /\ r[n] = q[n + 1] /\ r[n] \in T /\ n + 1 \in 1 .. Len(q)
    <3> HIDE DEF first
    <3>1. og[n - 1] \in Seq(T) /\ of[(n - 1) + 1] = first \o og[n - 1]
      BY <1>4
    <3>2. (n - 1) + 1 = n
      OBVIOUS
    <3> QED BY <1>0, <3>1, <3>2
  <2>2. of[n + 1] = IF r[n].ch = ch THEN Append(of[n], r[n]) ELSE of[n]
    <3>1. (n + 1) - 1 = n
      OBVIOUS
    <3>2. of[n + 1] = IF q[n + 1].ch = ch THEN Append(of[(n + 1) - 1], q[n + 1]) ELSE of[(n + 1) - 1]
      BY <1>1, <2>1
    <3> QED BY <2>1, <3>1, <3>2
  <2>3. og[n] = IF r[n].ch = ch THEN Append(og[n - 1], r[n]) ELSE og[n - 1]
    BY <1>2
  <2>4. first \in Seq(T)
    BY <1>0
  <2> HIDE DEF first
  <2>5. Append(first \o og[n - 1], r[n]) = first \o Append(og[n - 1], r[n])
    <3> DEFINE x == og[n - 1]
               y == r[n]
    <3>1. x \in Seq(T) /\ y \in T
      BY <2>1
    <3> HIDE DEF x, y
    <3>2. Append(first \o x, y) = first \o Append(x, y)
      BY <2>4, <3>1
    <3> QED BY <3>2 DEF x, y
  <2>6. og[n] \in Seq(T)
    BY <2>1, <2>3, AppendType
  <2>7. of[n + 1] = first \o og[n]
    BY <2>1, <2>2, <2>3, <2>5
  <2> QED BY <2>6, <2>7
<1>5. Len(r) \in S
  <2> HIDE DEF S
  <2>1. 0 .. Len(r) \subseteq S
    BY <1>0, <1>3, <1>4, UpTo
  <2> QED BY <1>0, <2>1
<1>6. Of(ch, r) \in Seq(T) /\ Of(ch, q) = first \o Of(ch, r)
  BY <1>0, <1>1, <1>2, <1>5
<1>7. CASE Head(q).ch = ch
  <2>1. Of(ch, q) = <<q[1]>> \o Of(ch, r)
    BY <1>0, <1>6, <1>7
  <2>2. Of(ch, q) # <<>> /\ Head(Of(ch, q)) = q[1] /\ Tail(Of(ch, q)) = Of(ch, r)
    BY <1>0, <1>6, <2>1
  <2> QED BY <1>0, <1>7, <2>2 DEF r
<1>8. CASE Head(q).ch # ch
  <2>1. Of(ch, q) = <<>> \o Of(ch, r)
    BY <1>6, <1>8
  <2>2. Of(ch, q) = Of(ch, r)
    BY <1>6, <2>1
  <2> QED BY <1>8, <2>2 DEF r
<1> QED BY <1>7, <1>8

\* A queue with at most one message about each channel.
LEMMA OfOnce ==
  ASSUME NEW T, NEW ch, NEW q \in Seq(T), \A j, k \in DOMAIN q : q[j].ch = q[k].ch => j = k
  PROVE  \/ Of(ch, q) = <<>>
         \/ \E k \in DOMAIN q : q[k].ch = ch /\ Of(ch, q) = <<q[k]>>
<1>0. Len(q) \in Nat /\ DOMAIN q = 1 .. Len(q)
  OBVIOUS
<1>1. PICK of : Projects(of, ch, q)
  BY <1>0, OfUnfolds
<1> USE DEF Projects
<1> DEFINE S == {n \in 0 .. Len(q) :
                   \/ of[n] = <<>>
                   \/ \E k \in 1 .. n : q[k].ch = ch /\ of[n] = <<q[k]>>}
<1>2. 0 \in S
  BY <1>0, <1>1
<1>3. ASSUME NEW n \in 1 .. Len(q), n - 1 \in S
      PROVE  n \in S
  <2>1. of[n] = IF q[n].ch = ch THEN Append(of[n - 1], q[n]) ELSE of[n - 1]
    BY <1>1
  <2>2. CASE of[n - 1] = <<>>
    <3>1. of[n] = <<>> \/ (q[n].ch = ch /\ of[n] = <<q[n]>>)
      BY <2>1, <2>2
    <3>2. n \in 1 .. n
      OBVIOUS
    <3> QED BY <3>1, <3>2
  <2>3. ASSUME NEW k \in 1 .. n - 1, q[k].ch = ch, of[n - 1] = <<q[k]>>
        PROVE  n \in S
    <3>1. q[n].ch # ch
      BY <1>0, <2>3
    <3>2. of[n] = <<q[k]>> /\ k \in 1 .. n
      BY <2>1, <2>3, <3>1
    <3> QED BY <2>3, <3>2
  <2> QED BY <1>3, <2>2, <2>3
<1>4. Len(q) \in S
  <2> HIDE DEF S
  <2>1. 0 .. Len(q) \subseteq S
    BY <1>0, <1>2, <1>3, UpTo
  <2> QED BY <1>0, <2>1
<1> QED BY <1>0, <1>1, <1>4

-------------------------------------------------------------------------------
(* The conversation about one channel.                                         *)

\* A point of a stream, and how the publications after it are to come: whether the server
\* sends deltas, and whether it may send one against the publication at this point.
ClientView(s, a) ==
  [epoch |-> a.epoch, offset |-> a.offset, delta |-> s.delta_negotiated,
   full |-> s.prev_data = Payload(a.epoch, a.offset)]

\* The same point for a server-side subscription, which negotiates no deltas.
ServerView(a) == [epoch |-> a.epoch, offset |-> a.offset, delta |-> FALSE, full |-> FALSE]

\* The point a message leaves the client at.
ViewOf(m) ==
  IF m.kind = "publication"
  THEN [epoch |-> m.pub.epoch, offset |-> m.pub.offset,
        delta |-> m.pub.negotiated, full |-> m.pub.negotiated]
  ELSE [epoch |-> m.result.epoch, offset |-> m.result.offset, delta |-> m.result.delta,
        full |-> m.result.delta /\ m.result.publications # <<>>]

\* Whatever may follow w may follow v.
Covers(v, w) ==
  v.epoch = w.epoch /\ v.offset = w.offset /\ v.delta = w.delta /\ (w.full => v.full)

\* The publication is the next one after v.
Follows(p, v) ==
  /\ p.epoch = v.epoch /\ p.offset = v.offset + 1 /\ p.negotiated = v.delta
  /\ p.delta => v.delta /\ v.full /\ p.base = v.offset

\* Publications may come after this message.
Goes(m) == m.kind \in {"publication", "subscribe"} \/ (m.kind = "subscribed" /\ m.code = 0)

\* The point after the first j messages.
ViewAt(v, in, j) == IF j = 0 THEN v ELSE ViewOf(in[j])

\* Publications may come after the first j messages.
GoesOn(open, in, j) == IF j = 0 THEN open ELSE Goes(in[j])

\* Each publication on the wire follows the message before it, the first one what the
\* client has seen.
InOrder(v, open, in) ==
  \A k \in 1 .. Len(in) :
    /\ in[k].kind = "publication" => GoesOn(open, in, k - 1) /\ Follows(in[k].pub, ViewAt(v, in, k - 1))
    /\ in[k].kind = "unsubscribe" => GoesOn(open, in, k - 1)

\* Who is subscribed will have seen the whole stream when the wire is empty.
UpToDate(v, open, in, h, st) ==
  h.on =>
    LET w == ViewAt(v, in, Len(in)) IN
    /\ GoesOn(open, in, Len(in))
    /\ w.epoch = st.epoch /\ w.offset = st.top /\ w.delta = h.delta
    /\ h.delta /\ h.base > 0 => w.full /\ h.base = w.offset

\* A result starts where the application is, or says that it does not.
Expected(a, r) ==
  /\ r # NoResult
  /\ IF r.recovered
     THEN /\ r.epoch = a.epoch /\ r.offset = a.offset + Len(r.publications)
          /\ \A k \in 1 .. Len(r.publications) :
               r.publications[k] =
                 Pub(r.epoch, a.offset + k, a.offset + k - 1, r.delta /\ k > 1, r.delta)
     ELSE r.publications = <<>>

\* The reply to Subscribe is on its way ...
Replied(in) == in # <<>> /\ in[1].kind = "subscribed"

\* ... or Subscribe itself.
Asks(out) == \E k \in 1 .. Len(out) : out[k].kind = "subscribe"

\* A reply comes before anything else, does not refuse a second subscription, and its result
\* is expected.
Replies(in, a) ==
  \A k \in 1 .. Len(in) : in[k].kind = "subscribed" =>
    k = 1 /\ in[k].code # ALREADY_SUBSCRIBED /\ (in[k].code = 0 => Expected(a, in[k].result))

\* An attempt is under way: nothing else about the channel is.
Attempts(up, in, out, h, s, r) ==
  /\ Replied(in) => s.state = "Subscribing" /\ ~r /\ out = <<>>
  /\ up /\ r => s.state = "Subscribing" /\ in = <<>> /\ ~h.on /\ ~Asks(out)
  /\ Asks(out) => s.state = "Subscribing" /\ in = <<>> /\ ~h.on /\ ~r
  /\ \A k \in 1 .. Len(out) : out[k].kind = "subscribe" => k = Len(out) /\ out[k].at = Position(s)
  /\ h.on => \/ Replied(in)
             \/ s.state = "Subscribed" /\ out = <<>>
             \/ s.state = "Unsubscribed" /\ out # <<>>

\* Without a connection nothing is on the wire.
AtRest(up, in, out, h) == ~up => in = <<>> /\ out = <<>> /\ ~h.on

\* The inductive invariant, for a channel of the client ...
ClientOk(up, in, out, h, st, a, s, r) ==
  /\ a.faults = {} /\ s.epoch = a.epoch /\ s.offset = a.offset
  /\ AtRest(up, in, out, h) /\ (~up => s.state # "Subscribed")
  /\ InOrder(ClientView(s, a), TRUE, in)
  /\ UpToDate(ClientView(s, a), TRUE, in, h, st)
  /\ Replies(in, a)
  /\ Attempts(up, in, out, h, s, r)

\* ... and for one of the server.
ServerOk(up, in, h, st, a, e) ==
  /\ a.faults = {}
  /\ e # Unknown => e.epoch = a.epoch /\ e.offset = a.offset /\ e.recoverable
  /\ AtRest(up, in, <<>>, h) /\ ~h.delta
  /\ InOrder(ServerView(a), e # Unknown, in)
  /\ UpToDate(ServerView(a), e # Unknown, in, h, st)
  /\ \A k \in 1 .. Len(in) : in[k].kind = "subscribe" =>
       ~GoesOn(e # Unknown, in, k - 1) /\ ~in[k].result.recovered /\ ~in[k].result.delta
  /\ up => (h.on <=> GoesOn(e # Unknown, in, Len(in)))

\* The conversation about a channel is as it should be.
ChannelOk(c) ==
  IF c \in ClientChannels
  THEN ClientOk(conn = "up", Of(c, inbox), Of(c, outbox), held[c], stream[c], app[c], sub[c], resub[c])
  ELSE ServerOk(conn = "up", Of(c, inbox), held[c], stream[c], app[c], server_subs[c])

\* The inductive invariant of the system: so are all of them.
Conversations == \A c \in Channels : ChannelOk(c)

-------------------------------------------------------------------------------
(* Queues that grow and shrink.                                                *)

\* What follows a point follows every point that covers it.
LEMMA FollowsCovers ==
  ASSUME NEW p, NEW v, NEW w, Covers(v, w), Follows(p, w)
  PROVE  Follows(p, v)
BY DEF Covers, Follows

\* A queue without its first message.
LEMMA Tails ==
  ASSUME NEW in \in Seq(Message), in # <<>>
  PROVE  /\ Tail(in) \in Seq(Message) /\ Len(Tail(in)) = Len(in) - 1 /\ Len(in) \in Nat
         /\ \A k \in 1 .. Len(Tail(in)) : Tail(in)[k] = in[k + 1] /\ k + 1 \in 1 .. Len(in)
         /\ 1 \in 1 .. Len(in) /\ Head(in) = in[1] /\ Len(Tail(in)) \in Nat
OBVIOUS

\* A queue with one more message.
LEMMA Appends ==
  ASSUME NEW in \in Seq(Message), NEW m
  PROVE  /\ Len(Append(in, m)) = Len(in) + 1 /\ Len(in) \in Nat
         /\ \A k \in 1 .. Len(in) : Append(in, m)[k] = in[k]
         /\ Append(in, m)[Len(in) + 1] = m
OBVIOUS

\* A message is handled: the rest is still in order ...
LEMMA InOrderTail ==
  ASSUME NEW in \in Seq(Message), in # <<>>, NEW v, NEW w, NEW open \in BOOLEAN, NEW more \in BOOLEAN,
         InOrder(v, open, in),
         Goes(Head(in)) => more /\ Covers(w, ViewOf(Head(in)))
  PROVE  InOrder(w, more, Tail(in))
<1> DEFINE t == Tail(in)
<1> SUFFICES ASSUME NEW k \in 1 .. Len(t)
             PROVE  /\ t[k].kind = "publication" => GoesOn(more, t, k - 1) /\ Follows(t[k].pub, ViewAt(w, t, k - 1))
                    /\ t[k].kind = "unsubscribe" => GoesOn(more, t, k - 1)
  BY DEF InOrder
<1>1. /\ t[k] = in[k + 1] /\ k + 1 \in 1 .. Len(in) /\ k \in Nat /\ (k + 1) - 1 = k /\ k # 0
      /\ Head(in) = in[1] /\ (k - 1 # 0 => t[k - 1] = in[k])
  <2>1. k - 1 # 0 => k - 1 \in 1 .. Len(t) /\ (k - 1) + 1 = k
    BY Tails
  <2> QED BY <2>1, Tails
<1> HIDE DEF t
<1>2. /\ t[k].kind = "publication" => Goes(in[k]) /\ Follows(t[k].pub, ViewOf(in[k]))
      /\ t[k].kind = "unsubscribe" => Goes(in[k])
  <2>1. /\ in[k + 1].kind = "publication" => GoesOn(open, in, (k + 1) - 1) /\ Follows(in[k + 1].pub, ViewAt(v, in, (k + 1) - 1))
        /\ in[k + 1].kind = "unsubscribe" => GoesOn(open, in, (k + 1) - 1)
    BY <1>1 DEF InOrder
  <2> QED BY <1>1, <2>1 DEF GoesOn, ViewAt
<1>3. CASE k - 1 = 0
  <2>1. k = 1
    BY <1>1, <1>3
  <2>2. Goes(in[k]) => more /\ Covers(w, ViewOf(in[k]))
    BY <1>1, <2>1
  <2>3. GoesOn(more, t, k - 1) = more /\ ViewAt(w, t, k - 1) = w
    BY <1>3 DEF GoesOn, ViewAt
  <2> QED BY <1>2, <2>2, <2>3, FollowsCovers
<1>4. CASE k - 1 # 0
  BY <1>1, <1>2, <1>4 DEF GoesOn, ViewAt
<1> QED BY <1>3, <1>4

\* ... and ends where the stream does.
LEMMA UpToDateTail ==
  ASSUME NEW in \in Seq(Message), in # <<>>, NEW v, NEW w, NEW open \in BOOLEAN, NEW more \in BOOLEAN,
         NEW h, NEW st, UpToDate(v, open, in, h, st),
         Goes(Head(in)) => more /\ Covers(w, ViewOf(Head(in)))
  PROVE  UpToDate(w, more, Tail(in), h, st)
<1> DEFINE t == Tail(in)
           n == Len(in)
<1> SUFFICES ASSUME h.on
             PROVE  LET x == ViewAt(w, t, Len(t)) IN
                    /\ GoesOn(more, t, Len(t))
                    /\ x.epoch = st.epoch /\ x.offset = st.top /\ x.delta = h.delta
                    /\ h.delta /\ h.base > 0 => x.full /\ h.base = x.offset
  BY DEF UpToDate
<1>1. /\ n \in Nat /\ n # 0 /\ Len(t) = n - 1 /\ Head(in) = in[1] /\ (n - 1 # 0 => t[n - 1] = in[n])
  <2>1. n \in Nat /\ n # 0 /\ Len(t) = n - 1 /\ Head(in) = in[1]
    BY Tails
  <2>2. n - 1 # 0 => n - 1 \in 1 .. Len(t) /\ (n - 1) + 1 = n
    BY <2>1
  <2> QED BY <2>1, <2>2, Tails
<1> DEFINE x == ViewOf(in[n])
<1>2. /\ Goes(in[n])
      /\ x.epoch = st.epoch /\ x.offset = st.top /\ x.delta = h.delta
      /\ h.delta /\ h.base > 0 => x.full /\ h.base = x.offset
  BY <1>1 DEF UpToDate, ViewAt, GoesOn
<1> HIDE DEF t, n, x
<1>3. CASE n - 1 = 0
  <2>1. n = 1
    BY <1>1, <1>3
  <2>2. more /\ Covers(w, x)
    BY <1>1, <1>2, <2>1 DEF x
  <2>3. GoesOn(more, t, Len(t)) = more /\ ViewAt(w, t, Len(t)) = w
    BY <1>1, <1>3 DEF GoesOn, ViewAt
  <2> QED BY <1>2, <2>2, <2>3 DEF Covers
<1>4. CASE n - 1 # 0
  <2>1. GoesOn(more, t, Len(t)) = Goes(in[n]) /\ ViewAt(w, t, Len(t)) = x
    BY <1>1, <1>4 DEF GoesOn, ViewAt, x
  <2> QED BY <1>2, <2>1
<1> QED BY <1>3, <1>4

\* A message joins the wire in its order.
LEMMA InOrderAppend ==
  ASSUME NEW in \in Seq(Message), NEW m, NEW v, NEW open \in BOOLEAN, InOrder(v, open, in),
         m.kind = "publication" => GoesOn(open, in, Len(in)) /\ Follows(m.pub, ViewAt(v, in, Len(in))),
         m.kind = "unsubscribe" => GoesOn(open, in, Len(in))
  PROVE  InOrder(v, open, Append(in, m))
<1> DEFINE t == Append(in, m)
<1>1. /\ Len(t) = Len(in) + 1 /\ Len(in) \in Nat /\ t[Len(in) + 1] = m
      /\ \A k \in 1 .. Len(in) : t[k] = in[k]
  BY Appends
<1> HIDE DEF t
<1>2. ASSUME NEW k \in 1 .. Len(t)
      PROVE  /\ t[k].kind = "publication" => GoesOn(open, t, k - 1) /\ Follows(t[k].pub, ViewAt(v, t, k - 1))
             /\ t[k].kind = "unsubscribe" => GoesOn(open, t, k - 1)
  <2>1. k - 1 \in 0 .. Len(in) /\ (k - 1 # 0 => t[k - 1] = in[k - 1])
    BY <1>1
  <2>2. GoesOn(open, t, k - 1) = GoesOn(open, in, k - 1) /\ ViewAt(v, t, k - 1) = ViewAt(v, in, k - 1)
    BY <2>1 DEF GoesOn, ViewAt
  <2>3. CASE k \in 1 .. Len(in)
    BY <1>1, <2>2, <2>3 DEF InOrder
  <2>4. CASE k = Len(in) + 1
    <3>1. k - 1 = Len(in) /\ t[k] = m
      BY <1>1, <2>4
    <3> QED BY <2>2, <3>1
  <2> QED BY <1>1, <2>3, <2>4
<1> QED BY <1>2 DEF InOrder, t

-------------------------------------------------------------------------------
(* What the client makes of publications and results that were expected.       *)

\* unwrap_json_string() undoes the quoting.
LEMMA Unquoted ==
  ASSUME NEW data \in Seq(Byte)
  PROVE  UnwrapJsonString(Quoted(data)) = data
<1> DEFINE q == Quoted(data)
<1>1. <<QuoteMark>> \in Seq(Byte)
  BY DEF QuoteMark, Byte
<1>2. /\ q \in Seq(Byte) /\ Len(q) = Len(data) + 2 /\ Len(data) \in Nat
      /\ q[1] = QuoteMark /\ q[Len(q)] = QuoteMark
      /\ \A k \in 1 .. Len(data) : q[k + 1] = data[k]
  BY <1>1 DEF Quoted
<1> HIDE DEF q
<1>3. UnwrapJsonString(q) = SubSeq(q, 2, Len(q) - 1)
  BY <1>2 DEF UnwrapJsonString
<1>4. SubSeq(q, 2, Len(q) - 1) = data
  <2> DEFINE r == SubSeq(q, 2, Len(q) - 1)
  <2>1. r \in Seq(Byte) /\ Len(r) = Len(data) /\ \A k \in 1 .. Len(data) : r[k] = q[k + 1]
    BY <1>2
  <2> HIDE DEF r
  <2>2. \A k \in 1 .. Len(data) : r[k] = data[k]
    BY <1>2, <2>1
  <2>3. r = data
    BY <2>1, <2>2
  <2> QED BY <2>3 DEF r
<1> QED BY <1>3, <1>4 DEF q

\* A publication that is next comes out of the delta decoder as it was published.
LEMMA Decoded ==
  ASSUME NEW s \in SubStates, NEW a \in AppStates, NEW p \in Publication, Follows(p, ClientView(s, a))
  PROVE  LET applied == ApplyPublicationDelta(s, Wire(p), p.delta) IN
         /\ applied.data = Payload(p.epoch, p.offset)
         /\ p.negotiated => applied.base = Payload(p.epoch, p.offset)
<1> DEFINE text == Payload(p.epoch, p.offset)
           base == Payload(p.epoch, p.base)
           data == IF p.delta THEN DeltaOf(base, text) ELSE text
<1>1. /\ p.delta \in BOOLEAN /\ p.negotiated \in BOOLEAN /\ p.negotiated = s.delta_negotiated
      /\ p.delta => p.negotiated /\ s.prev_data = base
      /\ p.delta => p.base \in 1 .. MaxPubs
      /\ p.epoch \in 1 .. Epochs /\ p.offset \in 1 .. MaxPubs
  <2>1. /\ p.epoch = a.epoch /\ p.negotiated = s.delta_negotiated
        /\ p.delta => s.delta_negotiated /\ s.prev_data = Payload(a.epoch, a.offset) /\ p.base = a.offset
    BY DEF Follows, ClientView
  <2>2. /\ p.delta \in BOOLEAN /\ p.negotiated \in BOOLEAN /\ p.epoch \in 1 .. Epochs /\ p.offset \in 1 .. MaxPubs
        /\ p.base \in 0 .. MaxPubs /\ (p.delta => p.base > 0)
    BY DEF Publication
  <2>3. p.delta => p.base \in 1 .. MaxPubs
    BY <2>2, Constants
  <2> QED BY <2>1, <2>2, <2>3
<1>2. text \in Text /\ text \in Seq(Byte) /\ (p.delta => base \in Text)
  BY <1>1, Constants
<1>3. data \in Seq(Byte)
  BY <1>1, <1>2, DeltaOfType
<1>4. Wire(p) = InField(p, data)
  BY DEF Wire
<1>5. p.delta => ApplyDelta(base, DeltaOf(base, text)) = Ok(text)
  BY <1>2, RoundTrip
<1> HIDE DEF data, text, base
<1>6. CASE ~p.negotiated
  <2>1. ~p.delta /\ Wire(p) = text
    BY <1>1, <1>4, <1>6 DEF InField, data
  <2>2. ApplyPublicationDelta(s, Wire(p), p.delta) = [data |-> text, base |-> s.prev_data]
    BY <1>1, <1>6, <2>1 DEF ApplyPublicationDelta
  <2> QED BY <1>6, <2>2 DEF text
<1>7. CASE p.negotiated
  <2>1. (IF JsonProtocol THEN UnwrapJsonString(Wire(p)) ELSE Wire(p)) = data
    BY <1>3, <1>4, <1>7, Unquoted DEF InField
  <2>2. ApplyPublicationDelta(s, Wire(p), p.delta) = ApplyRaw(s, data, p.delta)
    BY <1>1, <1>7, <2>1 DEF ApplyPublicationDelta
  <2>3. ApplyRaw(s, data, p.delta) = DataAndBase(s, data, Ok(text))
    BY <1>1, <1>5 DEF ApplyRaw, data
  <2>4. DataAndBase(s, data, Ok(text)) = [data |-> text, base |-> text]
    BY DEF DataAndBase, Ok
  <2> QED BY <2>2, <2>3, <2>4 DEF text
<1> QED BY <1>1, <1>6, <1>7

\* A Subscription with another offset and base ...
MovedSub(s, o, base) == [s EXCEPT !.offset = o, !.prev_data = base]

\* ... and an entry, or the application, at another offset.
Moved(a, o) == [a EXCEPT !.offset = o]

\* The application sees the next publication, as it was published.
LEMMA SeesNext ==
  ASSUME NEW a \in AppStates, NEW e, NEW o, e = a.epoch, o = a.offset + 1
  PROVE  Sees(a, e, o, Payload(e, o)) = Moved(a, o)
<1>1. Sees(a, e, o, Payload(e, o)) = [a EXCEPT !.epoch = e, !.offset = o, !.faults = a.faults \union {} \union {}]
  BY DEF Sees, AppStates
<1>2. a.faults \union {} \union {} = a.faults
  OBVIOUS
<1>3. [a EXCEPT !.epoch = a.epoch, !.offset = o, !.faults = a.faults] = Moved(a, o)
  BY DEF AppStates, Moved
<1> QED BY <1>1, <1>2, <1>3

\* It sees it from a Subscription ...
LEMMA ClientSeesNext ==
  ASSUME NEW s \in SubStates, NEW a \in AppStates, NEW p \in Publication, Follows(p, ClientView(s, a)),
         NEW both, both = Published([sub |-> s, app |-> a], p)
  PROVE  /\ both.sub = MovedSub(s, p.offset, both.sub.prev_data)
         /\ p.negotiated => both.sub.prev_data = Payload(p.epoch, p.offset)
         /\ both.app = Moved(a, p.offset)
         /\ p.epoch = a.epoch /\ p.offset = a.offset + 1
<1> DEFINE applied == ApplyPublicationDelta(s, Wire(p), p.delta)
<1>1. applied.data = Payload(p.epoch, p.offset) /\ (p.negotiated => applied.base = Payload(p.epoch, p.offset))
  BY Decoded
<1> HIDE DEF applied
<1>2. p.epoch = a.epoch /\ p.offset = a.offset + 1
  BY DEF Follows, ClientView
<1>3. Published([sub |-> s, app |-> a], p) =
        [sub |-> MovedSub(s, p.offset, applied.base),
         app |-> Sees(a, p.epoch, p.offset, applied.data)]
  BY DEF Published, Shown, MovedSub, applied
<1>4. Sees(a, p.epoch, p.offset, applied.data) = Moved(a, p.offset)
  BY <1>1, <1>2, SeesNext
<1>5. both.sub = MovedSub(s, p.offset, applied.base)
  BY <1>3
<1>6. both.sub.prev_data = applied.base
  BY <1>5 DEF SubStates, MovedSub
<1>7. both.app = Moved(a, p.offset)
  BY <1>3, <1>4
<1> QED BY <1>1, <1>2, <1>5, <1>6, <1>7

\* ... and from a server-side subscription.
LEMMA ServerSeesNext ==
  ASSUME NEW e \in Entries, NEW a \in AppStates, NEW p \in Publication, Follows(p, ServerView(a))
  PROVE  LET both == ServerPublished([sub |-> e, app |-> a], p) IN
         /\ both.sub = Moved(e, p.offset)
         /\ both.app = Moved(a, p.offset)
         /\ p.epoch = a.epoch /\ p.offset = a.offset + 1
<1>1. p.epoch = a.epoch /\ p.offset = a.offset + 1 /\ ~p.negotiated /\ ~p.delta
  BY DEF Follows, ServerView, Publication
<1>2. Wire(p) = Payload(p.epoch, p.offset)
  BY <1>1 DEF Wire, InField
<1>3. Sees(a, p.epoch, p.offset, Wire(p)) = Moved(a, p.offset)
  BY <1>1, <1>2, SeesNext
<1> QED BY <1>1, <1>3 DEF ServerPublished, Moved

\* The publications of a result, each the next one: the offset is that of the last.
LEMMA ClientSeesAll ==
  ASSUME NEW s \in SubStates, NEW a \in AppStates, NEW pubs \in Seq(Publication),
         \A k \in 1 .. Len(pubs) :
           pubs[k] = Pub(a.epoch, a.offset + k, a.offset + k - 1, s.delta_negotiated /\ k > 1, s.delta_negotiated),
         NEW both, both = AllPublished([sub |-> s, app |-> a], pubs),
         NEW last, last = a.offset + Len(pubs)
  PROVE  /\ both.app = Moved(a, last)
         /\ both.sub = MovedSub(s, IF pubs = <<>> THEN s.offset ELSE last, both.sub.prev_data)
         /\ s.delta_negotiated /\ pubs # <<>> => both.sub.prev_data = Payload(a.epoch, last)
<1> DEFINE n == Len(pubs)
           first == [sub |-> s, app |-> a]
<1>0. n \in Nat /\ a.offset \in Nat
  BY Constants DEF AppStates
<1>1. PICK after : /\ after[0] = first
                   /\ \A k \in 1 .. n : after[k] = Published(after[k - 1], pubs[k])
                   /\ AllPublished(first, pubs) = after[n]
  BY <1>0, AllPublishedUnfolds
<1> DEFINE Here(k) ==
      /\ after[k] \in [sub : SubStates, app : AppStates]
      /\ after[k].app = Moved(a, a.offset + k)
      /\ after[k].sub = MovedSub(s, IF k = 0 THEN s.offset ELSE a.offset + k, after[k].sub.prev_data)
      /\ s.delta_negotiated /\ k > 0 => after[k].sub.prev_data = Payload(a.epoch, a.offset + k)
           S == {k \in 0 .. n : Here(k)}
<1>2. 0 \in S
  <2>1. after[0] \in [sub : SubStates, app : AppStates] /\ after[0].sub = s /\ after[0].app = a
    BY <1>1
  <2>2. a = Moved(a, a.offset + 0)
    BY <1>0 DEF AppStates, Moved
  <2>3. s = MovedSub(s, IF 0 = 0 THEN s.offset ELSE a.offset + 0, s.prev_data)
    BY DEF SubStates, MovedSub
  <2>4. Here(0)
    BY <2>1, <2>2, <2>3
  <2>5. 0 \in 0 .. n
    BY <1>0
  <2> HIDE DEF Here
  <2> QED BY <2>4, <2>5
<1>3. ASSUME NEW k \in 1 .. n, k - 1 \in S
      PROVE  k \in S
  <2> DEFINE si == after[k - 1].sub
             ai == after[k - 1].app
             p  == pubs[k]
             next == after[k]
  <2>1. Here(k - 1)
    BY <1>3
  <2>2. /\ si = MovedSub(s, IF k - 1 = 0 THEN s.offset ELSE a.offset + (k - 1), si.prev_data)
        /\ s.delta_negotiated /\ k - 1 > 0 => si.prev_data = Payload(a.epoch, a.offset + (k - 1))
        /\ ai = Moved(a, a.offset + (k - 1))
        /\ after[k - 1] \in [sub : SubStates, app : AppStates]
    BY <2>1
  <2>3. si \in SubStates /\ ai \in AppStates /\ after[k - 1] = [sub |-> si, app |-> ai] /\ p \in Publication
    BY <2>2
  <2>4. ai.epoch = a.epoch /\ ai.offset = a.offset + (k - 1)
    BY <2>2 DEF AppStates, Moved
  <2>6. p = Pub(a.epoch, a.offset + k, a.offset + k - 1, s.delta_negotiated /\ k > 1, s.delta_negotiated)
    OBVIOUS
  <2>7. next = Published([sub |-> si, app |-> ai], p)
    BY <1>1, <2>3
  <2> HIDE DEF si, ai, p, next, Here
  <2>5. si.delta_negotiated = s.delta_negotiated
    BY <2>2 DEF SubStates, MovedSub
  <2>8. Follows(p, ClientView(si, ai))
    <3>1. /\ p.epoch = a.epoch /\ p.offset = a.offset + k /\ p.base = a.offset + k - 1
          /\ p.delta = (s.delta_negotiated /\ k > 1) /\ p.negotiated = s.delta_negotiated
      BY <2>6 DEF Pub
    <3>2. a.offset + (k - 1) = a.offset + k - 1 /\ a.offset + (k - 1) + 1 = a.offset + k /\ (k > 1 => k - 1 > 0)
      BY <1>0
    <3>3. p.offset = ai.offset + 1 /\ p.base = ai.offset /\ p.epoch = ai.epoch /\ p.negotiated = si.delta_negotiated
      BY <2>4, <2>5, <3>1, <3>2
    <3>4. p.delta => si.delta_negotiated /\ si.prev_data = Payload(ai.epoch, ai.offset)
      BY <2>2, <2>4, <2>5, <3>1, <3>2
    <3> QED BY <3>3, <3>4 DEF Follows, ClientView
  <2>9. /\ next.sub = MovedSub(si, p.offset, next.sub.prev_data)
        /\ p.negotiated => next.sub.prev_data = Payload(p.epoch, p.offset)
        /\ next.app = Moved(ai, p.offset)
    BY <2>3, <2>7, <2>8, ClientSeesNext
  <2>10. p.offset = a.offset + k /\ p.epoch = a.epoch /\ p.negotiated = s.delta_negotiated
    BY <2>6 DEF Pub
  <2>11. next.app = Moved(a, a.offset + k)
    BY <2>2, <2>9, <2>10 DEF AppStates, Moved
  <2>12. next.sub = MovedSub(s, a.offset + k, next.sub.prev_data)
    BY <2>2, <2>9, <2>10 DEF SubStates, MovedSub
  <2>13. next \in [sub : SubStates, app : AppStates]
    BY <2>3, <2>7, PublishedType
  <2>14. k # 0 /\ (s.delta_negotiated => next.sub.prev_data = Payload(a.epoch, a.offset + k))
    BY <2>9, <2>10
  <2>15. Here(k)
    BY <2>11, <2>12, <2>13, <2>14 DEF Here, next
  <2> QED BY <2>15
<1>4. n \in S
  <2> HIDE DEF S
  <2>1. 0 .. n \subseteq S
    BY <1>0, <1>2, <1>3, UpTo
  <2> QED BY <1>0, <2>1
<1>5. Here(n)
  <2> HIDE DEF Here
  <2> QED BY <1>4
<1>6. (pubs = <<>> <=> n = 0) /\ (pubs # <<>> <=> n > 0)
  BY <1>0
<1>7. both = after[n] /\ last = a.offset + n
  BY <1>1
<1> HIDE DEF n
<1> QED BY <1>5, <1>6, <1>7

\* The k-th publication after what the application has seen, sent in full.
InFull(a, k) == Pub(a.epoch, a.offset + k, a.offset + k - 1, FALSE, FALSE)

\* The same for a server-side subscription.
LEMMA ServerSeesAll ==
  ASSUME NEW e \in Entries, NEW a \in AppStates, NEW pubs \in Seq(Publication),
         \A k \in 1 .. Len(pubs) : pubs[k] = InFull(a, k),
         NEW both, both = AllServerPublished([sub |-> e, app |-> a], pubs),
         NEW last, last = a.offset + Len(pubs)
  PROVE  /\ both.app = Moved(a, last)
         /\ both.sub = Moved(e, IF pubs = <<>> THEN e.offset ELSE last)
<1> DEFINE n == Len(pubs)
           first == [sub |-> e, app |-> a]
<1>0. n \in Nat /\ a.offset \in Nat
  BY Constants DEF AppStates
<1>1. PICK after : /\ after[0] = first
                   /\ \A k \in 1 .. n : after[k] = ServerPublished(after[k - 1], pubs[k])
                   /\ AllServerPublished(first, pubs) = after[n]
  BY <1>0, AllServerPublishedUnfolds
<1> DEFINE Here(k) ==
      /\ after[k] \in [sub : Entries, app : AppStates]
      /\ after[k].app = Moved(a, a.offset + k)
      /\ after[k].sub = Moved(e, IF k = 0 THEN e.offset ELSE a.offset + k)
           S == {k \in 0 .. n : Here(k)}
<1>2. 0 \in S
  <2>1. after[0] \in [sub : Entries, app : AppStates] /\ after[0].sub = e /\ after[0].app = a
    BY <1>1
  <2>2. a = Moved(a, a.offset + 0)
    BY <1>0 DEF AppStates, Moved
  <2>3. e = Moved(e, IF 0 = 0 THEN e.offset ELSE a.offset + 0)
    BY DEF Entries, Moved
  <2>4. Here(0)
    BY <2>1, <2>2, <2>3
  <2>5. 0 \in 0 .. n
    BY <1>0
  <2> HIDE DEF Here
  <2> QED BY <2>4, <2>5
<1>3. ASSUME NEW k \in 1 .. n, k - 1 \in S
      PROVE  k \in S
  <2> DEFINE ei == after[k - 1].sub
             ai == after[k - 1].app
             p  == pubs[k]
             next == after[k]
  <2>1. Here(k - 1)
    BY <1>3
  <2>2. /\ ei = Moved(e, IF k - 1 = 0 THEN e.offset ELSE a.offset + (k - 1))
        /\ ai = Moved(a, a.offset + (k - 1))
        /\ after[k - 1] \in [sub : Entries, app : AppStates]
    BY <2>1
  <2>3. ei \in Entries /\ ai \in AppStates /\ after[k - 1] = [sub |-> ei, app |-> ai] /\ p \in Publication
    BY <2>2
  <2>4. ai.epoch = a.epoch /\ ai.offset = a.offset + (k - 1)
    BY <2>2 DEF AppStates, Moved
  <2>5. p = Pub(a.epoch, a.offset + k, a.offset + k - 1, FALSE, FALSE)
    BY DEF InFull
  <2>6. next = ServerPublished([sub |-> ei, app |-> ai], p)
    BY <1>1, <2>3
  <2> HIDE DEF ei, ai, p, next, Here
  <2>7. p.offset = a.offset + k /\ Follows(p, ServerView(ai))
    <3>1. p.epoch = a.epoch /\ p.offset = a.offset + k /\ ~p.delta /\ p.negotiated = FALSE
      BY <2>5 DEF Pub
    <3>2. a.offset + (k - 1) + 1 = a.offset + k
      BY <1>0
    <3> QED BY <2>4, <3>1, <3>2 DEF Follows, ServerView
  <2>8. next.sub = Moved(ei, p.offset) /\ next.app = Moved(ai, p.offset)
    BY <2>3, <2>6, <2>7, ServerSeesNext
  <2>9. next.app = Moved(a, a.offset + k)
    BY <2>2, <2>7, <2>8 DEF AppStates, Moved
  <2>10. next.sub = Moved(e, a.offset + k)
    BY <2>2, <2>7, <2>8 DEF Entries, Moved
  <2>11. next \in [sub : Entries, app : AppStates]
    BY <2>3, <2>6, ServerPublishedType
  <2>12. Here(k)
    <3>1. k # 0
      OBVIOUS
    <3> QED BY <2>9, <2>10, <2>11, <3>1 DEF Here, next
  <2> QED BY <2>12
<1>4. n \in S
  <2> HIDE DEF S
  <2>1. 0 .. n \subseteq S
    BY <1>0, <1>2, <1>3, UpTo
  <2> QED BY <1>0, <2>1
<1>5. Here(n)
  <2> HIDE DEF Here
  <2> QED BY <1>4
<1>6. pubs = <<>> <=> n = 0
  BY <1>0
<1>7. both = after[n] /\ last = a.offset + n
  BY <1>1
<1> HIDE DEF n
<1> QED BY <1>5, <1>6, <1>7

\* Without publications nothing changes.
LEMMA NothingPublished ==
  /\ \A both : AllPublished(both, <<>>) = both
  /\ \A both : AllServerPublished(both, <<>>) = both
<1>1. Len(<<>>) = 0 /\ Len(<<>>) \in Nat
  OBVIOUS
<1>2. ASSUME NEW both PROVE AllPublished(both, <<>>) = both
  BY <1>1, AllPublishedUnfolds
<1>3. ASSUME NEW both PROVE AllServerPublished(both, <<>>) = both
  BY <1>1, AllServerPublishedUnfolds
<1> QED BY <1>2, <1>3

\* After an expected result the client and the application are where it ends.
LEMMA ClientSubscribes ==
  ASSUME NEW s \in SubStates, NEW a \in AppStates, NEW r \in SubscribeResults, Expected(a, r),
         NEW both, both = Subscribed([sub |-> s, app |-> a], r)
  PROVE  /\ both.app.faults = a.faults
         /\ both.app.epoch = r.epoch /\ both.app.offset = r.offset
         /\ both.sub.epoch = r.epoch /\ both.sub.offset = r.offset
         /\ both.sub.state = "Subscribed" /\ both.sub.delta_negotiated = r.delta
         /\ r.delta /\ r.publications # <<>> => both.sub.prev_data = Payload(r.epoch, r.offset)
<1> DEFINE s2 == [s EXCEPT !.state = "Subscribed",
                           !.delta_negotiated = r.delta,
                           !.recover = @ \/ r.recoverable,
                           !.offset = IF Placed(r) THEN r.offset ELSE @,
                           !.epoch = IF Placed(r) THEN r.epoch ELSE @]
           a2 == SeesSubscribed(a, r)
<1>1. Placed(r) /\ r.delta \in BOOLEAN /\ r.offset \in 0 .. MaxPubs /\ r.epoch \in NoEpoch .. Epochs
      /\ r.publications \in Seq(Publication) /\ r.recoverable \in BOOLEAN
  BY ResultFields DEF Placed
<1>2. /\ s2 \in SubStates /\ s2.offset = r.offset /\ s2.epoch = r.epoch
      /\ s2.state = "Subscribed" /\ s2.delta_negotiated = r.delta
  BY <1>1 DEF SubStates
<1>3. both = AllPublished([sub |-> s2, app |-> a2], r.publications)
  BY DEF Subscribed
<1>4. a2 = IF r.recovered THEN a ELSE [a EXCEPT !.epoch = r.epoch, !.offset = r.offset]
  BY <1>1 DEF SeesSubscribed
<1> HIDE DEF s2, a2
<1>5. CASE r.recovered
  <2>1. /\ a2 = a /\ r.epoch = a.epoch /\ r.offset = a.offset + Len(r.publications)
        /\ \A k \in 1 .. Len(r.publications) :
             r.publications[k] =
               Pub(a2.epoch, a2.offset + k, a2.offset + k - 1, s2.delta_negotiated /\ k > 1, s2.delta_negotiated)
    BY <1>2, <1>4, <1>5 DEF Expected
  <2>2. r.offset = a2.offset + Len(r.publications) /\ a2 \in AppStates
    BY <2>1
  <2>3. /\ both.app = Moved(a2, r.offset)
        /\ both.sub = MovedSub(s2, IF r.publications = <<>> THEN s2.offset ELSE r.offset, both.sub.prev_data)
        /\ s2.delta_negotiated /\ r.publications # <<>> => both.sub.prev_data = Payload(a2.epoch, r.offset)
    <3> DEFINE pubs == r.publications
               last == r.offset
    <3>1. /\ s2 \in SubStates /\ a2 \in AppStates /\ pubs \in Seq(Publication)
          /\ \A k \in 1 .. Len(pubs) :
               pubs[k] = Pub(a2.epoch, a2.offset + k, a2.offset + k - 1, s2.delta_negotiated /\ k > 1, s2.delta_negotiated)
          /\ both = AllPublished([sub |-> s2, app |-> a2], pubs)
          /\ last = a2.offset + Len(pubs)
      BY <1>1, <1>2, <1>3, <2>1, <2>2
    <3> HIDE DEF pubs, last
    <3>2. /\ both.app = Moved(a2, last)
          /\ both.sub = MovedSub(s2, IF pubs = <<>> THEN s2.offset ELSE last, both.sub.prev_data)
          /\ s2.delta_negotiated /\ pubs # <<>> => both.sub.prev_data = Payload(a2.epoch, last)
      BY <3>1, ClientSeesAll
    <3> QED BY <3>2 DEF pubs, last
  <2>4. both.app.faults = a.faults /\ both.app.epoch = r.epoch /\ both.app.offset = r.offset
    BY <2>1, <2>3 DEF AppStates, Moved
  <2>5. /\ both.sub.epoch = r.epoch /\ both.sub.offset = r.offset
        /\ both.sub.state = "Subscribed" /\ both.sub.delta_negotiated = r.delta
    BY <1>2, <2>3 DEF SubStates, MovedSub
  <2> QED BY <1>2, <2>1, <2>3, <2>4, <2>5
<1>6. CASE ~r.recovered
  <2>1. r.publications = <<>> /\ both.sub = s2 /\ both.app = a2
    BY <1>3, <1>6, NothingPublished DEF Expected
  <2>2. a2.faults = a.faults /\ a2.epoch = r.epoch /\ a2.offset = r.offset
    BY <1>4, <1>6 DEF AppStates
  <2> QED BY <1>2, <2>1, <2>2
<1> QED BY <1>5, <1>6

\* The same for a server-side subscription.
LEMMA ServerSubscribesAll ==
  ASSUME NEW s, NEW a \in AppStates, NEW r \in SubscribeResults, Expected(a, r), ~r.delta,
         NEW both, both = ServerSubscribed([sub |-> s, app |-> a], r)
  PROVE  /\ both.app.faults = a.faults
         /\ both.app.epoch = r.epoch /\ both.app.offset = r.offset
         /\ both.sub.epoch = r.epoch /\ both.sub.offset = r.offset /\ both.sub.recoverable
<1> DEFINE e2 == Entry(r)
           a2 == [SeesSubscribed(a, r) EXCEPT !.status = "subscribed"]
           a1 == IF r.recovered THEN a ELSE [a EXCEPT !.epoch = r.epoch, !.offset = r.offset]
<1>1. /\ Placed(r) /\ r.delta = FALSE /\ r.offset \in 0 .. MaxPubs /\ r.epoch \in NoEpoch .. Epochs
      /\ r.publications \in Seq(Publication) /\ r.recoverable /\ r.recoverable \in BOOLEAN
  BY ResultFields DEF Placed
<1>2. e2 \in Entries /\ e2.offset = r.offset /\ e2.epoch = r.epoch /\ e2.recoverable
  BY <1>1 DEF Entry, Entries
<1>3. both = AllServerPublished([sub |-> e2, app |-> a2], r.publications)
  BY DEF ServerSubscribed
<1>4. SeesSubscribed(a, r) = a1 /\ a1 \in AppStates
  BY <1>1 DEF SeesSubscribed, AppStates
<1>5. a2 \in AppStates /\ a2.epoch = a1.epoch /\ a2.offset = a1.offset /\ a2.faults = a1.faults
  BY <1>4 DEF AppStates
<1>6. a1.faults = a.faults /\ (r.recovered => a1 = a) /\ (~r.recovered => a1.epoch = r.epoch /\ a1.offset = r.offset)
  BY DEF AppStates
<1> HIDE DEF e2, a2, a1
<1>7. CASE r.recovered
  <2>1. /\ r.epoch = a.epoch /\ r.offset = a.offset + Len(r.publications)
        /\ a2.epoch = a.epoch /\ a2.offset = a.offset /\ a2.faults = a.faults
    BY <1>5, <1>6, <1>7 DEF Expected
  <2>2. ASSUME NEW k \in 1 .. Len(r.publications)
        PROVE  r.publications[k] = InFull(a2, k)
    <3>1. r.publications[k] = Pub(r.epoch, a.offset + k, a.offset + k - 1, r.delta /\ k > 1, r.delta)
      BY <1>7 DEF Expected
    <3>2. (r.delta /\ k > 1) = FALSE /\ r.delta = FALSE
      BY <1>1
    <3> QED BY <2>1, <3>1, <3>2 DEF InFull
  <2>3. /\ both.app = Moved(a2, r.offset)
        /\ both.sub = Moved(e2, IF r.publications = <<>> THEN e2.offset ELSE r.offset)
    <3> DEFINE pubs == r.publications
               last == r.offset
    <3>1. /\ e2 \in Entries /\ a2 \in AppStates /\ pubs \in Seq(Publication)
          /\ \A k \in 1 .. Len(pubs) : pubs[k] = InFull(a2, k)
          /\ both = AllServerPublished([sub |-> e2, app |-> a2], pubs)
          /\ last = a2.offset + Len(pubs)
      BY <1>1, <1>2, <1>3, <1>5, <2>1, <2>2
    <3> HIDE DEF pubs, last
    <3>2. /\ both.app = Moved(a2, last)
          /\ both.sub = Moved(e2, IF pubs = <<>> THEN e2.offset ELSE last)
      BY <3>1, ServerSeesAll
    <3> QED BY <3>2 DEF pubs, last
  <2>4. both.app.faults = a.faults /\ both.app.epoch = r.epoch /\ both.app.offset = r.offset
    BY <1>5, <2>1, <2>3 DEF AppStates, Moved
  <2>5. both.sub.epoch = r.epoch /\ both.sub.offset = r.offset /\ both.sub.recoverable
    BY <1>2, <2>3 DEF Entries, Moved
  <2> QED BY <2>4, <2>5
<1>8. CASE ~r.recovered
  <2>1. r.publications = <<>> /\ both.sub = e2 /\ both.app = a2
    BY <1>3, <1>8, NothingPublished DEF Expected
  <2> QED BY <1>2, <1>5, <1>6, <1>8, <2>1
<1> QED BY <1>7, <1>8

-------------------------------------------------------------------------------
(* A channel of the client, step by step.                                     *)

\* What the server holds for a channel ...
Holdings == [on : BOOLEAN, delta : BOOLEAN, base : 0 .. MaxPubs]

\* ... and the state of its stream.
StreamStates == [epoch : 1 .. Epochs, top : 0 .. MaxPubs]

\* The messages about channels of the client.
ClientMessage == {m \in Message : m.ch \in ClientChannels}

\* What is known of the first message on the wire.
LEMMA FirstMessage ==
  ASSUME NEW T, NEW in \in Seq(T), in # <<>>
  PROVE  /\ Head(in) \in T /\ Head(in) = in[1] /\ 1 \in 1 .. Len(in) /\ Len(in) \in Nat /\ Len(in) # 0
         /\ Tail(in) \in Seq(T) /\ Len(Tail(in)) = Len(in) - 1
         /\ \A k \in 1 .. Len(Tail(in)) : k + 1 \in 1 .. Len(in) /\ Tail(in)[k] = in[k + 1] /\ k + 1 # 1
         /\ (Tail(in) = <<>> <=> Len(in) = 1)
<1>1. Len(in) \in Nat /\ Len(in) # 0
  OBVIOUS
<1>2. Tail(in) \in Seq(T) /\ Len(Tail(in)) = Len(in) - 1
  OBVIOUS
<1>3. Tail(in) = <<>> <=> Len(Tail(in)) = 0
  BY <1>2
<1>4. \A k \in 1 .. Len(Tail(in)) : k + 1 \in 1 .. Len(in) /\ Tail(in)[k] = in[k + 1] /\ k + 1 # 1
  OBVIOUS
<1>5. Head(in) = in[1] /\ 1 \in 1 .. Len(in) /\ in[1] \in T
  BY <1>1
<1>6. Tail(in) = <<>> <=> Len(in) = 1
  BY <1>1, <1>2, <1>3
<1> QED BY <1>1, <1>2, <1>4, <1>5, <1>6

\* A message about a client channel that ends a subscription is the last one.
LEMMA NothingAfter ==
  ASSUME NEW in \in Seq(ClientMessage), in # <<>>, NEW v, NEW h, NEW st, NEW a,
         InOrder(v, TRUE, in), UpToDate(v, TRUE, in, h, st), Replies(in, a), ~Goes(Head(in))
  PROVE  Tail(in) = <<>> /\ ~h.on
<1>1. /\ Head(in) = in[1] /\ Len(in) \in Nat /\ Len(in) # 0 /\ (Tail(in) = <<>> <=> Len(in) = 1)
  BY FirstMessage
<1>2. Len(in) = 1
  <2> SUFFICES ASSUME 2 \in 1 .. Len(in) PROVE FALSE
    BY <1>1
  <2>1. in[2] \in ClientMessage
    OBVIOUS
  <2>2. in[2].kind \in {"publication", "unsubscribe", "subscribed"}
    BY <2>1, Constants DEF ClientMessage, Message
  <2>3. in[2].kind # "subscribed"
    BY DEF Replies
  <2>4. GoesOn(TRUE, in, 2 - 1)
    BY <2>2, <2>3 DEF InOrder
  <2> QED BY <1>1, <2>4 DEF GoesOn
<1>3. ~GoesOn(TRUE, in, Len(in))
  BY <1>1, <1>2 DEF GoesOn
<1> QED BY <1>1, <1>2, <1>3 DEF UpToDate

\* A publication is handled.
LEMMA ClientTakesPublication ==
  ASSUME NEW in \in Seq(ClientMessage), NEW out \in Seq(Commands), NEW h, NEW st,
         NEW a \in AppStates, NEW s \in SubStates, NEW r,
         ClientOk(TRUE, in, out, h, st, a, s, r),
         in # <<>>, Head(in).kind = "publication",
         NEW both, both = Published([sub |-> s, app |-> a], Head(in).pub)
  PROVE  ClientOk(TRUE, Tail(in), out, h, st, both.app, both.sub, r)
<1> DEFINE p == Head(in).pub
           v == ClientView(s, a)
           w == ClientView(both.sub, both.app)
<1>0. in \in Seq(Message)
  BY DEF ClientMessage
<1>1. /\ a.faults = {} /\ s.epoch = a.epoch /\ s.offset = a.offset
      /\ InOrder(v, TRUE, in) /\ UpToDate(v, TRUE, in, h, st) /\ Replies(in, a)
      /\ Attempts(TRUE, in, out, h, s, r)
  BY DEF ClientOk
<1>2. Head(in) \in Message /\ Head(in) = in[1] /\ 1 \in 1 .. Len(in)
  BY <1>0, FirstMessage
<1>3. p \in Publication
  BY <1>2 DEF Message
<1>4. Follows(p, v)
  <2>1. Follows(in[1].pub, ViewAt(v, in, 1 - 1))
    BY <1>1, <1>2 DEF InOrder
  <2>2. ViewAt(v, in, 1 - 1) = v
    BY DEF ViewAt
  <2> QED BY <1>2, <2>1, <2>2
<1>5. /\ both.sub = MovedSub(s, p.offset, both.sub.prev_data)
      /\ p.negotiated => both.sub.prev_data = Payload(p.epoch, p.offset)
      /\ both.app = Moved(a, p.offset)
      /\ p.epoch = a.epoch /\ p.offset = a.offset + 1
  BY <1>3, <1>4, ClientSeesNext
<1>6. /\ both.sub.epoch = s.epoch /\ both.sub.offset = p.offset /\ both.sub.state = s.state
      /\ both.sub.delta_negotiated = s.delta_negotiated
      /\ both.app.epoch = a.epoch /\ both.app.offset = p.offset /\ both.app.faults = a.faults
  BY <1>5 DEF MovedSub, Moved, SubStates, AppStates
<1>7. Covers(w, ViewOf(Head(in)))
  <2>1. ViewOf(Head(in)) = [epoch |-> p.epoch, offset |-> p.offset, delta |-> p.negotiated, full |-> p.negotiated]
    BY DEF ViewOf
  <2>2. p.negotiated = s.delta_negotiated
    BY <1>4 DEF Follows, ClientView
  <2>3. /\ w.epoch = p.epoch /\ w.offset = p.offset /\ w.delta = s.delta_negotiated
        /\ w.full = (both.sub.prev_data = Payload(both.app.epoch, both.app.offset))
    BY <1>5, <1>6 DEF ClientView
  <2> DEFINE x == ViewOf(Head(in))
  <2>4. x.epoch = p.epoch /\ x.offset = p.offset /\ x.delta = p.negotiated /\ x.full = p.negotiated
    BY <2>1
  <2>5. x.full => w.full
    BY <1>5, <1>6, <2>3, <2>4
  <2> HIDE DEF p, w, x
  <2> QED BY <2>2, <2>3, <2>4, <2>5 DEF Covers, x
<1> HIDE DEF v, w, p
<1>8. InOrder(w, TRUE, Tail(in)) /\ UpToDate(w, TRUE, Tail(in), h, st)
  BY <1>0, <1>1, <1>7, InOrderTail, UpToDateTail
<1>9. \A k \in 1 .. Len(Tail(in)) : Tail(in)[k].kind # "subscribed"
  BY <1>0, <1>1, FirstMessage DEF Replies
<1>10. Replies(Tail(in), both.app)
  BY <1>9 DEF Replies
<1>11. Attempts(TRUE, Tail(in), out, h, both.sub, r)
  <2>1. ~Replied(in) /\ ~Replied(Tail(in))
    <3>1. Tail(in) # <<>> => 1 \in 1 .. Len(Tail(in))
      BY <1>0, FirstMessage
    <3> QED BY <1>2, <1>9, <3>1 DEF Replied
  <2>2. ~r /\ ~Asks(out)
    BY <1>1 DEF Attempts
  <2> QED BY <1>1, <1>6, <2>1, <2>2 DEF Attempts, Asks
<1> QED BY <1>1, <1>6, <1>8, <1>10, <1>11 DEF ClientOk, AtRest, w

\* The server's unsubscribe push is handled: the client asks again, or does not.
LEMMA ClientTakesUnsubscribe ==
  ASSUME NEW in \in Seq(ClientMessage), NEW out \in Seq(Commands), NEW h, NEW st,
         NEW a \in AppStates, NEW s \in SubStates, NEW r,
         ClientOk(TRUE, in, out, h, st, a, s, r),
         in # <<>>, Head(in).kind = "unsubscribe", NEW s2, NEW r2,
         \/ s2 = [s EXCEPT !.state = "Subscribing"] /\ r2 = TRUE
         \/ s2 = [s EXCEPT !.state = "Unsubscribed"] /\ r2 = r
  PROVE  ClientOk(TRUE, Tail(in), out, h, st, a, s2, r2)
<1>0. in \in Seq(Message)
  BY DEF ClientMessage
<1>1. /\ a.faults = {} /\ s.epoch = a.epoch /\ s.offset = a.offset
      /\ InOrder(ClientView(s, a), TRUE, in) /\ UpToDate(ClientView(s, a), TRUE, in, h, st) /\ Replies(in, a)
      /\ Attempts(TRUE, in, out, h, s, r)
  BY DEF ClientOk
<1>2. Tail(in) = <<>> /\ ~h.on
  BY <1>1, NothingAfter DEF Goes
<1>3. ~r /\ ~Asks(out)
  BY <1>1 DEF Attempts
<1>4. s2.epoch = s.epoch /\ s2.offset = s.offset /\ (r2 => s2.state = "Subscribing")
  BY <1>3 DEF SubStates
<1>5. Len(<<>>) = 0 /\ Tail(in) = <<>>
  BY <1>2
<1>6. InOrder(ClientView(s2, a), TRUE, <<>>) /\ Replies(<<>>, a)
  BY <1>5 DEF InOrder, Replies
<1>7. UpToDate(ClientView(s2, a), TRUE, <<>>, h, st)
  BY <1>2 DEF UpToDate
<1>8. Attempts(TRUE, <<>>, out, h, s2, r2)
  BY <1>2, <1>3, <1>4 DEF Attempts, Replied, Asks
<1> QED BY <1>1, <1>4, <1>5, <1>6, <1>7, <1>8 DEF ClientOk, AtRest

\* The reply to Subscribe is handled: a result ...
LEMMA ClientTakesResult ==
  ASSUME NEW in \in Seq(ClientMessage), NEW out \in Seq(Commands), NEW h, NEW st,
         NEW a \in AppStates, NEW s \in SubStates, NEW r,
         ClientOk(TRUE, in, out, h, st, a, s, r),
         in # <<>>, Head(in).kind = "subscribed", Head(in).code = 0,
         NEW both, both = Subscribed([sub |-> s, app |-> a], Head(in).result)
  PROVE  ClientOk(TRUE, Tail(in), out, h, st, both.app, both.sub, r)
<1> DEFINE m == Head(in)
           w == ClientView(both.sub, both.app)
<1>0. in \in Seq(Message)
  BY DEF ClientMessage
<1>1. /\ a.faults = {} /\ s.epoch = a.epoch /\ s.offset = a.offset
      /\ InOrder(ClientView(s, a), TRUE, in) /\ UpToDate(ClientView(s, a), TRUE, in, h, st) /\ Replies(in, a)
      /\ Attempts(TRUE, in, out, h, s, r)
  BY DEF ClientOk
<1>2. m \in Message /\ m = in[1] /\ 1 \in 1 .. Len(in)
  BY <1>0, FirstMessage
<1>3. Expected(a, m.result) /\ m.result \in SubscribeResults
  <2>1. Expected(a, in[1].result)
    BY <1>1, <1>2 DEF Replies
  <2>2. m.result \in SubscribeResults \union {NoResult}
    BY <1>2 DEF Message
  <2>3. Expected(a, m.result)
    BY <1>2, <2>1
  <2>4. m.result # NoResult
    BY <2>3 DEF Expected
  <2> HIDE DEF m
  <2> QED BY <2>2, <2>3, <2>4
<1> DEFINE result == m.result
<1>4. /\ both.app.faults = a.faults
      /\ both.app.epoch = result.epoch /\ both.app.offset = result.offset
      /\ both.sub.epoch = result.epoch /\ both.sub.offset = result.offset
      /\ both.sub.state = "Subscribed" /\ both.sub.delta_negotiated = result.delta
      /\ result.delta /\ result.publications # <<>> => both.sub.prev_data = Payload(result.epoch, result.offset)
  BY <1>3, ClientSubscribes
<1>5. Covers(w, ViewOf(m))
  <2>1. ViewOf(m) = [epoch |-> result.epoch, offset |-> result.offset, delta |-> result.delta,
                     full |-> result.delta /\ result.publications # <<>>]
    BY DEF ViewOf
  <2> DEFINE x == ViewOf(m)
  <2>2. /\ w.epoch = result.epoch /\ w.offset = result.offset /\ w.delta = result.delta
        /\ w.full = (both.sub.prev_data = Payload(both.app.epoch, both.app.offset))
    BY <1>4 DEF ClientView
  <2>3. /\ x.epoch = result.epoch /\ x.offset = result.offset /\ x.delta = result.delta
        /\ x.full = (result.delta /\ result.publications # <<>>)
    BY <2>1
  <2>4. x.full => w.full
    BY <1>4, <2>2, <2>3
  <2> HIDE DEF w, x, m
  <2> QED BY <2>2, <2>3, <2>4 DEF Covers, x
<1> HIDE DEF w
<1>6. InOrder(w, TRUE, Tail(in)) /\ UpToDate(w, TRUE, Tail(in), h, st)
  BY <1>0, <1>1, <1>5, InOrderTail, UpToDateTail
<1>7. \A k \in 1 .. Len(Tail(in)) : Tail(in)[k].kind # "subscribed"
  BY <1>0, <1>1, FirstMessage DEF Replies
<1>8. Replies(Tail(in), both.app)
  BY <1>7 DEF Replies
<1>9. Attempts(TRUE, Tail(in), out, h, both.sub, r)
  <2>1. Replied(in) /\ ~Replied(Tail(in))
    <3>1. Tail(in) # <<>> => 1 \in 1 .. Len(Tail(in))
      BY <1>0, FirstMessage
    <3> QED BY <1>2, <1>7, <3>1 DEF Replied
  <2>2. ~r /\ out = <<>>
    BY <1>1, <2>1 DEF Attempts
  <2>3. Len(<<>>) = 0
    OBVIOUS
  <2> QED BY <1>1, <1>4, <2>1, <2>2, <2>3 DEF Attempts, Asks
<1> QED BY <1>1, <1>4, <1>6, <1>8, <1>9 DEF ClientOk, AtRest, w

\* ... or an error: the client asks again later, or gives up.
LEMMA ClientTakesError ==
  ASSUME NEW in \in Seq(ClientMessage), NEW out \in Seq(Commands), NEW h, NEW st,
         NEW a \in AppStates, NEW s \in SubStates, NEW r,
         ClientOk(TRUE, in, out, h, st, a, s, r),
         in # <<>>, Head(in).kind = "subscribed", Head(in).code # 0, NEW s2, NEW r2,
         \/ s2 = s /\ r2 = TRUE
         \/ s2 = [s EXCEPT !.state = "Unsubscribed"] /\ r2 = r
  PROVE  ClientOk(TRUE, Tail(in), out, h, st, a, s2, r2)
<1>0. in \in Seq(Message) /\ Head(in) = in[1]
  BY FirstMessage DEF ClientMessage
<1>1. /\ a.faults = {} /\ s.epoch = a.epoch /\ s.offset = a.offset
      /\ InOrder(ClientView(s, a), TRUE, in) /\ UpToDate(ClientView(s, a), TRUE, in, h, st) /\ Replies(in, a)
      /\ Attempts(TRUE, in, out, h, s, r)
  BY DEF ClientOk
<1>2. Tail(in) = <<>> /\ ~h.on
  BY <1>1, NothingAfter DEF Goes
<1>3. ~r /\ out = <<>> /\ s.state = "Subscribing"
  BY <1>0, <1>1 DEF Attempts, Replied
<1>4. s2.epoch = s.epoch /\ s2.offset = s.offset /\ (r2 => s2.state = "Subscribing")
  BY <1>3 DEF SubStates
<1>5. Len(<<>>) = 0 /\ Tail(in) = <<>>
  BY <1>2
<1>6. InOrder(ClientView(s2, a), TRUE, <<>>) /\ Replies(<<>>, a)
  BY <1>5 DEF InOrder, Replies
<1>7. UpToDate(ClientView(s2, a), TRUE, <<>>, h, st)
  BY <1>2 DEF UpToDate
<1>8. Attempts(TRUE, <<>>, out, h, s2, r2)
  BY <1>2, <1>3, <1>4, <1>5 DEF Attempts, Replied, Asks
<1> QED BY <1>1, <1>4, <1>5, <1>6, <1>7, <1>8 DEF ClientOk, AtRest

\* The last message of a queue that has grown.
LEMMA LastMessage ==
  ASSUME NEW in \in Seq(Message), NEW m
  PROVE  /\ Append(in, m) # <<>>
         /\ Append(in, m)[1] = IF in = <<>> THEN m ELSE in[1]
         /\ \A v : ViewAt(v, Append(in, m), Len(Append(in, m))) = ViewOf(m)
         /\ \A open : GoesOn(open, Append(in, m), Len(Append(in, m))) = Goes(m)
         /\ \A open : \A j \in 0 .. Len(in) : GoesOn(open, Append(in, m), j) = GoesOn(open, in, j)
<1>1. /\ Len(Append(in, m)) = Len(in) + 1 /\ Len(in) \in Nat
      /\ \A k \in 1 .. Len(in) : Append(in, m)[k] = in[k]
      /\ Append(in, m)[Len(in) + 1] = m
  BY Appends
<1>2. in = <<>> => Len(in) = 0
  OBVIOUS
<1>3. in # <<>> => 1 \in 1 .. Len(in)
  OBVIOUS
<1> DEFINE t == Append(in, m)
<1> HIDE DEF t
<1>4. t # <<>>
  <2>1. Len(t) # 0
    BY <1>1 DEF t
  <2>2. Len(<<>>) = 0
    OBVIOUS
  <2> QED BY <2>1, <2>2
<1>5. t[1] = IF in = <<>> THEN m ELSE in[1]
  BY <1>1, <1>2, <1>3 DEF t
<1>6. Len(t) # 0 /\ t[Len(t)] = m /\ \A k \in 1 .. Len(in) : t[k] = in[k]
  BY <1>1 DEF t
<1>7. \A v : ViewAt(v, t, Len(t)) = ViewOf(m)
  BY <1>6 DEF ViewAt
<1>8. \A open : GoesOn(open, t, Len(t)) = Goes(m)
  BY <1>6 DEF GoesOn
<1>9. ASSUME NEW open, NEW j \in 0 .. Len(in)
      PROVE  GoesOn(open, t, j) = GoesOn(open, in, j)
  <2>1. j # 0 => t[j] = in[j]
    BY <1>1, <1>6
  <2> QED BY <2>1 DEF GoesOn
<1> QED BY <1>4, <1>5, <1>7, <1>8, <1>9 DEF t

\* Pushes change nothing about attempts.
LEMMA PushAttempts ==
  ASSUME NEW in \in Seq(Message), NEW m, m.kind # "subscribed", NEW out, NEW h, NEW s, NEW r, NEW a,
         Attempts(TRUE, in, out, h, s, r), Replies(in, a), h.on, NEW h2
  PROVE  Replies(Append(in, m), a) /\ Attempts(TRUE, Append(in, m), out, h2, s, r)
<1>1. /\ Len(Append(in, m)) = Len(in) + 1 /\ Len(in) \in Nat
      /\ \A k \in 1 .. Len(in) : Append(in, m)[k] = in[k]
      /\ Append(in, m)[Len(in) + 1] = m
  BY Appends
<1>2. Append(in, m) # <<>> /\ Append(in, m)[1] = (IF in = <<>> THEN m ELSE in[1])
  BY LastMessage
<1> DEFINE t == Append(in, m)
<1> HIDE DEF t
<1>3. Replied(t) <=> Replied(in)
  BY <1>2 DEF Replied, t
<1>4. Replies(t, a)
  <2>1. \A k \in 1 .. Len(t) : t[k].kind = "subscribed" => k \in 1 .. Len(in) /\ t[k] = in[k]
    BY <1>1 DEF t
  <2> QED BY <2>1 DEF Replies
<1>5. ~r /\ ~Asks(out)
  BY DEF Attempts
<1>6. Attempts(TRUE, t, out, h2, s, r)
  BY <1>3, <1>5 DEF Attempts, Asks
<1> QED BY <1>4, <1>6 DEF t

\* Somebody publishes to a channel this connection is subscribed to.
LEMMA ClientIsSentPublication ==
  ASSUME NEW in \in Seq(Message), NEW out, NEW h \in Holdings, NEW st \in StreamStates, NEW a, NEW s, NEW r,
         ClientOk(TRUE, in, out, h, st, a, s, r), h.on,
         NEW delta \in BOOLEAN, delta => h.delta /\ h.base > 0,
         NEW m, m.kind = "publication", m.pub = Pub(st.epoch, st.top + 1, h.base, delta, h.delta),
         NEW h2 \in Holdings, h2 = [h EXCEPT !.base = IF h.delta THEN st.top + 1 ELSE 0],
         NEW st2, st2.epoch = st.epoch, st2.top = st.top + 1
  PROVE  ClientOk(TRUE, Append(in, m), out, h2, st2, a, s, r)
<1> DEFINE v == ClientView(s, a)
           w == ViewAt(v, in, Len(in))
           x == ViewOf(m)
           t == Append(in, m)
<1>1. /\ a.faults = {} /\ s.epoch = a.epoch /\ s.offset = a.offset
      /\ InOrder(v, TRUE, in) /\ UpToDate(v, TRUE, in, h, st) /\ Replies(in, a)
      /\ Attempts(TRUE, in, out, h, s, r)
  BY DEF ClientOk
<1>2. /\ GoesOn(TRUE, in, Len(in))
      /\ w.epoch = st.epoch /\ w.offset = st.top /\ w.delta = h.delta
      /\ h.delta /\ h.base > 0 => w.full /\ h.base = w.offset
  BY <1>1 DEF UpToDate
<1>3. /\ m.pub.epoch = st.epoch /\ m.pub.offset = st.top + 1 /\ m.pub.base = h.base
      /\ m.pub.delta = delta /\ m.pub.negotiated = h.delta
  BY DEF Pub
<1>4. /\ h2.on = h.on /\ h2.delta = h.delta /\ h2.base = (IF h.delta THEN st.top + 1 ELSE 0)
  BY DEF Holdings
<1>5. x.epoch = st.epoch /\ x.offset = st.top + 1 /\ x.delta = h.delta /\ x.full = h.delta
  <2>1. x = [epoch |-> m.pub.epoch, offset |-> m.pub.offset, delta |-> m.pub.negotiated, full |-> m.pub.negotiated]
    BY DEF ViewOf
  <2> QED BY <1>3, <2>1
<1>6. Goes(m)
  BY DEF Goes
<1> HIDE DEF w, v, x
<1>7. Follows(m.pub, w)
  BY <1>2, <1>3 DEF Follows
<1>8. InOrder(v, TRUE, t)
  BY <1>1, <1>2, <1>7, InOrderAppend DEF w
<1>9. GoesOn(TRUE, t, Len(t)) = Goes(m) /\ ViewAt(v, t, Len(t)) = x
  BY LastMessage DEF x
<1> HIDE DEF t
<1>10. UpToDate(v, TRUE, t, h2, st2)
  BY <1>4, <1>5, <1>6, <1>9 DEF UpToDate
<1>11. Replies(t, a) /\ Attempts(TRUE, t, out, h2, s, r)
  BY <1>1, <1>4, PushAttempts DEF t
<1> QED BY <1>1, <1>8, <1>10, <1>11 DEF ClientOk, AtRest, v, t

\* The server ends a subscription.
LEMMA ClientIsUnsubscribed ==
  ASSUME NEW in \in Seq(Message), NEW out, NEW h, NEW st, NEW a, NEW s, NEW r,
         ClientOk(TRUE, in, out, h, st, a, s, r), h.on, NEW m, m.kind = "unsubscribe"
  PROVE  ClientOk(TRUE, Append(in, m), out, NotHeld, st, a, s, r)
<1> DEFINE v == ClientView(s, a)
           t == Append(in, m)
<1>1. /\ a.faults = {} /\ s.epoch = a.epoch /\ s.offset = a.offset
      /\ InOrder(v, TRUE, in) /\ UpToDate(v, TRUE, in, h, st) /\ Replies(in, a)
      /\ Attempts(TRUE, in, out, h, s, r)
  BY DEF ClientOk
<1>2. GoesOn(TRUE, in, Len(in))
  BY <1>1 DEF UpToDate
<1>3. ~NotHeld.on
  BY DEF NotHeld
<1> HIDE DEF v
<1>4. InOrder(v, TRUE, t)
  BY <1>1, <1>2, InOrderAppend
<1> HIDE DEF t
<1>5. UpToDate(v, TRUE, t, NotHeld, st)
  BY <1>3 DEF UpToDate
<1>6. Replies(t, a) /\ Attempts(TRUE, t, out, NotHeld, s, r)
  BY <1>1, <1>3, PushAttempts DEF t
<1> QED BY <1>1, <1>4, <1>5, <1>6 DEF ClientOk, AtRest, v, t

\* A channel's stream goes on, or restarts, without a subscription.
LEMMA ClientUnheardOf ==
  ASSUME NEW up, NEW in, NEW out, NEW h, NEW st, NEW a, NEW s, NEW r,
         ClientOk(up, in, out, h, st, a, s, r), ~h.on, NEW st2
  PROVE  ClientOk(up, in, out, h, st2, a, s, r)
BY DEF ClientOk, UpToDate

\* The server takes Unsubscribe.
LEMMA ServerTakesUnsubscribe ==
  ASSUME NEW in, NEW out \in Seq(Commands), NEW h, NEW st, NEW a, NEW s, NEW r,
         ClientOk(TRUE, in, out, h, st, a, s, r), out # <<>>, Head(out).kind = "unsubscribe"
  PROVE  ClientOk(TRUE, in, Tail(out), NotHeld, st, a, s, r)
<1>1. ~NotHeld.on
  BY DEF NotHeld
<1>2. /\ Attempts(TRUE, in, out, h, s, r)
      /\ a.faults = {} /\ s.epoch = a.epoch /\ s.offset = a.offset
      /\ InOrder(ClientView(s, a), TRUE, in) /\ Replies(in, a)
  BY DEF ClientOk
<1> DEFINE t == Tail(out)
<1>3. /\ Len(t) = Len(out) - 1 /\ Len(out) \in Nat
      /\ \A k \in 1 .. Len(t) : k + 1 \in 1 .. Len(out) /\ t[k] = out[k + 1]
  BY FirstMessage
<1> HIDE DEF t
<1>4. ~Replied(in)
  BY <1>2 DEF Attempts
<1>5. Asks(t) => Asks(out)
  BY <1>3 DEF Asks
<1>6. \A k \in 1 .. Len(t) : t[k].kind = "subscribe" => k = Len(t) /\ t[k].at = Position(s)
  <2> SUFFICES ASSUME NEW k \in 1 .. Len(t), t[k].kind = "subscribe"
               PROVE  k = Len(t) /\ t[k].at = Position(s)
    OBVIOUS
  <2>1. k + 1 \in 1 .. Len(out) /\ out[k + 1].kind = "subscribe"
    BY <1>3
  <2>2. k + 1 = Len(out) /\ out[k + 1].at = Position(s)
    BY <1>2, <2>1 DEF Attempts
  <2> QED BY <1>3, <2>1, <2>2
<1>7. Attempts(TRUE, in, t, NotHeld, s, r)
  BY <1>1, <1>2, <1>4, <1>5, <1>6 DEF Attempts
<1>8. UpToDate(ClientView(s, a), TRUE, in, NotHeld, st)
  BY <1>1 DEF UpToDate
<1> QED BY <1>2, <1>7, <1>8 DEF ClientOk, AtRest, t

\* When Subscribe reaches the server nothing else about the channel is on its way.
LEMMA AskedAlone ==
  ASSUME NEW in, NEW out \in Seq(Commands), NEW h, NEW st, NEW a, NEW s, NEW r,
         ClientOk(TRUE, in, out, h, st, a, s, r), out # <<>>, Head(out).kind = "subscribe"
  PROVE  /\ in = <<>> /\ ~h.on /\ ~r /\ s.state = "Subscribing" /\ Tail(out) = <<>>
<1>1. Head(out) = out[1] /\ 1 \in 1 .. Len(out) /\ (Tail(out) = <<>> <=> Len(out) = 1)
  BY FirstMessage
<1>2. Asks(out) /\ Attempts(TRUE, in, out, h, s, r)
  BY <1>1 DEF Asks, ClientOk
<1> QED BY <1>1, <1>2 DEF Attempts

\* The server answers Subscribe: a result ...
LEMMA ServerTakesSubscribe ==
  ASSUME NEW in, NEW out \in Seq(Commands), NEW h, NEW st, NEW a, NEW s, NEW r,
         ClientOk(TRUE, in, out, h, st, a, s, r), out # <<>>, Head(out).kind = "subscribe",
         NEW result \in SubscribeResults, Expected(a, result), result.epoch = st.epoch, result.offset = st.top,
         NEW m, m.kind = "subscribed", m.code = 0, m.result = result
  PROVE  ClientOk(TRUE, Append(in, m), Tail(out), HeldAfter(result), st, a, s, r)
<1>1. in = <<>> /\ ~h.on /\ ~r /\ s.state = "Subscribing" /\ Tail(out) = <<>>
  BY AskedAlone
<1>2. a.faults = {} /\ s.epoch = a.epoch /\ s.offset = a.offset
  BY DEF ClientOk
<1> DEFINE t == <<m>>
           h2 == HeldAfter(result)
           v == ClientView(s, a)
           x == ViewOf(m)
<1>3. Append(in, m) = t /\ Len(t) = 1 /\ t[1] = m /\ t # <<>>
  BY <1>1
<1>4. /\ h2.on /\ h2.delta = result.delta
      /\ h2.base = (IF result.publications = <<>> THEN 0 ELSE result.offset)
  BY DEF HeldAfter, Holding
<1>5. /\ x.epoch = result.epoch /\ x.offset = result.offset /\ x.delta = result.delta
      /\ x.full = (result.delta /\ result.publications # <<>>)
  <2>1. x = [epoch |-> m.result.epoch, offset |-> m.result.offset, delta |-> m.result.delta,
             full |-> m.result.delta /\ m.result.publications # <<>>]
    BY DEF ViewOf
  <2> QED BY <2>1
<1> HIDE DEF t, h2, v, x
<1>6. InOrder(v, TRUE, t)
  <2>1. \A k \in 1 .. Len(t) : t[k].kind = "subscribed"
    BY <1>3
  <2> QED BY <2>1 DEF InOrder
<1>7. ViewAt(v, t, Len(t)) = x /\ GoesOn(TRUE, t, Len(t))
  BY <1>3 DEF ViewAt, GoesOn, Goes, x
<1>8. UpToDate(v, TRUE, t, h2, st)
  <2>1. x.epoch = st.epoch /\ x.offset = st.top /\ x.delta = h2.delta
    BY <1>4, <1>5
  <2>2. h2.delta /\ h2.base > 0 => result.delta /\ result.publications # <<>> /\ h2.base = result.offset
    BY <1>4
  <2>3. result.delta /\ result.publications # <<>> => x.full
    BY <1>5
  <2>4. h2.delta /\ h2.base > 0 => x.full /\ h2.base = x.offset
    BY <1>5, <2>2, <2>3
  <2> QED BY <1>7, <2>1, <2>4 DEF UpToDate
<1>9. Replies(t, a)
  BY <1>3 DEF Replies, ALREADY_SUBSCRIBED
<1>10. Attempts(TRUE, t, <<>>, h2, s, r)
  <2>1. Len(<<>>) = 0
    OBVIOUS
  <2> QED BY <1>1, <1>3, <2>1 DEF Attempts, Replied, Asks
<1> QED BY <1>1, <1>2, <1>3, <1>6, <1>8, <1>9, <1>10 DEF ClientOk, AtRest, v, h2

\* ... or an error.
LEMMA ServerTurnsDown ==
  ASSUME NEW in, NEW out \in Seq(Commands), NEW h, NEW st, NEW a, NEW s, NEW r,
         ClientOk(TRUE, in, out, h, st, a, s, r), out # <<>>, Head(out).kind = "subscribe",
         NEW m, m.kind = "subscribed", m.code # 0, m.code # ALREADY_SUBSCRIBED
  PROVE  ClientOk(TRUE, Append(in, m), Tail(out), h, st, a, s, r)
<1>1. in = <<>> /\ ~h.on /\ ~r /\ s.state = "Subscribing" /\ Tail(out) = <<>>
  BY AskedAlone
<1>2. a.faults = {} /\ s.epoch = a.epoch /\ s.offset = a.offset
  BY DEF ClientOk
<1> DEFINE t == <<m>>
           v == ClientView(s, a)
<1>3. Append(in, m) = t /\ Len(t) = 1 /\ t[1] = m /\ t # <<>>
  BY <1>1
<1> HIDE DEF t, v
<1>6. InOrder(v, TRUE, t)
  <2>1. \A k \in 1 .. Len(t) : t[k].kind = "subscribed"
    BY <1>3
  <2> QED BY <2>1 DEF InOrder
<1>8. UpToDate(v, TRUE, t, h, st)
  BY <1>1 DEF UpToDate
<1>9. Replies(t, a)
  BY <1>3 DEF Replies
<1>10. Attempts(TRUE, t, <<>>, h, s, r)
  <2>1. Len(<<>>) = 0
    OBVIOUS
  <2> QED BY <1>1, <1>3, <2>1 DEF Attempts, Replied, Asks
<1> QED BY <1>1, <1>2, <1>3, <1>6, <1>8, <1>9, <1>10 DEF ClientOk, AtRest, v

\* A subscription's state is no part of its view, and of its position.
LEMMA StateAlone ==
  ASSUME NEW s \in SubStates, NEW state, NEW a
  PROVE  LET s2 == [s EXCEPT !.state = state] IN
         /\ s2.state = state /\ s2.epoch = s.epoch /\ s2.offset = s.offset
         /\ ClientView(s2, a) = ClientView(s, a) /\ Position(s2) = Position(s)
BY DEF SubStates, ClientView, Position

\* Nothing is on the wire.
LEMMA EmptyWire ==
  /\ \A v, open : InOrder(v, open, <<>>)
  /\ \A a : Replies(<<>>, a)
  /\ \A v, open, in, st : UpToDate(v, open, in, NotHeld, st)
<1>1. 1 .. Len(<<>>) = {}
  OBVIOUS
<1>2. \A v, open : InOrder(v, open, <<>>)
  BY <1>1 DEF InOrder
<1>3. \A a : Replies(<<>>, a)
  BY <1>1 DEF Replies
<1>4. \A v, open, in, st : UpToDate(v, open, in, NotHeld, st)
  BY DEF UpToDate, NotHeld
<1> QED BY <1>2, <1>3, <1>4

\* subscribe(): nothing about the channel is on its way.
LEMMA ClientAsks ==
  ASSUME NEW up \in BOOLEAN, NEW h, NEW st, NEW a, NEW s \in SubStates, NEW r \in BOOLEAN,
         ClientOk(up, <<>>, <<>>, h, st, a, s, r), s.state = "Unsubscribed", ~r,
         NEW c, c.kind = "subscribe", c.at = Position(s)
  PROVE  ClientOk(up, <<>>, IF up THEN Append(<<>>, c) ELSE <<>>, h, st, a, [s EXCEPT !.state = "Subscribing"], r)
<1> DEFINE s2 == [s EXCEPT !.state = "Subscribing"]
           out == Append(<<>>, c)
<1>1. /\ a.faults = {} /\ s.epoch = a.epoch /\ s.offset = a.offset
      /\ InOrder(ClientView(s, a), TRUE, <<>>) /\ UpToDate(ClientView(s, a), TRUE, <<>>, h, st) /\ Replies(<<>>, a)
      /\ Attempts(up, <<>>, <<>>, h, s, r)
  BY DEF ClientOk
<1>2. s2.state = "Subscribing" /\ s2.epoch = s.epoch /\ s2.offset = s.offset
      /\ ClientView(s2, a) = ClientView(s, a) /\ Position(s2) = Position(s)
  BY StateAlone
<1>3. Len(out) = 1 /\ out[1] = c /\ Len(<<>>) = 0
  OBVIOUS
<1> HIDE DEF s2, out
<1>4. ~h.on
  BY <1>1 DEF Attempts, Replied
<1>5. Attempts(up, <<>>, out, h, s2, r)
  <2>1. ~Replied(<<>>)
    BY DEF Replied
  <2>2. \A k \in 1 .. Len(out) : k = 1 /\ out[k] = c
    BY <1>3
  <2> QED BY <1>2, <1>3, <1>4, <2>1, <2>2 DEF Attempts
<1>6. Attempts(up, <<>>, <<>>, h, s2, r)
  BY <1>2, <1>3, <1>4 DEF Attempts, Replied, Asks
<1> QED BY <1>1, <1>2, <1>4, <1>5, <1>6 DEF ClientOk, AtRest, s2, out

\* unsubscribe() of a subscription that is there.
LEMMA ClientLeaves ==
  ASSUME NEW up \in BOOLEAN, NEW in, NEW h, NEW st, NEW a, NEW s \in SubStates, NEW r \in BOOLEAN,
         ClientOk(up, in, <<>>, h, st, a, s, r), s.state = "Subscribed",
         NEW c, c.kind = "unsubscribe"
  PROVE  up /\ ClientOk(TRUE, in, Append(<<>>, c), h, st, a, [s EXCEPT !.state = "Unsubscribed"], r)
<1> DEFINE s2 == [s EXCEPT !.state = "Unsubscribed"]
           out == Append(<<>>, c)
<1>1. /\ a.faults = {} /\ s.epoch = a.epoch /\ s.offset = a.offset
      /\ InOrder(ClientView(s, a), TRUE, in) /\ UpToDate(ClientView(s, a), TRUE, in, h, st) /\ Replies(in, a)
      /\ Attempts(up, in, <<>>, h, s, r) /\ (~up => s.state # "Subscribed")
  BY DEF ClientOk
<1>2. s2.state = "Unsubscribed" /\ s2.epoch = s.epoch /\ s2.offset = s.offset
      /\ ClientView(s2, a) = ClientView(s, a) /\ Position(s2) = Position(s)
  BY StateAlone
<1>3. Len(out) = 1 /\ out[1] = c /\ Len(<<>>) = 0 /\ out # <<>>
  OBVIOUS
<1> HIDE DEF s2, out
<1>4. up /\ ~Replied(in) /\ ~r
  BY <1>1 DEF Attempts
<1>5. ~Asks(out) /\ \A k \in 1 .. Len(out) : out[k].kind # "subscribe"
  <2>1. \A k \in 1 .. Len(out) : k = 1 /\ out[k] = c
    BY <1>3
  <2> QED BY <2>1 DEF Asks
<1>6. Attempts(TRUE, in, out, h, s2, r)
  BY <1>2, <1>3, <1>4, <1>5 DEF Attempts
<1> QED BY <1>1, <1>2, <1>4, <1>6 DEF ClientOk, AtRest, s2, out

\* A Resubscribe command is handled: on a connection Subscribe is sent.
LEMMA ClientAsksAgain ==
  ASSUME NEW in, NEW out \in Seq(Commands), NEW h, NEW st, NEW a, NEW s,
         ClientOk(TRUE, in, out, h, st, a, s, TRUE),
         NEW c \in Commands, c.kind = "subscribe", c.at = Position(s)
  PROVE  s.state = "Subscribing" /\ ClientOk(TRUE, in, Append(out, c), h, st, a, s, FALSE)
<1> DEFINE t == Append(out, c)
<1>1. /\ a.faults = {} /\ s.epoch = a.epoch /\ s.offset = a.offset
      /\ InOrder(ClientView(s, a), TRUE, in) /\ UpToDate(ClientView(s, a), TRUE, in, h, st) /\ Replies(in, a)
      /\ Attempts(TRUE, in, out, h, s, TRUE)
  BY DEF ClientOk
<1>2. /\ Len(t) = Len(out) + 1 /\ Len(out) \in Nat /\ t[Len(t)] = c
      /\ \A k \in 1 .. Len(out) : t[k] = out[k]
  OBVIOUS
<1> HIDE DEF t
<1>3. s.state = "Subscribing" /\ in = <<>> /\ ~h.on /\ ~Asks(out)
  BY <1>1 DEF Attempts
<1>4. \A k \in 1 .. Len(t) : t[k].kind = "subscribe" => k = Len(t) /\ t[k].at = Position(s)
  BY <1>2, <1>3 DEF Asks
<1>5. Attempts(TRUE, in, t, h, s, FALSE)
  BY <1>3, <1>4 DEF Attempts, Replied
<1> QED BY <1>1, <1>3, <1>5 DEF ClientOk, AtRest, t

\* Without a connection the command makes no difference.
LEMMA ClientWaits ==
  ASSUME NEW in, NEW out, NEW h, NEW st, NEW a, NEW s, NEW r,
         ClientOk(FALSE, in, out, h, st, a, s, r)
  PROVE  ClientOk(FALSE, in, out, h, st, a, s, FALSE)
<1>1. /\ a.faults = {} /\ s.epoch = a.epoch /\ s.offset = a.offset
      /\ AtRest(FALSE, in, out, h) /\ s.state # "Subscribed"
      /\ InOrder(ClientView(s, a), TRUE, in) /\ UpToDate(ClientView(s, a), TRUE, in, h, st) /\ Replies(in, a)
  BY DEF ClientOk
<1>2. in = <<>> /\ out = <<>> /\ ~h.on
  BY <1>1 DEF AtRest
<1>3. Len(<<>>) = 0
  OBVIOUS
<1>4. Attempts(FALSE, in, out, h, s, FALSE)
  BY <1>2, <1>3 DEF Attempts, Replied, Asks
<1> QED BY <1>1, <1>4 DEF ClientOk

\* The wire is gone, and the subscription is not subscribed.
LEMMA ClientAlone ==
  ASSUME NEW up, NEW in, NEW out, NEW h, NEW st, NEW a, NEW s, NEW r,
         ClientOk(up, in, out, h, st, a, s, r),
         NEW a2, a2.faults = a.faults, a2.epoch = a.epoch, a2.offset = a.offset,
         NEW s2, s2.epoch = s.epoch, s2.offset = s.offset, s2.state # "Subscribed", NEW st2
  PROVE  ClientOk(FALSE, <<>>, <<>>, NotHeld, st2, a2, s2, r)
<1>1. a.faults = {} /\ s.epoch = a.epoch /\ s.offset = a.offset
  BY DEF ClientOk
<1>2. Len(<<>>) = 0 /\ ~NotHeld.on
  BY DEF NotHeld
<1>3. InOrder(ClientView(s2, a2), TRUE, <<>>) /\ UpToDate(ClientView(s2, a2), TRUE, <<>>, NotHeld, st2) /\ Replies(<<>>, a2)
  BY EmptyWire
<1>4. Attempts(FALSE, <<>>, <<>>, NotHeld, s2, r)
  BY <1>2 DEF Attempts, Replied, Asks
<1> QED BY <1>1, <1>2, <1>3, <1>4 DEF ClientOk, AtRest

\* A new connection: the subscriptions in its result ...
LEMMA ClientComesBackSubscribed ==
  ASSUME NEW in, NEW out, NEW h, NEW st, NEW a \in AppStates, NEW s \in SubStates, NEW r,
         ClientOk(FALSE, in, out, h, st, a, s, r), ~r,
         NEW result \in SubscribeResults, Expected(a, result), result.epoch = st.epoch, result.offset = st.top,
         NEW both, both = Subscribed([sub |-> s, app |-> a], result)
  PROVE  ClientOk(TRUE, <<>>, <<>>, HeldAfter(result), st, both.app, both.sub, r)
<1>1. a.faults = {}
  BY DEF ClientOk
<1>2. /\ both.app.faults = a.faults
      /\ both.app.epoch = result.epoch /\ both.app.offset = result.offset
      /\ both.sub.epoch = result.epoch /\ both.sub.offset = result.offset
      /\ both.sub.state = "Subscribed" /\ both.sub.delta_negotiated = result.delta
      /\ result.delta /\ result.publications # <<>> => both.sub.prev_data = Payload(result.epoch, result.offset)
  BY ClientSubscribes
<1> DEFINE h2 == HeldAfter(result)
           v == ClientView(both.sub, both.app)
<1>3. /\ h2.on /\ h2.delta = result.delta
      /\ h2.base = (IF result.publications = <<>> THEN 0 ELSE result.offset)
  BY DEF HeldAfter, Holding
<1>4. /\ v.epoch = result.epoch /\ v.offset = result.offset /\ v.delta = result.delta
      /\ v.full = (both.sub.prev_data = Payload(both.app.epoch, both.app.offset))
  BY <1>2 DEF ClientView
<1>5. Len(<<>>) = 0
  OBVIOUS
<1> HIDE DEF h2, v
<1>6. UpToDate(v, TRUE, <<>>, h2, st)
  <2>1. h2.delta /\ h2.base > 0 => v.full /\ h2.base = v.offset
    <3>1. v.full <=> both.sub.prev_data = Payload(result.epoch, result.offset)
      BY <1>2, <1>4
    <3>2. h2.delta /\ h2.base > 0 => result.delta /\ result.publications # <<>> /\ h2.base = result.offset
      BY <1>3
    <3> QED BY <1>2, <1>4, <3>1, <3>2
  <2>2. ViewAt(v, <<>>, 0) = v /\ GoesOn(TRUE, <<>>, 0)
    BY DEF ViewAt, GoesOn
  <2> QED BY <1>3, <1>4, <1>5, <2>1, <2>2 DEF UpToDate
<1>7. InOrder(v, TRUE, <<>>) /\ Replies(<<>>, both.app)
  BY <1>5 DEF InOrder, Replies
<1>8. Attempts(TRUE, <<>>, <<>>, h2, both.sub, r)
  BY <1>2, <1>5 DEF Attempts, Replied, Asks
<1> QED BY <1>1, <1>2, <1>6, <1>7, <1>8 DEF ClientOk, AtRest, h2, v

\* ... and the others: Subscribe is on its way, if they are wanted.
LEMMA ClientComesBack ==
  ASSUME NEW in, NEW out, NEW h, NEW st, NEW a, NEW s, NEW r,
         ClientOk(FALSE, in, out, h, st, a, s, r), ~r,
         NEW out2,
         out2 = <<>> \/ \E c : out2 = <<c>> /\ c.at = Position(s) /\ s.state = "Subscribing"
  PROVE  ClientOk(TRUE, <<>>, out2, NotHeld, st, a, s, r)
<1>1. a.faults = {} /\ s.epoch = a.epoch /\ s.offset = a.offset
  BY DEF ClientOk
<1>2. Len(<<>>) = 0 /\ ~NotHeld.on
  BY DEF NotHeld
<1>3. InOrder(ClientView(s, a), TRUE, <<>>) /\ UpToDate(ClientView(s, a), TRUE, <<>>, NotHeld, st) /\ Replies(<<>>, a)
  BY EmptyWire
<1>4. Attempts(TRUE, <<>>, out2, NotHeld, s, r)
  <2>1. CASE out2 = <<>>
    BY <1>2, <2>1 DEF Attempts, Replied, Asks
  <2>2. ASSUME NEW c, out2 = <<c>>, c.at = Position(s), s.state = "Subscribing"
        PROVE  Attempts(TRUE, <<>>, out2, NotHeld, s, r)
    <3>1. \A k \in 1 .. Len(out2) : k = Len(out2) /\ out2[k] = c
      BY <2>2
    <3> QED BY <1>2, <2>2, <3>1 DEF Attempts, Replied
  <2> QED BY <2>1, <2>2
<1> QED BY <1>1, <1>2, <1>3, <1>4 DEF ClientOk, AtRest

-------------------------------------------------------------------------------
(* A channel of the server, step by step.                                     *)

\* Server's subscribe pushes find no subscription, and recover and negotiate nothing.
Announced(open, in) ==
  \A k \in 1 .. Len(in) : in[k].kind = "subscribe" =>
    ~GoesOn(open, in, k - 1) /\ ~in[k].result.recovered /\ ~in[k].result.delta

\* The first message is handled: what is announced after it.
LEMMA Rest ==
  ASSUME NEW in \in Seq(Message), in # <<>>, NEW open
  PROVE  /\ \A j \in 0 .. Len(Tail(in)) : GoesOn(Goes(Head(in)), Tail(in), j) = GoesOn(open, in, j + 1)
         /\ GoesOn(Goes(Head(in)), Tail(in), Len(Tail(in))) = GoesOn(open, in, Len(in))
         /\ Announced(open, in) => Announced(Goes(Head(in)), Tail(in))
<1> DEFINE t == Tail(in)
           more == Goes(Head(in))
<1>1. /\ Head(in) = in[1] /\ Len(in) \in Nat /\ Len(t) = Len(in) - 1 /\ Len(t) \in Nat /\ Len(in) # 0
      /\ \A k \in 1 .. Len(t) : k + 1 \in 1 .. Len(in) /\ t[k] = in[k + 1]
  BY FirstMessage
<1> HIDE DEF t
<1>2. ASSUME NEW j \in 0 .. Len(t)
      PROVE  GoesOn(more, t, j) = GoesOn(open, in, j + 1)
  <2>1. CASE j = 0
    BY <1>1, <2>1 DEF GoesOn
  <2>2. CASE j # 0
    <3>1. j \in 1 .. Len(t) /\ j + 1 # 0
      BY <2>2
    <3> QED BY <1>1, <2>2, <3>1 DEF GoesOn
  <2> QED BY <2>1, <2>2
<1>3. GoesOn(more, t, Len(t)) = GoesOn(open, in, Len(in))
  <2>1. Len(t) \in 0 .. Len(t) /\ Len(t) + 1 = Len(in)
    BY <1>1
  <2> QED BY <1>2, <2>1
<1>4. ASSUME Announced(open, in), NEW k \in 1 .. Len(t), t[k].kind = "subscribe"
      PROVE  ~GoesOn(more, t, k - 1) /\ ~t[k].result.recovered /\ ~t[k].result.delta
  <2>1. k + 1 \in 1 .. Len(in) /\ t[k] = in[k + 1] /\ (k + 1) - 1 = (k - 1) + 1 /\ k - 1 \in 0 .. Len(t)
    BY <1>1
  <2>2. ~GoesOn(open, in, (k + 1) - 1) /\ ~in[k + 1].result.recovered /\ ~in[k + 1].result.delta
    BY <1>4, <2>1 DEF Announced
  <2>3. GoesOn(more, t, k - 1) = GoesOn(open, in, (k - 1) + 1)
    BY <1>2, <2>1
  <2> QED BY <2>1, <2>2, <2>3
<1> QED BY <1>2, <1>3, <1>4 DEF Announced, t

\* A message joins the wire.
LEMMA AnnouncedAppend ==
  ASSUME NEW in \in Seq(Message), NEW m, NEW open, Announced(open, in),
         m.kind = "subscribe" => ~GoesOn(open, in, Len(in)) /\ ~m.result.recovered /\ ~m.result.delta
  PROVE  Announced(open, Append(in, m))
<1> DEFINE t == Append(in, m)
<1>1. /\ Len(t) = Len(in) + 1 /\ Len(in) \in Nat /\ t[Len(in) + 1] = m
      /\ \A k \in 1 .. Len(in) : t[k] = in[k]
  BY Appends
<1>2. ASSUME NEW k \in 1 .. Len(t)
      PROVE  GoesOn(open, t, k - 1) = GoesOn(open, in, k - 1)
  <2>1. k - 1 \in 0 .. Len(in)
    BY <1>1
  <2> QED BY <2>1, LastMessage
<1> HIDE DEF t
<1>3. ASSUME NEW k \in 1 .. Len(t), t[k].kind = "subscribe"
      PROVE  ~GoesOn(open, t, k - 1) /\ ~t[k].result.recovered /\ ~t[k].result.delta
  <2>1. CASE k \in 1 .. Len(in)
    BY <1>1, <1>2, <1>3, <2>1 DEF Announced
  <2>2. CASE k = Len(in) + 1
    <3>1. k - 1 = Len(in) /\ t[k] = m
      BY <1>1, <2>2
    <3> QED BY <1>2, <1>3, <3>1
  <2> QED BY <1>1, <2>1, <2>2
<1> QED BY <1>3 DEF Announced, t

\* A message is handled, and leaves the client where the message ends.
LEMMA ServerTakes ==
  ASSUME NEW in \in Seq(Message), in # <<>>, NEW h, NEW st, NEW a, NEW e, NEW a2, NEW e2,
         ServerOk(TRUE, in, h, st, a, e),
         a2.faults = {}, e2 # Unknown => e2.epoch = a2.epoch /\ e2.offset = a2.offset /\ e2.recoverable,
         e2 # Unknown <=> Goes(Head(in)),
         Goes(Head(in)) => Covers(ServerView(a2), ViewOf(Head(in)))
  PROVE  ServerOk(TRUE, Tail(in), h, st, a2, e2)
<1> DEFINE v == ServerView(a)
           w == ServerView(a2)
           open == e # Unknown
           more == e2 # Unknown
<1>1. /\ ~h.delta /\ InOrder(v, open, in) /\ UpToDate(v, open, in, h, st) /\ Announced(open, in)
      /\ h.on <=> GoesOn(open, in, Len(in))
  BY DEF ServerOk, Announced
<1>2. more = Goes(Head(in)) /\ open \in BOOLEAN /\ more \in BOOLEAN
  BY DEF Goes
<1>3. Goes(Head(in)) => more /\ Covers(w, ViewOf(Head(in)))
  BY <1>2
<1> HIDE DEF v, w, open, more
<1>4. InOrder(w, more, Tail(in)) /\ UpToDate(w, more, Tail(in), h, st)
  BY <1>1, <1>2, <1>3, InOrderTail, UpToDateTail
<1>5. Announced(more, Tail(in)) /\ (h.on <=> GoesOn(more, Tail(in), Len(Tail(in))))
  BY <1>1, <1>2, Rest
<1> QED BY <1>1, <1>4, <1>5 DEF ServerOk, AtRest, Announced, w, more

\* A publication is handled ...
LEMMA ServerSubTakesPublication ==
  ASSUME NEW in \in Seq(Message), in # <<>>, NEW h, NEW st, NEW a \in AppStates, NEW e \in Entries,
         ServerOk(TRUE, in, h, st, a, e), Head(in).kind = "publication",
         NEW both, both = ServerPublished([sub |-> e, app |-> a], Head(in).pub)
  PROVE  e # Unknown /\ ServerOk(TRUE, Tail(in), h, st, both.app, both.sub)
<1> DEFINE p == Head(in).pub
<1>1. /\ a.faults = {} /\ (e # Unknown => e.epoch = a.epoch /\ e.offset = a.offset /\ e.recoverable)
      /\ InOrder(ServerView(a), e # Unknown, in)
  BY DEF ServerOk
<1>2. Head(in) \in Message /\ Head(in) = in[1] /\ 1 \in 1 .. Len(in)
  BY FirstMessage
<1>3. p \in Publication
  BY <1>2 DEF Message
<1>4. e # Unknown /\ Follows(p, ServerView(a))
  <2>1. GoesOn(e # Unknown, in, 1 - 1) /\ Follows(in[1].pub, ViewAt(ServerView(a), in, 1 - 1))
    BY <1>1, <1>2 DEF InOrder
  <2> QED BY <1>2, <2>1 DEF GoesOn, ViewAt
<1>5. /\ both.sub = Moved(e, p.offset) /\ both.app = Moved(a, p.offset)
      /\ p.epoch = a.epoch /\ p.offset = a.offset + 1
  BY <1>3, <1>4, ServerSeesNext
<1>6. /\ both.sub.epoch = e.epoch /\ both.sub.offset = p.offset /\ both.sub.recoverable = e.recoverable
      /\ both.app.epoch = a.epoch /\ both.app.offset = p.offset /\ both.app.faults = a.faults
  BY <1>5 DEF Moved, Entries, AppStates
<1>7. both.sub # Unknown
  BY <1>1, <1>4, <1>6 DEF Unknown
<1>8. Goes(Head(in))
  BY DEF Goes
<1>9. Covers(ServerView(both.app), ViewOf(Head(in)))
  <2>1. ViewOf(Head(in)) = [epoch |-> p.epoch, offset |-> p.offset, delta |-> p.negotiated, full |-> p.negotiated]
    BY DEF ViewOf
  <2>2. p.negotiated = FALSE
    BY <1>4 DEF Follows, ServerView
  <2> HIDE DEF p
  <2> QED BY <1>5, <1>6, <2>1, <2>2 DEF Covers, ServerView
<1>10. ServerOk(TRUE, Tail(in), h, st, both.app, both.sub)
  BY <1>1, <1>4, <1>6, <1>7, <1>8, <1>9, ServerTakes
<1> QED BY <1>4, <1>10

\* ... an unsubscribe push ...
LEMMA ServerSubTakesUnsubscribe ==
  ASSUME NEW in \in Seq(Message), in # <<>>, NEW h, NEW st, NEW a, NEW e,
         ServerOk(TRUE, in, h, st, a, e), Head(in).kind = "unsubscribe",
         NEW a2, a2.faults = a.faults
  PROVE  ServerOk(TRUE, Tail(in), h, st, a2, Unknown)
<1>1. ~Goes(Head(in)) /\ a2.faults = {}
  BY DEF Goes, ServerOk
<1> QED BY <1>1, ServerTakes

\* ... and a subscribe push.
LEMMA ServerSubTakesSubscribe ==
  ASSUME NEW in \in Seq(Message), in # <<>>, NEW h, NEW st, NEW a \in AppStates, NEW e,
         ServerOk(TRUE, in, h, st, a, e), Head(in).kind = "subscribe",
         NEW a2, a2.faults = a.faults, a2.epoch = Head(in).result.epoch, a2.offset = Head(in).result.offset
  PROVE  ServerOk(TRUE, Tail(in), h, st, a2, Entry(Head(in).result))
<1> DEFINE r == Head(in).result
           e2 == Entry(r)
<1>1. Head(in) \in Message /\ Head(in) = in[1] /\ 1 \in 1 .. Len(in)
  BY FirstMessage
<1>2. r \in SubscribeResults
  BY <1>1 DEF Message
<1>3. r.delta = FALSE
  <2>1. ~r.delta
    BY <1>1 DEF ServerOk
  <2> QED BY <1>2, <2>1, ResultFields
<1>4. e2.epoch = r.epoch /\ e2.offset = r.offset /\ e2.recoverable /\ e2 # Unknown
  BY <1>2, ResultFields DEF Entry, Unknown
<1>5. Goes(Head(in)) /\ a2.faults = {}
  BY DEF Goes, ServerOk
<1>6. Covers(ServerView(a2), ViewOf(Head(in)))
  <2>1. ViewOf(Head(in)) = [epoch |-> r.epoch, offset |-> r.offset, delta |-> r.delta,
                            full |-> r.delta /\ r.publications # <<>>]
    BY DEF ViewOf
  <2> HIDE DEF r
  <2> QED BY <1>3, <2>1 DEF Covers, ServerView, r
<1> QED BY <1>4, <1>5, <1>6, ServerTakes

\* Somebody publishes.
LEMMA ServerSubIsSentPublication ==
  ASSUME NEW in \in Seq(Message), NEW h \in Holdings, NEW st \in StreamStates, NEW a, NEW e,
         ServerOk(TRUE, in, h, st, a, e), h.on,
         NEW delta \in BOOLEAN, delta => h.delta /\ h.base > 0,
         NEW m, m.kind = "publication", m.pub = Pub(st.epoch, st.top + 1, h.base, delta, h.delta),
         NEW h2 \in Holdings, h2 = [h EXCEPT !.base = IF h.delta THEN st.top + 1 ELSE 0],
         NEW st2, st2.epoch = st.epoch, st2.top = st.top + 1
  PROVE  ServerOk(TRUE, Append(in, m), h2, st2, a, e)
<1> DEFINE v == ServerView(a)
           w == ViewAt(v, in, Len(in))
           x == ViewOf(m)
           t == Append(in, m)
           open == e # Unknown
<1>1. /\ a.faults = {} /\ (e # Unknown => e.epoch = a.epoch /\ e.offset = a.offset /\ e.recoverable)
      /\ ~h.delta /\ InOrder(v, open, in) /\ UpToDate(v, open, in, h, st) /\ Announced(open, in)
      /\ h.on <=> GoesOn(open, in, Len(in))
  BY DEF ServerOk, Announced
<1>2. /\ GoesOn(open, in, Len(in))
      /\ w.epoch = st.epoch /\ w.offset = st.top /\ w.delta = h.delta
  BY <1>1 DEF UpToDate
<1>3. h.delta = FALSE /\ delta = FALSE
  BY <1>1 DEF Holdings
<1>4. /\ m.pub.epoch = st.epoch /\ m.pub.offset = st.top + 1 /\ m.pub.delta = FALSE /\ m.pub.negotiated = FALSE
  BY <1>3 DEF Pub
<1>5. h2.on = h.on /\ h2.delta = FALSE /\ h2.base = 0
  BY <1>3 DEF Holdings
<1>6. x.epoch = st.epoch /\ x.offset = st.top + 1 /\ x.delta = FALSE
  <2>1. x = [epoch |-> m.pub.epoch, offset |-> m.pub.offset, delta |-> m.pub.negotiated, full |-> m.pub.negotiated]
    BY DEF ViewOf
  <2> QED BY <1>4, <2>1
<1>7. Goes(m)
  BY DEF Goes
<1>8. open \in BOOLEAN
  OBVIOUS
<1> HIDE DEF w, v, x, open
<1>9. Follows(m.pub, w)
  BY <1>2, <1>3, <1>4 DEF Follows
<1>10. InOrder(v, open, t)
  BY <1>1, <1>2, <1>8, <1>9, InOrderAppend DEF w
<1>11. GoesOn(open, t, Len(t)) = Goes(m) /\ ViewAt(v, t, Len(t)) = x
  BY LastMessage DEF x
<1>12. Announced(open, t)
  BY <1>1, AnnouncedAppend
<1> HIDE DEF t
<1>13. UpToDate(v, open, t, h2, st2)
  BY <1>5, <1>6, <1>7, <1>11 DEF UpToDate
<1>14. h2.on <=> GoesOn(open, t, Len(t))
  BY <1>5, <1>7, <1>11
<1> QED BY <1>1, <1>5, <1>10, <1>12, <1>13, <1>14 DEF ServerOk, AtRest, Announced, v, t, open

\* The server ends the subscription ...
LEMMA ServerSubIsUnsubscribed ==
  ASSUME NEW in \in Seq(Message), NEW h, NEW st, NEW a, NEW e,
         ServerOk(TRUE, in, h, st, a, e), h.on, NEW m, m.kind = "unsubscribe"
  PROVE  ServerOk(TRUE, Append(in, m), NotHeld, st, a, e)
<1> DEFINE v == ServerView(a)
           t == Append(in, m)
           open == e # Unknown
<1>1. /\ a.faults = {} /\ (e # Unknown => e.epoch = a.epoch /\ e.offset = a.offset /\ e.recoverable)
      /\ InOrder(v, open, in) /\ UpToDate(v, open, in, h, st) /\ Announced(open, in)
      /\ h.on <=> GoesOn(open, in, Len(in))
  BY DEF ServerOk, Announced
<1>2. ~NotHeld.on /\ ~NotHeld.delta
  BY DEF NotHeld
<1>3. open \in BOOLEAN /\ ~Goes(m)
  BY DEF Goes
<1> HIDE DEF v, open
<1>4. InOrder(v, open, t)
  BY <1>1, <1>3, InOrderAppend
<1>5. Announced(open, t)
  BY <1>1, AnnouncedAppend
<1>6. ~GoesOn(open, t, Len(t))
  BY <1>3, LastMessage
<1> HIDE DEF t
<1>7. UpToDate(v, open, t, NotHeld, st)
  BY EmptyWire
<1> QED BY <1>1, <1>2, <1>4, <1>5, <1>6, <1>7 DEF ServerOk, AtRest, Announced, v, t, open

\* ... or begins one.
LEMMA ServerSubIsSubscribed ==
  ASSUME NEW in \in Seq(Message), NEW h, NEW st, NEW a, NEW e,
         ServerOk(TRUE, in, h, st, a, e), ~h.on,
         NEW m, m.kind = "subscribe", m.result.epoch = st.epoch, m.result.offset = st.top,
         m.result.recovered = FALSE, m.result.delta = FALSE
  PROVE  ServerOk(TRUE, Append(in, m), Holding(FALSE, 0), st, a, e)
<1> DEFINE v == ServerView(a)
           t == Append(in, m)
           open == e # Unknown
           x == ViewOf(m)
           h2 == Holding(FALSE, 0)
<1>1. /\ a.faults = {} /\ (e # Unknown => e.epoch = a.epoch /\ e.offset = a.offset /\ e.recoverable)
      /\ InOrder(v, open, in) /\ Announced(open, in) /\ ~GoesOn(open, in, Len(in))
  BY DEF ServerOk, Announced
<1>2. h2.on /\ h2.delta = FALSE
  BY DEF Holding
<1>3. open \in BOOLEAN /\ Goes(m)
  BY DEF Goes
<1>4. x.epoch = st.epoch /\ x.offset = st.top /\ x.delta = FALSE
  <2>1. x = [epoch |-> m.result.epoch, offset |-> m.result.offset, delta |-> m.result.delta,
             full |-> m.result.delta /\ m.result.publications # <<>>]
    BY DEF ViewOf
  <2> QED BY <2>1
<1> HIDE DEF v, open, x, h2
<1>5. InOrder(v, open, t)
  BY <1>1, <1>3, InOrderAppend
<1>6. Announced(open, t)
  BY <1>1, AnnouncedAppend
<1>7. GoesOn(open, t, Len(t)) = Goes(m) /\ ViewAt(v, t, Len(t)) = x
  BY LastMessage DEF x
<1> HIDE DEF t
<1>8. UpToDate(v, open, t, h2, st)
  BY <1>2, <1>3, <1>4, <1>7 DEF UpToDate
<1> QED BY <1>1, <1>2, <1>3, <1>5, <1>6, <1>7, <1>8 DEF ServerOk, AtRest, Announced, v, t, open, h2

\* The channel's stream goes on, or restarts, without a subscription.
LEMMA ServerSubUnheardOf ==
  ASSUME NEW up, NEW in, NEW h, NEW st, NEW a, NEW e, ServerOk(up, in, h, st, a, e), ~h.on, NEW st2
  PROVE  ServerOk(up, in, h, st2, a, e)
BY DEF ServerOk, UpToDate

\* The wire is gone; what was registered stays, or goes too.
LEMMA ServerSubAlone ==
  ASSUME NEW up, NEW in, NEW h, NEW st, NEW a, NEW e, ServerOk(up, in, h, st, a, e),
         NEW a2, a2.faults = a.faults, a2.epoch = a.epoch, a2.offset = a.offset,
         NEW e2, e2 = e \/ e2 = Unknown, NEW st2
  PROVE  ServerOk(FALSE, <<>>, NotHeld, st2, a2, e2)
<1>1. a.faults = {} /\ (e # Unknown => e.epoch = a.epoch /\ e.offset = a.offset /\ e.recoverable)
  BY DEF ServerOk
<1>2. ~NotHeld.on /\ ~NotHeld.delta
  BY DEF NotHeld
<1>3. 1 .. Len(<<>>) = {}
  OBVIOUS
<1> QED BY <1>1, <1>2, <1>3, EmptyWire DEF ServerOk, AtRest

\* A new connection: the server-side subscriptions of its result ...
LEMMA ServerSubComesBack ==
  ASSUME NEW a \in AppStates, NEW e, NEW st, a.faults = {},
         NEW result \in SubscribeResults, Expected(a, result), result.epoch = st.epoch, result.offset = st.top,
         result.delta = FALSE,
         NEW both, both = ServerSubscribed([sub |-> e, app |-> a], result)
  PROVE  ServerOk(TRUE, <<>>, HeldAfter(result), st, both.app, both.sub)
<1> DEFINE h2 == HeldAfter(result)
           v == ServerView(both.app)
<1>1. /\ both.app.faults = a.faults
      /\ both.app.epoch = result.epoch /\ both.app.offset = result.offset
      /\ both.sub.epoch = result.epoch /\ both.sub.offset = result.offset /\ both.sub.recoverable
  BY ServerSubscribesAll
<1>2. both.sub # Unknown
  BY <1>1 DEF Unknown
<1>3. h2.on /\ h2.delta = FALSE
  BY DEF HeldAfter, Holding
<1>4. v.epoch = result.epoch /\ v.offset = result.offset /\ v.delta = FALSE
  BY <1>1 DEF ServerView
<1>5. Len(<<>>) = 0 /\ 1 .. Len(<<>>) = {}
  OBVIOUS
<1> HIDE DEF h2, v
<1>6. ViewAt(v, <<>>, 0) = v /\ GoesOn(both.sub # Unknown, <<>>, 0)
  BY <1>2 DEF ViewAt, GoesOn
<1>7. UpToDate(v, both.sub # Unknown, <<>>, h2, st)
  BY <1>3, <1>4, <1>5, <1>6 DEF UpToDate
<1>8. InOrder(v, both.sub # Unknown, <<>>)
  BY EmptyWire
<1> QED BY <1>1, <1>2, <1>3, <1>5, <1>6, <1>7, <1>8 DEF ServerOk, AtRest, h2, v

\* ... and those that are gone.
LEMMA ServerSubGone ==
  ASSUME NEW a, a.faults = {}, NEW st
  PROVE  ServerOk(TRUE, <<>>, NotHeld, st, a, Unknown)
<1>1. ~NotHeld.on /\ ~NotHeld.delta
  BY DEF NotHeld
<1>2. Len(<<>>) = 0 /\ 1 .. Len(<<>>) = {}
  OBVIOUS
<1>3. ~GoesOn(FALSE, <<>>, 0) /\ (Unknown # Unknown) = FALSE
  BY DEF GoesOn
<1> QED BY <1>1, <1>2, <1>3, EmptyWire DEF ServerOk, AtRest

-------------------------------------------------------------------------------
(* A channel in a step of the system.                                         *)

\* The channel in the next state.
LEMMA NextChannelOk ==
  ASSUME NEW c \in Channels
  PROVE  ChannelOk(c)' <=>
           IF c \in ClientChannels
           THEN ClientOk(conn' = "up", Of(c, inbox'), Of(c, outbox'), held'[c], stream'[c], app'[c], sub'[c], resub'[c])
           ELSE ServerOk(conn' = "up", Of(c, inbox'), held'[c], stream'[c], app'[c], server_subs'[c])
BY DEF ChannelOk

\* The types of what concerns a channel.
LEMMA ChannelTypes ==
  ASSUME TypeInv, NEW c \in Channels
  PROVE  /\ Of(c, inbox) \in Seq(Message) /\ Of(c, outbox) \in Seq(Commands)
         /\ c \in ClientChannels => Of(c, inbox) \in Seq(ClientMessage)
         /\ held[c] \in Holdings /\ stream[c] \in StreamStates /\ app[c] \in AppStates
         /\ c \in ClientChannels => sub[c] \in SubStates /\ resub[c] \in BOOLEAN /\ c \notin ServerChannels
         /\ c \notin ClientChannels => c \in ServerChannels /\ server_subs[c] \in Entries
<1>1. inbox \in Seq(Message) /\ outbox \in Seq(Commands)
  BY DEF TypeInv
<1>2. Of(c, inbox) \in Seq({m \in Message : m.ch = c}) /\ Of(c, outbox) \in Seq({m \in Commands : m.ch = c})
  BY <1>1, OfType
<1>3. \A S, T : S \subseteq T => Seq(S) \subseteq Seq(T)
  OBVIOUS
<1>4. /\ {m \in Message : m.ch = c} \subseteq Message /\ {m \in Commands : m.ch = c} \subseteq Commands
      /\ c \in ClientChannels => {m \in Message : m.ch = c} \subseteq ClientMessage
  BY DEF ClientMessage
<1>5. /\ Of(c, inbox) \in Seq(Message) /\ Of(c, outbox) \in Seq(Commands)
      /\ c \in ClientChannels => Of(c, inbox) \in Seq(ClientMessage)
  BY <1>2, <1>3, <1>4
<1>6. held[c] \in Holdings /\ stream[c] \in StreamStates /\ app[c] \in AppStates
  BY DEF TypeInv, Holdings, StreamStates
<1>7. c \in ClientChannels => sub[c] \in SubStates /\ resub[c] \in BOOLEAN /\ c \notin ServerChannels
  BY Constants DEF TypeInv
<1>8. c \notin ClientChannels => c \in ServerChannels /\ server_subs[c] \in Entries
  BY DEF TypeInv, Channels
<1> QED BY <1>5, <1>6, <1>7, <1>8

\* What does not concern a channel leaves it alone.
LEMMA Unaffected ==
  ASSUME NEW c \in Channels, ChannelOk(c), conn' = "up" <=> conn = "up",
         Of(c, inbox') = Of(c, inbox), Of(c, outbox') = Of(c, outbox),
         held'[c] = held[c], stream'[c] = stream[c], app'[c] = app[c],
         c \in ClientChannels => sub'[c] = sub[c] /\ resub'[c] = resub[c],
         c \notin ClientChannels => server_subs'[c] = server_subs[c]
  PROVE  ChannelOk(c)'
<1>1. (conn' = "up") = (conn = "up")
  OBVIOUS
<1> DEFINE up == conn = "up"
           up2 == conn' = "up"
<1>2. up2 = up
  BY <1>1
<1>3. CASE c \in ClientChannels
  <2>1. ClientOk(up, Of(c, inbox), Of(c, outbox), held[c], stream[c], app[c], sub[c], resub[c])
    BY <1>3 DEF ChannelOk
  <2>2. ClientOk(up2, Of(c, inbox'), Of(c, outbox'), held'[c], stream'[c], app'[c], sub'[c], resub'[c])
    <3> HIDE DEF up, up2
    <3> QED BY <1>2, <1>3, <2>1
  <2> QED BY <1>3, <2>2, NextChannelOk
<1>4. CASE c \notin ClientChannels
  <2>1. ServerOk(up, Of(c, inbox), held[c], stream[c], app[c], server_subs[c])
    BY <1>4 DEF ChannelOk
  <2>2. ServerOk(up2, Of(c, inbox'), held'[c], stream'[c], app'[c], server_subs'[c])
    <3> HIDE DEF up, up2
    <3> QED BY <1>2, <1>4, <2>1
  <2> QED BY <1>4, <2>2, NextChannelOk
<1> QED BY <1>3, <1>4

\* A message is handled.
LEMMA FrameStep ==
  ASSUME TypeInv, HandleFrame, NEW c \in Channels, ChannelOk(c)
  PROVE  ChannelOk(c)'
<1> DEFINE m  == Head(inbox)
           in == Of(c, inbox)
           t  == Of(c, inbox')
           out == Of(c, outbox)
<1>1. /\ conn = "up" /\ conn' = "up" /\ inbox # <<>> /\ inbox' = Tail(inbox)
      /\ UNCHANGED <<outbox, stream, held>>
  BY DEF HandleFrame, serverVars
<1>2. m \in Message /\ inbox \in Seq(Message)
  BY <1>1 DEF TypeInv
<1>3. m.ch \in Channels /\ m.kind \in {"publication", "unsubscribe", "subscribe", "subscribed"}
      /\ (m.kind = "subscribe" => m.ch \in ServerChannels) /\ (m.kind = "subscribed" => m.ch \in ClientChannels)
  BY <1>2 DEF Message, Channels
<1>4. /\ sub \in [ClientChannels -> SubStates] /\ resub \in [ClientChannels -> BOOLEAN]
      /\ server_subs \in [ServerChannels -> Entries] /\ app \in [Channels -> AppStates]
  BY DEF TypeInv
<1>5. /\ m.kind = "subscribed"  => HandleSubscribeReply(m)
      /\ m.kind = "publication" => HandlePublication(m)
      /\ m.kind = "unsubscribe" => HandleServerUnsubscribe(m)
      /\ m.kind = "subscribe"   => HandleServerSubscribe(m)
  BY DEF HandleFrame
<1>6. IF m.ch = c THEN in # <<>> /\ Head(in) = m /\ Tail(in) = t ELSE t = in
  BY <1>1, <1>2, OfTail
<1>t. /\ in \in Seq(Message) /\ out \in Seq(Commands)
      /\ c \in ClientChannels => in \in Seq(ClientMessage)
      /\ held[c] \in Holdings /\ stream[c] \in StreamStates /\ app[c] \in AppStates
      /\ c \in ClientChannels => sub[c] \in SubStates /\ resub[c] \in BOOLEAN /\ c \notin ServerChannels
      /\ c \notin ClientChannels => c \in ServerChannels /\ server_subs[c] \in Entries
  BY ChannelTypes
<1> HIDE DEF m, in, t, out
<1>7. CASE m.ch # c
  <2>1. CASE m.kind = "subscribed"
    BY <1>1, <1>3, <1>4, <1>5, <1>6, <1>7, <1>t, <2>1, Unaffected DEF HandleSubscribeReply, HandleSubscribeError, in, t
  <2>2. CASE m.kind = "publication"
    BY <1>1, <1>3, <1>4, <1>5, <1>6, <1>7, <1>t, <2>2, Unaffected DEF HandlePublication, clientVars, in, t
  <2>3. CASE m.kind = "unsubscribe"
    BY <1>1, <1>3, <1>4, <1>5, <1>6, <1>7, <1>t, <2>3, Unaffected DEF HandleServerUnsubscribe, in, t
  <2>4. CASE m.kind = "subscribe"
    BY <1>1, <1>3, <1>4, <1>5, <1>6, <1>7, <1>t, <2>4, Unaffected DEF HandleServerSubscribe, in, t
  <2> QED BY <1>3, <2>1, <2>2, <2>3, <2>4
<1>8. CASE m.ch = c /\ c \in ClientChannels
  <2>1. ClientOk(TRUE, in, out, held[c], stream[c], app[c], sub[c], resub[c])
    BY <1>1, <1>8 DEF ChannelOk, in, out
  <2>2. SUFFICES ClientOk(TRUE, Tail(in), out, held[c], stream[c], app'[c], sub'[c], resub'[c])
    BY <1>1, <1>6, <1>8, NextChannelOk DEF t, out
  <2>3. in # <<>> /\ Head(in) = m
    BY <1>6, <1>8
  <2>4. CASE m.kind = "publication"
    <3> DEFINE both == Published([sub |-> sub[c], app |-> app[c]], m.pub)
    <3>1. sub'[c] = both.sub /\ app'[c] = both.app /\ resub'[c] = resub[c]
      BY <1>4, <1>5, <1>8, <2>4 DEF HandlePublication
    <3> HIDE DEF both
    <3>2. ClientOk(TRUE, Tail(in), out, held[c], stream[c], both.app, both.sub, resub[c])
      BY <1>8, <1>t, <2>1, <2>3, <2>4, ClientTakesPublication DEF both
    <3> QED BY <3>1, <3>2
  <2>5. CASE m.kind = "unsubscribe"
    <3>1. /\ app'[c] = app[c]
          /\ \/ sub'[c] = [sub[c] EXCEPT !.state = "Subscribing"] /\ resub'[c] = TRUE
             \/ sub'[c] = [sub[c] EXCEPT !.state = "Unsubscribed"] /\ resub'[c] = resub[c]
      BY <1>4, <1>5, <1>8, <2>5 DEF HandleServerUnsubscribe
    <3>2. ClientOk(TRUE, Tail(in), out, held[c], stream[c], app[c], sub'[c], resub'[c])
      BY <1>8, <1>t, <2>1, <2>3, <2>5, <3>1, ClientTakesUnsubscribe
    <3> QED BY <3>1, <3>2
  <2>6. CASE m.kind = "subscribed" /\ m.code = 0
    <3> DEFINE both == Subscribed([sub |-> sub[c], app |-> app[c]], m.result)
    <3>1. sub'[c] = both.sub /\ app'[c] = both.app /\ resub'[c] = resub[c]
      BY <1>4, <1>5, <1>8, <1>t, <2>6 DEF HandleSubscribeReply
    <3> HIDE DEF both
    <3>2. ClientOk(TRUE, Tail(in), out, held[c], stream[c], both.app, both.sub, resub[c])
      BY <1>8, <1>t, <2>1, <2>3, <2>6, ClientTakesResult DEF both
    <3> QED BY <3>1, <3>2
  <2>7. CASE m.kind = "subscribed" /\ m.code # 0
    <3>1. m.code # ALREADY_SUBSCRIBED
      <4>1. 1 \in 1 .. Len(in) /\ m = in[1]
        BY <1>t, <2>3, FirstMessage
      <4> QED BY <2>1, <2>7, <4>1 DEF ClientOk, Replies
    <3>2. /\ app'[c] = app[c]
          /\ \/ sub'[c] = sub[c] /\ resub'[c] = TRUE
             \/ sub'[c] = [sub[c] EXCEPT !.state = "Unsubscribed"] /\ resub'[c] = resub[c]
      BY <1>4, <1>5, <1>8, <2>7, <3>1 DEF HandleSubscribeReply, HandleSubscribeError
    <3>3. ClientOk(TRUE, Tail(in), out, held[c], stream[c], app[c], sub'[c], resub'[c])
      BY <1>8, <1>t, <2>1, <2>3, <2>7, <3>2, ClientTakesError
    <3> QED BY <3>2, <3>3
  <2> QED BY <1>3, <1>8, <1>t, <2>4, <2>5, <2>6, <2>7
<1>9. CASE m.ch = c /\ c \notin ClientChannels
  <2>1. ServerOk(TRUE, in, held[c], stream[c], app[c], server_subs[c])
    BY <1>1, <1>9 DEF ChannelOk, in
  <2>2. SUFFICES ServerOk(TRUE, Tail(in), held[c], stream[c], app'[c], server_subs'[c])
    BY <1>1, <1>6, <1>9, NextChannelOk DEF t
  <2>3. in # <<>> /\ Head(in) = m
    BY <1>6, <1>9
  <2>4. CASE m.kind = "publication"
    <3> DEFINE both == ServerPublished([sub |-> server_subs[c], app |-> app[c]], m.pub)
    <3> HIDE DEF both
    <3>1. server_subs[c] # Unknown /\ ServerOk(TRUE, Tail(in), held[c], stream[c], both.app, both.sub)
      BY <1>9, <1>t, <2>1, <2>3, <2>4, ServerSubTakesPublication DEF both
    <3>2. server_subs'[c] = both.sub /\ app'[c] = both.app
      BY <1>4, <1>5, <1>9, <1>t, <2>4, <3>1 DEF HandlePublication, Known, both
    <3> QED BY <3>1, <3>2
  <2>5. CASE m.kind = "unsubscribe"
    <3>1. /\ server_subs'[c] = Unknown
          /\ app'[c] = [app[c] EXCEPT !.status = "unsubscribed"] \/ app'[c] = app[c]
      BY <1>4, <1>5, <1>9, <1>t, <2>5 DEF HandleServerUnsubscribe
    <3>2. app'[c].faults = app[c].faults
      BY <1>t, <3>1 DEF AppStates
    <3>3. ServerOk(TRUE, Tail(in), held[c], stream[c], app'[c], Unknown)
      BY <1>t, <2>1, <2>3, <2>5, <3>2, ServerSubTakesUnsubscribe
    <3> QED BY <3>1, <3>3
  <2>6. CASE m.kind = "subscribe"
    <3> DEFINE r == [m.result EXCEPT !.recovered = FALSE]
    <3>1. m.result \in SubscribeResults
      BY <1>2, <2>6 DEF Message
    <3>2. Placed(r) /\ ~r.recovered /\ r.epoch = m.result.epoch /\ r.offset = m.result.offset
      BY <3>1 DEF SubscribeResults, Placed
    <3>3. /\ server_subs'[c] = Entry(m.result)
          /\ app'[c] = [SeesSubscribed(app[c], r) EXCEPT !.status = "subscribed"]
      BY <1>4, <1>5, <1>9, <1>t, <2>6 DEF HandleServerSubscribe
    <3> HIDE DEF r
    <3>4. /\ app'[c].faults = app[c].faults
          /\ app'[c].epoch = m.result.epoch /\ app'[c].offset = m.result.offset
      BY <1>t, <3>2, <3>3 DEF SeesSubscribed, AppStates
    <3>5. ServerOk(TRUE, Tail(in), held[c], stream[c], app'[c], Entry(m.result))
      BY <1>t, <2>1, <2>3, <2>6, <3>4, ServerSubTakesSubscribe
    <3> QED BY <3>3, <3>5
  <2>7. m.kind # "subscribed"
    BY <1>3, <1>9
  <2> QED BY <1>3, <2>4, <2>5, <2>6, <2>7
<1> QED BY <1>7, <1>8, <1>9

\* The server's answer is expected by whoever asks from where it is, or from nowhere.
LEMMA AnswerExpected ==
  ASSUME TypeInv, NEW c \in Channels, NEW at \in Positions, NEW delta \in BOOLEAN, NEW a,
         at.recover => at.epoch = a.epoch /\ at.offset = a.offset
  PROVE  LET r == Answer(c, at, delta) IN
         /\ r \in SubscribeResults /\ Expected(a, r)
         /\ r.epoch = stream[c].epoch /\ r.offset = stream[c].top /\ r.delta = delta
         /\ ~at.recover => r.recovered = FALSE
<1> DEFINE r == Answer(c, at, delta)
<1>1. stream[c] \in [epoch : 1 .. Epochs, top : 0 .. MaxPubs]
  BY DEF TypeInv
<1>2. /\ r \in SubscribeResults
      /\ r.epoch = stream[c].epoch /\ r.offset = stream[c].top /\ r.delta = delta
      /\ r.recovered => r.epoch = at.epoch /\ r.offset = at.offset + Len(r.publications)
      /\ r.recovered => \A k \in 1 .. Len(r.publications) :
           r.publications[k] =
             Pub(r.epoch, at.offset + k, at.offset + k - 1, delta /\ k > 1, delta)
      /\ ~r.recovered => r.publications = <<>>
      /\ r.recovered <=> Recoverable(c, at)
  BY <1>1, Answers
<1> HIDE DEF r
<1>3. r.recovered => at.recover
  BY <1>2 DEF Recoverable
<1>4. r # NoResult
  <2>1. r.epoch # NoEpoch
    BY <1>2, ResultFields DEF NoEpoch
  <2> QED BY <2>1 DEF NoResult
<1>5. Expected(a, r)
  BY <1>2, <1>3, <1>4 DEF Expected
<1>6. ~at.recover => r.recovered = FALSE
  BY <1>2, <1>3, ResultFields
<1> QED BY <1>2, <1>5, <1>6 DEF r

\* The server reads a command.
LEMMA ServerStep ==
  ASSUME TypeInv, ServerHandles, NEW c \in Channels, ChannelOk(c)
  PROVE  ChannelOk(c)'
<1> DEFINE cmd == Head(outbox)
           in  == Of(c, inbox)
           out == Of(c, outbox)
<1>1. /\ conn = "up" /\ conn' = "up" /\ outbox # <<>> /\ outbox' = Tail(outbox)
      /\ UNCHANGED <<sub, resub, server_subs, app, stream>>
  BY DEF ServerHandles, clientVars
<1>2. cmd \in Commands /\ outbox \in Seq(Commands) /\ inbox \in Seq(Message) /\ cmd.ch \in ClientChannels
  BY <1>1 DEF TypeInv, Commands
<1>3. cmd.kind \in {"subscribe", "unsubscribe"} /\ (cmd.kind = "subscribe" => cmd.at \in Positions)
  BY <1>2 DEF Commands
<1>4. IF cmd.ch = c THEN out # <<>> /\ Head(out) = cmd /\ Tail(out) = Of(c, outbox') ELSE Of(c, outbox') = out
  BY <1>1, <1>2, OfTail
<1>t. /\ in \in Seq(Message) /\ out \in Seq(Commands)
      /\ held[c] \in Holdings /\ stream[c] \in StreamStates /\ app[c] \in AppStates
      /\ c \in ClientChannels => sub[c] \in SubStates /\ resub[c] \in BOOLEAN /\ c \notin ServerChannels
  BY ChannelTypes
<1> DEFINE reply(code, temporary, result) ==
        [kind |-> "subscribed", ch |-> cmd.ch, code |-> code, temporary |-> temporary, result |-> result]
<1>5. /\ held' = [held EXCEPT ![cmd.ch] = held'[cmd.ch]]
      /\ \/ /\ cmd.kind = "unsubscribe" /\ held'[cmd.ch] = NotHeld /\ UNCHANGED inbox
         \/ /\ cmd.kind = "subscribe" /\ held[cmd.ch].on
         \/ /\ cmd.kind = "subscribe" /\ ~held[cmd.ch].on
            /\ \E e \in Refusals : inbox' = Append(inbox, reply(e.code, e.temporary, NoResult))
            /\ held'[cmd.ch] = held[cmd.ch]
         \/ /\ cmd.kind = "subscribe" /\ ~held[cmd.ch].on
            /\ \E delta \in {FALSE, WantsDelta} :
                 /\ inbox' = Append(inbox, reply(0, FALSE, Answer(cmd.ch, cmd.at, delta)))
                 /\ held'[cmd.ch] = HeldAfter(Answer(cmd.ch, cmd.at, delta))
  <2>1. held \in [Channels -> Holdings] /\ cmd.ch \in Channels
    BY <1>2 DEF TypeInv, Holdings, Channels
  <2> QED BY <2>1 DEF ServerHandles, ServerAccepts, ServerRefuses, Reply, Says
<1>6. CASE cmd.ch # c
  <2>1. held'[c] = held[c]
    <3>1. held \in [Channels -> Holdings]
      BY DEF TypeInv, Holdings
    <3> QED BY <1>5, <1>6, <3>1
  <2>2. Of(c, inbox') = in
    <3>1. \/ UNCHANGED inbox
          \/ \E code, temporary, result : inbox' = Append(inbox, reply(code, temporary, result))
      BY DEF ServerHandles, ServerAccepts, ServerRefuses, Reply, Says
    <3>2. ASSUME NEW code, NEW temporary, NEW result, inbox' = Append(inbox, reply(code, temporary, result))
          PROVE  Of(c, inbox') = in
      <4>1. reply(code, temporary, result).ch # c
        BY <1>6
      <4> HIDE DEF reply
      <4> QED BY <1>2, <3>2, <4>1, OfAppend
    <3> QED BY <3>1, <3>2
  <2> QED BY <1>1, <1>4, <1>6, <2>1, <2>2, Unaffected
<1>7. CASE cmd.ch = c
  <2>1. ClientOk(TRUE, in, out, held[c], stream[c], app[c], sub[c], resub[c]) /\ c \in ClientChannels
    BY <1>1, <1>2, <1>7 DEF ChannelOk
  <2>2. SUFFICES ClientOk(TRUE, Of(c, inbox'), Tail(out), held'[c], stream[c], app[c], sub[c], resub[c])
    BY <1>1, <1>4, <1>7, <2>1, NextChannelOk
  <2>3. out # <<>> /\ Head(out) = cmd
    BY <1>4, <1>7
  <2> HIDE DEF in, out, cmd
  <2>4. CASE cmd.kind = "unsubscribe" /\ held'[c] = NotHeld /\ UNCHANGED inbox
    <3>1. ClientOk(TRUE, in, Tail(out), NotHeld, stream[c], app[c], sub[c], resub[c])
      BY <1>t, <2>1, <2>3, <2>4, ServerTakesUnsubscribe
    <3> QED BY <2>4, <3>1 DEF in
  <2>5. CASE cmd.kind = "subscribe"
    <3>1. ~held[c].on /\ cmd.at = Position(sub[c])
      <4>1. Head(out).kind = "subscribe" /\ out # <<>> /\ out \in Seq(Commands)
        BY <1>t, <2>3, <2>5
      <4>2. ~held[c].on /\ Tail(out) = <<>>
        BY <2>1, <4>1, AskedAlone
      <4>3. Head(out) = out[1] /\ 1 \in 1 .. Len(out)
        BY <4>1, FirstMessage
      <4>4. out[1].at = Position(sub[c])
        BY <2>1, <4>1, <4>3 DEF ClientOk, Attempts
      <4> QED BY <2>3, <4>2, <4>3, <4>4
    <3>2. ASSUME NEW e \in Refusals, inbox' = Append(inbox, reply(e.code, e.temporary, NoResult)), held'[c] = held[c]
          PROVE  ClientOk(TRUE, Of(c, inbox'), Tail(out), held'[c], stream[c], app[c], sub[c], resub[c])
      <4> DEFINE m == reply(e.code, e.temporary, NoResult)
      <4>1. m.ch = c /\ m.kind = "subscribed" /\ m.code # 0 /\ m.code # ALREADY_SUBSCRIBED
        BY <1>7, Constants
      <4>2. inbox' = Append(inbox, m)
        BY <3>2
      <4> HIDE DEF m, reply
      <4>3. Of(c, inbox') = Append(in, m)
        BY <1>2, <4>1, <4>2, OfAppend DEF in
      <4>4. ClientOk(TRUE, Append(in, m), Tail(out), held[c], stream[c], app[c], sub[c], resub[c])
        BY <1>t, <2>1, <2>3, <2>5, <4>1, ServerTurnsDown
      <4> QED BY <3>2, <4>3, <4>4
    <3>3. ASSUME NEW delta \in {FALSE, WantsDelta},
                 inbox' = Append(inbox, reply(0, FALSE, Answer(c, cmd.at, delta))),
                 held'[c] = HeldAfter(Answer(c, cmd.at, delta))
          PROVE  ClientOk(TRUE, Of(c, inbox'), Tail(out), held'[c], stream[c], app[c], sub[c], resub[c])
      <4> DEFINE r == Answer(c, cmd.at, delta)
                 m == reply(0, FALSE, r)
      <4>1. m.ch = c /\ m.kind = "subscribed" /\ m.code = 0 /\ m.result = r
        BY <1>7
      <4>2. inbox' = Append(inbox, m) /\ held'[c] = HeldAfter(r)
        BY <3>3
      <4>3. cmd.at \in Positions /\ (cmd.at.recover => cmd.at.epoch = app[c].epoch /\ cmd.at.offset = app[c].offset)
        <5>1. sub[c].epoch = app[c].epoch /\ sub[c].offset = app[c].offset
          BY <2>1 DEF ClientOk
        <5> QED BY <1>3, <2>5, <3>1, <5>1 DEF Position
      <4>4. /\ r \in SubscribeResults /\ Expected(app[c], r)
            /\ r.epoch = stream[c].epoch /\ r.offset = stream[c].top
        <5>1. delta \in BOOLEAN
          BY Constants
        <5> HIDE DEF reply
        <5> QED BY <4>3, <5>1, AnswerExpected
      <4> HIDE DEF m, reply, r
      <4>5. Of(c, inbox') = Append(in, m)
        BY <1>2, <4>1, <4>2, OfAppend DEF in
      <4>6. ClientOk(TRUE, Append(in, m), Tail(out), HeldAfter(r), stream[c], app[c], sub[c], resub[c])
        BY <1>t, <2>1, <2>3, <2>5, <4>1, <4>4, ServerTakesSubscribe
      <4> QED BY <4>2, <4>5, <4>6
    <3>4. \/ held[c].on
          \/ \E e \in Refusals :
               inbox' = Append(inbox, reply(e.code, e.temporary, NoResult)) /\ held'[c] = held[c]
          \/ \E delta \in {FALSE, WantsDelta} :
               /\ inbox' = Append(inbox, reply(0, FALSE, Answer(c, cmd.at, delta)))
               /\ held'[c] = HeldAfter(Answer(c, cmd.at, delta))
      <4> HIDE DEF reply
      <4> QED BY <1>5, <1>7, <2>5
    <3> QED BY <3>1, <3>2, <3>3, <3>4
  <2>6. cmd.kind = "unsubscribe" => held'[c] = NotHeld /\ UNCHANGED inbox
    <3> HIDE DEF reply
    <3> QED BY <1>5, <1>7
  <2> QED BY <1>3, <2>4, <2>5, <2>6
<1> QED BY <1>6, <1>7

\* What a channel's conversation says, spelt out for the two kinds of channel.
LEMMA Spelt ==
  ASSUME NEW c \in Channels, ChannelOk(c)
  PROVE  /\ c \in ClientChannels =>
              ClientOk(conn = "up", Of(c, inbox), Of(c, outbox), held[c], stream[c], app[c], sub[c], resub[c])
         /\ c \notin ClientChannels =>
              ServerOk(conn = "up", Of(c, inbox), held[c], stream[c], app[c], server_subs[c])
         /\ held[c].on => conn = "up"
BY DEF ChannelOk, ClientOk, ServerOk, AtRest

\* A channel of which only the stream changes, unheard of by the connection.
LEMMA UnheardOf ==
  ASSUME NEW c \in Channels, ChannelOk(c), ~held[c].on,
         UNCHANGED <<conn, inbox, outbox, held, app, sub, resub, server_subs>>
  PROVE  ChannelOk(c)'
<1>1. CASE c \in ClientChannels
  <2>1. ClientOk(conn = "up", Of(c, inbox), Of(c, outbox), held[c], stream'[c], app[c], sub[c], resub[c])
    <3> DEFINE in == Of(c, inbox)
               out == Of(c, outbox)
               up == conn = "up"
    <3>1. ClientOk(up, in, out, held[c], stream[c], app[c], sub[c], resub[c])
      BY <1>1, Spelt
    <3> HIDE DEF in, out, up
    <3>2. ClientOk(up, in, out, held[c], stream'[c], app[c], sub[c], resub[c])
      BY <3>1, ClientUnheardOf
    <3> QED BY <3>2 DEF in, out, up
  <2> QED BY <1>1, <2>1, NextChannelOk
<1>2. CASE c \notin ClientChannels
  <2>1. ServerOk(conn = "up", Of(c, inbox), held[c], stream'[c], app[c], server_subs[c])
    <3> DEFINE in == Of(c, inbox)
               up == conn = "up"
    <3>1. ServerOk(up, in, held[c], stream[c], app[c], server_subs[c])
      BY <1>2, Spelt
    <3> HIDE DEF in, up
    <3>2. ServerOk(up, in, held[c], stream'[c], app[c], server_subs[c])
      BY <3>1, ServerSubUnheardOf
    <3> QED BY <3>2 DEF in, up
  <2> QED BY <1>2, <2>1, NextChannelOk
<1> QED BY <1>1, <1>2

\* Somebody publishes.
LEMMA PublishStep ==
  ASSUME TypeInv, NEW ch \in Channels, NEW delta \in {FALSE, WantsDelta}, Publish(ch, delta),
         NEW c \in Channels, ChannelOk(c)
  PROVE  ChannelOk(c)'
<1> DEFINE st == stream[ch]
           h  == held[ch]
           st2 == [st EXCEPT !.top = @ + 1]
           h2 == [h EXCEPT !.base = IF h.delta THEN st.top + 1 ELSE 0]
           m  == [kind |-> "publication", ch |-> ch, pub |-> Pub(st.epoch, st.top + 1, h.base, delta, h.delta)]
<1>1. UNCHANGED <<conn, sub, resub, server_subs, app, outbox>>
  BY DEF Publish, clientVars
<1>2. h \in Holdings /\ st \in StreamStates /\ held \in [Channels -> Holdings] /\ stream \in [Channels -> StreamStates]
  BY DEF TypeInv, Holdings, StreamStates
<1>3. st.top \in Nat /\ st.top + 1 \in 0 .. MaxPubs
  BY <1>2, Constants DEF StreamStates, Publish
<1>4. st2.epoch = st.epoch /\ st2.top = st.top + 1 /\ st2 \in StreamStates
  BY <1>2, <1>3 DEF StreamStates
<1>5. stream' = [stream EXCEPT ![ch] = st2] /\ (delta => h.delta /\ h.base > 0)
  BY DEF Publish
<1>6. CASE ~h.on
  <2>1. UNCHANGED <<inbox, held>>
    BY <1>6 DEF Publish
  <2>2. CASE c = ch
    BY <1>1, <1>6, <2>1, <2>2, UnheardOf
  <2>3. CASE c # ch
    <3>1. stream'[c] = stream[c]
      BY <1>2, <1>5, <2>3
    <3> QED BY <1>1, <2>1, <3>1, Unaffected
  <2> QED BY <2>2, <2>3
<1>7. CASE h.on
  <2>1. inbox' = Append(inbox, m)
    <3>1. Pub(st2.epoch, st2.top, h.base, delta, h.delta) = Pub(st.epoch, st.top + 1, h.base, delta, h.delta)
      BY <1>4
    <3> QED BY <1>7, <3>1 DEF Publish, Says
  <2>2. held' = [held EXCEPT ![ch] = h2]
    BY <1>4, <1>7 DEF Publish
  <2>3. inbox \in Seq(Message)
    BY DEF TypeInv
  <2>4. h2 \in Holdings
    BY <1>2, <1>3, Constants DEF Holdings
  <2>5. m.ch = ch /\ m.kind = "publication" /\ m.pub = Pub(st.epoch, st.top + 1, h.base, delta, h.delta)
    OBVIOUS
  <2>6. delta \in BOOLEAN
    BY Constants
  <2>7. CASE c # ch
    <3> HIDE DEF m, h2, st2
    <3>1. stream'[c] = stream[c] /\ held'[c] = held[c]
      BY <1>2, <1>5, <2>2, <2>7
    <3>2. Of(c, inbox') = Of(c, inbox)
      BY <2>1, <2>3, <2>5, <2>7, OfAppend
    <3> QED BY <1>1, <3>1, <3>2, Unaffected
  <2>8. CASE c = ch
    <3>1. stream'[c] = st2 /\ held'[c] = h2 /\ conn = "up"
      BY <1>2, <1>5, <1>7, <2>2, <2>8, Spelt
    <3> DEFINE in == Of(c, inbox)
               out == Of(c, outbox)
    <3>2. in \in Seq(Message)
      BY ChannelTypes
    <3>5. h2 = [h EXCEPT !.base = IF h.delta THEN st.top + 1 ELSE 0]
      OBVIOUS
    <3> HIDE DEF m, h2, st2
    <3>3. Of(c, inbox') = Append(in, m)
      BY <2>1, <2>3, <2>5, <2>8, OfAppend
    <3>4. CASE c \in ClientChannels
      <4>1. ClientOk(TRUE, in, out, h, st, app[c], sub[c], resub[c])
        BY <2>8, <3>1, <3>4, Spelt
      <4> HIDE DEF in, out, h, st
      <4>2. ClientOk(TRUE, Append(in, m), out, h2, st2, app[c], sub[c], resub[c])
        BY <1>2, <1>4, <1>5, <1>7, <2>4, <2>5, <2>6, <3>2, <3>5, <4>1, ClientIsSentPublication
      <4> QED BY <1>1, <3>1, <3>3, <3>4, <4>2, NextChannelOk DEF out
    <3>6. CASE c \notin ClientChannels
      <4>1. ServerOk(TRUE, in, h, st, app[c], server_subs[c])
        BY <2>8, <3>1, <3>6, Spelt
      <4> HIDE DEF in, out, h, st
      <4>2. ServerOk(TRUE, Append(in, m), h2, st2, app[c], server_subs[c])
        BY <1>2, <1>4, <1>5, <1>7, <2>4, <2>5, <2>6, <3>2, <3>5, <4>1, ServerSubIsSentPublication
      <4> QED BY <1>1, <3>1, <3>3, <3>6, <4>2, NextChannelOk
    <3> QED BY <3>4, <3>6
  <2> QED BY <2>7, <2>8
<1> QED BY <1>6, <1>7

\* The server ends a subscription.
LEMMA UnsubscribePushStep ==
  ASSUME TypeInv, NEW ch \in Channels, NEW code, ServerUnsubscribes(ch, code), NEW c \in Channels, ChannelOk(c)
  PROVE  ChannelOk(c)'
<1> DEFINE m == [kind |-> "unsubscribe", ch |-> ch, code |-> code]
<1>1. /\ UNCHANGED <<conn, sub, resub, server_subs, app, outbox, stream>>
      /\ held[ch].on /\ held' = [held EXCEPT ![ch] = NotHeld] /\ inbox' = Append(inbox, m)
  BY DEF ServerUnsubscribes, clientVars, Says
<1>2. held \in [Channels -> Holdings] /\ inbox \in Seq(Message)
  BY DEF TypeInv, Holdings
<1>3. m.ch = ch /\ m.kind = "unsubscribe"
  OBVIOUS
<1> HIDE DEF m
<1>4. CASE c # ch
  <2>1. held'[c] = held[c]
    BY <1>1, <1>2, <1>4
  <2>2. Of(c, inbox') = Of(c, inbox)
    BY <1>1, <1>2, <1>3, <1>4, OfAppend
  <2> QED BY <1>1, <2>1, <2>2, Unaffected
<1>5. CASE c = ch
  <2> DEFINE in == Of(c, inbox)
             out == Of(c, outbox)
  <2>1. held'[c] = NotHeld /\ conn = "up" /\ in \in Seq(Message)
    BY <1>1, <1>2, <1>5, Spelt, ChannelTypes
  <2>2. Of(c, inbox') = Append(in, m)
    BY <1>1, <1>2, <1>3, <1>5, OfAppend
  <2>3. CASE c \in ClientChannels
    <3>1. ClientOk(TRUE, in, out, held[c], stream[c], app[c], sub[c], resub[c])
      BY <2>1, <2>3, Spelt
    <3> HIDE DEF in, out
    <3>2. ClientOk(TRUE, Append(in, m), out, NotHeld, stream[c], app[c], sub[c], resub[c])
      BY <1>1, <1>3, <1>5, <2>1, <3>1, ClientIsUnsubscribed
    <3> QED BY <1>1, <2>1, <2>2, <2>3, <3>2, NextChannelOk DEF out
  <2>4. CASE c \notin ClientChannels
    <3>1. ServerOk(TRUE, in, held[c], stream[c], app[c], server_subs[c])
      BY <2>1, <2>4, Spelt
    <3> HIDE DEF in, out
    <3>2. ServerOk(TRUE, Append(in, m), NotHeld, stream[c], app[c], server_subs[c])
      BY <1>1, <1>3, <1>5, <2>1, <3>1, ServerSubIsUnsubscribed
    <3> QED BY <1>1, <2>1, <2>2, <2>4, <3>2, NextChannelOk
  <2> QED BY <2>3, <2>4
<1> QED BY <1>4, <1>5

\* The server subscribes the client.
LEMMA SubscribePushStep ==
  ASSUME TypeInv, NEW ch \in ServerChannels, ServerSubscribes(ch), NEW c \in Channels, ChannelOk(c)
  PROVE  ChannelOk(c)'
<1> DEFINE nowhere == [recover |-> FALSE, offset |-> 0, epoch |-> NoEpoch]
           r == Answer(ch, nowhere, FALSE)
           m == [kind |-> "subscribe", ch |-> ch, result |-> r]
<1>1. /\ UNCHANGED <<conn, sub, resub, server_subs, app, outbox, stream>>
      /\ conn = "up" /\ ~held[ch].on /\ held' = [held EXCEPT ![ch] = Holding(FALSE, 0)]
      /\ inbox' = Append(inbox, m)
  BY DEF ServerSubscribes, clientVars, Says
<1>2. held \in [Channels -> Holdings] /\ inbox \in Seq(Message) /\ ch \in Channels /\ ch \notin ClientChannels
  BY Constants DEF TypeInv, Holdings, Channels
<1>3. r.epoch = stream[ch].epoch /\ r.offset = stream[ch].top /\ r.delta = FALSE /\ r.recovered = FALSE
  <2>1. nowhere \in Positions /\ nowhere.recover = FALSE
    BY Constants DEF Positions, NoEpoch
  <2>2. nowhere.recover => nowhere.epoch = app[ch].epoch /\ nowhere.offset = app[ch].offset
    BY <2>1
  <2> HIDE DEF nowhere
  <2> QED BY <1>2, <2>1, <2>2, AnswerExpected
<1>4. m.ch = ch /\ m.kind = "subscribe" /\ m.result = r
  OBVIOUS
<1> HIDE DEF m, r
<1>5. CASE c # ch
  <2>1. held'[c] = held[c]
    BY <1>1, <1>2, <1>5
  <2>2. Of(c, inbox') = Of(c, inbox)
    BY <1>1, <1>2, <1>4, <1>5, OfAppend
  <2> QED BY <1>1, <2>1, <2>2, Unaffected
<1>6. CASE c = ch
  <2> DEFINE in == Of(c, inbox)
  <2>1. held'[c] = Holding(FALSE, 0) /\ in \in Seq(Message)
    BY <1>1, <1>2, <1>6, ChannelTypes
  <2>2. Of(c, inbox') = Append(in, m)
    BY <1>1, <1>2, <1>4, <1>6, OfAppend
  <2>3. ServerOk(TRUE, in, held[c], stream[c], app[c], server_subs[c])
    BY <1>1, <1>2, <1>6, Spelt
  <2> HIDE DEF in
  <2>4. ServerOk(TRUE, Append(in, m), Holding(FALSE, 0), stream[c], app[c], server_subs[c])
    BY <1>1, <1>3, <1>4, <1>6, <2>1, <2>3, ServerSubIsSubscribed
  <2> QED BY <1>1, <1>2, <1>6, <2>1, <2>2, <2>4, NextChannelOk
<1> QED BY <1>5, <1>6

\* A stream restarts.
LEMMA RestartStep ==
  ASSUME TypeInv, NEW ch \in Channels, StreamRestarts(ch), NEW c \in Channels, ChannelOk(c)
  PROVE  ChannelOk(c)'
<1>1. /\ UNCHANGED <<conn, sub, resub, server_subs, app, outbox, inbox, held>> /\ conn # "up"
  BY DEF StreamRestarts, clientVars
<1>2. ~held[c].on
  BY <1>1, Spelt
<1> QED BY <1>1, <1>2, UnheardOf

\* A queue with nothing about a channel.
LEMMA NothingAbout ==
  ASSUME NEW T, NEW q \in Seq(T), NEW c, ~About(c, q)
  PROVE  Of(c, q) = <<>>
<1>1. \A k \in 1 .. Len(q) : q[k].ch # c
  BY DEF About
<1> QED BY <1>1, OfType

\* subscribe(), of an application that lets the last attempt come to its end.
LEMMA SubscribeStep ==
  ASSUME PatientApplication, TypeInv, NEW ch \in ClientChannels, HandleSubscribe(ch), NEW c \in Channels, ChannelOk(c)
  PROVE  ChannelOk(c)'
<1> DEFINE cmd == [kind |-> "subscribe", ch |-> ch, at |-> Position(sub[ch])]
           s2 == [sub[ch] EXCEPT !.state = "Subscribing"]
<1>1. /\ UNCHANGED <<conn, resub, server_subs, app, inbox, stream, held>>
      /\ sub[ch].state = "Unsubscribed" /\ Still(ch)
      /\ sub' = [sub EXCEPT ![ch] = s2]
      /\ outbox' = IF conn = "up" THEN Append(outbox, cmd) ELSE outbox
  BY DEF HandleSubscribe, serverVars, SendSubscribe
<1>2. /\ sub \in [ClientChannels -> SubStates] /\ outbox \in Seq(Commands) /\ inbox \in Seq(Message)
      /\ ch \in Channels
  BY DEF TypeInv, Channels
<1>3. cmd.ch = ch /\ cmd.kind = "subscribe" /\ cmd.at = Position(sub[ch])
  OBVIOUS
<1> HIDE DEF cmd, s2
<1>4. CASE c # ch
  <2>1. c \in ClientChannels => sub'[c] = sub[c]
    BY <1>1, <1>2, <1>4
  <2>2. Of(c, outbox') = Of(c, outbox)
    BY <1>1, <1>2, <1>3, <1>4, OfAppend
  <2> QED BY <1>1, <2>1, <2>2, Unaffected
<1>5. CASE c = ch
  <2> DEFINE up == conn = "up"
  <2>1. Of(c, inbox) = <<>> /\ Of(c, outbox) = <<>> /\ ~resub[c]
    BY <1>1, <1>2, <1>5, NothingAbout DEF Still
  <2>2. ClientOk(up, <<>>, <<>>, held[c], stream[c], app[c], sub[c], resub[c])
    BY <1>5, <2>1, Spelt
  <2>3. sub[c] \in SubStates /\ resub[c] \in BOOLEAN /\ sub'[c] = s2
    BY <1>1, <1>2, <1>5, ChannelTypes
  <2>4. up \in BOOLEAN
    OBVIOUS
  <2>5. Of(c, outbox') = IF up THEN Append(<<>>, cmd) ELSE <<>>
    <3>1. Of(c, Append(outbox, cmd)) = Append(Of(c, outbox), cmd)
      BY <1>2, <1>3, <1>5, OfAppend
    <3> QED BY <1>1, <2>1, <3>1
  <2> HIDE DEF up
  <2>6. ClientOk(up, <<>>, IF up THEN Append(<<>>, cmd) ELSE <<>>, held[c], stream[c], app[c], s2, resub[c])
    BY <1>1, <1>3, <1>5, <2>1, <2>2, <2>3, <2>4, ClientAsks DEF s2
  <2>7. ClientOk(up, Of(c, inbox'), Of(c, outbox'), held'[c], stream'[c], app'[c], sub'[c], resub'[c])
    BY <1>1, <2>1, <2>3, <2>5, <2>6
  <2> QED BY <1>1, <1>5, <2>7, NextChannelOk DEF up
<1> QED BY <1>4, <1>5

\* unsubscribe(), of an application that lets the attempt come to its end.
LEMMA UnsubscribeStep ==
  ASSUME PatientApplication, TypeInv, NEW ch \in ClientChannels, HandleUnsubscribe(ch), NEW c \in Channels, ChannelOk(c)
  PROVE  ChannelOk(c)'
<1> DEFINE cmd == [kind |-> "unsubscribe", ch |-> ch]
           s2 == [sub[ch] EXCEPT !.state = "Unsubscribed"]
<1>1. /\ UNCHANGED <<conn, resub, server_subs, app, inbox, stream, held>>
      /\ sub[ch].state = "Subscribed" /\ ~About(ch, outbox)
      /\ sub' = [sub EXCEPT ![ch] = s2]
      /\ outbox' = IF conn = "up" THEN Append(outbox, cmd) ELSE outbox
  BY DEF HandleUnsubscribe, serverVars
<1>2. /\ sub \in [ClientChannels -> SubStates] /\ outbox \in Seq(Commands) /\ inbox \in Seq(Message)
      /\ ch \in Channels
  BY DEF TypeInv, Channels
<1>3. cmd.ch = ch /\ cmd.kind = "unsubscribe"
  OBVIOUS
<1> HIDE DEF cmd, s2
<1>4. CASE c # ch
  <2>1. c \in ClientChannels => sub'[c] = sub[c]
    BY <1>1, <1>2, <1>4
  <2>2. Of(c, outbox') = Of(c, outbox)
    BY <1>1, <1>2, <1>3, <1>4, OfAppend
  <2> QED BY <1>1, <2>1, <2>2, Unaffected
<1>5. CASE c = ch
  <2> DEFINE up == conn = "up"
             in == Of(c, inbox)
  <2>1. Of(c, outbox) = <<>>
    BY <1>1, <1>2, <1>5, NothingAbout
  <2>2. ClientOk(up, in, <<>>, held[c], stream[c], app[c], sub[c], resub[c])
    BY <1>5, <2>1, Spelt
  <2>3. sub[c] \in SubStates /\ resub[c] \in BOOLEAN /\ sub'[c] = s2
    BY <1>1, <1>2, <1>5, ChannelTypes
  <2>4. up \in BOOLEAN
    OBVIOUS
  <2>5. Of(c, outbox') = IF up THEN Append(<<>>, cmd) ELSE <<>>
    <3>1. Of(c, Append(outbox, cmd)) = Append(Of(c, outbox), cmd)
      BY <1>2, <1>3, <1>5, OfAppend
    <3> QED BY <1>1, <2>1, <3>1
  <2>8. Of(c, inbox') = in
    BY <1>1
  <2> HIDE DEF up, in
  <2>6. up /\ ClientOk(TRUE, in, Append(<<>>, cmd), held[c], stream[c], app[c], s2, resub[c])
    <3> DEFINE s == sub[c]
               r == resub[c]
    <3>1. s2 = [s EXCEPT !.state = "Unsubscribed"] /\ s.state = "Subscribed"
      BY <1>1, <1>5 DEF s2
    <3>2. ClientOk(up, in, <<>>, held[c], stream[c], app[c], s, r) /\ s \in SubStates /\ r \in BOOLEAN
      BY <2>2, <2>3
    <3> HIDE DEF s, r
    <3>3. up /\ ClientOk(TRUE, in, Append(<<>>, cmd), held[c], stream[c], app[c], [s EXCEPT !.state = "Unsubscribed"], r)
      BY <1>3, <2>4, <3>1, <3>2, ClientLeaves
    <3> QED BY <3>1, <3>3 DEF s, r
  <2>7. ClientOk(TRUE, Of(c, inbox'), Of(c, outbox'), held'[c], stream'[c], app'[c], sub'[c], resub'[c])
    BY <1>1, <2>3, <2>5, <2>6, <2>8
  <2> QED BY <1>1, <1>5, <2>6, <2>7, NextChannelOk DEF up
<1> QED BY <1>4, <1>5

\* A Resubscribe command.
LEMMA ResubscribeStep ==
  ASSUME TypeInv, NEW ch \in ClientChannels, HandleResubscribe(ch), NEW c \in Channels, ChannelOk(c)
  PROVE  ChannelOk(c)'
<1> DEFINE cmd == [kind |-> "subscribe", ch |-> ch, at |-> Position(sub[ch])]
<1>1. /\ UNCHANGED <<conn, sub, server_subs, app, inbox, stream, held>>
      /\ resub[ch] /\ resub' = [resub EXCEPT ![ch] = FALSE]
      /\ outbox' = IF conn = "up" /\ sub[ch].state # "Unsubscribed" THEN Append(outbox, cmd) ELSE outbox
  BY DEF HandleResubscribe, serverVars, SendSubscribe
<1>2. /\ resub \in [ClientChannels -> BOOLEAN] /\ outbox \in Seq(Commands) /\ sub[ch] \in SubStates
      /\ ch \in Channels
  BY DEF TypeInv, Channels
<1>3. cmd.ch = ch /\ cmd.kind = "subscribe" /\ cmd.at = Position(sub[ch]) /\ cmd \in Commands
  BY <1>2, PositionType DEF Commands
<1> HIDE DEF cmd
<1>4. CASE c # ch
  <2>1. c \in ClientChannels => resub'[c] = resub[c]
    BY <1>1, <1>2, <1>4
  <2>2. Of(c, outbox') = Of(c, outbox)
    BY <1>1, <1>2, <1>3, <1>4, OfAppend
  <2> QED BY <1>1, <2>1, <2>2, Unaffected
<1>5. CASE c = ch
  <2> DEFINE in == Of(c, inbox)
             out == Of(c, outbox)
  <2>1. resub[c] = TRUE /\ resub'[c] = FALSE /\ out \in Seq(Commands)
    BY <1>1, <1>2, <1>5, ChannelTypes
  <2>2. Of(c, inbox') = in
    BY <1>1
  <2>3. CASE conn = "up"
    <3>1. ClientOk(TRUE, in, out, held[c], stream[c], app[c], sub[c], TRUE)
      BY <1>5, <2>1, <2>3, Spelt
    <3>2. sub[c].state = "Subscribing" => Of(c, outbox') = Append(out, cmd)
      BY <1>1, <1>2, <1>3, <1>5, <2>3, OfAppend
    <3> HIDE DEF in, out
    <3>3. sub[c].state = "Subscribing" /\ ClientOk(TRUE, in, Append(out, cmd), held[c], stream[c], app[c], sub[c], FALSE)
      <4> DEFINE s == sub[c]
                 h == held[c]
                 st == stream[c]
                 a == app[c]
      <4>1. cmd.at = Position(s) /\ ClientOk(TRUE, in, out, h, st, a, s, TRUE)
        BY <1>3, <1>5, <3>1
      <4> HIDE DEF s, h, st, a
      <4>2. s.state = "Subscribing" /\ ClientOk(TRUE, in, Append(out, cmd), h, st, a, s, FALSE)
        BY <1>3, <2>1, <4>1, ClientAsksAgain
      <4> QED BY <4>2 DEF s, h, st, a
    <3>4. ClientOk(TRUE, Of(c, inbox'), Of(c, outbox'), held'[c], stream'[c], app'[c], sub'[c], resub'[c])
      BY <1>1, <2>1, <2>2, <3>2, <3>3
    <3> QED BY <1>1, <1>5, <2>3, <3>4, NextChannelOk
  <2>4. CASE conn # "up"
    <3>1. ClientOk(FALSE, in, out, held[c], stream[c], app[c], sub[c], resub[c])
      BY <1>5, <2>4, Spelt
    <3>2. Of(c, outbox') = out
      BY <1>1, <2>4
    <3> HIDE DEF in, out
    <3>3. ClientOk(FALSE, in, out, held[c], stream[c], app[c], sub[c], FALSE)
      BY <3>1, ClientWaits
    <3>4. ClientOk(FALSE, Of(c, inbox'), Of(c, outbox'), held'[c], stream'[c], app'[c], sub'[c], resub'[c])
      BY <1>1, <2>1, <2>2, <3>2, <3>3
    <3> QED BY <1>1, <1>5, <2>4, <3>4, NextChannelOk
  <2> QED BY <2>3, <2>4
<1> QED BY <1>4, <1>5

\* Connections are sought, and end.
LEMMA ConnectionStep ==
  ASSUME TypeInv, Connect \/ LoseConnection \/ Disconnect, NEW c \in Channels, ChannelOk(c)
  PROVE  ChannelOk(c)'
<1>1. CASE Connect
  <2>1. conn # "up" /\ conn' # "up" /\ UNCHANGED <<sub, resub, server_subs, app, inbox, outbox, stream, held>>
    BY <1>1 DEF Connect, clientVars, serverVars
  <2> QED BY <2>1, Unaffected
<1>2. CASE LoseConnection \/ Disconnect
  <2>1. /\ conn' # "up" /\ UNCHANGED <<resub, stream>>
        /\ inbox' = <<>> /\ outbox' = <<>> /\ held'[c] = NotHeld
    BY <1>2 DEF LoseConnection, Disconnect, Unwired
  <2>2. app[c] \in AppStates /\ (c \in ClientChannels => sub[c] \in SubStates /\ c \notin ServerChannels)
        /\ (c \notin ClientChannels => c \in ServerChannels)
    BY ChannelTypes
  <2>3. app'[c] = app[c] \/ \E status : app'[c] = [app[c] EXCEPT !.status = status]
    BY <1>2 DEF LoseConnection, Disconnect
  <2>4. app'[c].faults = app[c].faults /\ app'[c].epoch = app[c].epoch /\ app'[c].offset = app[c].offset
    BY <2>2, <2>3 DEF AppStates
  <2>5. Of(c, inbox') = <<>> /\ Of(c, outbox') = <<>>
    BY <2>1, OfEmpty
  <2> DEFINE up == conn = "up"
             in == Of(c, inbox)
             out == Of(c, outbox)
  <2>6. CASE c \in ClientChannels
    <3>1. ClientOk(up, in, out, held[c], stream[c], app[c], sub[c], resub[c])
      BY <2>6, Spelt
    <3>2. ~up => sub[c].state # "Subscribed"
      BY <3>1 DEF ClientOk
    <3>3. sub'[c].epoch = sub[c].epoch /\ sub'[c].offset = sub[c].offset /\ sub'[c].state # "Subscribed"
      <4>1. CASE LoseConnection
        <5>1. sub'[c] = IF sub[c].state = "Subscribed" THEN [sub[c] EXCEPT !.state = "Subscribing"] ELSE sub[c]
          BY <2>6, <4>1 DEF LoseConnection
        <5> QED BY <2>2, <2>6, <5>1 DEF SubStates
      <4>2. CASE Disconnect
        <5>1. sub'[c] = IF conn = "up" THEN [sub[c] EXCEPT !.state = "Unsubscribed"] ELSE sub[c]
          BY <2>6, <4>2 DEF Disconnect
        <5> QED BY <2>2, <2>6, <3>2, <5>1 DEF SubStates
      <4> QED BY <1>2, <4>1, <4>2
    <3>4. ClientOk(FALSE, <<>>, <<>>, NotHeld, stream[c], app'[c], sub'[c], resub[c])
      <4> DEFINE a2 == app'[c]
                 s2 == sub'[c]
      <4>1. /\ a2.faults = app[c].faults /\ a2.epoch = app[c].epoch /\ a2.offset = app[c].offset
            /\ s2.epoch = sub[c].epoch /\ s2.offset = sub[c].offset /\ s2.state # "Subscribed"
        BY <2>4, <3>3
      <4> HIDE DEF up, in, out, a2, s2
      <4>2. \A st2 : ClientOk(FALSE, <<>>, <<>>, NotHeld, st2, a2, s2, resub[c])
        BY <3>1, <4>1, ClientAlone
      <4> QED BY <4>2 DEF a2, s2
    <3> QED BY <2>1, <2>5, <2>6, <3>4, NextChannelOk
  <2>7. CASE c \notin ClientChannels
    <3>1. ServerOk(up, in, held[c], stream[c], app[c], server_subs[c])
      BY <2>7, Spelt
    <3>2. server_subs'[c] \in {server_subs[c], Unknown}
      BY <1>2, <2>2, <2>7 DEF LoseConnection, Disconnect
    <3>3. ServerOk(FALSE, <<>>, NotHeld, stream[c], app'[c], server_subs'[c])
      <4> DEFINE a2 == app'[c]
                 e  == server_subs[c]
                 e2 == server_subs'[c]
                 h  == held[c]
                 st == stream[c]
                 a  == app[c]
      <4>1. /\ a2.faults = a.faults /\ a2.epoch = a.epoch /\ a2.offset = a.offset
            /\ (e2 = e \/ e2 = Unknown) /\ ServerOk(up, in, h, st, a, e)
        BY <2>4, <3>1, <3>2
      <4> HIDE DEF up, in, out, a2, e, e2, h, st, a
      <4>2. ServerOk(FALSE, <<>>, NotHeld, stream[c], a2, e2)
        BY <4>1, ServerSubAlone
      <4> QED BY <4>2 DEF a2, e2
    <3> QED BY <2>1, <2>5, <2>7, <3>3, NextChannelOk
  <2> QED BY <2>6, <2>7
<1> QED BY <1>1, <1>2

\* The commands of a new connection, as one channel sees them.
LEMMA CommandsOf ==
  ASSUME TypeInv, NEW S \in SUBSET ClientChannels, NEW c
  PROVE  LET q == Of(c, SubscribeCommands(S)) IN
         q = <<>> \/ \E cmd : q = <<cmd>> /\ cmd.at = Position(sub[c]) /\ c \in S
<1> DEFINE q == SubscribeCommands(S)
<1>1. /\ q \in Seq(Commands)
      /\ \A k \in DOMAIN q : q[k].kind = "subscribe" /\ q[k].ch \in S /\ q[k].at = Position(sub[q[k].ch])
      /\ \A j, k \in DOMAIN q : q[j].ch = q[k].ch => j = k
  BY CommandsOnce
<1> HIDE DEF q
<1>2. Of(c, q) = <<>> \/ \E k \in DOMAIN q : q[k].ch = c /\ Of(c, q) = <<q[k]>>
  BY <1>1, OfOnce
<1>3. ASSUME NEW k \in DOMAIN q, q[k].ch = c, Of(c, q) = <<q[k]>>
      PROVE  \E cmd : Of(c, q) = <<cmd>> /\ cmd.at = Position(sub[c]) /\ c \in S
  <2>1. q[k].at = Position(sub[c]) /\ c \in S
    BY <1>1, <1>3
  <2> QED BY <1>3, <2>1
<1> QED BY <1>2, <1>3 DEF q

\* A new connection, as a channel of the client sees it ...
LEMMA ClientReconnects ==
  ASSUME PromptResubscribes, TypeInv, NEW S \in SUBSET ServerChannels, NEW B \in SUBSET ClientChannels,
         NEW deltas \in {FALSE, WantsDelta}, Reconnect(S, B, deltas),
         NEW c \in ClientChannels, ChannelOk(c)
  PROVE  ChannelOk(c)'
<1> DEFINE r    == Answer(c, Position(sub[c]), deltas /\ WantsDelta)
           both == Subscribed([sub |-> sub[c], app |-> app[c]], r)
           in   == Of(c, inbox)
           out  == Of(c, outbox)
           out2 == Of(c, SubscribeCommands(Attempting \ B))
<1>1. c \in Channels /\ c \notin S /\ c \notin ServerChannels
  BY Constants DEF Channels
<1>2. /\ sub[c] \in SubStates /\ app[c] \in AppStates
  BY <1>1, ChannelTypes
<1>3. conn = "down" /\ conn' = "up" /\ inbox' = <<>> /\ outbox' = SubscribeCommands(Attempting \ B)
      /\ UNCHANGED <<resub, stream>> /\ ~resub[c]
  BY DEF Reconnect
<1>4. ClientOk(FALSE, in, out, held[c], stream[c], app[c], sub[c], resub[c])
  <2>1. (conn = "up") = FALSE
    BY <1>3
  <2> QED BY <1>1, <2>1, Spelt
<1>5. Of(c, inbox') = <<>> /\ Of(c, outbox') = out2
  BY <1>3, OfEmpty
<1>6. out2 = <<>> \/ \E cmd : out2 = <<cmd>> /\ cmd.at = Position(sub[c]) /\ c \in Attempting \ B
  <2>1. Attempting \ B \in SUBSET ClientChannels
    BY DEF Attempting
  <2> QED BY <2>1, CommandsOf
<1>7. CASE c \in B
  <2>1. sub'[c] = both.sub /\ app'[c] = both.app /\ held'[c] = HeldAfter(r)
    BY <1>1, <1>7 DEF Reconnect
  <2>2. /\ r \in SubscribeResults /\ Expected(app[c], r)
        /\ r.epoch = stream[c].epoch /\ r.offset = stream[c].top
    <3> DEFINE at == Position(sub[c])
               delta == deltas /\ WantsDelta
    <3>1. at \in Positions /\ delta \in BOOLEAN
      BY <1>2, PositionType, Constants
    <3>2. at.recover => at.epoch = app[c].epoch /\ at.offset = app[c].offset
      BY <1>4 DEF ClientOk, Position
    <3> HIDE DEF at, delta
    <3>3. LET x == Answer(c, at, delta) IN
          /\ x \in SubscribeResults /\ Expected(app[c], x)
          /\ x.epoch = stream[c].epoch /\ x.offset = stream[c].top
      BY <1>1, <3>1, <3>2, AnswerExpected
    <3> QED BY <3>3 DEF at, delta
  <2>3. out2 = <<>>
    BY <1>6, <1>7
  <2>4. ClientOk(TRUE, <<>>, <<>>, HeldAfter(r), stream[c], both.app, both.sub, resub[c])
    <3> DEFINE s == sub[c]
               a == app[c]
               rs == resub[c]
    <3>1. /\ ClientOk(FALSE, in, out, held[c], stream[c], a, s, rs) /\ ~rs /\ s \in SubStates /\ a \in AppStates
          /\ Expected(a, r) /\ both = Subscribed([sub |-> s, app |-> a], r)
      BY <1>2, <1>3, <1>4, <2>2
    <3> HIDE DEF s, a, rs, in, out, r, both
    <3>2. ClientOk(TRUE, <<>>, <<>>, HeldAfter(r), stream[c], both.app, both.sub, rs)
      BY <2>2, <3>1, ClientComesBackSubscribed
    <3> QED BY <3>2 DEF rs
  <2> HIDE DEF r, both, out2
  <2>5. Of(c, inbox') = <<>> /\ Of(c, outbox') = <<>>
    <3>1. Of(c, inbox') = <<>>
      BY <1>3, OfEmpty
    <3>2. Of(c, outbox') = out2
      BY <1>5
    <3> QED BY <2>3, <3>1, <3>2
  <2>6. (conn' = "up") = TRUE
    BY <1>3
  <2> QED BY <1>1, <1>3, <2>1, <2>4, <2>5, <2>6, NextChannelOk
<1>8. CASE c \notin B
  <2>1. sub'[c] = sub[c] /\ app'[c] = app[c] /\ held'[c] = NotHeld
    BY <1>1, <1>8 DEF Reconnect
  <2>2. out2 = <<>> \/ \E cmd : out2 = <<cmd>> /\ cmd.at = Position(sub[c]) /\ sub[c].state = "Subscribing"
    <3> HIDE DEF out2
    <3> QED BY <1>6 DEF Attempting
  <2>3. ClientOk(TRUE, <<>>, out2, NotHeld, stream[c], app[c], sub[c], resub[c])
    <3> DEFINE s == sub[c]
               rs == resub[c]
    <3>1. ClientOk(FALSE, in, out, held[c], stream[c], app[c], s, rs) /\ ~rs
          /\ (out2 = <<>> \/ \E cmd : out2 = <<cmd>> /\ cmd.at = Position(s) /\ s.state = "Subscribing")
      BY <1>3, <1>4, <2>2
    <3> HIDE DEF s, rs, in, out, out2
    <3>2. ClientOk(TRUE, <<>>, out2, NotHeld, stream[c], app[c], s, rs)
      BY <3>1, ClientComesBack
    <3> QED BY <3>2 DEF s, rs
  <2> HIDE DEF out2
  <2> QED BY <1>1, <1>3, <1>5, <2>1, <2>3, NextChannelOk
<1> QED BY <1>7, <1>8

\* ... and one of the server.
LEMMA ServerReconnects ==
  ASSUME TypeInv, NEW S \in SUBSET ServerChannels, NEW B \in SUBSET ClientChannels,
         NEW deltas \in {FALSE, WantsDelta}, Reconnect(S, B, deltas),
         NEW c \in ServerChannels, ChannelOk(c)
  PROVE  ChannelOk(c)'
<1> DEFINE e    == server_subs[c]
           at   == [recover |-> e.recoverable, offset |-> e.offset, epoch |-> e.epoch]
           r    == Answer(c, at, FALSE)
           both == ServerSubscribed([sub |-> e, app |-> app[c]], r)
<1>1. c \in Channels /\ c \notin ClientChannels /\ c \notin B
  BY Constants DEF Channels
<1>2. app[c] \in AppStates /\ e \in Entries
  BY <1>1, ChannelTypes
<1>3. conn' = "up" /\ inbox' = <<>> /\ UNCHANGED stream /\ Of(c, inbox') = <<>>
  BY OfEmpty DEF Reconnect
<1>4. ServerOk(conn = "up", Of(c, inbox), held[c], stream[c], app[c], e)
  BY <1>1, Spelt
<1>5. app[c].faults = {} /\ (e # Unknown => e.epoch = app[c].epoch /\ e.offset = app[c].offset)
  BY <1>4 DEF ServerOk
<1>6. CASE c \in S
  <2>1. server_subs'[c] = both.sub /\ app'[c] = both.app /\ held'[c] = HeldAfter(r)
    BY <1>1, <1>6 DEF Reconnect, ServerSubsAfter
  <2>2. /\ r \in SubscribeResults /\ Expected(app[c], r)
        /\ r.epoch = stream[c].epoch /\ r.offset = stream[c].top /\ r.delta = FALSE
    <3>1. at \in Positions
      BY <1>2 DEF Entries, Positions
    <3>2. at.recover => at.epoch = app[c].epoch /\ at.offset = app[c].offset
      BY <1>5 DEF Unknown
    <3> HIDE DEF at
    <3> QED BY <1>1, <3>1, <3>2, AnswerExpected
  <2>3. ServerOk(TRUE, <<>>, HeldAfter(r), stream[c], both.app, both.sub)
    <3> DEFINE a == app[c]
    <3>1. a \in AppStates /\ a.faults = {} /\ Expected(a, r) /\ both = ServerSubscribed([sub |-> e, app |-> a], r)
      BY <1>2, <1>5, <2>2
    <3> HIDE DEF a, e, r, both
    <3> QED BY <2>2, <3>1, ServerSubComesBack
  <2> HIDE DEF r, both
  <2> QED BY <1>1, <1>3, <2>1, <2>3, NextChannelOk
<1>7. CASE c \notin S
  <2>1. /\ server_subs'[c] = Unknown /\ held'[c] = NotHeld
        /\ app'[c] = [app[c] EXCEPT !.status = "unsubscribed"] \/ app'[c] = app[c]
    BY <1>1, <1>7 DEF Reconnect, ServerSubsAfter
  <2>2. app'[c].faults = {}
    BY <1>2, <1>5, <2>1 DEF AppStates
  <2>3. ServerOk(TRUE, <<>>, NotHeld, stream[c], app'[c], Unknown)
    <3> DEFINE a2 == app'[c]
    <3>1. a2.faults = {}
      BY <2>2
    <3> HIDE DEF a2
    <3>2. ServerOk(TRUE, <<>>, NotHeld, stream[c], a2, Unknown)
      BY <3>1, ServerSubGone
    <3> QED BY <3>2 DEF a2
  <2> QED BY <1>1, <1>3, <2>1, <2>3, NextChannelOk
<1> QED BY <1>6, <1>7

-------------------------------------------------------------------------------
(* All channels.                                                               *)

\* At the start no conversation has begun.
LEMMA ConversationsInit == Init => Conversations
<1> SUFFICES ASSUME Init PROVE Conversations
  OBVIOUS
<1>1. PICK since \in {Nowhere, [epoch |-> 1, offset |-> 0]} :
        /\ sub = [ch \in ClientChannels |-> SubStateNew(since)]
        /\ app = [ch \in Channels |->
                    LET at == IF ch \in ClientChannels THEN since ELSE Nowhere
                    IN  [status |-> "none", epoch |-> at.epoch, offset |-> at.offset, faults |-> {}]]
  BY DEF Init
<1> SUFFICES ASSUME NEW c \in Channels PROVE ChannelOk(c)
  BY DEF Conversations
<1>2. (conn = "up") = FALSE /\ inbox = <<>> /\ outbox = <<>> /\ held[c] = NotHeld
  BY DEF Init
<1>3. Of(c, inbox) = <<>> /\ Of(c, outbox) = <<>>
  BY <1>2, OfEmpty
<1>4. ~NotHeld.on /\ ~NotHeld.delta /\ Len(<<>>) = 0 /\ 1 .. Len(<<>>) = {}
  BY DEF NotHeld
<1>5. app[c].faults = {}
  BY <1>1
<1>6. CASE c \in ClientChannels
  <2>1. sub[c].epoch = app[c].epoch /\ sub[c].offset = app[c].offset /\ sub[c].state = "Unsubscribed" /\ ~resub[c]
    BY <1>1, <1>6 DEF SubStateNew, Init
  <2>2. Attempts(FALSE, <<>>, <<>>, NotHeld, sub[c], resub[c])
    BY <1>4, <2>1 DEF Attempts, Replied, Asks
  <2>3. ClientOk(FALSE, <<>>, <<>>, NotHeld, stream[c], app[c], sub[c], resub[c])
    BY <1>4, <1>5, <2>1, <2>2, EmptyWire DEF ClientOk, AtRest
  <2> QED BY <1>2, <1>3, <1>6, <2>3 DEF ChannelOk
<1>7. CASE c \notin ClientChannels
  <2>1. server_subs[c] = Unknown
    BY <1>7 DEF Init, Channels
  <2>2. ServerOk(FALSE, <<>>, NotHeld, stream[c], app[c], Unknown)
    BY <1>4, <1>5, EmptyWire DEF ServerOk, AtRest
  <2> QED BY <1>2, <1>3, <1>7, <2>1, <2>2 DEF ChannelOk
<1> QED BY <1>6, <1>7

\* Every step keeps the conversations as they should be.
LEMMA ConversationsStep ==
  ASSUME PatientApplication, PromptResubscribes, TypeInv, Conversations, [Next]_vars
  PROVE  Conversations'
<1> SUFFICES ASSUME NEW c \in Channels PROVE ChannelOk(c)'
  BY DEF Conversations, Channels
<1>0. ChannelOk(c)
  BY DEF Conversations
<1>1. CASE UNCHANGED vars
  BY <1>0, <1>1, Unaffected DEF vars
<1>2. CASE Next
  <2>1. ASSUME NEW S \in SUBSET ServerChannels, NEW B \in SUBSET ClientChannels,
               NEW deltas \in {FALSE, WantsDelta}, Reconnect(S, B, deltas)
        PROVE  ChannelOk(c)'
    BY <1>0, <2>1, ClientReconnects, ServerReconnects DEF Channels
  <2>2. ASSUME NEW ch \in ClientChannels, HandleSubscribe(ch) \/ HandleUnsubscribe(ch) \/ HandleResubscribe(ch)
        PROVE  ChannelOk(c)'
    BY <1>0, <2>2, SubscribeStep, UnsubscribeStep, ResubscribeStep
  <2>3. CASE Connect \/ LoseConnection \/ Disconnect
    BY <1>0, <2>3, ConnectionStep
  <2>4. CASE HandleFrame
    BY <1>0, <2>4, FrameStep
  <2>5. CASE ServerHandles
    BY <1>0, <2>5, ServerStep
  <2>6. ASSUME NEW ch \in Channels, NEW delta \in {FALSE, WantsDelta}, Publish(ch, delta)
        PROVE  ChannelOk(c)'
    BY <1>0, <2>6, PublishStep
  <2>7. ASSUME NEW ch \in Channels, NEW code \in UnsubscribeCodes, ServerUnsubscribes(ch, code)
        PROVE  ChannelOk(c)'
    BY <1>0, <2>7, UnsubscribePushStep
  <2>8. ASSUME NEW ch \in ServerChannels, ServerSubscribes(ch)
        PROVE  ChannelOk(c)'
    BY <1>0, <2>8, SubscribePushStep
  <2>9. ASSUME NEW ch \in Channels, StreamRestarts(ch)
        PROVE  ChannelOk(c)'
    BY <1>0, <2>9, RestartStep
  <2> QED BY <1>2, <2>1, <2>2, <2>3, <2>4, <2>5, <2>6, <2>7, <2>8, <2>9 DEF Next
<1> QED BY <1>1, <1>2

\* Of each channel, what is on the wire goes on where the client is: the invariant from which
\* the next four follow.
THEOREM ConversationsHold ==
  ASSUME PatientApplication, PromptResubscribes
  PROVE  Spec => [](TypeInv /\ Conversations)
<1>1. Init => TypeInv /\ Conversations
  BY TypeInit, ConversationsInit
<1>2. (TypeInv /\ Conversations) /\ [Next]_vars => (TypeInv /\ Conversations)'
  BY TypeStep, ConversationsStep
<1> QED BY <1>1, <1>2, PTL DEF Spec

\* What the conversations say of the client and the application.
LEMMA ConversationsSay ==
  Conversations =>
    /\ NoSilentGap /\ NoRepetition /\ PublicationsIntact /\ RecoversFromWhatWasShown
<1> SUFFICES ASSUME Conversations
             PROVE  NoSilentGap /\ NoRepetition /\ PublicationsIntact /\ RecoversFromWhatWasShown
  OBVIOUS
<1>1. ASSUME NEW c \in Channels PROVE app[c].faults = {}
  BY DEF Conversations, ChannelOk, ClientOk, ServerOk
<1>2. ASSUME NEW c \in ClientChannels PROVE sub[c].epoch = app[c].epoch /\ sub[c].offset = app[c].offset
  BY DEF Conversations, ChannelOk, ClientOk, Channels
<1>3. ASSUME NEW c \in ServerChannels, server_subs[c] # Unknown
      PROVE  server_subs[c].epoch = app[c].epoch /\ server_subs[c].offset = app[c].offset
  BY <1>3, Constants DEF Conversations, ChannelOk, ServerOk, Channels
<1> QED BY <1>1, <1>2, <1>3 DEF NoSilentGap, NoRepetition, PublicationsIntact, RecoversFromWhatWasShown, Known

\* The application never misses a publication without being told, whatever connections end,
\* streams restart and subscriptions are ended by the server, if it calls subscribe() and
\* unsubscribe() when no attempt is under way and Resubscribe is handled before another ends.
THEOREM GapsAreTold ==
  ASSUME PatientApplication, PromptResubscribes
  PROVE  Spec => []NoSilentGap
BY ConversationsHold, ConversationsSay, PTL

\* Under the same conditions no publication is shown twice ...
THEOREM ShownOnce ==
  ASSUME PatientApplication, PromptResubscribes
  PROVE  Spec => []NoRepetition
BY ConversationsHold, ConversationsSay, PTL

\* ... each is shown with the data that was published, deltas and all ...
THEOREM ShownAsPublished ==
  ASSUME PatientApplication, PromptResubscribes
  PROVE  Spec => []PublicationsIntact
BY ConversationsHold, ConversationsSay, PTL

\* ... and the position a Subscription or an entry recovers from is the last that was shown.
THEOREM RecoveryStartsWhereShown ==
  ASSUME PatientApplication, PromptResubscribes
  PROVE  Spec => []RecoversFromWhatWasShown
BY ConversationsHold, ConversationsSay, PTL
===============================================================================
