--------------------- MODULE ConnectionActorAgreement_proofs ---------------------
(***************************************************************************)
(* Client and server agree on who is subscribed once the wire of           *)
(* ConnectionActor is quiet.  Quiet is a moment among many: what is on its *)
(* way can still change either side.  So the invariant says, for every     *)
(* channel and at any time, what the client will believe when it has read  *)
(* everything, and what the server will hold when it has.                  *)
(***************************************************************************)
EXTENDS ConnectionActorAttempts_proofs

-------------------------------------------------------------------------------
(* The invariant.  q is what is on its way to the server, in what is on its   *)
(* way back, p the request table, s the registry, v the server's record.      *)

Message ==
  [id   : Ids \union {0},
   kind : {"ok", "already", "resubscribe", "terminal"} \union SubErrors,
   ch   : Channels \union {"none"}]

\* Commands parked in the batch will go out behind those that are out.
Sending == outbox \o batch_queue

\* A Subscribe awaits its reply; what is not a Subscribe is not taken for one.
Matches(c, p) ==
  /\ c.kind = "subscribe" => c.id \in Ids /\ p[c.id].kind = "subscribe" /\ p[c.id].ch = c.ch
  /\ c.kind # "subscribe" /\ c.id \in Ids => p[c.id].kind # "subscribe"
  /\ c.kind \in {"request", "refresh", "sub_refresh"} => c.id \in Ids

\* An id other than 0 is on the wire once, in one direction.
Once(q) == \A j, k \in 1 .. Len(q) : q[j].id = q[k].id /\ q[j].id # 0 => j = k

Apart(q, in) == \A j \in 1 .. Len(q), k \in 1 .. Len(in) : q[j].id = in[k].id => in[k].id = 0

AllMatch(q, p) == \A k \in 1 .. Len(q) : Matches(q[k], p)

\* No Subscribe goes out before an Unsubscribe for the same channel.
InTurn(q) == \A j, k \in 1 .. Len(q) :
   j < k /\ q[j].kind = "subscribe" /\ q[k].kind = "unsubscribe" => q[j].ch # q[k].ch

Orderly(q, in, p) == Once(q) /\ Once(in) /\ Apart(q, in) /\ AllMatch(q, p) /\ InTurn(q)

\* A Subscribe is for a channel of the registry.
Known(p, s) ==
  \A i \in Ids : p[i].kind = "subscribe" => p[i].ch \in Channels /\ s[p[i].ch] # "absent"

\* What a message makes the client believe of ch: subscribed, not subscribed, or neither.
AnswersFor(m, p, ch) == m.id \in Ids /\ p[m.id].kind = "subscribe" /\ p[m.id].ch = ch
Confirms(m, p, ch) == AnswersFor(m, p, ch) /\ m.kind \in {"ok", "already"}
Denies(m, p, ch) == (m.id = 0 /\ m.ch = ch) \/ (AnswersFor(m, p, ch) /\ m.kind = "permanent")
Decides(m, p, ch) == Confirms(m, p, ch) \/ Denies(m, p, ch)

\* The channels the server will give up when it has read q.
Leavers(q) == {c \in Channels : \E k \in 1 .. Len(q) : q[k].kind = "unsubscribe" /\ q[k].ch = c}

\* The last message on its way that decides about ch is true of the channels in H; where
\* there is none the registry is.
Agreed(in, p, s, H, ch) ==
  /\ (\A k \in 1 .. Len(in) : ~Decides(in[k], p, ch)) => (s[ch] = "Subscribed" <=> ch \in H)
  /\ \A k \in 1 .. Len(in) :
       Decides(in[k], p, ch) /\ (\A j \in 1 .. Len(in) : j > k => ~Decides(in[j], p, ch))
         => (Confirms(in[k], p, ch) <=> ch \in H)

InAccord(q, in, p, s, v) ==
  /\ Orderly(q, in, p)
  /\ Known(p, s)
  /\ \A ch \in Channels : Agreed(in, p, s, v \ Leavers(q), ch)

\* Off a connection there is nothing to agree on.
Nothing ==
  /\ \A ch \in Channels : sub[ch] # "Subscribed"
  /\ \A i \in Ids : ~InUse(i)
  /\ outbox = <<>> /\ batch_queue = <<>> /\ inbox = <<>> /\ srv = {}

AgreeInv ==
  /\ inbox \in Seq(Message)
  /\ state # "Connected" => Nothing
  /\ Working => /\ ~batch_active => batch_queue = <<>>
                /\ InAccord(Sending, inbox, pending, sub, srv)

-------------------------------------------------------------------------------
(* Agreed and InAccord under each thing that happens to the wire, the table   *)
(* and the registry.                                                          *)

\* The same messages, with the same meaning.
LEMMA AgreedSame ==
  ASSUME NEW in, NEW p, NEW p2, NEW s, NEW s2, NEW H, NEW H2, NEW ch,
         \A k \in 1 .. Len(in) : /\ Confirms(in[k], p2, ch) <=> Confirms(in[k], p, ch)
                                 /\ Denies(in[k], p2, ch) <=> Denies(in[k], p, ch),
         s2[ch] = "Subscribed" <=> s[ch] = "Subscribed",
         ch \in H2 <=> ch \in H,
         Agreed(in, p, s, H, ch)
  PROVE  Agreed(in, p2, s2, H2, ch)
  BY DEF Agreed, Decides

\* A message arrives behind the others.
LEMMA AgreedAppend ==
  ASSUME NEW in \in Seq(Message), NEW m \in Message, NEW p, NEW s, NEW H, NEW H2, NEW ch,
         Decides(m, p, ch) => (Confirms(m, p, ch) <=> ch \in H2),
         ~Decides(m, p, ch) => (ch \in H2 <=> ch \in H),
         Agreed(in, p, s, H, ch)
  PROVE  Agreed(Append(in, m), p, s, H2, ch)
<1> DEFINE in2 == Append(in, m)
<1>1. /\ Len(in2) = Len(in) + 1 /\ Len(in) \in Nat /\ in2[Len(in) + 1] = m
      /\ \A k \in 1 .. Len(in) : in2[k] = in[k]
  OBVIOUS
<1> HIDE DEF in2
<1>2. CASE Decides(m, p, ch)
  BY <1>1, <1>2 DEF Agreed
<1>3. CASE ~Decides(m, p, ch)
  <2>1. ASSUME \A k \in 1 .. Len(in2) : ~Decides(in2[k], p, ch)
        PROVE  s[ch] = "Subscribed" <=> ch \in H2
    <3>1. \A k \in 1 .. Len(in) : ~Decides(in[k], p, ch)
      BY <1>1, <2>1
    <3> QED BY <3>1, <1>3 DEF Agreed
  <2>2. ASSUME NEW k \in 1 .. Len(in2), Decides(in2[k], p, ch),
               \A j \in 1 .. Len(in2) : j > k => ~Decides(in2[j], p, ch)
        PROVE  Confirms(in2[k], p, ch) <=> ch \in H2
    <3>1. k \in 1 .. Len(in) /\ in2[k] = in[k]
      BY <1>1, <1>3, <2>2
    <3>2. \A j \in 1 .. Len(in) : j > k => ~Decides(in[j], p, ch)
      BY <1>1, <2>2
    <3> QED BY <3>1, <3>2, <2>2, <1>3 DEF Agreed
  <2> QED BY <2>1, <2>2 DEF Agreed, in2
<1> QED BY <1>2, <1>3

\* The first message is taken.
LEMMA AgreedTail ==
  ASSUME NEW in \in Seq(Message), in # <<>>, NEW p, NEW s, NEW s2, NEW H, NEW ch,
         Confirms(Head(in), p, ch) => s2[ch] = "Subscribed",
         Denies(Head(in), p, ch) /\ ~Confirms(Head(in), p, ch) => s2[ch] # "Subscribed",
         ~Decides(Head(in), p, ch) => (s2[ch] = "Subscribed" <=> s[ch] = "Subscribed"),
         Agreed(in, p, s, H, ch)
  PROVE  Agreed(Tail(in), p, s2, H, ch)
<1> DEFINE in2 == Tail(in)
<1>1. /\ Len(in) \in Nat /\ Len(in) > 0 /\ Len(in2) = Len(in) - 1 /\ in[1] = Head(in)
      /\ \A k \in 1 .. Len(in2) : in2[k] = in[k + 1]
  OBVIOUS
<1>2. \A k \in 1 .. Len(in) : k > 1 => k - 1 \in 1 .. Len(in2) /\ in2[k - 1] = in[k]
  BY <1>1
<1> HIDE DEF in2
<1>3. ASSUME \A k \in 1 .. Len(in2) : ~Decides(in2[k], p, ch)
      PROVE  s2[ch] = "Subscribed" <=> ch \in H
  <2>1. \A k \in 1 .. Len(in) : k > 1 => ~Decides(in[k], p, ch)
    BY <1>2, <1>3
  <2>2. CASE Decides(Head(in), p, ch)
    <3>1. Confirms(in[1], p, ch) <=> ch \in H
      BY <1>1, <2>1, <2>2 DEF Agreed
    <3> QED BY <1>1, <2>2, <3>1 DEF Decides
  <2>3. CASE ~Decides(Head(in), p, ch)
    <3>1. \A k \in 1 .. Len(in) : ~Decides(in[k], p, ch)
      BY <1>1, <2>1, <2>3
    <3> QED BY <3>1, <2>3 DEF Agreed
  <2> QED BY <2>2, <2>3
<1>4. ASSUME NEW k \in 1 .. Len(in2), Decides(in2[k], p, ch),
             \A j \in 1 .. Len(in2) : j > k => ~Decides(in2[j], p, ch)
      PROVE  Confirms(in2[k], p, ch) <=> ch \in H
  <2>1. k + 1 \in 1 .. Len(in) /\ in2[k] = in[k + 1]
    BY <1>1
  <2>2. \A j \in 1 .. Len(in) : j > k + 1 => ~Decides(in[j], p, ch)
    <3> SUFFICES ASSUME NEW j \in 1 .. Len(in), j > k + 1 PROVE ~Decides(in[j], p, ch)
      OBVIOUS
    <3>1. j - 1 \in 1 .. Len(in2) /\ in2[j - 1] = in[j] /\ j - 1 > k
      BY <1>1, <1>2
    <3> QED BY <3>1, <1>4
  <2> QED BY <2>1, <2>2, <1>4 DEF Agreed
<1> QED BY <1>3, <1>4 DEF Agreed, in2

\* The registry changes where nobody looks.
LEMMA AccordSub ==
  ASSUME NEW q, NEW in, NEW p, NEW s, NEW s2, NEW v,
         \A ch \in Channels : s2[ch] = "Subscribed" <=> s[ch] = "Subscribed",
         Known(p, s2),
         InAccord(q, in, p, s, v)
  PROVE  InAccord(q, in, p, s2, v)
  BY AgreedSame DEF InAccord

\* An entry that is no Subscribe leaves the table: its reply will not be known.
LEMMA AccordDrop ==
  ASSUME NEW q \in Seq(Command), NEW in, NEW p \in [Ids -> PendingRequest], NEW s, NEW v,
         NEW i \in Ids, p[i].kind # "subscribe",
         InAccord(q, in, p, s, v)
  PROVE  InAccord(q, in, [p EXCEPT ![i] = NoRequest], s, v)
<1> DEFINE p2 == [p EXCEPT ![i] = NoRequest]
<1>1. /\ p2[i].kind # "subscribe"
      /\ \A j \in Ids : j # i => p2[j] = p[j]
  BY DEF NoRequest, Request
<1> HIDE DEF p2
<1>2. \A m, ch : AnswersFor(m, p2, ch) <=> AnswersFor(m, p, ch)
  BY <1>1 DEF AnswersFor
<1>3. \A c \in Command : Matches(c, p) => Matches(c, p2)
  BY <1>1 DEF Matches
<1>4. Orderly(q, in, p2)
  BY <1>3 DEF InAccord, Orderly, AllMatch
<1>5. Known(p2, s)
  BY <1>1 DEF InAccord, Known
<1>6. ASSUME NEW ch \in Channels PROVE Agreed(in, p2, s, v \ Leavers(q), ch)
  <2>1. \A k \in 1 .. Len(in) : /\ Confirms(in[k], p2, ch) <=> Confirms(in[k], p, ch)
                                /\ Denies(in[k], p2, ch) <=> Denies(in[k], p, ch)
    BY <1>2 DEF Confirms, Denies
  <2> QED BY <2>1, AgreedSame DEF InAccord
<1> QED BY <1>4, <1>5, <1>6 DEF InAccord, p2

\* A command goes out behind the others.
LEMMA Appended ==
  ASSUME NEW q \in Seq(Command), NEW c \in Command
  PROVE  /\ Append(q, c) \in Seq(Command)
         /\ Len(Append(q, c)) = Len(q) + 1 /\ Len(q) \in Nat
         /\ Append(q, c)[Len(q) + 1] = c
         /\ \A k \in 1 .. Len(q) : Append(q, c)[k] = q[k]
         /\ \A k \in 1 .. Len(Append(q, c)) : k \in 1 .. Len(q) \/ k = Len(q) + 1
  OBVIOUS

\* A request with an id that is not in use.
LEMMA AccordSend ==
  ASSUME NEW q \in Seq(Command), NEW in \in Seq(Message), NEW p \in [Ids -> PendingRequest],
         NEW s, NEW v, NEW i \in Ids, NEW kind \in RequestKinds,
         NEW ch \in Channels \union {"none"}, NEW r,
         p[i].kind = "none",
         \A k \in 1 .. Len(q) : q[k].id # i,
         \A k \in 1 .. Len(in) : in[k].id # i,
         kind = "subscribe" => ch \in Channels /\ s[ch] # "absent",
         InAccord(q, in, p, s, v)
  PROVE  InAccord(Append(q, [id |-> i, kind |-> kind, ch |-> ch]), in,
                 [p EXCEPT ![i] = Request(kind, ch, r)], s, v)
<1> DEFINE c == [id |-> i, kind |-> kind, ch |-> ch]
           q2 == Append(q, c)
           p2 == [p EXCEPT ![i] = Request(kind, ch, r)]
<1>i. i # 0
  BY ActorAssumption
<1>c. c \in Command /\ c.id = i /\ c.kind = kind /\ c.ch = ch
  BY DEF Command, RequestKinds
<1>q. /\ Len(q2) = Len(q) + 1 /\ Len(q) \in Nat
      /\ q2[Len(q) + 1] = c
      /\ \A k \in 1 .. Len(q) : q2[k] = q[k]
      /\ \A k \in 1 .. Len(q2) : k \in 1 .. Len(q) \/ k = Len(q) + 1
  BY <1>c, Appended
<1>p. /\ p2[i].kind = kind /\ p2[i].ch = ch
      /\ \A j \in Ids : j # i => p2[j] = p[j]
  BY DEF Request
<1> HIDE DEF c, q2, p2
<1>o. Once(q) /\ Once(in) /\ Apart(q, in) /\ AllMatch(q, p) /\ InTurn(q) /\ Known(p, s)
  BY DEF InAccord, Orderly
<1>1. Once(q2)
  BY <1>q, <1>c, <1>o DEF Once
<1>2. Apart(q2, in)
  BY <1>q, <1>c, <1>o DEF Apart
<1>3. AllMatch(q2, p2)
  <2>1. Matches(c, p2)
    BY <1>c, <1>p DEF Matches, RequestKinds
  <2>2. \A k \in 1 .. Len(q) : Matches(q[k], p2)
    <3> SUFFICES ASSUME NEW k \in 1 .. Len(q) PROVE Matches(q[k], p2)
      OBVIOUS
    <3>1. Matches(q[k], p) /\ q[k].id # i
      BY <1>o DEF AllMatch
    <3> QED BY <3>1, <1>p DEF Matches
  <2> QED BY <2>1, <2>2, <1>q DEF AllMatch
<1>4. InTurn(q2)
  BY <1>q, <1>c, <1>o DEF InTurn, RequestKinds
<1>5. Known(p2, s)
  BY <1>p, <1>o DEF Known
<1>6. Leavers(q2) = Leavers(q)
  <2>1. c.kind # "unsubscribe"
    BY <1>c DEF RequestKinds
  <2>2. \A a : (\E k \in 1 .. Len(q2) : q2[k].kind = "unsubscribe" /\ q2[k].ch = a)
               <=> (\E k \in 1 .. Len(q) : q[k].kind = "unsubscribe" /\ q[k].ch = a)
    <3> SUFFICES ASSUME NEW a
                 PROVE  (\E k \in 1 .. Len(q2) : q2[k].kind = "unsubscribe" /\ q2[k].ch = a)
                        <=> (\E k \in 1 .. Len(q) : q[k].kind = "unsubscribe" /\ q[k].ch = a)
      OBVIOUS
    <3>1. \A k \in 1 .. Len(q) : k \in 1 .. Len(q2)
      BY <1>q
    <3> QED BY <1>q, <2>1, <3>1
  <2> QED BY <2>2 DEF Leavers
<1>7. ASSUME NEW a \in Channels PROVE Agreed(in, p2, s, v \ Leavers(q2), a)
  <2>1. \A k \in 1 .. Len(in) : AnswersFor(in[k], p2, a) <=> AnswersFor(in[k], p, a)
    BY <1>p DEF AnswersFor
  <2>2. \A k \in 1 .. Len(in) : /\ Confirms(in[k], p2, a) <=> Confirms(in[k], p, a)
                                /\ Denies(in[k], p2, a) <=> Denies(in[k], p, a)
    BY <2>1 DEF Confirms, Denies
  <2> QED BY <2>2, <1>6, AgreedSame DEF InAccord
<1> QED BY <1>1, <1>2, <1>3, <1>4, <1>5, <1>7, <1>o DEF InAccord, Orderly, c, q2, p2

\* An Unsubscribe, when no Subscribe for the channel is in flight.
LEMMA AccordLeave ==
  ASSUME NEW q \in Seq(Command), NEW in \in Seq(Message), NEW p \in [Ids -> PendingRequest],
         NEW s, NEW s2, NEW v, NEW ch \in Channels,
         \A i \in Ids : ~(p[i].kind = "subscribe" /\ p[i].ch = ch),
         s2[ch] # "Subscribed",
         \A a \in Channels : a # ch => s2[a] = s[a],
         InAccord(q, in, p, s, v)
  PROVE  InAccord(Append(q, [id |-> 0, kind |-> "unsubscribe", ch |-> ch]), in, p, s2, v)
<1> DEFINE c == [id |-> 0, kind |-> "unsubscribe", ch |-> ch]
           q2 == Append(q, c)
<1>c. c \in Command /\ c.id = 0 /\ c.kind = "unsubscribe" /\ c.ch = ch
  BY DEF Command
<1>q. /\ Len(q2) = Len(q) + 1 /\ Len(q) \in Nat
      /\ q2[Len(q) + 1] = c
      /\ \A k \in 1 .. Len(q) : q2[k] = q[k]
      /\ \A k \in 1 .. Len(q2) : k \in 1 .. Len(q) \/ k = Len(q) + 1
  BY <1>c, Appended
<1> HIDE DEF c, q2
<1>o. Once(q) /\ Once(in) /\ Apart(q, in) /\ AllMatch(q, p) /\ InTurn(q) /\ Known(p, s)
  BY DEF InAccord, Orderly
<1>1. Once(q2)
  BY <1>q, <1>c, <1>o DEF Once
<1>2. Apart(q2, in)
  BY <1>q, <1>c, <1>o DEF Apart
<1>3. AllMatch(q2, p)
  <2>1. Matches(c, p)
    BY <1>c, ActorAssumption DEF Matches
  <2> QED BY <2>1, <1>q, <1>o DEF AllMatch
<1>4. InTurn(q2)
  <2>1. \A k \in 1 .. Len(q) : q[k].kind = "subscribe" => q[k].ch # ch
    BY <1>o DEF AllMatch, Matches
  <2> QED BY <1>q, <1>c, <1>o, <2>1 DEF InTurn
<1>5. Known(p, s2)
  BY <1>o DEF Known
<1>6. /\ ch \in Leavers(q2)
      /\ \A a \in Channels : a # ch => (a \in Leavers(q2) <=> a \in Leavers(q))
  <2>1. \A k \in 1 .. Len(q) : k \in 1 .. Len(q2)
    BY <1>q
  <2>2. Len(q) + 1 \in 1 .. Len(q2)
    BY <1>q
  <2> QED BY <1>q, <1>c, <2>1, <2>2 DEF Leavers
<1>7. ASSUME NEW a \in Channels PROVE Agreed(in, p, s2, v \ Leavers(q2), a)
  <2>1. CASE a # ch
    BY <2>1, <1>6, AgreedSame DEF InAccord
  <2>2. CASE a = ch
    <3>1. \A m : ~Confirms(m, p, ch)
      BY DEF Confirms, AnswersFor
    <3> QED BY <2>2, <3>1, <1>6 DEF Agreed
  <2> QED BY <2>1, <2>2
<1> QED BY <1>1, <1>2, <1>3, <1>4, <1>5, <1>7, <1>o DEF InAccord, Orderly, c, q2

\* A reply or a push is taken, and the registry follows it.
LEMMA AccordTake ==
  ASSUME NEW q \in Seq(Command), NEW in \in Seq(Message), in # <<>>,
         NEW p \in [Ids -> PendingRequest], NEW p2, NEW s, NEW s2, NEW v,
         \A i \in Ids : p2[i] = p[i] \/ (i = Head(in).id /\ p2[i] = NoRequest),
         \A ch \in Channels :
            /\ Confirms(Head(in), p, ch) => s2[ch] = "Subscribed"
            /\ Denies(Head(in), p, ch) /\ ~Confirms(Head(in), p, ch) => s2[ch] # "Subscribed"
            /\ ~Decides(Head(in), p, ch) => (s2[ch] = "Subscribed" <=> s[ch] = "Subscribed")
            /\ s[ch] # "absent" => s2[ch] # "absent",
         InAccord(q, in, p, s, v)
  PROVE  InAccord(q, Tail(in), p2, s2, v)
<1> DEFINE m == Head(in)
           in2 == Tail(in)
<1>l. /\ Len(in) \in Nat /\ Len(in) > 0 /\ Len(in2) = Len(in) - 1 /\ in[1] = m
      /\ \A k \in 1 .. Len(in2) : k + 1 \in 1 .. Len(in) /\ in2[k] = in[k + 1]
  OBVIOUS
<1> HIDE DEF m, in2
<1>o. Once(q) /\ Once(in) /\ Apart(q, in) /\ AllMatch(q, p) /\ InTurn(q) /\ Known(p, s)
  BY DEF InAccord, Orderly
<1>n. \A i \in Ids : p2[i] = p[i] \/ (i = m.id /\ p2[i].kind = "none")
  BY DEF m, NoRequest, Request
<1>z. \A i \in Ids : i # 0
  BY ActorAssumption
<1>1. Once(in2)
  <2> SUFFICES ASSUME NEW j \in 1 .. Len(in2), NEW k \in 1 .. Len(in2),
                      in2[j].id = in2[k].id, in2[j].id # 0
               PROVE  j = k
    BY DEF Once
  <2>1. j + 1 = k + 1
    BY <1>l, <1>o DEF Once
  <2> QED BY <2>1
<1>2. Apart(q, in2)
  <2> SUFFICES ASSUME NEW j \in 1 .. Len(q), NEW k \in 1 .. Len(in2), q[j].id = in2[k].id
               PROVE  in2[k].id = 0
    BY DEF Apart
  <2>1. k + 1 \in 1 .. Len(in) /\ in2[k] = in[k + 1]
    BY <1>l
  <2> QED BY <2>1, <1>o DEF Apart
\* No other command and no other message has the id.
<1>3. \A k \in 1 .. Len(q) : q[k].id \in Ids => q[k].id # m.id
  BY <1>l, <1>o, <1>z DEF Apart
<1>4. \A k \in 1 .. Len(in2) : in2[k].id \in Ids => in2[k].id # m.id
  <2> SUFFICES ASSUME NEW k \in 1 .. Len(in2), in2[k].id \in Ids, in2[k].id = m.id PROVE FALSE
    OBVIOUS
  <2>1. k + 1 \in 1 .. Len(in) /\ in[k + 1].id = in[1].id /\ in[k + 1].id # 0 /\ 1 \in 1 .. Len(in)
    BY <1>l, <1>z
  <2> QED BY <2>1, <1>o, <1>l DEF Once
<1>5. AllMatch(q, p2)
  <2> SUFFICES ASSUME NEW k \in 1 .. Len(q) PROVE Matches(q[k], p2)
    BY DEF AllMatch
  <2>1. Matches(q[k], p)
    BY <1>o DEF AllMatch
  <2>2. q[k].id \in Ids => p2[q[k].id] = p[q[k].id]
    BY <1>3, <1>n
  <2> QED BY <2>1, <2>2 DEF Matches
<1>6. Known(p2, s2)
  BY <1>n, <1>o DEF Known
<1>7. ASSUME NEW ch \in Channels PROVE Agreed(in2, p2, s2, v \ Leavers(q), ch)
  <2>1. Agreed(in2, p, s2, v \ Leavers(q), ch)
    BY AgreedTail DEF InAccord, m, in2
  <2>2. \A k \in 1 .. Len(in2) : AnswersFor(in2[k], p2, ch) <=> AnswersFor(in2[k], p, ch)
    BY <1>4, <1>n DEF AnswersFor
  <2>3. \A k \in 1 .. Len(in2) : /\ Confirms(in2[k], p2, ch) <=> Confirms(in2[k], p, ch)
                                 /\ Denies(in2[k], p2, ch) <=> Denies(in2[k], p, ch)
    BY <2>2 DEF Confirms, Denies
  <2> QED BY <2>1, <2>3, AgreedSame
<1> QED BY <1>1, <1>2, <1>5, <1>6, <1>7, <1>o DEF InAccord, Orderly, in2

\* The server takes a command c.
LEMMA Served ==
  ASSUME NEW q \in Seq(Command), q # <<>>
  PROVE  /\ Head(q) \in Command /\ q[1] = Head(q) /\ Tail(q) \in Seq(Command)
         /\ Len(q) \in Nat /\ Len(q) > 0 /\ Len(Tail(q)) = Len(q) - 1
         /\ \A k \in 1 .. Len(Tail(q)) : k + 1 \in 1 .. Len(q) /\ Tail(q)[k] = q[k + 1]
         /\ \A k \in 1 .. Len(q) : k = 1 \/ (k - 1 \in 1 .. Len(Tail(q)) /\ Tail(q)[k - 1] = q[k])
  OBVIOUS

\* What is left of the queue is in order.
LEMMA OrderlyServed ==
  ASSUME NEW q \in Seq(Command), q # <<>>, NEW in, NEW p, Orderly(q, in, p)
  PROVE  Orderly(Tail(q), in, p)
<1> DEFINE q2 == Tail(q)
<1>l. /\ Len(q) \in Nat /\ Len(q2) = Len(q) - 1
      /\ \A k \in 1 .. Len(q2) : k + 1 \in 1 .. Len(q) /\ q2[k] = q[k + 1]
  BY Served
<1> HIDE DEF q2
<1>o. Once(q) /\ Once(in) /\ Apart(q, in) /\ AllMatch(q, p) /\ InTurn(q)
  BY DEF Orderly
<1>1. Once(q2)
  <2> SUFFICES ASSUME NEW j \in 1 .. Len(q2), NEW k \in 1 .. Len(q2),
                      q2[j].id = q2[k].id, q2[j].id # 0
               PROVE  j = k
    BY DEF Once
  <2>1. j + 1 = k + 1
    BY <1>l, <1>o DEF Once
  <2> QED BY <2>1
<1>2. Apart(q2, in)
  <2> SUFFICES ASSUME NEW j \in 1 .. Len(q2), NEW k \in 1 .. Len(in), q2[j].id = in[k].id
               PROVE  in[k].id = 0
    BY DEF Apart
  <2>1. j + 1 \in 1 .. Len(q) /\ q2[j] = q[j + 1]
    BY <1>l
  <2> QED BY <2>1, <1>o DEF Apart
<1>3. AllMatch(q2, p)
  BY <1>l, <1>o DEF AllMatch
<1>4. InTurn(q2)
  <2> SUFFICES ASSUME NEW j \in 1 .. Len(q2), NEW k \in 1 .. Len(q2), j < k,
                      q2[j].kind = "subscribe", q2[k].kind = "unsubscribe"
               PROVE  q2[j].ch # q2[k].ch
    BY DEF InTurn
  <2>1. j + 1 < k + 1
    OBVIOUS
  <2> QED BY <2>1, <1>l, <1>o DEF InTurn
<1> QED BY <1>1, <1>2, <1>3, <1>4, <1>o DEF Orderly, q2

\* A command that is not an Unsubscribe makes nobody leave.
LEMMA LeaversServed ==
  ASSUME NEW q \in Seq(Command), q # <<>>
  PROVE  /\ Head(q).kind # "unsubscribe" => Leavers(Tail(q)) = Leavers(q)
         /\ Head(q).kind = "unsubscribe"
              => \A a \in Channels : a \in Leavers(q) <=> a \in Leavers(Tail(q)) \/ a = Head(q).ch
<1> DEFINE q2 == Tail(q)
           L(r, a) == \E k \in 1 .. Len(r) : r[k].kind = "unsubscribe" /\ r[k].ch = a
<1>l. /\ q[1] = Head(q) /\ Len(q) \in Nat /\ Len(q) > 0 /\ Len(q2) = Len(q) - 1
      /\ \A k \in 1 .. Len(q2) : k + 1 \in 1 .. Len(q) /\ q2[k] = q[k + 1]
      /\ \A k \in 1 .. Len(q) : k = 1 \/ (k - 1 \in 1 .. Len(q2) /\ q2[k - 1] = q[k])
  BY Served
<1>h. 1 \in 1 .. Len(q)
  BY <1>l
<1> HIDE DEF q2
<1>1. \A a : L(q, a) <=> L(q2, a) \/ (Head(q).kind = "unsubscribe" /\ Head(q).ch = a)
  BY <1>l, <1>h
<1> HIDE DEF L
<1>2. Leavers(q) = {a \in Channels : L(q, a)} /\ Leavers(q2) = {a \in Channels : L(q2, a)}
  BY DEF Leavers, L
<1> QED BY <1>1, <1>2 DEF q2

\* The reply to command c does not meet another message with its id.
LEMMA OrderlyReplied ==
  ASSUME NEW q \in Seq(Command), q # <<>>, NEW in \in Seq(Message), NEW p, NEW m \in Message,
         m.id \in {0, Head(q).id},
         Orderly(q, in, p)
  PROVE  Orderly(Tail(q), Append(in, m), p)
<1> DEFINE q2 == Tail(q)
           in2 == Append(in, m)
           c == Head(q)
<1>l. /\ q[1] = c /\ Len(q) \in Nat /\ Len(q) > 0 /\ Len(q2) = Len(q) - 1
      /\ \A k \in 1 .. Len(q2) : k + 1 \in 1 .. Len(q) /\ q2[k] = q[k + 1]
      /\ 1 \in 1 .. Len(q)
  BY Served
<1>a. /\ Len(in2) = Len(in) + 1 /\ Len(in) \in Nat /\ in2[Len(in) + 1] = m
      /\ \A k \in 1 .. Len(in) : in2[k] = in[k]
      /\ \A k \in 1 .. Len(in2) : k \in 1 .. Len(in) \/ k = Len(in) + 1
  OBVIOUS
<1>o. Orderly(q2, in, p) /\ Once(q) /\ Apart(q, in) /\ Once(in) /\ Apart(q2, in)
  BY OrderlyServed DEF Orderly
<1> HIDE DEF q2, in2, c
<1>m. m.id \in {0, c.id}
  BY DEF c
<1>1. \A k \in 1 .. Len(in) : m.id # 0 => in[k].id # m.id
  BY <1>l, <1>o, <1>m DEF Apart
<1>2. \A k \in 1 .. Len(q2) : m.id # 0 => q2[k].id # m.id
  <2> SUFFICES ASSUME NEW k \in 1 .. Len(q2), m.id # 0, q2[k].id = m.id PROVE FALSE
    OBVIOUS
  <2>1. k + 1 \in 1 .. Len(q) /\ q[k + 1].id = q[1].id /\ q[1].id # 0
    BY <1>l, <1>m
  <2>2. k + 1 = 1
    BY <2>1, <1>l, <1>o DEF Once
  <2> QED BY <2>2
<1>3. Once(in2)
  BY <1>1, <1>a, <1>o DEF Once
<1>4. Apart(q2, in2)
  <2> SUFFICES ASSUME NEW j \in 1 .. Len(q2), NEW k \in 1 .. Len(in2), q2[j].id = in2[k].id
               PROVE  in2[k].id = 0
    BY DEF Apart
  <2>1. CASE k \in 1 .. Len(in)
    BY <2>1, <1>a, <1>o DEF Apart
  <2>2. CASE k = Len(in) + 1
    BY <2>2, <1>a, <1>2
  <2> QED BY <2>1, <2>2, <1>a
<1> QED BY <1>3, <1>4, <1>o DEF Orderly, q2, in2

\* A Subscribe is answered with what the server then holds.
LEMMA AccordAnswer ==
  ASSUME NEW q \in Seq(Command), q # <<>>, NEW in \in Seq(Message), NEW p, NEW s,
         NEW v, NEW v2, NEW m \in Message,
         Head(q).kind = "subscribe", m.id = Head(q).id,
         \/ m.kind \in {"ok", "already"} /\ v2 = v \union {Head(q).ch}
         \/ m.kind \notin {"ok", "already"} /\ v2 = v /\ Head(q).ch \notin v,
         InAccord(q, in, p, s, v)
  PROVE  InAccord(Tail(q), Append(in, m), p, s, v2)
<1> DEFINE c == Head(q)
<1>l. /\ q[1] = c /\ c \in Command /\ Len(q) \in Nat /\ 1 \in 1 .. Len(q)
      /\ \A k \in 1 .. Len(Tail(q)) : k + 1 \in 1 .. Len(q) /\ Tail(q)[k] = q[k + 1]
  BY Served
<1>k. c.kind = "subscribe" /\ m.id = c.id
  OBVIOUS
<1>o. Orderly(Tail(q), Append(in, m), p) /\ AllMatch(q, p) /\ InTurn(q) /\ Known(p, s)
  BY OrderlyReplied DEF InAccord, Orderly
<1>v. Leavers(Tail(q)) = Leavers(q)
  BY LeaversServed
<1> HIDE DEF c
<1>1. c.id \in Ids /\ c.id # 0 /\ p[c.id].kind = "subscribe" /\ p[c.id].ch = c.ch /\ c.ch \in Channels
  BY <1>l, <1>k, <1>o, ActorAssumption DEF AllMatch, Matches, Command
<1>2. c.ch \notin Leavers(Tail(q))
  <2> SUFFICES ASSUME NEW k \in 1 .. Len(Tail(q)), Tail(q)[k].kind = "unsubscribe",
                      Tail(q)[k].ch = c.ch
               PROVE  FALSE
    BY DEF Leavers
  <2>1. k + 1 \in 1 .. Len(q) /\ 1 < k + 1 /\ q[k + 1].kind = "unsubscribe" /\ q[k + 1].ch = q[1].ch
    BY <1>l
  <2> QED BY <2>1, <1>l, <1>k, <1>o DEF InTurn
<1>3. ASSUME NEW a \in Channels PROVE Agreed(Append(in, m), p, s, v2 \ Leavers(Tail(q)), a)
  <2>1. Agreed(in, p, s, v \ Leavers(q), a)
    BY DEF InAccord
  <2>2. AnswersFor(m, p, a) <=> a = c.ch
    BY <1>1, <1>k DEF AnswersFor
  <2>3. CASE a = c.ch
    <3>1. Confirms(m, p, a) <=> a \in v2 \ Leavers(Tail(q))
      BY <1>2, <2>2, <2>3 DEF Confirms, c
    <3>2. ~Decides(m, p, a) => (a \in v2 \ Leavers(Tail(q)) <=> a \in v \ Leavers(q))
      <4>1. CASE Confirms(m, p, a)
        BY <4>1 DEF Decides
      <4>2. CASE ~Confirms(m, p, a)
        <5>1. a \notin v2
          BY <4>2, <3>1, <1>2, <2>3
        <5>2. m.kind \notin {"ok", "already"}
          BY <4>2, <2>2, <2>3 DEF Confirms
        <5>3. a \notin v
          BY <5>2, <2>3 DEF c
        <5> QED BY <5>1, <5>3
      <4> QED BY <4>1, <4>2
    <3> QED BY <2>1, <3>1, <3>2, AgreedAppend
  <2>4. CASE a # c.ch
    <3>1. ~Decides(m, p, a)
      BY <2>2, <2>4, <1>1, <1>k DEF Decides, Confirms, Denies
    <3>2. a \in v2 \ Leavers(Tail(q)) <=> a \in v \ Leavers(q)
      BY <1>v, <2>4 DEF c
    <3> QED BY <2>1, <3>1, <3>2, AgreedAppend
  <2> QED BY <2>3, <2>4
<1> QED BY <1>o, <1>3 DEF InAccord

\* Any other request is answered.
LEMMA AccordReply ==
  ASSUME NEW q \in Seq(Command), q # <<>>, NEW in \in Seq(Message), NEW p, NEW s, NEW v,
         NEW m \in Message,
         Head(q).kind \in {"request", "refresh", "sub_refresh"}, m.id = Head(q).id,
         InAccord(q, in, p, s, v)
  PROVE  InAccord(Tail(q), Append(in, m), p, s, v)
<1>1. Orderly(Tail(q), Append(in, m), p) /\ AllMatch(q, p) /\ Known(p, s)
  BY OrderlyReplied DEF InAccord, Orderly
<1>2. Leavers(Tail(q)) = Leavers(q)
  BY LeaversServed
<1>3. m.id \in Ids /\ m.id # 0 /\ p[m.id].kind # "subscribe"
  BY <1>1, Served, ActorAssumption DEF AllMatch, Matches
<1>4. \A a : ~Decides(m, p, a)
  BY <1>3 DEF Decides, Confirms, Denies, AnswersFor
<1>5. ASSUME NEW a \in Channels PROVE Agreed(Append(in, m), p, s, v \ Leavers(Tail(q)), a)
  BY <1>2, <1>4, AgreedAppend DEF InAccord
<1> QED BY <1>1, <1>5 DEF InAccord

\* An Unsubscribe takes effect.
LEMMA AccordLeft ==
  ASSUME NEW q \in Seq(Command), q # <<>>, NEW in, NEW p, NEW s, NEW v,
         Head(q).kind = "unsubscribe",
         InAccord(q, in, p, s, v)
  PROVE  InAccord(Tail(q), in, p, s, v \ {Head(q).ch})
<1>1. Orderly(Tail(q), in, p)
  BY OrderlyServed DEF InAccord
<1>2. \A a \in Channels : a \in Leavers(q) <=> a \in Leavers(Tail(q)) \/ a = Head(q).ch
  BY LeaversServed
<1>3. ASSUME NEW a \in Channels
      PROVE  Agreed(in, p, s, (v \ {Head(q).ch}) \ Leavers(Tail(q)), a)
  <2>1. a \in (v \ {Head(q).ch}) \ Leavers(Tail(q)) <=> a \in v \ Leavers(q)
    BY <1>2
  <2> QED BY <2>1, AgreedSame DEF InAccord
<1> QED BY <1>1, <1>3 DEF InAccord

\* The server ends a subscription it holds.
LEMMA AccordPush ==
  ASSUME NEW q \in Seq(Command), NEW in \in Seq(Message), NEW p, NEW s, NEW v, NEW m \in Message,
         NEW ch \in Channels, m.id = 0, m.ch = ch,
         InAccord(q, in, p, s, v)
  PROVE  InAccord(q, Append(in, m), p, s, v \ {ch})
<1> DEFINE in2 == Append(in, m)
<1>a. /\ Len(in) \in Nat
      /\ \A k \in 1 .. Len(in2) : (k \in 1 .. Len(in) /\ in2[k] = in[k]) \/ in2[k] = m
  OBVIOUS
<1> HIDE DEF in2
<1>z. 0 \notin Ids
  BY ActorAssumption
<1>o. Once(q) /\ Once(in) /\ Apart(q, in) /\ AllMatch(q, p) /\ InTurn(q) /\ Known(p, s)
  BY DEF InAccord, Orderly
<1>1. Once(in2)
  BY <1>a, <1>o DEF Once
<1>2. Apart(q, in2)
  BY <1>a, <1>o DEF Apart
<1>3. ASSUME NEW a \in Channels PROVE Agreed(in2, p, s, (v \ {ch}) \ Leavers(q), a)
  <2>1. ~Confirms(m, p, a) /\ (Denies(m, p, a) <=> a = ch)
    BY <1>z DEF Confirms, Denies, AnswersFor
  <2>2. Agreed(in, p, s, v \ Leavers(q), a)
    BY DEF InAccord
  <2>3. CASE a = ch
    BY <2>1, <2>2, <2>3, AgreedAppend DEF Decides, in2
  <2>4. CASE a # ch
    BY <2>1, <2>2, <2>4, AgreedAppend DEF Decides, in2
  <2> QED BY <2>3, <2>4
<1> QED BY <1>1, <1>2, <1>3, <1>o DEF InAccord, Orderly, in2

\* A new connection: the server took the channels in v with the Connect command.
LEMMA AccordNew ==
  ASSUME NEW p, NEW s, NEW v, \A i \in Ids : p[i].kind = "none",
         \A ch \in Channels : s[ch] = "Subscribed" <=> ch \in v
  PROVE  InAccord(<<>>, <<>>, p, s, v)
<1>1. Len(<<>>) = 0 /\ 1 .. 0 = {}
  OBVIOUS
<1>2. Orderly(<<>>, <<>>, p)
  BY <1>1 DEF Orderly, Once, Apart, AllMatch, InTurn
<1>3. Leavers(<<>>) = {}
  BY <1>1 DEF Leavers
<1>4. \A ch \in Channels : Agreed(<<>>, p, s, v \ Leavers(<<>>), ch)
  BY <1>1, <1>3 DEF Agreed
<1> QED BY <1>2, <1>4 DEF InAccord, Known

-------------------------------------------------------------------------------
(* The steps of the actor.                                                    *)

\* On a working connection a command joins what is on its way, queued or not.
LEMMA SentBehind ==
  ASSUME ActorTypes, link = "joined", ~batch_active => batch_queue = <<>>,
         NEW id \in Ids \union {0}, NEW kind \in RequestKinds \union {"unsubscribe"},
         NEW ch \in Channels \union {"none"}, kind = "subscribe" => ch \in Channels,
         Sent(id, kind, ch)
  PROVE  /\ Sending' = Append(Sending, [id |-> id, kind |-> kind, ch |-> ch])
         /\ ~batch_active => batch_queue' = <<>>
         /\ inbox' = inbox /\ srv' = srv
<1> DEFINE c == [id |-> id, kind |-> kind, ch |-> ch]
<1>c. c \in Command
  BY DEF Command
<1>t. outbox \in Seq(Command) /\ batch_queue \in Seq(Command) /\ <<c>> \in Seq(Command)
  BY <1>c DEF ActorTypes, WireTyped
<1>s. Sending \in Seq(Command)
  BY <1>t, ConcatProperties DEF Sending
<1> HIDE DEF c
<1>1. CASE batch_active
  <2>1. outbox' = outbox /\ batch_queue' = Append(batch_queue, c)
    BY <1>1 DEF Sent, c
  <2>2. Append(batch_queue, c) = batch_queue \o <<c>> /\ Append(Sending, c) = Sending \o <<c>>
    BY <1>t, <1>s, <1>c, AppendIsConcat
  <2>3. outbox \o (batch_queue \o <<c>>) = (outbox \o batch_queue) \o <<c>>
    BY <1>t, ConcatAssociative
  <2> QED BY <1>1, <2>1, <2>2, <2>3 DEF Sent, Sending, c
<1>2. CASE ~batch_active
  <2>1. outbox' = Append(outbox, c) /\ batch_queue' = <<>> /\ batch_queue = <<>>
    BY <1>2 DEF Sent, c
  <2>2. Append(outbox, c) \in Seq(Command)
    BY <1>t, <1>c, AppendProperties
  <2>3. Sending' = Append(outbox, c) /\ Sending = outbox
    BY <1>t, <2>1, <2>2, ConcatEmptySeq DEF Sending
  <2> QED BY <1>2, <2>1, <2>3 DEF Sent, c
<1> QED BY <1>1, <1>2

LEMMA NewIdUnheard ==
  ASSUME ActorTypes, FreeIds # {}
  PROVE  /\ NewId \in Ids /\ ~InUse(NewId)
         /\ \A k \in 1 .. Len(Sending) : Sending[k].id # NewId
         /\ \A k \in 1 .. Len(inbox) : inbox[k].id # NewId
<1>1. NewId \in Ids /\ ~InUse(NewId) /\ ~OnWire(NewId)
  BY DEF NewId, FreeIds
<1>2. outbox \in Seq(Command) /\ batch_queue \in Seq(Command)
  BY DEF ActorTypes, WireTyped
<1>3. ASSUME NEW k \in 1 .. Len(Sending) PROVE Sending[k].id # NewId
  <2>1. \/ k \in 1 .. Len(outbox) /\ Sending[k] = outbox[k]
        \/ k - Len(outbox) \in 1 .. Len(batch_queue)
             /\ Sending[k] = batch_queue[k - Len(outbox)]
    BY <1>2, <1>3 DEF Sending
  <2> QED BY <2>1, <1>1 DEF OnWire
<1> QED BY <1>1, <1>3 DEF OnWire

\* Nothing is claimed of a connection whose transport has broken.
LEMMA Unclaimed ==
  ASSUME inbox' \in Seq(Message), state' = "Connected", ~Working'
  PROVE  AgreeInv'
  BY DEF AgreeInv

LEMMA NothingAgrees ==
  ASSUME Nothing'
  PROVE  AgreeInv'
<1>1. /\ \A i \in Ids : pending'[i].kind = "none"
      /\ \A ch \in Channels : sub'[ch] = "Subscribed" <=> ch \in srv'
  BY DEF Nothing, InUse
<1>2. Sending' = <<>> /\ inbox' = <<>> /\ inbox' \in Seq(Message)
  BY DEF Nothing, Sending
<1>3. InAccord(Sending', inbox', pending', sub', srv')
  BY <1>1, <1>2, AccordNew
<1> QED BY <1>2, <1>3 DEF AgreeInv, Nothing

\* A step that leaves requests and wire alone and confirms nothing.
LEMMA WireAlone ==
  ASSUME AgreeInv, UNCHANGED <<pending, wireVars>>,
         state' # "Connected" => state # "Connected",
         Working' => Working /\ (~batch_active' => ~batch_active),
         \A ch \in Channels : sub'[ch] = "Subscribed" <=> sub[ch] = "Subscribed",
         Working => Known(pending, sub')
  PROVE  AgreeInv'
<1>1. Sending' = Sending /\ UNCHANGED <<pending, batch_queue, outbox, inbox, srv>>
  BY DEF Sending, wireVars
<1>2. state # "Connected" => Nothing'
  BY <1>1 DEF AgreeInv, Nothing, InUse
<1>3. Working => InAccord(Sending, inbox, pending, sub', srv)
  BY AccordSub DEF AgreeInv
<1> QED BY <1>1, <1>2, <1>3 DEF AgreeInv

\* What ends a connection leaves nothing behind.
LEMMA EndAgrees ==
  ASSUME NEW S, NEW r \in BOOLEAN, NEW s \in [Channels -> SubscriptionState],
         sub \in [Channels -> SubscriptionState],
         state # "Connected" => \A ch \in Channels : s[ch] # "Subscribed",
         SubsDisconnected(s, S) \/ SubsOnTransportClose(r, s, S) \/ SubsClosed
  PROVE  AgreeInv'
<1>1. ASSUME NEW T, FailPendingAnd(T) PROVE \A i \in Ids : ~InUse(i)'
  BY <1>1 DEF FailPendingAnd, InUse, NoRequest, Request
<1>2. WireDown => outbox' = <<>> /\ inbox' = <<>> /\ srv' = {}
  BY DEF WireDown
<1>3. CASE SubsDisconnected(s, S)
  <2>1. \A ch \in Channels : sub'[ch] # "Subscribed"
    BY <1>3 DEF SubsDisconnected, Set, LiveIn, Live
  <2> QED BY <1>1, <1>2, <1>3, <2>1, NothingAgrees DEF SubsDisconnected, Nothing
<1>4. CASE SubsClosed
  <2>1. \A ch \in Channels : sub'[ch] # "Subscribed"
    BY <1>4 DEF SubsClosed, Set, LiveIn, Live
  <2> QED BY <1>1, <1>2, <1>4, <2>1, NothingAgrees DEF SubsClosed, Nothing
<1>5. CASE SubsOnTransportClose(r, s, S) /\ ~SubsDisconnected(s, S)
  <2>1. \A ch \in Channels : sub'[ch] # "Subscribed"
    BY <1>5 DEF SubsOnTransportClose, Set
  <2> QED BY <1>1, <1>2, <1>5, <2>1, NothingAgrees DEF SubsOnTransportClose, Nothing
<1> QED BY <1>3, <1>4, <1>5

\* A request goes out, or the transport turns out to have broken.
LEMMA SendAgrees ==
  ASSUME ActorTypes, AgreeInv, state = "Connected", UNCHANGED <<state, link, batch_active>>,
         NEW kind \in RequestKinds, NEW ch \in Channels \union {"none"}, NEW r,
         kind = "subscribe" => ch \in Channels /\ sub'[ch] # "absent",
         SendPending(kind, ch, r),
         \A a \in Channels : /\ sub'[a] = "Subscribed" <=> sub[a] = "Subscribed"
                             /\ sub[a] # "absent" => sub'[a] # "absent"
  PROVE  AgreeInv'
<1>1. CASE Working
  <2>1. /\ FreeIds # {}
        /\ pending' = [pending EXCEPT ![NewId] = Request(kind, ch, r)]
        /\ Sent(NewId, kind, ch)
    BY <1>1 DEF SendPending, SendFails, Working
  <2>2. /\ NewId \in Ids /\ pending[NewId].kind = "none"
        /\ \A k \in 1 .. Len(Sending) : Sending[k].id # NewId
        /\ \A k \in 1 .. Len(inbox) : inbox[k].id # NewId
    BY <2>1, NewIdUnheard DEF InUse
  <2>3. /\ Sending' = Append(Sending, [id |-> NewId, kind |-> kind, ch |-> ch])
        /\ ~batch_active => batch_queue' = <<>>
        /\ inbox' = inbox /\ srv' = srv
    BY <1>1, <2>1, <2>2, SentBehind DEF AgreeInv, Working
  <2>4. /\ Sending \in Seq(Command) /\ inbox \in Seq(Message)
        /\ pending \in [Ids -> PendingRequest]
    BY ConcatProperties DEF ActorTypes, WireTyped, ActorTypeOK, AgreeInv, Sending
  <2>5. InAccord(Sending, inbox, pending, sub, srv) /\ Known(pending, sub')
    BY <1>1 DEF AgreeInv, InAccord, Known
  <2>6. InAccord(Sending, inbox, pending, sub', srv)
    BY <2>5, AccordSub
  <2>7. InAccord(Sending', inbox', pending', sub', srv')
    BY <2>1, <2>2, <2>3, <2>4, <2>6, AccordSend
  <2> QED BY <1>1, <2>3, <2>4, <2>7 DEF AgreeInv, Working
<1>2. CASE ~Working
  <2>1. inbox' = inbox
    BY DEF SendPending, Sent, SendFails, wireVars
  <2> QED BY <1>2, <2>1, Unclaimed DEF AgreeInv, Working
<1> QED BY <1>1, <1>2

\* A subscription is given up, and the server told where it holds one.
LEMMA LeaveAgrees ==
  ASSUME ActorTypes, AgreeInv, UNCHANGED <<state, link, batch_active, pending>>,
         NEW ch \in Channels, ~InFlight(ch),
         sub' = [sub EXCEPT ![ch] = "Unsubscribed"] \/ sub' = [sub EXCEPT ![ch] = "absent"],
         IF OnTheServer(ch) THEN Sent(0, "unsubscribe", ch) ELSE UNCHANGED wireVars
  PROVE  AgreeInv'
<1>t. /\ sub \in [Channels -> SubscriptionState]
      /\ \A i \in Ids : ~(pending[i].kind = "subscribe" /\ pending[i].ch = ch)
  BY DEF ActorTypes, ActorTypeOK, InFlight
<1>u. sub'[ch] # "Subscribed" /\ \A a \in Channels : a # ch => sub'[a] = sub[a]
  BY <1>t
<1>1. CASE ~OnTheServer(ch)
  <2>1. CASE state = "Connected"
    <3>1. \A a \in Channels : sub'[a] = "Subscribed" <=> sub[a] = "Subscribed"
      BY <1>1, <1>u, <2>1 DEF OnTheServer
    <3>2. Working => Known(pending, sub')
      BY <1>t, <1>u DEF AgreeInv, InAccord, Known
    <3> QED BY <1>1, <3>1, <3>2, WireAlone DEF Working
  <2>2. CASE state # "Connected"
    <3>1. Nothing
      BY <2>2 DEF AgreeInv
    <3>2. Nothing'
      BY <1>1, <1>u, <3>1 DEF Nothing, InUse, wireVars
    <3> QED BY <3>2, NothingAgrees
  <2> QED BY <2>1, <2>2
<1>2. CASE OnTheServer(ch) /\ Working
  <2>1. /\ Sending' = Append(Sending, [id |-> 0, kind |-> "unsubscribe", ch |-> ch])
        /\ ~batch_active => batch_queue' = <<>>
        /\ inbox' = inbox /\ srv' = srv
    BY <1>2, SentBehind DEF AgreeInv, Working
  <2>2. /\ Sending \in Seq(Command) /\ inbox \in Seq(Message)
        /\ pending \in [Ids -> PendingRequest]
    BY ConcatProperties DEF ActorTypes, WireTyped, ActorTypeOK, AgreeInv, Sending
  <2>3. InAccord(Sending', inbox', pending', sub', srv')
    BY <1>t, <1>u, <1>2, <2>1, <2>2, AccordLeave DEF AgreeInv
  <2> QED BY <1>2, <2>1, <2>2, <2>3 DEF AgreeInv, Working
<1>3. CASE OnTheServer(ch) /\ ~Working
  BY <1>3, Unclaimed DEF AgreeInv, Working, OnTheServer, Sent
<1> QED BY <1>1, <1>2, <1>3

\* do_subscribe(), with a callback that does not refuse.
LEMMA DoSubscribeAgrees ==
  ASSUME ActorTypes, AgreeInv, state = "Connected", UNCHANGED <<state, link, batch_active>>,
         "unauthorized" \notin SubTokenOutcomes,
         NEW ch \in Channels, NEW timers, DoSubscribe(ch, timers)
  PROVE  AgreeInv'
<1>1. CASE UNCHANGED <<sub, pending, wireVars>>
  <2>1. Working => Known(pending, sub')
    BY <1>1 DEF AgreeInv, InAccord
  <2> QED BY <1>1, <2>1, WireAlone DEF Working
<1>2. CASE sub[ch] \in Live /\ SendPending("subscribe", ch, "nobody") /\ UNCHANGED sub
  BY <1>2, SendAgrees DEF RequestKinds, Live
<1> QED BY <1>1, <1>2 DEF DoSubscribe, reqVars

\* A frame is dispatched.
LEMMA FrameAgrees ==
  ASSUME Inv, ActorTypes, AgreeInv, HandleFrame
  PROVE  AgreeInv'
<1> DEFINE m == Head(inbox)
<1>t. /\ sub \in [Channels -> SubscriptionState]
      /\ pending \in [Ids -> PendingRequest]
      /\ Sending \in Seq(Command) /\ inbox \in Seq(Message) /\ inbox # <<>>
      /\ state = "Connected"
  BY ConcatProperties DEF ActorTypes, ActorTypeOK, WireTyped, AgreeInv, Sending, HandleFrame, Inv,
     ControlMatchesState
<1>f. /\ m \in Message /\ Tail(inbox) \in Seq(Message) /\ inbox' = Tail(inbox)
      /\ UNCHANGED <<lifeVars, batch_queue, outbox, srv>>
  BY <1>t, HeadTailProperties DEF HandleFrame
<1>s. Sending' = Sending /\ Working' = Working /\ UNCHANGED <<state, batch_active>>
  BY <1>f DEF Sending, Working, lifeVars
<1>c. CASE ~Working
  BY <1>c, <1>f, <1>s, <1>t, Unclaimed
<1>w. CASE Working
  <2> HIDE DEF m
  <2>k. InAccord(Sending, inbox, pending, sub, srv) /\ Known(pending, sub)
    BY <1>w DEF AgreeInv, InAccord
  <2>z. 0 \notin Ids
    BY ActorAssumption
  <2>p. \A i \in Ids : pending'[i] = pending[i] \/ (i = m.id /\ pending'[i] = NoRequest)
    BY <1>t DEF HandleFrame, Resolve, ServerUnsubscribe, reqVars, m
  <2>a. \A ch \in Channels :
           /\ Confirms(m, pending, ch) => sub'[ch] = "Subscribed"
           /\ Denies(m, pending, ch) /\ ~Confirms(m, pending, ch) => sub'[ch] # "Subscribed"
           /\ ~Decides(m, pending, ch) => (sub'[ch] = "Subscribed" <=> sub[ch] = "Subscribed")
           /\ sub[ch] # "absent" => sub'[ch] # "absent"
    <3>1. CASE m.id = 0 /\ ServerUnsubscribe(m.ch, m.kind = "resubscribe")
      <4>1. \A ch : ~Confirms(m, pending, ch) /\ (Denies(m, pending, ch) <=> ch = m.ch)
        BY <2>z, <3>1 DEF Confirms, Denies, AnswersFor
      <4>2. \A ch \in Channels : /\ ch # m.ch => sub'[ch] = sub[ch]
                                 /\ ch = m.ch => sub'[ch] # "Subscribed"
                                 /\ sub[ch] # "absent" => sub'[ch] # "absent"
        BY <3>1, <1>t DEF ServerUnsubscribe
      <4> QED BY <4>1, <4>2 DEF Decides
    <3>2. CASE m.id \in Ids /\ Resolve(m.id, m.kind)
      <4>1. CASE pending[m.id].kind # "subscribe"
        <5>1. \A ch : ~Confirms(m, pending, ch) /\ ~Denies(m, pending, ch)
          BY <2>z, <3>2, <4>1 DEF Confirms, Denies, AnswersFor
        <5>2. sub' = sub
          BY <3>2, <4>1 DEF Resolve
        <5> QED BY <5>1, <5>2 DEF Decides
      <4>2. CASE pending[m.id].kind = "subscribe"
        <5> DEFINE c == pending[m.id].ch
        <5>1. c \in Channels /\ sub[c] # "absent"
          BY <2>k, <3>2, <4>2 DEF Known
        <5>2. \A ch : /\ Confirms(m, pending, ch) <=> ch = c /\ m.kind \in {"ok", "already"}
                      /\ Denies(m, pending, ch) <=> ch = c /\ m.kind = "permanent"
          BY <2>z, <3>2, <4>2 DEF Confirms, Denies, AnswersFor
        <5>3. CASE m.kind \in {"ok", "already"}
          <6>1. sub' = [sub EXCEPT ![c] = "Subscribed"]
            BY <3>2, <4>2, <5>1, <5>3 DEF Resolve, SubscribeSuccess
          <6> QED BY <1>t, <5>1, <5>2, <5>3, <6>1 DEF Decides
        <5>4. CASE m.kind \notin {"ok", "already"}
          <6>1. SubscribeError(c, pending[m.id].caller, m.kind)
            BY <3>2, <4>2, <5>4 DEF Resolve
          <6>2. IF m.kind = "permanent" THEN sub' = [sub EXCEPT ![c] = "Unsubscribed"]
                                        ELSE sub' = sub
            BY <6>1, <5>1 DEF SubscribeError
          <6> QED BY <1>t, <5>1, <5>2, <5>4, <6>2 DEF Decides
        <5> QED BY <5>3, <5>4
      <4> QED BY <4>1, <4>2
    <3>3. CASE m.id \in Ids /\ ~InUse(m.id) /\ UNCHANGED sub
      <4>1. \A ch : ~Confirms(m, pending, ch) /\ ~Denies(m, pending, ch)
        BY <2>z, <3>3 DEF Confirms, Denies, AnswersFor, InUse
      <4> QED BY <3>3, <4>1 DEF Decides
    <3> QED BY <3>1, <3>2, <3>3 DEF HandleFrame, m
  <2>1. InAccord(Sending, Tail(inbox), pending', sub', srv)
    BY <1>t, <2>k, <2>p, <2>a, AccordTake DEF m
  <2> QED BY <1>w, <1>f, <1>s, <1>t, <2>1 DEF AgreeInv
<1> QED BY <1>c, <1>w

\* The server takes a command.
LEMMA ServerAgrees ==
  ASSUME ActorTypes, AgreeInv, ServerHandles
  PROVE  AgreeInv'
<1> DEFINE c == Head(outbox)
<1>t. /\ outbox \in Seq(Command) /\ outbox # <<>> /\ batch_queue \in Seq(Command)
      /\ Sending \in Seq(Command) /\ inbox \in Seq(Message)
  BY ConcatProperties DEF ActorTypes, WireTyped, AgreeInv, Sending, ServerHandles
<1>w. Working /\ UNCHANGED <<lifeVars, sub, pending, batch_queue>> /\ outbox' = Tail(outbox)
  BY DEF ServerHandles, AgreeInv, Nothing, Working, subVars, reqVars
<1>s. /\ Sending # <<>> /\ Head(Sending) = c /\ Sending' = Tail(Sending)
      /\ c \in Command
  <2>1. /\ c \in Command /\ Tail(outbox) \in Seq(Command) /\ <<c>> \in Seq(Command)
        /\ outbox = <<c>> \o Tail(outbox)
    BY <1>t
  <2>2. Sending = <<c>> \o (Tail(outbox) \o batch_queue)
    BY <1>t, <2>1, ConcatAssociative DEF Sending
  <2>3. Tail(outbox) \o batch_queue \in Seq(Command)
    BY <1>t, <2>1, ConcatProperties
  <2> HIDE DEF c
  <2>4. /\ <<c>> \o (Tail(outbox) \o batch_queue) # <<>>
        /\ Head(<<c>> \o (Tail(outbox) \o batch_queue)) = c
        /\ Tail(<<c>> \o (Tail(outbox) \o batch_queue)) = Tail(outbox) \o batch_queue
    BY <2>1, <2>3
  <2> QED BY <1>w, <2>1, <2>2, <2>4 DEF Sending
<1>k. InAccord(Sending, inbox, pending, sub, srv) /\ (~batch_active => batch_queue = <<>>)
  BY <1>w DEF AgreeInv
<1> HIDE DEF c
<1>q. ASSUME inbox' \in Seq(Message), InAccord(Tail(Sending), inbox', pending, sub, srv')
      PROVE  AgreeInv'
  BY <1>q, <1>w, <1>s, <1>k DEF AgreeInv, Working, lifeVars
<1>r. ASSUME NEW kind \in {"ok", "already"} \union SubErrors
      PROVE  /\ [id |-> c.id, kind |-> kind, ch |-> "none"] \in Message
             /\ Reply(c.id, kind) = Append(inbox, [id |-> c.id, kind |-> kind, ch |-> "none"])
             /\ Reply(c.id, kind) \in Seq(Message)
  <2>1. [id |-> c.id, kind |-> kind, ch |-> "none"] \in Message
    BY <1>s DEF Command, Message
  <2> QED BY <1>t, <2>1, AppendProperties DEF Reply
<1>e. SubErrors \subseteq {"token_expired", "temporary", "permanent"}
  BY ActorAssumption
<1>1. ASSUME c.kind = "subscribe", NEW kind \in {"ok", "already"} \union SubErrors,
             inbox' = Reply(c.id, kind),
             \/ kind \in {"ok", "already"} /\ srv' = srv \union {c.ch}
             \/ kind \notin {"ok", "already"} /\ srv' = srv /\ c.ch \notin srv
      PROVE  AgreeInv'
  <2> DEFINE m == [id |-> c.id, kind |-> kind, ch |-> "none"]
  <2>1. m \in Message /\ inbox' = Append(inbox, m) /\ inbox' \in Seq(Message)
    BY <1>r, <1>1
  <2>2. m.id = c.id /\ m.kind = kind
    OBVIOUS
  <2> HIDE DEF m
  <2>3. InAccord(Tail(Sending), Append(inbox, m), pending, sub, srv')
    BY <1>t, <1>s, <1>k, <1>1, <2>1, <2>2, AccordAnswer
  <2> QED BY <2>1, <2>3, <1>q
<1>2. CASE c.kind = "unsubscribe" /\ srv' = srv \ {c.ch} /\ UNCHANGED inbox
  BY <1>2, <1>t, <1>s, <1>k, <1>q, AccordLeft
<1>3. CASE /\ c.kind \in {"request", "refresh", "sub_refresh"}
           /\ inbox' = Reply(c.id, "ok") /\ UNCHANGED srv
  <2> DEFINE m == [id |-> c.id, kind |-> "ok", ch |-> "none"]
  <2>1. m \in Message /\ inbox' = Append(inbox, m) /\ inbox' \in Seq(Message) /\ m.id = c.id
    BY <1>r, <1>3
  <2> HIDE DEF m
  <2>2. InAccord(Tail(Sending), Append(inbox, m), pending, sub, srv)
    BY <1>t, <1>s, <1>k, <1>3, <2>1, AccordReply
  <2> QED BY <2>1, <2>2, <1>3, <1>q
<1>4. CASE c.kind = "subscribe" /\ c.ch \in srv /\ inbox' = Reply(c.id, "already") /\ UNCHANGED srv
  <2>1. srv' = srv \union {c.ch}
    BY <1>4
  <2> QED BY <1>1, <1>4, <2>1
<1>5. CASE c.kind = "subscribe" /\ inbox' = Reply(c.id, "ok") /\ srv' = srv \union {c.ch}
  BY <1>1, <1>5
<1>6. CASE /\ c.kind = "subscribe" /\ c.ch \notin srv /\ UNCHANGED srv
           /\ \E e \in SubErrors : inbox' = Reply(c.id, e)
  BY <1>1, <1>6, <1>e
<1> QED BY <1>2, <1>3, <1>4, <1>5, <1>6 DEF ServerHandles, c

LEMMA PushAgrees ==
  ASSUME ActorTypes, AgreeInv, NEW ch \in Channels, NEW kind \in {"resubscribe", "terminal"},
         ServerPushes(ch, kind)
  PROVE  AgreeInv'
<1> DEFINE m == [id |-> 0, kind |-> kind, ch |-> ch]
<1>t. /\ Sending \in Seq(Command) /\ inbox \in Seq(Message) /\ m \in Message
      /\ m.id = 0 /\ m.ch = ch
  BY ConcatProperties DEF ActorTypes, WireTyped, AgreeInv, Sending, Message
<1>w. /\ Working /\ UNCHANGED <<lifeVars, sub, pending, batch_queue, outbox>>
      /\ inbox' = Append(inbox, m) /\ srv' = srv \ {ch}
  BY DEF ServerPushes, AgreeInv, Nothing, Working, subVars, reqVars
<1> HIDE DEF m
<1>1. Append(inbox, m) \in Seq(Message)
  BY <1>t, AppendProperties
<1>2. InAccord(Sending, Append(inbox, m), pending, sub, srv \ {ch})
  BY <1>t, <1>w, AccordPush DEF AgreeInv
<1> QED BY <1>w, <1>1, <1>2 DEF AgreeInv, Working, Sending, lifeVars

\* The queue goes out behind what was sent before it.
LEMMA StopBatchingAgrees ==
  ASSUME ActorTypes, AgreeInv, HandleStopBatching
  PROVE  AgreeInv'
<1>t. outbox \in Seq(Command) /\ batch_queue \in Seq(Command)
  BY DEF ActorTypes, WireTyped
<1>u. UNCHANGED <<state, link, sub, pending, inbox, srv>> /\ batch_queue' = <<>>
  BY DEF HandleStopBatching, StopBatching, subVars, reqVars
<1>1. CASE state # "Connected"
  <2>1. outbox' = <<>>
    <3>1. outbox = <<>> /\ batch_queue = <<>>
      BY <1>1 DEF AgreeInv, Nothing
    <3> QED BY <3>1 DEF HandleStopBatching
  <2>2. Nothing'
    BY <1>1, <1>u, <2>1 DEF AgreeInv, Nothing, InUse
  <2> QED BY <2>2, NothingAgrees
<1>2. CASE Working
  <2>1. outbox' = Sending
    BY <1>2 DEF HandleStopBatching, Working, Sending
  <2>2. Sending' = Sending
    <3>1. Sending \in Seq(Command)
      BY <1>t, ConcatProperties DEF Sending
    <3>2. Sending' = outbox' \o <<>>
      BY <1>u DEF Sending
    <3> QED BY <3>1, <3>2, <2>1, ConcatEmptySeq
  <2> QED BY <1>2, <1>u, <2>2 DEF AgreeInv, Working
<1>3. CASE state = "Connected" /\ ~Working
  BY <1>3, <1>u, Unclaimed DEF AgreeInv, Working
<1> QED BY <1>1, <1>2, <1>3 DEF Working

LEMMA AgreeNext ==
  ASSUME UnsubscribeAnytime = FALSE, "unauthorized" \notin SubTokenOutcomes,
         Inv, Inv', BatchInv, ActorTypes, AgreeInv, [ActorNext]_actorVars
  PROVE  AgreeInv'
<1>t. sub \in [Channels -> SubscriptionState]
  BY DEF ActorTypes, ActorTypeOK
<1>n. state # "Connected" => Nothing
  BY DEF AgreeInv
<1>e. ASSUME NEW S, NEW r \in BOOLEAN,
             SubsDisconnected(sub, S) \/ SubsOnTransportClose(r, sub, S) \/ SubsClosed
      PROVE  AgreeInv'
  <2>1. state # "Connected" => \A ch \in Channels : sub[ch] # "Subscribed"
    BY <1>n DEF Nothing
  <2> QED BY <1>e, <1>t, <2>1, EndAgrees
<1>k. Working => Known(pending, sub)
  BY DEF AgreeInv, InAccord
<1>l. UNCHANGED lifeVars => UNCHANGED <<state, link, batch_active>> /\ Working' = Working
  BY DEF lifeVars, Working
\* Neither the connection nor the wire takes part.
<1>a. ASSUME UNCHANGED <<lifeVars, pending, wireVars>>,
             \A ch \in Channels : /\ sub'[ch] = "Subscribed" <=> sub[ch] = "Subscribed"
                                  /\ sub[ch] # "absent" => sub'[ch] # "absent"
      PROVE  AgreeInv'
  <2>1. Working => Known(pending, sub')
    BY <1>k, <1>a DEF Known
  <2> QED BY <1>a, <1>l, <2>1, WireAlone
<1>1. CASE LifeOnly
  <2>1. UNCHANGED <<sub, pending, wireVars>>
    BY <1>1 DEF LifeOnly, subscriptionVars, subVars, reqVars
  <2>2. /\ state' # "Connected" => state # "Connected"
        /\ ~batch_active' => ~batch_active
    BY <1>1 DEF LifeOnly, CallConnect, HandleConnect, RejectAfterClose, HandleSetToken,
                StartBatching, DropHandles, BackoffExpires, TokenNotRefreshed, TokenRefreshed,
                TokenRefreshFails, OpenTransport, TransportOpens, TransportFails
  <2>3. Working' => Working
    BY <1>1, StaysWorking
  <2> QED BY <2>1, <2>2, <2>3, <1>k, WireAlone
<1>2. CASE ActorDisconnect \/ ActorClose \/ ActorTokenUnauthorized
  BY <1>2, <1>e DEF ActorDisconnect, ActorClose, ActorTokenUnauthorized
<1>3. CASE ActorSendConnect
  <2>1. state # "Connected" /\ state' = state
    BY <1>3 DEF ActorSendConnect, SendConnect, Inv, ControlMatchesState
  <2>2. UNCHANGED <<sub, pending, outbox, batch_queue, inbox, srv>>
    BY <1>3, <2>1 DEF ActorSendConnect, BatchInv, subVars, reqVars
  <2>3. Nothing'
    BY <1>n, <2>1, <2>2 DEF Nothing, InUse
  <2> QED BY <2>3, NothingAgrees
<1>4. CASE ActorHandshakeFails
  <2>1. CASE SubsDisconnected(sub, {})
    BY <2>1, <1>e
  <2>2. CASE /\ HandshakeLost \/ \E e \in HandshakeErrors : ConnectRefused(e)
             /\ WireDown /\ UNCHANGED <<subVars, reqVars, batch_queue>>
    <3>1. state # "Connected"
      BY <2>2 DEF HandshakeLost, ConnectRefused, Inv, ControlMatchesState
    <3>2. Nothing'
      BY <1>n, <2>2, <3>1 DEF Nothing, InUse, WireDown, subVars, reqVars
    <3> QED BY <3>2, NothingAgrees
  <2> QED BY <1>4, <2>1, <2>2 DEF ActorHandshakeFails
<1>5. CASE (\E r \in BOOLEAN : ActorHandshakeDisconnectPush(r)) \/ ActorLosesConnection
  BY <1>5, <1>e DEF ActorHandshakeDisconnectPush, ActorLosesConnection
<1>6. ASSUME NEW S \in SUBSET Channels, ActorConnectAccepted(S) PROVE AgreeInv'
  <2>1. state # "Connected" /\ state' = "Connected"
    BY <1>6 DEF ActorConnectAccepted, ConnectAccepted, Inv, ControlMatchesState
  <2>2. /\ \A i \in Ids : pending'[i].kind = "none"
        /\ \A ch \in Channels : sub[ch] # "Subscribed"
        /\ outbox' = <<>> /\ batch_queue' = <<>> /\ inbox' = <<>>
    BY <1>6, <1>n, <2>1 DEF ActorConnectAccepted, Nothing, InUse
  <2>3. \A ch \in Channels : sub'[ch] = "Subscribed" <=> ch \in srv'
    BY <1>6, <2>2 DEF ActorConnectAccepted, Set
  <2>4. Sending' = <<>> /\ inbox' \in Seq(Message)
    BY <2>2 DEF Sending
  <2>5. InAccord(Sending', inbox', pending', sub', srv')
    BY <2>2, <2>3, <2>4, AccordNew
  <2> QED BY <2>1, <2>2, <2>4, <2>5 DEF AgreeInv
<1>7. CASE ActorFinishConnect
  <2>1. /\ UNCHANGED <<state, link, batch_active, sub, pending, wireVars>>
    BY <1>7 DEF ActorFinishConnect, FinishConnect, subscriptionVars, subVars, reqVars
  <2> QED BY <2>1, <1>k, WireAlone DEF Working
<1>8. CASE ActorLinkBreaks
  <2>1. /\ UNCHANGED <<state, sub, pending, batch_queue, inbox>>
        /\ outbox' = <<>> /\ srv' = {} /\ ~Working'
    BY <1>8 DEF ActorLinkBreaks, LinkBreaks, subVars, reqVars, Working
  <2>2. CASE state = "Connected"
    BY <2>1, <2>2, Unclaimed DEF AgreeInv
  <2>3. CASE state # "Connected"
    <3>1. Nothing'
      BY <1>n, <2>1, <2>3 DEF Nothing, InUse
    <3> QED BY <3>1, NothingAgrees
  <2> QED BY <2>2, <2>3
<1>9. ASSUME NEW ch \in Channels, ResubscribeNext(ch) PROVE AgreeInv'
  <2>1. state = "Connected" /\ UNCHANGED lifeVars
    BY <1>9 DEF ResubscribeNext, Inv, ControlMatchesState
  <2> QED BY <1>9, <1>l, <2>1, DoSubscribeAgrees DEF ResubscribeNext
<1>10. ASSUME NEW ch \in Channels, HandleResubscribe(ch) PROVE AgreeInv'
  <2>1. CASE state = "Connected"
    BY <1>10, <1>l, <2>1, DoSubscribeAgrees DEF HandleResubscribe
  <2>2. CASE state # "Connected"
    BY <1>10, <1>a, <2>2 DEF HandleResubscribe, reqVars
  <2> QED BY <2>1, <2>2
<1>11. ASSUME NEW ch \in Channels, HandleNewSubscription(ch) PROVE AgreeInv'
  <2>1. UNCHANGED <<lifeVars, pending, wireVars>> /\ sub[ch] = "absent"
        /\ sub' = [sub EXCEPT ![ch] = "Unsubscribed"]
    BY <1>11 DEF HandleNewSubscription, reqVars
  <2> QED BY <1>a, <1>t, <2>1
<1>12. ASSUME NEW ch \in Channels, NEW r \in Requesters, HandleSubscribe(r, ch) PROVE AgreeInv'
  <2>1. UNCHANGED lifeVars
    BY <1>12 DEF HandleSubscribe
  <2>2. CASE UNCHANGED <<sub, pending, wireVars>>
    BY <1>a, <2>1, <2>2
  <2>3. CASE /\ sub[ch] \in {"Subscribing", "Unsubscribed"}
             /\ sub' = [sub EXCEPT ![ch] = "Subscribing"]
    <3>1. /\ sub'[ch] = "Subscribing"
          /\ \A a \in Channels : /\ sub'[a] = "Subscribed" <=> sub[a] = "Subscribed"
                                 /\ sub[a] # "absent" => sub'[a] # "absent"
      BY <1>t, <2>3
    <3>2. CASE UNCHANGED <<pending, wireVars>>
      BY <1>a, <2>1, <3>1, <3>2
    <3>3. CASE state = "Connected" /\ SendPending("subscribe", ch, r)
      BY <1>l, <2>1, <3>1, <3>3, SendAgrees DEF RequestKinds
    <3> QED BY <1>12, <2>3, <3>2, <3>3 DEF HandleSubscribe
  <2> QED BY <1>12, <2>2, <2>3 DEF HandleSubscribe
<1>13. ASSUME NEW ch \in Channels, HandleUnsubscribe(ch) \/ HandleRemoveSubscription(ch)
       PROVE  AgreeInv'
  <2>1. /\ UNCHANGED <<state, link, batch_active, pending>> /\ ~InFlight(ch)
        /\ sub' = [sub EXCEPT ![ch] = "Unsubscribed"] \/ sub' = [sub EXCEPT ![ch] = "absent"]
        /\ IF OnTheServer(ch) THEN Sent(0, "unsubscribe", ch) ELSE UNCHANGED wireVars
    BY <1>13, <1>l DEF HandleUnsubscribe, HandleRemoveSubscription, MayUnsubscribe, reqVars
  <2> QED BY <2>1, LeaveAgrees
<1>14. ASSUME NEW ch \in Channels, UnsubscribeFails(ch) PROVE AgreeInv'
  <2>1. /\ [sub EXCEPT ![ch] = "Unsubscribed"] \in [Channels -> SubscriptionState]
        /\ state = "Connected"
        /\ SubsOnTransportClose(TRUE, [sub EXCEPT ![ch] = "Unsubscribed"], {})
    BY <1>14, <1>t DEF UnsubscribeFails, OnTheServer, SubscriptionState
  <2> QED BY <1>t, <2>1, EndAgrees
<1>15. ASSUME NEW ch \in Channels, NEW o \in SubTokenOutcomes, HandleRefreshSubToken(ch, o)
       PROVE  AgreeInv'
  <2>1. /\ state = "Connected" /\ UNCHANGED <<lifeVars, sub>>
        /\ SendPending("sub_refresh", ch, "nobody")
    BY <1>15 DEF HandleRefreshSubToken, Inv, ControlMatchesState
  <2> QED BY <1>l, <2>1, SendAgrees DEF RequestKinds
<1>16. ASSUME NEW r \in Requesters, HandleSendRequest(r) PROVE AgreeInv'
  <2>1. UNCHANGED <<lifeVars, sub>>
    BY <1>16 DEF HandleSendRequest, subVars
  <2>2. CASE UNCHANGED <<pending, wireVars>>
    BY <1>a, <2>1, <2>2
  <2>3. CASE state = "Connected" /\ SendPending("request", "none", r)
    BY <1>l, <2>1, <2>3, SendAgrees DEF RequestKinds
  <2> QED BY <1>16, <2>2, <2>3 DEF HandleSendRequest
<1>17. ASSUME NEW i \in Ids, HandleRequestTimeout(i) PROVE AgreeInv'
  <2>1. CASE SubsOnTransportClose(TRUE, sub, {pending[i].ch})
    BY <2>1, <1>e
  <2>2. CASE /\ ~(pending[i].kind = "subscribe" /\ sub[pending[i].ch] # "absent")
             /\ pending' = [pending EXCEPT ![i] = NoRequest]
             /\ UNCHANGED <<lifeVars, subVars, wireVars>>
    <3>1. /\ Sending' = Sending /\ UNCHANGED <<sub, inbox, srv, batch_queue>>
          /\ Working' = Working /\ UNCHANGED <<state, batch_active>>
      BY <2>2, <1>l DEF Sending, wireVars, subVars
    <3>2. state = "Connected"
      BY <1>n, <1>17 DEF HandleRequestTimeout, Nothing, InUse
    <3>3. CASE ~Working
      BY <3>1, <3>2, <3>3, Unclaimed DEF AgreeInv
    <3>4. CASE Working
      <4>1. pending[i].kind # "subscribe"
        BY <1>k, <2>2, <3>4 DEF Known
      <4>2. Sending \in Seq(Command) /\ pending \in [Ids -> PendingRequest]
        BY ConcatProperties DEF ActorTypes, WireTyped, ActorTypeOK, Sending
      <4>3. InAccord(Sending, inbox, pending', sub, srv)
        BY <2>2, <3>4, <4>1, <4>2, AccordDrop DEF AgreeInv
      <4> QED BY <3>1, <3>2, <3>4, <4>3 DEF AgreeInv
    <3> QED BY <3>3, <3>4
  <2> QED BY <1>17, <2>1, <2>2 DEF HandleRequestTimeout
<1>18. ASSUME NEW o \in TokenOutcomes, HandleRefreshToken(o) PROVE AgreeInv'
  <2>1. CASE SubsDisconnected(sub, {})
    BY <2>1, <1>e
  <2>2. CASE o # "unauthorized" /\ UNCHANGED sub
    <3>1. state = "Connected" /\ UNCHANGED <<state, link, batch_active>>
      BY <1>18, <2>2 DEF HandleRefreshToken, RefreshTimer, Inv, ControlMatchesState
    <3>2. CASE SendPending("refresh", "none", "nobody")
      BY <2>2, <3>1, <3>2, SendAgrees DEF RequestKinds
    <3>3. CASE UNCHANGED <<pending, wireVars>>
      BY <1>k, <2>2, <3>1, <3>3, WireAlone DEF Working
    <3> QED BY <1>18, <2>2, <3>2, <3>3 DEF HandleRefreshToken, reqVars
  <2> QED BY <1>18, <2>1, <2>2 DEF HandleRefreshToken, subVars
<1>19. CASE UNCHANGED actorVars
  <2>1. UNCHANGED <<lifeVars, pending, wireVars, sub>>
    BY <1>19 DEF actorVars, subVars, reqVars
  <2> QED BY <1>a, <2>1
<1>20. ASSUME NEW ch \in Channels, NEW kind \in {"resubscribe", "terminal"}, ServerPushes(ch, kind)
       PROVE  AgreeInv'
  BY <1>20, PushAgrees
<1> QED
  BY <1>1, <1>2, <1>3, <1>4, <1>5, <1>6, <1>7, <1>8, <1>9, <1>10, <1>11, <1>12, <1>13, <1>14,
     <1>15, <1>16, <1>17, <1>18, <1>19, <1>20, FrameAgrees, ServerAgrees, StopBatchingAgrees
  DEF ActorNext

\* Where nothing is on its way, the registry and the server say the same.
LEMMA AgreementReached ==
  ASSUME Inv, AgreeInv
  PROVE  AgreesWithServer
<1> SUFFICES ASSUME NEW ch \in Channels, Quiet(ch)
             PROVE  sub[ch] = "Subscribed" <=> ch \in srv
  BY DEF AgreesWithServer
<1>1. Working /\ outbox = <<>> /\ batch_queue = <<>> /\ inbox = <<>>
  BY DEF Quiet, Inv, ControlMatchesState, Working
<1>2. Sending = <<>>
  BY <1>1 DEF Sending
<1>3. Agreed(<<>>, pending, sub, srv \ Leavers(<<>>), ch)
  BY <1>1, <1>2 DEF AgreeInv, InAccord
<1>4. Leavers(<<>>) = {}
  BY DEF Leavers
<1> QED BY <1>3, <1>4 DEF Agreed

\* When everything on its way has arrived, the client takes for subscribed exactly what the
\* server does, whatever crossed on the wire: confirmations with unsubscribes by the server,
\* second Subscribes with first ones, unsubscribe() with either, late replies with timeouts,
\* and commands parked in a batch with all of them.  It is so for an application that
\* unsubscribes only from what has settled and batches only while connected, and as long as
\* no subscription token is refused, for then nobody tells the server.
THEOREM ClientAgreesWithServer ==
  ASSUME UnsubscribeAnytime = FALSE, "unauthorized" \notin SubTokenOutcomes,
         BatchUse # "anytime"
  PROVE  ActorSpec => []AgreesWithServer
<1> DEFINE I == Inv /\ BatchInv /\ ActorTypes /\ AgreeInv
<1>1. ActorInit => I
  <2> SUFFICES ASSUME ActorInit PROVE I
    OBVIOUS
  <2>1. Inv /\ BatchInv
    BY InitInv DEF ActorInit, LifeInit, BatchInv, HandshakeGoesOut
  <2>2. Nothing /\ ~Working
    BY DEF ActorInit, LifeInit, Nothing, InUse, NoRequest, Request, Working
  <2>3. AgreeInv
    BY <2>2 DEF AgreeInv, Nothing
  <2> QED BY <2>1, <2>3, TypesInit
<1>2. I /\ [ActorNext]_actorVars => I'
  <2> SUFFICES ASSUME I, [ActorNext]_actorVars PROVE I'
    OBVIOUS
  <2>1. Inv' /\ BatchInv'
    BY ActorStepIsLifeStep, NextInv, BatchNext
  <2> QED BY <2>1, TypesNext, AgreeNext
<1>3. I => AgreesWithServer
  BY AgreementReached
<1> QED BY <1>1, <1>2, <1>3, PTL DEF ActorSpec
===============================================================================
