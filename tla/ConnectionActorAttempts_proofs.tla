--------------------- MODULE ConnectionActorAttempts_proofs ---------------------
(* More about ConnectionActor, for every set of channels, requesters and ids: *)
(* its type invariant, that no subscription attempt is stranded, and that     *)
(* each caller that waits is held in exactly one place.                       *)
EXTENDS ConnectionActor_proofs, SequenceTheorems, FiniteSetTheorems

-------------------------------------------------------------------------------
(* Types.  The wire is typed as well: the server records the channels that    *)
(* Subscribe commands name.                                                   *)

RequestKinds == {"subscribe", "request", "refresh", "sub_refresh"}

Command ==
  {c \in [id : Ids \union {0}, kind : RequestKinds \union {"connect", "unsubscribe"},
          ch : Channels \union {"none"}] :
     c.kind = "subscribe" => c.ch \in Channels}

WireTyped ==
  /\ outbox \in Seq(Command)
  /\ batch_queue \in Seq(Command)
  /\ srv \subseteq Channels

ActorTypes == ActorTypeOK /\ WireTyped

LEMMA AnswerSubsTyped ==
  ASSUME scall \in [Requesters -> {"idle", "waiting", "ok", "err"}],
         NEW S, NEW a \in {"waiting", "ok", "err"}
  PROVE  AnswerSubs(S, a) \in [Requesters -> {"idle", "waiting", "ok", "err"}]
  BY DEF AnswerSubs

LEMMA NoWaitersTyped ==
  ASSUME sub_waiters \in [Channels -> SUBSET Requesters], NEW S
  PROVE  NoWaiters(S) \in [Channels -> SUBSET Requesters]
  BY DEF NoWaiters

LEMMA SetTyped ==
  ASSUME NEW s \in [Channels -> SubscriptionState], NEW S, NEW v \in SubscriptionState
  PROVE  Set(s, S, v) \in [Channels -> SubscriptionState]
  BY DEF Set

LEMMA NoRequestTyped == NoRequest \in PendingRequest
  BY DEF NoRequest, Request, PendingRequest

LEMMA SentTyped ==
  ASSUME WireTyped, NEW id \in Ids \union {0},
         NEW kind \in RequestKinds \union {"unsubscribe"},
         NEW ch \in Channels \union {"none"},
         kind = "subscribe" => ch \in Channels,
         Sent(id, kind, ch)
  PROVE  WireTyped'
<1> DEFINE cmd == [id |-> id, kind |-> kind, ch |-> ch]
<1>1. cmd \in Command
  BY DEF Command
<1>2. Append(outbox, cmd) \in Seq(Command) /\ Append(batch_queue, cmd) \in Seq(Command)
  BY <1>1, AppendProperties DEF WireTyped
<1> QED BY <1>2 DEF Sent, WireTyped

\* A fresh id is taken from the ids that are free.
LEMMA NewIdFree == FreeIds # {} => NewId \in Ids /\ ~InUse(NewId)
  BY DEF NewId, FreeIds

LEMMA SendPendingTyped ==
  ASSUME ActorTypes, NEW kind \in RequestKinds, NEW ch \in Channels \union {"none"},
         NEW r \in Requesters \union {"nobody"},
         kind = "subscribe" => ch \in Channels,
         SendPending(kind, ch, r)
  PROVE  /\ pending' \in [Ids -> PendingRequest]
         /\ scall' \in [Requesters -> {"idle", "waiting", "ok", "err"}]
         /\ WireTyped'
<1>1. NewId \in Ids
  BY NewIdFree DEF SendPending
<1>2. CASE /\ pending' = [pending EXCEPT ![NewId] = Request(kind, ch, r)]
           /\ scall' = AnswerSubs({r}, "waiting")
           /\ Sent(NewId, kind, ch)
  <2>1. Request(kind, ch, r) \in PendingRequest
    BY DEF Request, PendingRequest, RequestKinds
  <2>2. WireTyped'
    BY <1>1, <1>2, SentTyped DEF ActorTypes
  <2> QED BY <1>2, <2>1, <2>2, AnswerSubsTyped DEF ActorTypes, ActorTypeOK
<1>3. CASE SendFails /\ scall' = AnswerSubs({r}, "err") /\ UNCHANGED pending
  BY <1>3, AnswerSubsTyped DEF ActorTypes, ActorTypeOK, SendFails, wireVars, WireTyped
<1> QED BY <1>2, <1>3 DEF SendPending

\* Failing what is pending, with everything that goes with the end of a connection.
LEMMA EndTyped ==
  ASSUME ActorTypes, NEW S, NEW r \in BOOLEAN, NEW s \in [Channels -> SubscriptionState],
         SubsDisconnected(s, S) \/ SubsOnTransportClose(r, s, S) \/ SubsClosed
  PROVE  ActorTypes'
<1>1. ASSUME NEW T, FailPendingAnd(T)
      PROVE  /\ pending' \in [Ids -> PendingRequest]
             /\ sub_waiters' \in [Channels -> SUBSET Requesters]
             /\ scall' \in [Requesters -> {"idle", "waiting", "ok", "err"}]
  BY <1>1, AnswerSubsTyped, NoWaitersTyped, NoRequestTyped
  DEF FailPendingAnd, ActorTypes, ActorTypeOK
<1>2. ASSUME WireDown, batch_queue' = <<>> PROVE WireTyped' /\ srv' \subseteq Channels
  BY <1>2 DEF WireDown, WireTyped
<1>3. /\ \A T : Set(s, T, "Unsubscribed") \in [Channels -> SubscriptionState]
      /\ \A T : Set(s, T, "Subscribing") \in [Channels -> SubscriptionState]
      /\ \A T : Set(sub, T, "Unsubscribed") \in [Channels -> SubscriptionState]
  BY SetTyped DEF ActorTypes, ActorTypeOK, SubscriptionState
<1>4. CASE SubsDisconnected(s, S)
  BY <1>1, <1>2, <1>3, <1>4 DEF SubsDisconnected, ActorTypes, ActorTypeOK
<1>5. CASE SubsClosed
  BY <1>1, <1>2, <1>3, <1>5 DEF SubsClosed, ActorTypes, ActorTypeOK
<1>6. CASE SubsOnTransportClose(r, s, S)
  BY <1>1, <1>2, <1>3, <1>4, <1>6 DEF SubsOnTransportClose, ActorTypes, ActorTypeOK
<1> QED BY <1>4, <1>5, <1>6

LEMMA TimersTyped ==
  ASSUME NEW timers \in [Channels -> 0 .. MaxTimers], NEW ch \in Channels
  PROVE  /\ timers[ch] < MaxTimers
              => [timers EXCEPT ![ch] = @ + 1] \in [Channels -> 0 .. MaxTimers]
         /\ timers[ch] > 0
              => [timers EXCEPT ![ch] = @ - 1] \in [Channels -> 0 .. MaxTimers]
<1>1. MaxTimers \in Nat /\ timers[ch] \in 0 .. MaxTimers
  BY ActorAssumption
<1> QED BY <1>1

LEMMA DoSubscribeTyped ==
  ASSUME ActorTypes, NEW ch \in Channels, NEW timers \in [Channels -> 0 .. MaxTimers],
         DoSubscribe(ch, timers), todo' \subseteq Channels
  PROVE  ActorTypes'
<1> USE DEF ActorTypes, ActorTypeOK
<1>1. CASE /\ resub' = timers
           /\ UNCHANGED <<sub, sub_token, sub_waiters, reqVars, wireVars>>
  BY <1>1 DEF reqVars, wireVars, WireTyped
<1>2. CASE /\ sub' = [sub EXCEPT ![ch] = "Unsubscribed"]
           /\ scall' = AnswerSubs(sub_waiters[ch], "err")
           /\ sub_waiters' = NoWaiters({ch})
           /\ resub' = timers
           /\ UNCHANGED <<sub_token, pending, wireVars>>
  BY <1>2, AnswerSubsTyped, NoWaitersTyped DEF wireVars, WireTyped, SubscriptionState
<1>3. CASE /\ timers[ch] < MaxTimers
           /\ resub' = [timers EXCEPT ![ch] = @ + 1]
           /\ UNCHANGED <<sub, sub_token, sub_waiters, reqVars, wireVars>>
  BY <1>3, TimersTyped DEF reqVars, wireVars, WireTyped
<1>4. CASE /\ sub_token' = [sub_token EXCEPT ![ch] = @ \/ NeedsSubToken(ch)]
           /\ SendPending("subscribe", ch, "nobody")
           /\ resub' = timers
           /\ UNCHANGED <<sub, sub_waiters>>
  <2>1. NeedsSubToken(ch) \in BOOLEAN
    BY DEF NeedsSubToken, HasSubGetToken
  <2>2. sub_token' \in [Channels -> BOOLEAN]
    BY <1>4, <2>1
  <2>3. /\ pending' \in [Ids -> PendingRequest]
        /\ scall' \in [Requesters -> {"idle", "waiting", "ok", "err"}]
        /\ WireTyped'
    BY <1>4, SendPendingTyped DEF RequestKinds
  <2> QED BY <1>4, <2>2, <2>3 DEF WireTyped
<1> QED BY <1>1, <1>2, <1>3, <1>4 DEF DoSubscribe

LEMMA FrameTyped ==
  ASSUME ActorTypes, HandleFrame
  PROVE  ActorTypes'
<1> USE DEF ActorTypes, ActorTypeOK
<1>1. WireTyped' /\ srv' \subseteq Channels /\ todo' \subseteq Channels
  BY DEF HandleFrame, WireTyped
<1>2. ASSUME NEW ch, NEW r, SubscribeSuccess(ch, r), pending' \in [Ids -> PendingRequest]
      PROVE  ActorTypes'
  BY <1>1, <1>2, AnswerSubsTyped, NoWaitersTyped DEF SubscribeSuccess, SubscriptionState
<1>3. ASSUME NEW ch, NEW r, NEW e, SubscribeError(ch, r, e),
             pending' \in [Ids -> PendingRequest]
      PROVE  ActorTypes'
  <2>1. \A S : /\ AnswerSubs(S, "err") \in [Requesters -> {"idle", "waiting", "ok", "err"}]
              /\ NoWaiters(S) \in [Channels -> SUBSET Requesters]
    BY AnswerSubsTyped, NoWaitersTyped
  <2>2. CASE UNCHANGED <<sub, sub_token, sub_waiters, resub>> /\ scall' = AnswerSubs({r}, "err")
    BY <1>1, <1>3, <2>1, <2>2
  <2>3. CASE /\ resub[ch] < MaxTimers
             /\ resub' = [resub EXCEPT ![ch] = @ + 1]
             /\ sub_token' = [sub_token EXCEPT ![ch] = @ /\ e # "token_expired"]
             /\ scall' = AnswerSubs({r}, "err")
             /\ UNCHANGED <<sub, sub_waiters>>
    <3>1. resub' \in [Channels -> 0 .. MaxTimers]
      <4>1. CASE ch \in Channels BY <2>3, <4>1, TimersTyped
      <4>2. CASE ch \notin Channels BY <2>3, <4>2
      <4> QED BY <4>1, <4>2
    <3>2. sub_token' \in [Channels -> BOOLEAN]
      BY <2>3
    <3> QED BY <1>1, <1>3, <2>1, <2>3, <3>1, <3>2
  <2>4. CASE /\ sub' = [sub EXCEPT ![ch] = "Unsubscribed"]
             /\ scall' = AnswerSubs({r} \union sub_waiters[ch], "err")
             /\ sub_waiters' = NoWaiters({ch})
             /\ UNCHANGED <<sub_token, resub>>
    BY <1>1, <1>3, <2>1, <2>4 DEF SubscriptionState
  <2> QED BY <1>3, <2>2, <2>3, <2>4 DEF SubscribeError
<1>4. ASSUME NEW ch, NEW again \in BOOLEAN, ServerUnsubscribe(ch, again)
      PROVE  ActorTypes'
  <2>1. resub' \in [Channels -> 0 .. MaxTimers]
    <3>1. CASE UNCHANGED resub BY <3>1
    <3>2. CASE resub[ch] < MaxTimers /\ resub' = [resub EXCEPT ![ch] = @ + 1] /\ ch \in Channels
      BY <3>2, TimersTyped
    <3>3. CASE resub' = [resub EXCEPT ![ch] = @ + 1] /\ ch \notin Channels
      BY <3>3
    <3> QED BY <1>4, <3>1, <3>2, <3>3 DEF ServerUnsubscribe
  <2>2. sub' \in [Channels -> SubscriptionState]
    BY <1>4 DEF ServerUnsubscribe, SubscriptionState
  <2> QED BY <1>1, <1>4, <2>1, <2>2 DEF ServerUnsubscribe, reqVars
<1>5. ASSUME NEW i, NEW kind, Resolve(i, kind) PROVE ActorTypes'
  <2>1. pending' \in [Ids -> PendingRequest]
    BY <1>5, NoRequestTyped DEF Resolve
  <2>2. CASE /\ scall' = AnswerSubs({pending[i].caller}, "ok")
             /\ UNCHANGED <<sub, sub_token, sub_waiters, resub>>
    BY <1>1, <2>1, <2>2, AnswerSubsTyped
  <2> QED BY <1>2, <1>3, <1>5, <2>1, <2>2 DEF Resolve
<1>6. CASE UNCHANGED <<sub, sub_token, sub_waiters, resub, reqVars>>
  BY <1>1, <1>6 DEF reqVars
<1> QED BY <1>4, <1>5, <1>6 DEF HandleFrame

\* What the server reads off the wire are commands.
LEMMA ServerTyped ==
  ASSUME ActorTypes, ServerHandles
  PROVE  ActorTypes'
<1> USE DEF ActorTypes, WireTyped
<1>1. Head(outbox) \in Command /\ Tail(outbox) \in Seq(Command)
  BY HeadTailProperties DEF ServerHandles
<1>2. Head(outbox).kind = "subscribe" => Head(outbox).ch \in Channels
  BY <1>1 DEF Command
<1>3. srv' \subseteq Channels
  BY <1>2 DEF ServerHandles
<1>4. outbox' \in Seq(Command) /\ batch_queue' \in Seq(Command)
  BY <1>1 DEF ServerHandles
<1> QED BY <1>3, <1>4 DEF ServerHandles, ActorTypeOK, subVars, reqVars

LEMMA StopBatchingTyped ==
  ASSUME ActorTypes, HandleStopBatching
  PROVE  ActorTypes'
<1>1. outbox \o batch_queue \in Seq(Command) /\ <<>> \in Seq(Command)
  BY ConcatProperties DEF ActorTypes, WireTyped
<1> QED BY <1>1 DEF HandleStopBatching, ActorTypes, ActorTypeOK, WireTyped, subVars, reqVars

LEMMA SendConnectTyped ==
  ASSUME ActorTypes, ActorSendConnect
  PROVE  ActorTypes'
<1> DEFINE cmd == [id |-> 0, kind |-> "connect", ch |-> "none"]
<1>1. cmd \in Command
  BY DEF Command
<1>2. Append(batch_queue, cmd) \in Seq(Command)
  BY <1>1, AppendProperties DEF ActorTypes, WireTyped
<1> QED BY <1>2 DEF ActorSendConnect, ActorTypes, ActorTypeOK, WireTyped, subVars, reqVars

LEMMA TypesNext ==
  ASSUME ActorTypes, [ActorNext]_actorVars
  PROVE  ActorTypes'
<1>t. /\ sub \in [Channels -> SubscriptionState]
      /\ resub \in [Channels -> 0 .. MaxTimers]
  BY DEF ActorTypes, ActorTypeOK
<1>u. ASSUME UNCHANGED <<subVars, reqVars, batch_queue>>,
             outbox' \in {outbox, <<>>}, srv' \in {srv, {}}
      PROVE  ActorTypes'
  <2>1. <<>> \in Seq(Command)
    OBVIOUS
  <2>2. outbox' \in Seq(Command)
    BY <1>u, <2>1 DEF ActorTypes, WireTyped
  <2> QED BY <1>u, <2>2 DEF ActorTypes, ActorTypeOK, WireTyped, subVars, reqVars
<1>1. CASE \/ LifeOnly \/ ActorFinishConnect \/ ActorLinkBreaks \/ UNCHANGED actorVars
           \/ \E ch \in Channels, kind \in {"resubscribe", "terminal"} : ServerPushes(ch, kind)
  <2>1. CASE LifeOnly \/ ActorFinishConnect \/ UNCHANGED actorVars
    BY <2>1, <1>u DEF LifeOnly, ActorFinishConnect, actorVars, subscriptionVars, wireVars
  <2>2. CASE ActorLinkBreaks
    BY <2>2, <1>u DEF ActorLinkBreaks
  <2>3. ASSUME NEW ch \in Channels, NEW kind, ServerPushes(ch, kind) PROVE ActorTypes'
    BY <2>3 DEF ServerPushes, ActorTypes, ActorTypeOK, WireTyped, subVars, reqVars
  <2> QED BY <1>1, <2>1, <2>2, <2>3
<1>2. CASE ActorDisconnect \/ ActorClose \/ ActorTokenUnauthorized
  BY <1>2, <1>t, EndTyped DEF ActorDisconnect, ActorClose, ActorTokenUnauthorized
<1>3. CASE ActorHandshakeFails
  <2>1. CASE WireDown /\ UNCHANGED <<subVars, reqVars, batch_queue>>
    BY <2>1, <1>u DEF WireDown
  <2>2. CASE SubsDisconnected(sub, {})
    BY <2>2, <1>t, EndTyped
  <2> QED BY <1>3, <2>1, <2>2 DEF ActorHandshakeFails
<1>4. CASE (\E r \in BOOLEAN : ActorHandshakeDisconnectPush(r)) \/ ActorLosesConnection
  BY <1>4, <1>t, EndTyped DEF ActorHandshakeDisconnectPush, ActorLosesConnection
<1>5. ASSUME NEW S \in SUBSET Channels, ActorConnectAccepted(S) PROVE ActorTypes'
  <2>1. /\ sub' \in [Channels -> SubscriptionState]
        /\ sub_waiters' \in [Channels -> SUBSET Requesters]
        /\ scall' \in [Requesters -> {"idle", "waiting", "ok", "err"}]
    BY <1>5, SetTyped, AnswerSubsTyped, NoWaitersTyped
    DEF ActorConnectAccepted, ActorTypes, ActorTypeOK, SubscriptionState
  <2>2. todo' \subseteq Channels /\ srv' \subseteq Channels
    BY <1>5 DEF ActorConnectAccepted
  <2> QED BY <1>5, <2>1, <2>2 DEF ActorConnectAccepted, ActorTypes, ActorTypeOK, WireTyped
<1>6. ASSUME NEW ch \in Channels, UnsubscribeFails(ch) PROVE ActorTypes'
  <2>1. [sub EXCEPT ![ch] = "Unsubscribed"] \in [Channels -> SubscriptionState]
    BY <1>t DEF SubscriptionState
  <2> QED BY <1>6, <2>1, EndTyped DEF UnsubscribeFails
<1>7. ASSUME NEW i \in Ids, HandleRequestTimeout(i) PROVE ActorTypes'
  <2>1. CASE SubsOnTransportClose(TRUE, sub, {pending[i].ch})
    BY <2>1, <1>t, EndTyped
  <2>2. CASE /\ pending' = [pending EXCEPT ![i] = NoRequest]
             /\ scall' = AnswerSubs({pending[i].caller}, "err")
             /\ UNCHANGED <<subVars, wireVars>>
    BY <2>2, NoRequestTyped, AnswerSubsTyped
    DEF ActorTypes, ActorTypeOK, WireTyped, subVars, wireVars
  <2> QED BY <1>7, <2>1, <2>2 DEF HandleRequestTimeout
<1>8. ASSUME NEW kind \in RequestKinds, NEW ch \in Channels \union {"none"},
             NEW r \in Requesters \union {"nobody"}, kind = "subscribe" => ch \in Channels,
             SendPending(kind, ch, r), UNCHANGED <<sub_waiters, resub, todo>>,
             sub' \in [Channels -> SubscriptionState], sub_token' \in [Channels -> BOOLEAN]
      PROVE  ActorTypes'
  <2>1. /\ pending' \in [Ids -> PendingRequest]
        /\ scall' \in [Requesters -> {"idle", "waiting", "ok", "err"}]
        /\ WireTyped'
    BY <1>8, SendPendingTyped
  <2> QED BY <1>8, <2>1 DEF ActorTypes, ActorTypeOK, WireTyped
<1>9. ASSUME NEW o \in TokenOutcomes, HandleRefreshToken(o) PROVE ActorTypes'
  <2>1. CASE SubsDisconnected(sub, {})
    BY <2>1, <1>t, EndTyped
  <2>2. CASE SendPending("refresh", "none", "nobody") /\ UNCHANGED subVars
    BY <2>2, <1>8 DEF RequestKinds, subVars, ActorTypes, ActorTypeOK
  <2>3. CASE UNCHANGED <<subVars, reqVars, wireVars>>
    BY <2>3, <1>u DEF wireVars
  <2> QED BY <1>9, <2>1, <2>2, <2>3 DEF HandleRefreshToken
<1>10. ASSUME NEW ch \in Channels, ResubscribeNext(ch) PROVE ActorTypes'
  <2>1. todo' \subseteq Channels
    BY <1>10 DEF ResubscribeNext, ActorTypes, ActorTypeOK
  <2> QED BY <1>10, <1>t, <2>1, DoSubscribeTyped DEF ResubscribeNext
<1>11. ASSUME NEW ch \in Channels, HandleResubscribe(ch) PROVE ActorTypes'
  <2> DEFINE timers == [resub EXCEPT ![ch] = @ - 1]
  <2>1. timers \in [Channels -> 0 .. MaxTimers] /\ todo' \subseteq Channels
    BY <1>11, <1>t, TimersTyped DEF HandleResubscribe, ActorTypes, ActorTypeOK
  <2>2. CASE DoSubscribe(ch, timers)
    BY <2>1, <2>2, DoSubscribeTyped
  <2>3. CASE resub' = timers /\ UNCHANGED <<sub, sub_token, sub_waiters, reqVars, wireVars>>
    BY <2>1, <2>3 DEF ActorTypes, ActorTypeOK, WireTyped, reqVars, wireVars
  <2> QED BY <1>11, <2>2, <2>3 DEF HandleResubscribe
<1>12. ASSUME NEW r \in Requesters, HandleSendRequest(r) PROVE ActorTypes'
  <2>1. CASE scall' = AnswerSubs({r}, "err") /\ UNCHANGED <<subVars, pending, wireVars>>
    BY <2>1, AnswerSubsTyped DEF ActorTypes, ActorTypeOK, WireTyped, subVars, wireVars
  <2>2. CASE SendPending("request", "none", r) /\ UNCHANGED subVars
    BY <2>2, <1>8 DEF RequestKinds, subVars, ActorTypes, ActorTypeOK
  <2> QED BY <1>12, <2>1, <2>2 DEF HandleSendRequest
<1>13. ASSUME NEW ch \in Channels, NEW r \in Requesters, HandleSubscribe(r, ch) PROVE ActorTypes'
  <2>1. CASE \E a \in {"ok", "err"} : scall' = AnswerSubs({r}, a)
                /\ UNCHANGED <<sub, sub_token, sub_waiters, resub, todo, pending, wireVars>>
    BY <2>1, AnswerSubsTyped DEF ActorTypes, ActorTypeOK, WireTyped, wireVars
  <2>2. CASE /\ sub' = [sub EXCEPT ![ch] = "Subscribing"]
             /\ sub_waiters' = [sub_waiters EXCEPT ![ch] = @ \union {r}]
             /\ scall' = AnswerSubs({r}, "waiting")
             /\ UNCHANGED <<sub_token, resub, todo, pending, wireVars>>
    <3>1. scall' \in [Requesters -> {"idle", "waiting", "ok", "err"}]
      BY <2>2, AnswerSubsTyped DEF ActorTypes, ActorTypeOK
    <3> QED BY <2>2, <3>1 DEF ActorTypes, ActorTypeOK, WireTyped, wireVars, SubscriptionState
  <2>3. CASE /\ sub' = [sub EXCEPT ![ch] = "Subscribing"]
             /\ SendPending("subscribe", ch, r)
             /\ UNCHANGED <<sub_waiters, sub_token, resub, todo>>
    BY <2>3, <1>8, <1>t DEF RequestKinds, SubscriptionState, ActorTypes, ActorTypeOK
  <2> QED BY <1>13, <2>1, <2>2, <2>3 DEF HandleSubscribe
<1>14. ASSUME NEW ch \in Channels,
              HandleNewSubscription(ch) \/ HandleUnsubscribe(ch) \/ HandleRemoveSubscription(ch)
       PROVE  ActorTypes'
  <2>1. CASE HandleNewSubscription(ch)
    BY <2>1, ActorAssumption DEF HandleNewSubscription, ActorTypes, ActorTypeOK, WireTyped,
       reqVars, wireVars, SubscriptionState
  <2>2. HandleUnsubscribe(ch) \/ HandleRemoveSubscription(ch) => WireTyped'
    <3>1. Sent(0, "unsubscribe", ch) => WireTyped'
      BY SentTyped DEF ActorTypes, RequestKinds
    <3>2. UNCHANGED wireVars => WireTyped'
      BY DEF ActorTypes, WireTyped, wireVars
    <3> QED BY <3>1, <3>2 DEF HandleUnsubscribe, HandleRemoveSubscription
  <2>3. CASE HandleUnsubscribe(ch)
    BY <2>2, <2>3 DEF HandleUnsubscribe, ActorTypes, ActorTypeOK, WireTyped, reqVars,
       SubscriptionState
  <2>4. CASE HandleRemoveSubscription(ch)
    BY <2>2, <2>4, AnswerSubsTyped, NoWaitersTyped DEF HandleRemoveSubscription, ActorTypes,
       ActorTypeOK, WireTyped, SubscriptionState
  <2> QED BY <1>14, <2>1, <2>3, <2>4
<1>15. ASSUME NEW ch \in Channels, NEW o \in SubTokenOutcomes, HandleRefreshSubToken(ch, o)
       PROVE  ActorTypes'
  <2>1. CASE /\ sub' = [sub EXCEPT ![ch] = "Unsubscribed"]
             /\ scall' = AnswerSubs(sub_waiters[ch], "err")
             /\ sub_waiters' = NoWaiters({ch})
             /\ UNCHANGED <<sub_token, pending, wireVars, resub, todo>>
    BY <2>1, AnswerSubsTyped, NoWaitersTyped DEF ActorTypes, ActorTypeOK, WireTyped, wireVars,
       SubscriptionState
  <2>2. CASE /\ sub_token' = [sub_token EXCEPT ![ch] = TRUE]
             /\ SendPending("sub_refresh", ch, "nobody")
             /\ UNCHANGED <<sub, sub_waiters, resub, todo>>
    BY <2>2, <1>8, <1>t DEF RequestKinds, ActorTypes, ActorTypeOK
  <2> QED BY <1>15, <2>1, <2>2 DEF HandleRefreshSubToken
<1> QED
  BY <1>1, <1>2, <1>3, <1>4, <1>5, <1>6, <1>7, <1>9, <1>10, <1>11, <1>12, <1>13, <1>14, <1>15,
     FrameTyped, ServerTyped, StopBatchingTyped, SendConnectTyped DEF ActorNext

LEMMA TypesInit == ActorInit => ActorTypes
<1>1. <<>> \in Seq(Command)
  OBVIOUS
<1> QED BY <1>1, NoRequestTyped, ActorAssumption
        DEF ActorInit, ActorTypes, ActorTypeOK, WireTyped, SubscriptionState

\* The registry, the request table, the timers, the callers and the server's record stay
\* well typed, whatever is sent and answered.
THEOREM ActorTyped == ActorSpec => []ActorTypeOK
<1>1. ActorTypes => ActorTypeOK
  BY DEF ActorTypes
<1>2. ActorTypes /\ [ActorNext]_actorVars => ActorTypes'
  BY TypesNext
<1> QED BY <1>1, <1>2, TypesInit, PTL DEF ActorSpec

-------------------------------------------------------------------------------
(* No attempt is stranded.  While resubscribe_all() is under way, a channel   *)
(* it has still to go through is as good as one that has been seen to.        *)

Working == state = "Connected" /\ link = "joined"

Going(ch) == InFlight(ch) \/ resub[ch] > 0

OnItsWay(ch) == Going(ch) \/ (pc = "resubscribe" /\ ch \in todo)

AttemptsInv ==
  Working => \A ch \in Channels : sub[ch] = "Subscribing" => OnItsWay(ch)

\* Another request takes no entry away, and the transport accepts it.
LEMMA SendKeepsInFlight ==
  ASSUME ActorTypes, NEW kind, NEW c, NEW r, SendPending(kind, c, r), link = "joined",
         NEW ch, InFlight(ch)
  PROVE  InFlight(ch)'
<1>1. PICK i \in Ids : pending[i].kind = "subscribe" /\ pending[i].ch = ch
  BY DEF InFlight
<1>2. i # NewId
  BY <1>1, NewIdFree DEF SendPending, InUse
<1>3. pending'[i] = pending[i]
  BY <1>2 DEF SendPending, ActorTypes, ActorTypeOK
<1> QED BY <1>1, <1>3 DEF InFlight

LEMMA SubscribeInFlight ==
  ASSUME ActorTypes, NEW c, NEW r, SendPending("subscribe", c, r), link = "joined"
  PROVE  InFlight(c)'
<1>1. NewId \in Ids /\ pending' = [pending EXCEPT ![NewId] = Request("subscribe", c, r)]
  BY NewIdFree DEF SendPending, SendFails
<1>2. pending'[NewId].kind = "subscribe" /\ pending'[NewId].ch = c
  BY <1>1 DEF ActorTypes, ActorTypeOK, Request
<1> QED BY <1>1, <1>2 DEF InFlight

\* do_subscribe() gets the attempt going, ends it, or had nothing to do; it leaves the
\* other channels alone.
LEMMA DoSubscribeGoesOn ==
  ASSUME ActorTypes, NEW c \in Channels, NEW timers \in [Channels -> 0 .. MaxTimers],
         DoSubscribe(c, timers), link = "joined",
         NEW ch \in Channels, sub'[ch] = "Subscribing"
  PROVE  /\ sub[ch] = "Subscribing"
         /\ ch = c => Going(ch)'
         /\ ch # c => (InFlight(ch) => InFlight(ch)') /\ resub'[ch] = timers[ch]
<1>t. /\ sub \in [Channels -> SubscriptionState]
      /\ MaxTimers \in Nat /\ timers[c] \in 0 .. MaxTimers
  BY ActorAssumption DEF ActorTypes, ActorTypeOK
<1>1. CASE sub[c] \notin Live /\ resub' = timers /\ UNCHANGED <<sub, reqVars>>
  BY <1>1 DEF Live, InFlight, reqVars
<1>2. CASE sub' = [sub EXCEPT ![c] = "Unsubscribed"] /\ resub' = timers /\ UNCHANGED pending
  BY <1>2, <1>t DEF InFlight
<1>3. CASE resub' = [timers EXCEPT ![c] = @ + 1] /\ UNCHANGED <<sub, reqVars>>
  BY <1>3, <1>t DEF InFlight, Going, reqVars
<1>4. CASE SendPending("subscribe", c, "nobody") /\ resub' = timers /\ UNCHANGED sub
  BY <1>4, SendKeepsInFlight, SubscribeInFlight DEF Going
<1> QED BY <1>1, <1>2, <1>3, <1>4 DEF DoSubscribe

\* A reply ends its attempt, confirms it or has it repeated; a push starts another.
LEMMA FrameGoesOn ==
  ASSUME ActorTypes, HandleFrame, NEW ch \in Channels, sub'[ch] = "Subscribing"
  PROVE  \/ Going(ch)'
         \/ sub[ch] = "Subscribing" /\ (Going(ch) => Going(ch)')
<1>t. /\ sub \in [Channels -> SubscriptionState]
      /\ pending \in [Ids -> PendingRequest]
      /\ resub \in [Channels -> 0 .. MaxTimers] /\ MaxTimers \in Nat
      /\ \A c \in Channels : resub[c] \in 0 .. MaxTimers
  BY ActorAssumption DEF ActorTypes, ActorTypeOK
<1>1. ASSUME NEW c, NEW again, ServerUnsubscribe(c, again)
      PROVE  Going(ch)' \/ (sub[ch] = "Subscribing" /\ (Going(ch) => Going(ch)'))
  <2>1. UNCHANGED pending
    BY <1>1 DEF ServerUnsubscribe, reqVars
  <2>2. CASE c = ch /\ resub' = [resub EXCEPT ![c] = @ + 1]
    BY <2>2, <1>t DEF Going
  <2>3. CASE UNCHANGED <<sub, resub>>
    BY <2>1, <2>3 DEF Going, InFlight
  <2>4. CASE /\ c # ch
             /\ sub' \in {[sub EXCEPT ![c] = "Subscribing"], [sub EXCEPT ![c] = "Unsubscribed"]}
             /\ resub' \in {resub, [resub EXCEPT ![c] = @ + 1]}
    BY <2>1, <2>4, <1>t DEF Going, InFlight
  <2>5. CASE c = ch /\ sub' = [sub EXCEPT ![c] = "Unsubscribed"]
    BY <2>5, <1>t
  <2> QED BY <1>1, <2>2, <2>3, <2>4, <2>5 DEF ServerUnsubscribe
<1>2. ASSUME NEW i \in Ids, NEW kind, Resolve(i, kind)
      PROVE  Going(ch)' \/ (sub[ch] = "Subscribing" /\ (Going(ch) => Going(ch)'))
  <2>1. \A j \in Ids : j # i => pending'[j] = pending[j]
    BY <1>2, <1>t DEF Resolve
  <2>2. CASE pending[i].kind # "subscribe" \/ pending[i].ch # ch
    <3>1. InFlight(ch) => InFlight(ch)'
      BY <2>1, <2>2 DEF InFlight
    <3>2. sub[ch] = "Subscribing" /\ resub'[ch] = resub[ch]
      BY <1>2, <2>2, <1>t DEF Resolve, SubscribeSuccess, SubscribeError
    <3> QED BY <3>1, <3>2 DEF Going
  <2>3. CASE pending[i].kind = "subscribe" /\ pending[i].ch = ch
    <3>1. ~SubscribeSuccess(ch, pending[i].caller)
      BY <1>t DEF SubscribeSuccess
    <3>2. SubscribeError(ch, pending[i].caller, kind)
      BY <1>2, <2>3, <3>1 DEF Resolve
    <3>3. resub' = [resub EXCEPT ![ch] = @ + 1]
      BY <3>2, <1>t DEF SubscribeError
    <3> QED BY <3>3, <1>t DEF Going
  <2> QED BY <2>2, <2>3
<1>3. CASE UNCHANGED <<sub, resub, reqVars>>
  BY <1>3 DEF Going, InFlight, reqVars
<1> QED BY <1>1, <1>2, <1>3 DEF HandleFrame

\* Only an accepted Connect brings the task to a working connection.
LEMMA StaysWorking ==
  ASSUME Inv, Inv', Working', LifeOnly \/ ActorSendConnect
  PROVE  Working /\ pc' = pc
<1> USE DEF Inv, ControlMatchesState, NoLeakedTransport, Working, callVars, tokenVars
<1>1. CASE \E c \in Callers : CallConnect(c) \/ HandleConnect(c) \/ RejectAfterClose(c)
  BY <1>1 DEF CallConnect, HandleConnect, RejectAfterClose
<1>2. CASE (\E t \in TokenValues : HandleSetToken(t)) \/ StartBatching \/ DropHandles
  BY <1>2 DEF HandleSetToken, StartBatching, DropHandles
<1>3. CASE BackoffExpires \/ TokenNotRefreshed \/ TokenRefreshed \/ TokenRefreshFails
  BY <1>3 DEF BackoffExpires, TokenNotRefreshed, TokenRefreshed, TokenRefreshFails
<1>4. CASE OpenTransport
  BY <1>4 DEF OpenTransport, TransportOpens, TransportFails
<1>5. CASE ActorSendConnect
  BY <1>5 DEF ActorSendConnect, SendConnect
<1> QED BY <1>1, <1>2, <1>3, <1>4, <1>5 DEF LifeOnly

\* Where the connection ends, nothing is claimed.
LEMMA EndsWork ==
  ASSUME \/ ActorDisconnect \/ ActorClose \/ ActorTokenUnauthorized
         \/ ActorHandshakeFails
         \/ \E r \in BOOLEAN : ActorHandshakeDisconnectPush(r)
         \/ ActorLosesConnection \/ ActorLinkBreaks \/ CommandFailure
         \/ MoveToDisconnected
  PROVE  ~Working'
<1>1. ASSUME NEW r, OnTransportClose(r) PROVE ~Working'
  BY <1>1 DEF OnTransportClose, MoveToDisconnected, Working
<1>2. CASE ActorDisconnect \/ ActorTokenUnauthorized \/ MoveToDisconnected
  BY <1>2 DEF ActorDisconnect, HandleDisconnect, ActorTokenUnauthorized, TokenUnauthorized,
     MoveToDisconnected, Working
<1>3. CASE ActorClose
  BY <1>3 DEF ActorClose, HandleClose, MoveToClosed, Working
<1>4. CASE ActorHandshakeFails
  BY <1>4 DEF ActorHandshakeFails, HandshakeLost, ConnectRefused, OnHandshakeFailure,
     MoveToDisconnected, Working
<1>5. CASE \/ \E r \in BOOLEAN : ActorHandshakeDisconnectPush(r)
           \/ ActorLosesConnection \/ CommandFailure
  BY <1>1, <1>5 DEF ActorHandshakeDisconnectPush, HandshakeDisconnectPush, ActorLosesConnection,
     TransportCloses, DisconnectPush, DecodeError, PingTimeout, CommandFailure, LoseConnection
<1>6. CASE ActorLinkBreaks
  BY <1>6 DEF ActorLinkBreaks, LinkBreaks, Working
<1> QED BY <1>2, <1>3, <1>4, <1>5, <1>6

LEMMA AttemptsNext ==
  ASSUME Inv, Inv', ActorTypes, AttemptsInv, [ActorNext]_actorVars
  PROVE  AttemptsInv'
<1> SUFFICES ASSUME Working', NEW ch \in Channels, sub'[ch] = "Subscribing"
             PROVE  OnItsWay(ch)'
  BY DEF AttemptsInv
<1>t. /\ sub \in [Channels -> SubscriptionState]
      /\ pending \in [Ids -> PendingRequest]
      /\ resub \in [Channels -> 0 .. MaxTimers]
  BY DEF ActorTypes, ActorTypeOK
<1>w. Working => (pc \in {"loop", "resubscribe"} /\ link = "joined")
  BY DEF Inv, ControlMatchesState, Working
<1>l. UNCHANGED lifeVars => Working /\ pc' = pc
  BY DEF Working, lifeVars
\* The attempt was there before, and goes on.
<1>k. ASSUME Working, pc' = pc, sub[ch] = "Subscribing", Going(ch) => Going(ch)', todo' = todo
      PROVE  OnItsWay(ch)'
  BY <1>k DEF AttemptsInv, OnItsWay
<1>i. ASSUME UNCHANGED <<pending, resub>> PROVE Going(ch) => Going(ch)'
  BY <1>i DEF Going, InFlight
<1>1. ~(\/ ActorDisconnect \/ ActorClose \/ ActorTokenUnauthorized \/ ActorHandshakeFails
        \/ (\E r \in BOOLEAN : ActorHandshakeDisconnectPush(r))
        \/ ActorLosesConnection \/ ActorLinkBreaks)
  BY EndsWork
<1>2. CASE LifeOnly \/ ActorSendConnect
  BY <1>2, <1>i, <1>k, StaysWorking DEF LifeOnly, ActorSendConnect, subscriptionVars, subVars, reqVars
<1>3. CASE \E S \in SUBSET Channels : ActorConnectAccepted(S)
  BY <1>3 DEF ActorConnectAccepted, ConnectAccepted, OnItsWay
<1>4. CASE ActorFinishConnect
  <2>1. Working /\ todo = {} /\ UNCHANGED <<sub, pending, resub>>
    BY <1>4 DEF ActorFinishConnect, FinishConnect, Inv, ControlMatchesState, Working,
       subscriptionVars, subVars, reqVars
  <2> QED BY <2>1, <1>i DEF AttemptsInv, OnItsWay
<1>5. ASSUME NEW c \in Channels, ResubscribeNext(c) PROVE OnItsWay(ch)'
  <2>1. Working /\ pc' = pc /\ link = "joined" /\ pc = "resubscribe"
    BY <1>5, <1>l, <1>w DEF ResubscribeNext
  <2>2. /\ sub[ch] = "Subscribing"
        /\ ch = c => Going(ch)'
        /\ ch # c => (InFlight(ch) => InFlight(ch)') /\ resub'[ch] = resub[ch]
    BY <1>5, <1>t, <2>1, DoSubscribeGoesOn DEF ResubscribeNext
  <2>3. ch # c => (ch \in todo => ch \in todo')
    BY <1>5 DEF ResubscribeNext
  <2> QED BY <2>1, <2>2, <2>3 DEF AttemptsInv, OnItsWay, Going
<1>6. ASSUME NEW c \in Channels, HandleResubscribe(c) PROVE OnItsWay(ch)'
  <2> DEFINE timers == [resub EXCEPT ![c] = @ - 1]
  <2>1. /\ Working /\ pc' = pc /\ link = "joined" /\ todo' = todo
        /\ timers \in [Channels -> 0 .. MaxTimers]
    BY <1>6, <1>l, <1>w, <1>t, TimersTyped DEF HandleResubscribe
  <2>2. DoSubscribe(c, timers)
    BY <1>6, <2>1 DEF HandleResubscribe, Working
  <2>3. /\ sub[ch] = "Subscribing"
        /\ ch = c => Going(ch)'
        /\ ch # c => (InFlight(ch) => InFlight(ch)') /\ resub'[ch] = timers[ch]
    BY <2>1, <2>2, DoSubscribeGoesOn
  <2>4. ch # c => timers[ch] = resub[ch]
    BY <1>t
  <2> QED BY <2>1, <2>3, <2>4, <1>k DEF Going, OnItsWay
<1>7. ASSUME NEW kind, NEW c, NEW r, SendPending(kind, c, r), UNCHANGED <<pc, resub, todo>>,
             Working, sub[ch] = "Subscribing"
      PROVE  OnItsWay(ch)'
  <2>1. InFlight(ch) => InFlight(ch)'
    BY <1>7, <1>w, SendKeepsInFlight
  <2> QED BY <1>7, <2>1, <1>k DEF Going
<1>8. ASSUME NEW c \in Channels, NEW r \in Requesters, HandleSubscribe(r, c) PROVE OnItsWay(ch)'
  <2>1. Working /\ pc' = pc /\ link = "joined" /\ todo' = todo /\ resub' = resub
    BY <1>8, <1>l, <1>w DEF HandleSubscribe
  <2>2. CASE SendPending("subscribe", c, r) /\ sub' = [sub EXCEPT ![c] = "Subscribing"]
    <3>1. CASE ch = c
      BY <2>1, <2>2, <3>1, SubscribeInFlight DEF OnItsWay, Going
    <3>2. CASE ch # c
      BY <2>1, <2>2, <3>2, <1>t, <1>7
    <3> QED BY <3>1, <3>2
  <2>3. CASE UNCHANGED pending /\ sub[ch] = "Subscribing"
    BY <2>1, <2>3, <1>i, <1>k
  <2> QED BY <1>8, <1>t, <2>1, <2>2, <2>3 DEF HandleSubscribe, Working
<1>9. ASSUME NEW r \in Requesters, HandleSendRequest(r) PROVE OnItsWay(ch)'
  BY <1>9, <1>l, <1>i, <1>k, <1>7 DEF HandleSendRequest, subVars
<1>10. ASSUME NEW c \in Channels, UnsubscribeFails(c) PROVE FALSE
  BY <1>10, EndsWork DEF UnsubscribeFails
<1>11. ASSUME NEW i \in Ids, HandleRequestTimeout(i) PROVE OnItsWay(ch)'
  <2>1. /\ pending' = [pending EXCEPT ![i] = NoRequest]
        /\ UNCHANGED <<lifeVars, subVars>>
        /\ pending[i].kind = "subscribe" => sub[pending[i].ch] = "absent"
    BY <1>11, EndsWork DEF HandleRequestTimeout
  <2>2. sub[ch] = "Subscribing" /\ todo' = todo /\ resub' = resub
    BY <2>1 DEF subVars
  <2>3. InFlight(ch) => InFlight(ch)'
    BY <2>1, <2>2, <1>t DEF InFlight
  <2> QED BY <2>1, <2>2, <2>3, <1>l, <1>k DEF Going
<1>12. ASSUME NEW o \in TokenOutcomes, HandleRefreshToken(o) PROVE OnItsWay(ch)'
  <2>1. o # "unauthorized"
    BY <1>12, EndsWork DEF HandleRefreshToken, RefreshTimer
  <2>2. Working /\ pc' = pc
    BY <1>12, <2>1 DEF HandleRefreshToken, RefreshTimer, Working
  <2> QED BY <1>12, <2>1, <2>2, <1>i, <1>k, <1>7 DEF HandleRefreshToken, subVars, reqVars
<1>13. ASSUME NEW c \in Channels, NEW o \in SubTokenOutcomes, HandleRefreshSubToken(c, o)
       PROVE  OnItsWay(ch)'
  <2>1. sub[ch] = "Subscribing"
    BY <1>13, <1>t DEF HandleRefreshSubToken
  <2> QED BY <1>13, <2>1, <1>l, <1>i, <1>k, <1>7 DEF HandleRefreshSubToken
<1>14. ASSUME NEW c \in Channels,
              \/ HandleNewSubscription(c) \/ HandleUnsubscribe(c) \/ HandleRemoveSubscription(c)
              \/ \E kind \in {"resubscribe", "terminal"} : ServerPushes(c, kind)
       PROVE  OnItsWay(ch)'
  <2>1. UNCHANGED <<lifeVars, pending, resub, todo>>
    BY <1>14 DEF HandleNewSubscription, HandleUnsubscribe, HandleRemoveSubscription, ServerPushes,
       subVars, reqVars
  <2>2. sub[ch] = "Subscribing"
    BY <1>14, <1>t DEF HandleNewSubscription, HandleUnsubscribe, HandleRemoveSubscription,
       ServerPushes, subVars
  <2> QED BY <2>1, <2>2, <1>l, <1>i, <1>k
<1>15. CASE HandleFrame
  <2>1. UNCHANGED <<lifeVars, todo>>
    BY <1>15 DEF HandleFrame
  <2>2. Going(ch)' \/ (sub[ch] = "Subscribing" /\ (Going(ch) => Going(ch)'))
    BY <1>15, FrameGoesOn
  <2> QED BY <2>1, <2>2, <1>l, <1>k DEF OnItsWay
<1>16. CASE ServerHandles \/ HandleStopBatching \/ UNCHANGED actorVars
  <2>1. UNCHANGED <<pending, resub, todo, sub, pc>> /\ Working
    BY <1>16 DEF ServerHandles, HandleStopBatching, StopBatching, actorVars, subVars, reqVars,
       Working, lifeVars
  <2> QED BY <2>1, <1>i, <1>k
<1> QED
  BY <1>1, <1>2, <1>3, <1>4, <1>5, <1>6, <1>8, <1>9, <1>10, <1>11, <1>12, <1>13, <1>14, <1>15,
     <1>16 DEF ActorNext

\* Once resubscribe_all() is through, a Subscribing subscription on a working connection has
\* a Subscribe that awaits its reply or a Resubscribe that is due: errors, callbacks that
\* fail, server unsubscribes, timers of earlier attempts and commands of the application
\* never leave it with neither.
THEOREM NoAttemptStranded == ActorSpec => []NoStrandedSubscription
<1>1. ActorInit => Inv /\ ActorTypes /\ AttemptsInv
  <2>1. ActorInit => Inv
    BY InitInv DEF ActorInit
  <2>2. ActorInit => AttemptsInv
    BY DEF ActorInit, AttemptsInv
  <2> QED BY <2>1, <2>2, TypesInit
<1>2. Inv /\ ActorTypes /\ AttemptsInv /\ [ActorNext]_actorVars
        => (Inv /\ ActorTypes /\ AttemptsInv)'
  <2>1. Inv /\ [ActorNext]_actorVars => Inv'
    BY ActorStepIsLifeStep, NextInv
  <2> QED BY <2>1, TypesNext, AttemptsNext
<1>3. Inv /\ AttemptsInv => NoStrandedSubscription
  BY DEF Inv, ControlMatchesState, AttemptsInv, Working, OnItsWay, Going, NoStrandedSubscription
<1> QED BY <1>1, <1>2, <1>3, PTL DEF ActorSpec

-------------------------------------------------------------------------------
(* CallersOwned without counting.                                             *)

Owned(r) ==
  \/ scall[r] # "waiting" /\ HeldBy(r) = {} /\ AwaitedBy(r) = {}
  \/ scall[r] = "waiting" /\ AwaitedBy(r) = {} /\ \E ch \in Channels : HeldBy(r) = {ch}
  \/ scall[r] = "waiting" /\ HeldBy(r) = {} /\ \E i \in Ids : AwaitedBy(r) = {i}

\* A pending Subscribe names its channel.
SubscribesNamed == \A i \in Ids : pending[i].kind = "subscribe" => pending[i].ch \in Channels

OwnedInv == SubscribesNamed /\ \A r \in Requesters : Owned(r)

LEMMA OwnedCounts == OwnedInv => CallersOwned
<1> SUFFICES ASSUME OwnedInv, NEW r \in Requesters
             PROVE  Cardinality(HeldBy(r)) + Cardinality(AwaitedBy(r))
                      = IF scall[r] = "waiting" THEN 1 ELSE 0
  BY DEF CallersOwned
<1>1. Cardinality({}) = 0
  BY FS_EmptySet
<1>2. \A x : Cardinality({x}) = 1
  BY FS_Singleton
<1>3. Owned(r)
  BY DEF OwnedInv
<1>4. CASE scall[r] # "waiting" /\ HeldBy(r) = {} /\ AwaitedBy(r) = {}
  BY <1>1, <1>4
<1>5. CASE scall[r] = "waiting" /\ AwaitedBy(r) = {} /\ \E ch \in Channels : HeldBy(r) = {ch}
  <2>1. Cardinality(HeldBy(r)) = 1 /\ Cardinality(AwaitedBy(r)) = 0
    BY <1>1, <1>2, <1>5
  <2> QED BY <1>5, <2>1
<1>6. CASE scall[r] = "waiting" /\ HeldBy(r) = {} /\ \E i \in Ids : AwaitedBy(r) = {i}
  <2>1. Cardinality(HeldBy(r)) = 0 /\ Cardinality(AwaitedBy(r)) = 1
    BY <1>1, <1>2, <1>6
  <2> QED BY <1>6, <2>1
<1> QED BY <1>3, <1>4, <1>5, <1>6 DEF Owned

-------------------------------------------------------------------------------
(* What the handlers do with callers: nothing, settle some, or take one in.   *)

LEMMA Undisturbed ==
  ASSUME OwnedInv, UNCHANGED <<scall, sub_waiters, pending>>
  PROVE  OwnedInv'
  BY DEF OwnedInv, SubscribesNamed, Owned, HeldBy, AwaitedBy, InUse

\* The places in D and the requests in P are given up, and those held there get the
\* answer a.
Settles(r, D, P, a) ==
  /\ \A ch \in Channels : sub_waiters'[ch] = IF ch \in D THEN {} ELSE sub_waiters[ch]
  /\ \A i \in Ids : pending'[i] = IF i \in P THEN NoRequest ELSE pending[i]
  /\ scall'[r] = IF \/ \E ch \in Channels : ch \in D /\ r \in sub_waiters[ch]
                    \/ \E i \in Ids : i \in P /\ InUse(i) /\ pending[i].caller = r
                 THEN a ELSE scall[r]

LEMMA Settled ==
  ASSUME NEW r \in Requesters, Owned(r), NEW D, NEW P, NEW a, a # "waiting",
         Settles(r, D, P, a)
  PROVE  Owned(r)'
<1>1. HeldBy(r)' = {ch \in HeldBy(r) : ch \notin D}
  BY DEF HeldBy, Settles
<1>2. AwaitedBy(r)' = {i \in AwaitedBy(r) : i \notin P}
  BY DEF AwaitedBy, Settles, InUse, NoRequest, Request
<1>3. scall'[r] = IF (\E ch \in HeldBy(r) : ch \in D) \/ (\E i \in AwaitedBy(r) : i \in P)
                  THEN a ELSE scall[r]
  BY DEF HeldBy, AwaitedBy, Settles
<1> QED BY <1>1, <1>2, <1>3 DEF Owned

\* A request enters the table under an id that is free, for a requester that is not
\* waiting or for nobody.
LEMMA SendPendingOwned ==
  ASSUME OwnedInv, ActorTypes,
         NEW kind \in RequestKinds, NEW ch \in Channels \union {"none"},
         NEW caller \in Requesters \union {"nobody"},
         kind = "subscribe" => ch \in Channels,
         caller \in Requesters => scall[caller] # "waiting",
         SendPending(kind, ch, caller), UNCHANGED sub_waiters
  PROVE  OwnedInv'
<1>n. SubscribesNamed'
  <2>1. pending \in [Ids -> PendingRequest] /\ SubscribesNamed
    BY DEF ActorTypes, ActorTypeOK, OwnedInv
  <2> QED BY <2>1 DEF SendPending, SubscribesNamed, Request
<1> SUFFICES ASSUME NEW r \in Requesters
             PROVE  Owned(r)'
  BY <1>n DEF OwnedInv
<1>1. Owned(r)
  BY DEF OwnedInv
<1>2. /\ pending \in [Ids -> PendingRequest]
      /\ scall \in [Requesters -> {"idle", "waiting", "ok", "err"}]
  BY DEF ActorTypes, ActorTypeOK
<1>3. HeldBy(r)' = HeldBy(r)
  BY DEF HeldBy
<1>4. CASE /\ pending' = [pending EXCEPT ![NewId] = Request(kind, ch, caller)]
           /\ scall' = AnswerSubs({caller}, "waiting")
  <2>1. NewId \in Ids /\ ~InUse(NewId)
    BY NewIdFree DEF SendPending
  <2>2. AwaitedBy(r)' = IF caller = r THEN AwaitedBy(r) \union {NewId} ELSE AwaitedBy(r)
    BY <1>2, <1>4, <2>1 DEF AwaitedBy, InUse, Request, RequestKinds
  <2>3. scall'[r] = IF caller = r THEN "waiting" ELSE scall[r]
    BY <1>4 DEF AnswerSubs
  <2> QED BY <1>1, <1>3, <2>1, <2>2, <2>3 DEF Owned
<1>5. CASE UNCHANGED pending /\ scall' = AnswerSubs({caller}, "err")
  <2>1. AwaitedBy(r)' = AwaitedBy(r)
    BY <1>5 DEF AwaitedBy, InUse
  <2>2. scall'[r] = IF caller = r THEN "err" ELSE scall[r]
    BY <1>5 DEF AnswerSubs
  <2> QED BY <1>1, <1>3, <2>1, <2>2 DEF Owned
<1> QED BY <1>4, <1>5 DEF SendPending

LEMMA FailPendingOwned ==
  ASSUME OwnedInv, NEW S \in SUBSET Channels, FailPendingAnd(S)
  PROVE  OwnedInv'
<1>n. SubscribesNamed'
  BY DEF FailPendingAnd, SubscribesNamed, NoRequest, Request
<1> SUFFICES ASSUME NEW r \in Requesters
             PROVE  Owned(r)'
  BY <1>n DEF OwnedInv
<1>1. Settles(r, S, Ids, "err")
  BY DEF Settles, FailPendingAnd, NoWaiters, AnswerSubs, PendingCallers, Waiters
<1> QED BY <1>1, Settled DEF OwnedInv

\* The connection ends, one way or another.
LEMMA EndOwned ==
  ASSUME OwnedInv, NEW s, NEW S \in SUBSET Channels, NEW b \in BOOLEAN,
         SubsDisconnected(s, S) \/ SubsOnTransportClose(b, s, S) \/ SubsClosed
  PROVE  OwnedInv'
<1>1. \A T \in SUBSET Channels : FailPendingAnd(T) => OwnedInv'
  BY FailPendingOwned
<1>2. S \union LiveIn(s) \in SUBSET Channels
  BY DEF LiveIn
<1>3. CASE SubsDisconnected(s, S)
  BY <1>1, <1>2, <1>3 DEF SubsDisconnected
<1>4. CASE SubsOnTransportClose(b, s, S)
  BY <1>1, <1>2, <1>4 DEF SubsOnTransportClose, SubsDisconnected
<1>5. CASE SubsClosed
  BY <1>1, <1>5 DEF SubsClosed
<1> QED BY <1>3, <1>4, <1>5

\* The callers attached to ch get an answer and nothing else happens to callers.
LEMMA WaitersOwned ==
  ASSUME OwnedInv, NEW S \in SUBSET Channels, NEW a \in {"ok", "err"},
         scall' = AnswerSubs(Waiters(S), a), sub_waiters' = NoWaiters(S), UNCHANGED pending
  PROVE  OwnedInv'
<1>n. SubscribesNamed'
  BY DEF OwnedInv, SubscribesNamed
<1> SUFFICES ASSUME NEW r \in Requesters
             PROVE  Owned(r)'
  BY <1>n DEF OwnedInv
<1>1. Settles(r, S, {}, a)
  BY DEF Settles, NoWaiters, AnswerSubs, Waiters
<1> QED BY <1>1, Settled DEF OwnedInv

\* ... the same for one channel, as most handlers put it.
LEMMA OneChannel ==
  ASSUME NEW ch \in Channels, NEW a
  PROVE  ActorTypes => AnswerSubs(sub_waiters[ch], a) = AnswerSubs(Waiters({ch}), a)
  BY DEF AnswerSubs, Waiters

\* Request i is settled, and with it the callers attached to the channels of D.
LEMMA RequestOwned ==
  ASSUME OwnedInv, ActorTypes, NEW i \in Ids, InUse(i), NEW D \in SUBSET Channels,
         NEW a \in {"ok", "err"},
         pending' = [pending EXCEPT ![i] = NoRequest],
         sub_waiters' = NoWaiters(D),
         scall' = AnswerSubs({pending[i].caller} \union Waiters(D), a)
  PROVE  OwnedInv'
<1>1. pending \in [Ids -> PendingRequest]
  BY DEF ActorTypes, ActorTypeOK
<1>n. SubscribesNamed'
  BY <1>1 DEF OwnedInv, SubscribesNamed, NoRequest, Request
<1> SUFFICES ASSUME NEW r \in Requesters
             PROVE  Owned(r)'
  BY <1>n DEF OwnedInv
<1>2. Settles(r, D, {i}, a)
  BY <1>1 DEF Settles, NoWaiters, AnswerSubs, Waiters
<1> QED BY <1>2, Settled DEF OwnedInv

-------------------------------------------------------------------------------
(* The handlers.                                                              *)

\* Request i is settled on its own.
LEMMA RequestAlone ==
  ASSUME OwnedInv, ActorTypes, NEW i \in Ids, InUse(i), NEW a \in {"ok", "err"},
         pending' = [pending EXCEPT ![i] = NoRequest],
         scall' = AnswerSubs({pending[i].caller}, a), UNCHANGED sub_waiters
  PROVE  OwnedInv'
<1>1. sub_waiters' = NoWaiters({})
  BY DEF NoWaiters, ActorTypes, ActorTypeOK
<1>2. AnswerSubs({pending[i].caller}, a) = AnswerSubs({pending[i].caller} \union Waiters({}), a)
  BY DEF AnswerSubs, Waiters
<1> QED BY <1>1, <1>2, RequestOwned

LEMMA DoSubscribeOwned ==
  ASSUME OwnedInv, ActorTypes, NEW ch \in Channels, NEW timers, DoSubscribe(ch, timers)
  PROVE  OwnedInv'
<1>1. CASE UNCHANGED <<sub, sub_token, sub_waiters, reqVars, wireVars>>
  BY <1>1, Undisturbed DEF reqVars
<1>2. CASE /\ scall' = AnswerSubs(sub_waiters[ch], "err")
           /\ sub_waiters' = NoWaiters({ch})
           /\ UNCHANGED <<sub_token, pending, wireVars>>
  BY <1>2, OneChannel, WaitersOwned
<1>3. CASE SendPending("subscribe", ch, "nobody") /\ UNCHANGED <<sub, sub_waiters>>
  BY <1>3, SendPendingOwned, ActorAssumption DEF RequestKinds
<1> QED BY <1>1, <1>2, <1>3 DEF DoSubscribe

\* A call is answered on the spot.
LEMMA RefusedOwned ==
  ASSUME OwnedInv, NEW q \in Requesters, scall[q] # "waiting", NEW a \in {"ok", "err"},
         scall' = AnswerSubs({q}, a), UNCHANGED <<sub_waiters, pending>>
  PROVE  OwnedInv'
<1>n. SubscribesNamed'
  BY DEF OwnedInv, SubscribesNamed
<1> SUFFICES ASSUME NEW r \in Requesters
             PROVE  Owned(r)'
  BY <1>n DEF OwnedInv
<1>1. HeldBy(r)' = HeldBy(r) /\ AwaitedBy(r)' = AwaitedBy(r)
  BY DEF HeldBy, AwaitedBy, InUse
<1>2. IF r = q THEN scall'[r] = a ELSE scall'[r] = scall[r]
  BY DEF AnswerSubs
<1> QED BY <1>1, <1>2 DEF Owned, OwnedInv

LEMMA SubscribeOwned ==
  ASSUME OwnedInv, ActorTypes, NEW q \in Requesters, NEW ch \in Channels, HandleSubscribe(q, ch)
  PROVE  OwnedInv'
<1>0. scall \in [Requesters -> {"idle", "waiting", "ok", "err"}]
      /\ sub_waiters \in [Channels -> SUBSET Requesters]
  BY DEF ActorTypes, ActorTypeOK
<1>q. scall[q] # "waiting" /\ Owned(q) /\ SubscribesNamed
  BY DEF HandleSubscribe, OwnedInv
<1>1. CASE /\ \E a \in {"ok", "err"} : scall' = AnswerSubs({q}, a)
           /\ UNCHANGED <<sub, sub_waiters, pending, wireVars>>
  BY <1>1, <1>q, RefusedOwned
<1>2. CASE /\ sub_waiters' = [sub_waiters EXCEPT ![ch] = @ \union {q}]
           /\ scall' = AnswerSubs({q}, "waiting")
           /\ UNCHANGED <<pending, wireVars>>
  <2>n. SubscribesNamed'
    BY <1>q, <1>2 DEF SubscribesNamed
  <2> SUFFICES ASSUME NEW r \in Requesters
               PROVE  Owned(r)'
    BY <2>n DEF OwnedInv
  <2>1. AwaitedBy(r)' = AwaitedBy(r)
    BY <1>2 DEF AwaitedBy, InUse
  <2>2. HeldBy(r)' = IF r = q THEN HeldBy(r) \union {ch} ELSE HeldBy(r)
    BY <1>0, <1>2 DEF HeldBy
  <2>3. scall'[r] = IF r = q THEN "waiting" ELSE scall[r]
    BY <1>2 DEF AnswerSubs
  <2> QED BY <1>q, <2>1, <2>2, <2>3 DEF Owned, OwnedInv
<1>3. CASE SendPending("subscribe", ch, q) /\ UNCHANGED sub_waiters
  BY <1>3, <1>q, SendPendingOwned DEF RequestKinds
<1> QED BY <1>1, <1>2, <1>3 DEF HandleSubscribe

LEMMA FrameOwned ==
  ASSUME OwnedInv, ActorTypes, HandleFrame
  PROVE  OwnedInv'
<1>1. CASE \E ch, again : ServerUnsubscribe(ch, again)
  BY <1>1, Undisturbed DEF ServerUnsubscribe, reqVars
<1>2. CASE UNCHANGED <<sub, sub_token, sub_waiters, resub, reqVars>>
  BY <1>2, Undisturbed DEF reqVars
<1>3. ASSUME NEW i \in Ids, InUse(i), NEW kind, Resolve(i, kind)
      PROVE  OwnedInv'
  <2> DEFINE ch == pending[i].ch
             caller == pending[i].caller
  <2>1. pending' = [pending EXCEPT ![i] = NoRequest]
    BY <1>3 DEF Resolve
  <2>2. \A a \in {"ok", "err"} :
          scall' = AnswerSubs({caller}, a) /\ UNCHANGED sub_waiters => OwnedInv'
    BY <1>3, <2>1, RequestAlone
  <2>3. \A a \in {"ok", "err"} :
          /\ ch \in Channels
          /\ scall' = AnswerSubs({caller} \union sub_waiters[ch], a)
          /\ sub_waiters' = NoWaiters({ch})
          => OwnedInv'
    <3> SUFFICES ASSUME NEW a \in {"ok", "err"}, ch \in Channels,
                        scall' = AnswerSubs({caller} \union sub_waiters[ch], a),
                        sub_waiters' = NoWaiters({ch})
                 PROVE  OwnedInv'
      OBVIOUS
    <3>1. AnswerSubs({caller} \union sub_waiters[ch], a)
            = AnswerSubs({caller} \union Waiters({ch}), a)
      BY DEF AnswerSubs, Waiters
    <3> QED BY <1>3, <2>1, <3>1, RequestOwned
  <2>4. CASE pending[i].kind = "subscribe" /\ SubscribeSuccess(ch, caller)
    BY <2>3, <2>4 DEF SubscribeSuccess, OwnedInv, SubscribesNamed
  <2>5. CASE pending[i].kind = "subscribe" /\ SubscribeError(ch, caller, kind)
    BY <2>2, <2>3, <2>5 DEF SubscribeError, OwnedInv, SubscribesNamed
  <2>6. CASE scall' = AnswerSubs({caller}, "ok") /\ UNCHANGED <<sub, sub_token, sub_waiters, resub>>
    BY <2>2, <2>6
  <2> QED BY <1>3, <2>4, <2>5, <2>6 DEF Resolve
<1> QED BY <1>1, <1>2, <1>3 DEF HandleFrame

LEMMA OwnedNext ==
  ASSUME OwnedInv, ActorTypes, [ActorNext]_actorVars
  PROVE  OwnedInv'
<1>1. CASE \/ LifeOnly \/ ActorSendConnect \/ ActorFinishConnect \/ ActorLinkBreaks
           \/ HandleStopBatching \/ ServerHandles \/ UNCHANGED actorVars
  BY <1>1, Undisturbed DEF LifeOnly, ActorSendConnect, ActorFinishConnect, ActorLinkBreaks,
     HandleStopBatching, ServerHandles, actorVars, subscriptionVars, subVars, reqVars
<1>2. CASE ActorDisconnect \/ ActorClose \/ ActorTokenUnauthorized
  BY <1>2, EndOwned DEF ActorDisconnect, ActorClose, ActorTokenUnauthorized
<1>3. CASE ActorHandshakeFails
  BY <1>3, EndOwned, Undisturbed DEF ActorHandshakeFails, subVars, reqVars
<1>4. CASE (\E r \in BOOLEAN : ActorHandshakeDisconnectPush(r)) \/ ActorLosesConnection
  BY <1>4, EndOwned DEF ActorHandshakeDisconnectPush, ActorLosesConnection
<1>5. ASSUME NEW S \in SUBSET Channels, ActorConnectAccepted(S) PROVE OwnedInv'
  BY <1>5, WaitersOwned DEF ActorConnectAccepted
<1>6. ASSUME NEW ch \in Channels, ResubscribeNext(ch) PROVE OwnedInv'
  BY <1>6, DoSubscribeOwned DEF ResubscribeNext
<1>7. ASSUME NEW ch \in Channels, HandleResubscribe(ch) PROVE OwnedInv'
  <2>1. CASE DoSubscribe(ch, [resub EXCEPT ![ch] = @ - 1])
    BY <2>1, DoSubscribeOwned
  <2>2. CASE UNCHANGED <<sub, sub_token, sub_waiters, reqVars, wireVars>>
    BY <2>2, Undisturbed DEF reqVars
  <2> QED BY <1>7, <2>1, <2>2 DEF HandleResubscribe
<1>8. ASSUME NEW ch \in Channels,
             \/ HandleNewSubscription(ch) \/ HandleUnsubscribe(ch)
             \/ \E kind \in {"resubscribe", "terminal"} : ServerPushes(ch, kind)
      PROVE  OwnedInv'
  BY <1>8, Undisturbed DEF HandleNewSubscription, HandleUnsubscribe, ServerPushes, subVars, reqVars
<1>9. ASSUME NEW ch \in Channels, UnsubscribeFails(ch) PROVE OwnedInv'
  BY <1>9, EndOwned DEF UnsubscribeFails
<1>10. ASSUME NEW ch \in Channels, HandleRemoveSubscription(ch) PROVE OwnedInv'
  BY <1>10, OneChannel, WaitersOwned DEF HandleRemoveSubscription
<1>11. ASSUME NEW r \in Requesters, HandleSendRequest(r) PROVE OwnedInv'
  <2>1. CASE SendPending("request", "none", r) /\ UNCHANGED subVars
    BY <1>11, <2>1, SendPendingOwned DEF HandleSendRequest, RequestKinds, subVars
  <2>2. CASE scall' = AnswerSubs({r}, "err") /\ UNCHANGED <<pending, subVars>>
    BY <1>11, <2>2, RefusedOwned DEF HandleSendRequest, subVars
  <2> QED BY <1>11, <2>1, <2>2 DEF HandleSendRequest
<1>12. ASSUME NEW i \in Ids, HandleRequestTimeout(i) PROVE OwnedInv'
  <2>1. CASE pending[i].kind = "subscribe" /\ SubsOnTransportClose(TRUE, sub, {pending[i].ch})
    BY <2>1, EndOwned DEF OwnedInv, SubscribesNamed
  <2>2. CASE /\ pending' = [pending EXCEPT ![i] = NoRequest]
             /\ scall' = AnswerSubs({pending[i].caller}, "err")
             /\ UNCHANGED subVars
    <3>1. InUse(i)
      BY <1>12 DEF HandleRequestTimeout, InUse
    <3> QED BY <2>2, <3>1, RequestAlone DEF subVars
  <2> QED BY <1>12, <2>1, <2>2 DEF HandleRequestTimeout
<1>13. ASSUME NEW o \in TokenOutcomes, HandleRefreshToken(o) PROVE OwnedInv'
  <2>1. CASE SendPending("refresh", "none", "nobody") /\ UNCHANGED subVars
    BY <2>1, SendPendingOwned, ActorAssumption DEF RequestKinds, subVars
  <2> QED BY <1>13, <2>1, EndOwned, Undisturbed DEF HandleRefreshToken, subVars, reqVars
<1>14. ASSUME NEW ch \in Channels, NEW o \in SubTokenOutcomes, HandleRefreshSubToken(ch, o)
       PROVE  OwnedInv'
  <2>1. CASE SendPending("sub_refresh", ch, "nobody") /\ UNCHANGED <<sub, sub_waiters>>
    BY <2>1, SendPendingOwned, ActorAssumption DEF RequestKinds
  <2>2. CASE /\ scall' = AnswerSubs(sub_waiters[ch], "err")
             /\ sub_waiters' = NoWaiters({ch})
             /\ UNCHANGED <<sub_token, pending, wireVars>>
    BY <2>2, OneChannel, WaitersOwned
  <2> QED BY <1>14, <2>1, <2>2 DEF HandleRefreshSubToken
<1> QED
  BY <1>1, <1>2, <1>3, <1>4, <1>5, <1>6, <1>7, <1>8, <1>9, <1>10, <1>11, <1>12, <1>13, <1>14,
     SubscribeOwned, FrameOwned DEF ActorNext

\* A requester that waits is held in exactly one place, and one that has its answer in
\* none, whatever becomes of the request, the subscription and the connection: unsubscribe,
\* removal, timeouts, refusals, replies to requests that are gone and lost connections
\* forget nobody and answer nobody twice.
THEOREM EveryCallerOwned == ActorSpec => []CallersOwned
<1>1. ActorInit => OwnedInv
  BY DEF ActorInit, OwnedInv, SubscribesNamed, Owned, HeldBy, AwaitedBy, InUse, NoRequest, Request
<1>2. ActorTypes /\ OwnedInv /\ [ActorNext]_actorVars => (ActorTypes /\ OwnedInv)'
  BY TypesNext, OwnedNext
<1> QED BY <1>1, <1>2, TypesInit, OwnedCounts, PTL DEF ActorSpec
===============================================================================
