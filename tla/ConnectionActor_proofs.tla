------------------------ MODULE ConnectionActor_proofs ------------------------
(***************************************************************************)
(* Proofs about ConnectionActor, for any set of channels, requesters,      *)
(* command ids and answers of the server and the callbacks.                *)
(***************************************************************************)
EXTENDS ConnectionActor, ConnectionLifecycle_proofs

-------------------------------------------------------------------------------
(* The composite implements the connection task alone.                        *)

LEMMA ActorStepIsLifeStep == [ActorNext]_actorVars => [LifeNext]_lifeVars
<1> SUFFICES ASSUME [ActorNext]_actorVars PROVE [LifeNext]_lifeVars
  OBVIOUS
<1>1. CASE LifeOnly
  BY <1>1 DEF LifeOnly, LifeNext, Application, ConnectCycle, RefreshToken
<1>2. CASE ActorDisconnect \/ ActorClose \/ HandleStopBatching
  BY <1>2 DEF ActorDisconnect, ActorClose, HandleStopBatching, LifeNext, Application
<1>3. CASE ActorTokenUnauthorized \/ ActorSendConnect
  BY <1>3 DEF ActorTokenUnauthorized, ActorSendConnect, LifeNext, ConnectCycle, RefreshToken
<1>4. CASE ActorHandshakeFails
  <2>1. HandshakeLost \/ \E e \in HandshakeErrors : ConnectRefused(e)
    BY <1>4 DEF ActorHandshakeFails
  <2> QED BY <2>1 DEF LifeNext, ConnectCycle
<1>5. CASE \E r \in BOOLEAN : ActorHandshakeDisconnectPush(r)
  BY <1>5 DEF ActorHandshakeDisconnectPush, LifeNext, ConnectCycle
<1>6. CASE (\E S \in SUBSET Channels : ActorConnectAccepted(S)) \/ ActorFinishConnect
  BY <1>6 DEF ActorConnectAccepted, ActorFinishConnect, LifeNext, ConnectCycle
<1>7. CASE ActorLosesConnection
  BY <1>7 DEF ActorLosesConnection, LifeNext, ConnectedLoop
<1>8. CASE ActorLinkBreaks
  BY <1>8 DEF ActorLinkBreaks, LifeNext
<1>9. CASE \E ch \in Channels : UnsubscribeFails(ch)
  BY <1>9 DEF UnsubscribeFails, LifeNext, ConnectedLoop
<1>10. CASE \E i \in Ids : HandleRequestTimeout(i)
  <2>1. CommandFailure \/ UNCHANGED lifeVars
    BY <1>10 DEF HandleRequestTimeout
  <2> QED BY <2>1 DEF LifeNext, ConnectedLoop
<1>11. CASE \E o \in TokenOutcomes : HandleRefreshToken(o)
  BY <1>11 DEF HandleRefreshToken, LifeNext, ConnectedLoop
<1>12. CASE \E ch \in Channels :
              \/ ResubscribeNext(ch)
              \/ HandleNewSubscription(ch)
              \/ \E r \in Requesters : HandleSubscribe(r, ch)
              \/ HandleUnsubscribe(ch)
              \/ HandleRemoveSubscription(ch)
              \/ HandleResubscribe(ch)
              \/ \E o \in SubTokenOutcomes : HandleRefreshSubToken(ch, o)
              \/ \E kind \in {"resubscribe", "terminal"} : ServerPushes(ch, kind)
  <2>1. UNCHANGED lifeVars
    BY <1>12 DEF ResubscribeNext, HandleNewSubscription, HandleSubscribe, HandleUnsubscribe,
                 HandleRemoveSubscription, HandleResubscribe, HandleRefreshSubToken, ServerPushes
  <2> QED BY <2>1
<1>13. CASE (\E r \in Requesters : HandleSendRequest(r)) \/ HandleFrame \/ ServerHandles
  <2>1. UNCHANGED lifeVars
    BY <1>13 DEF HandleSendRequest, HandleFrame, ServerHandles
  <2> QED BY <2>1
<1>14. CASE UNCHANGED actorVars
  BY <1>14 DEF actorVars
<1> QED
  BY <1>1, <1>2, <1>3, <1>4, <1>5, <1>6, <1>7, <1>8, <1>9, <1>10, <1>11, <1>12, <1>13, <1>14
  DEF ActorNext

\* Subscriptions, requests and the wire add nothing to what the connection task may do:
\* every behaviour of the actor is one of ConnectionLifecycle.
THEOREM ActorImplementsLifecycle == ActorSpec => LifeSpec
<1>1. ActorInit => LifeInit
  BY DEF ActorInit
<1> QED BY <1>1, ActorStepIsLifeStep, PTL DEF ActorSpec, LifeSpec

\* So the connection invariants hold of the actor as a whole.
THEOREM ActorSafety ==
  ActorSpec => [](TypeOK /\ ControlMatchesState /\ WaitersServed /\ NoLeakedTransport)
  BY ActorImplementsLifecycle, Safety, PTL

-------------------------------------------------------------------------------
(* Nothing pending outside a connection.                                      *)

\* A table and a queue that have been emptied are empty.
LEMMA ClearedIsEmpty ==
  ASSUME pending' = [i \in Ids |-> NoRequest], batch_queue' = <<>>
  PROVE  PendingOnlyWhileConnected'
  BY DEF PendingOnlyWhileConnected, InUse, NoRequest, Request

\* Every way to leave a connection empties both.
LEMMA EndClears ==
  ASSUME NEW s, NEW S, NEW r \in BOOLEAN
  PROVE  SubsDisconnected(s, S) \/ SubsOnTransportClose(r, s, S) \/ SubsClosed
           => PendingOnlyWhileConnected'
<1>1. CASE SubsDisconnected(s, S)
  BY <1>1, ClearedIsEmpty DEF SubsDisconnected, FailPendingAnd
<1>2. CASE SubsOnTransportClose(r, s, S)
  BY <1>1, <1>2, ClearedIsEmpty DEF SubsOnTransportClose, FailPendingAnd
<1>3. CASE SubsClosed
  BY <1>3, ClearedIsEmpty DEF SubsClosed, FailPendingAnd
<1> QED BY <1>1, <1>2, <1>3

LEMMA PendingNext ==
  ASSUME Inv, BatchInv, PendingOnlyWhileConnected, [ActorNext]_actorVars
  PROVE  PendingOnlyWhileConnected'
<1>k. ASSUME UNCHANGED <<pending, batch_queue>>, state' # "Connected" => state # "Connected"
      PROVE  PendingOnlyWhileConnected'
  BY <1>k DEF PendingOnlyWhileConnected, InUse
<1>c. ASSUME state' = "Connected" PROVE PendingOnlyWhileConnected'
  BY <1>c DEF PendingOnlyWhileConnected
<1>1. CASE LifeOnly
  <2>1. UNCHANGED <<pending, batch_queue>>
    BY <1>1 DEF LifeOnly, subscriptionVars, reqVars, wireVars
  <2>2. state' # "Connected" => state # "Connected"
    BY <1>1 DEF LifeOnly, CallConnect, HandleConnect, RejectAfterClose, HandleSetToken,
                StartBatching, DropHandles, BackoffExpires, TokenNotRefreshed, TokenRefreshed,
                TokenRefreshFails, OpenTransport, TransportOpens, TransportFails
  <2> QED BY <2>1, <2>2, <1>k
<1>2. CASE ActorDisconnect \/ ActorClose \/ ActorTokenUnauthorized
  BY <1>2, EndClears DEF ActorDisconnect, ActorClose, ActorTokenUnauthorized
<1>3. CASE ActorSendConnect
  <2>1. state # "Connected"
    BY <1>3 DEF ActorSendConnect, SendConnect, Inv, ControlMatchesState
  <2>2. batch_queue' = batch_queue /\ pending' = pending
    BY <1>3, <2>1 DEF ActorSendConnect, BatchInv, reqVars
  <2> QED BY <2>1, <2>2, <1>k
<1>4. CASE ActorHandshakeFails
  <2>1. CASE SubsDisconnected(sub, {})
    BY <2>1, EndClears
  <2>2. CASE /\ HandshakeLost \/ \E e \in HandshakeErrors : ConnectRefused(e)
             /\ UNCHANGED <<reqVars, batch_queue>>
    <3>1. pc \in {"handshake", "await"}
      BY <2>2 DEF HandshakeLost, ConnectRefused
    <3>2. state # "Connected"
      BY <3>1 DEF Inv, ControlMatchesState
    <3> QED BY <2>2, <3>2, <1>k DEF reqVars
  <2> QED BY <1>4, <2>1, <2>2 DEF ActorHandshakeFails
<1>5. CASE \E r \in BOOLEAN : ActorHandshakeDisconnectPush(r)
  BY <1>5, EndClears DEF ActorHandshakeDisconnectPush
<1>6. CASE \E S \in SUBSET Channels : ActorConnectAccepted(S)
  BY <1>6, <1>c DEF ActorConnectAccepted, ConnectAccepted
<1>7. CASE ActorFinishConnect
  BY <1>7, <1>k DEF ActorFinishConnect, FinishConnect, subscriptionVars, reqVars, wireVars
<1>8. CASE ActorLosesConnection
  BY <1>8, EndClears DEF ActorLosesConnection
<1>9. CASE ActorLinkBreaks
  BY <1>9, <1>k DEF ActorLinkBreaks, LinkBreaks, reqVars
<1>10. ASSUME NEW ch \in Channels, UnsubscribeFails(ch) PROVE PendingOnlyWhileConnected'
  BY <1>10, EndClears DEF UnsubscribeFails
<1>11. ASSUME NEW i \in Ids, HandleRequestTimeout(i) PROVE PendingOnlyWhileConnected'
  <2>1. CASE SubsOnTransportClose(TRUE, sub, {pending[i].ch})
    BY <2>1, EndClears
  <2>2. CASE UNCHANGED lifeVars
    <3>1. state = "Connected"
      BY <1>11 DEF HandleRequestTimeout, InUse, PendingOnlyWhileConnected
    <3> QED BY <2>2, <3>1, <1>c DEF lifeVars
  <2> QED BY <1>11, <2>1, <2>2 DEF HandleRequestTimeout
<1>12. ASSUME NEW o \in TokenOutcomes, HandleRefreshToken(o) PROVE PendingOnlyWhileConnected'
  <2>1. CASE o = "unauthorized"
    BY <1>12, <2>1, EndClears DEF HandleRefreshToken
  <2>2. CASE o # "unauthorized"
    BY <1>12, <2>2, <1>c DEF HandleRefreshToken, RefreshTimer, Inv, ControlMatchesState
  <2> QED BY <2>1, <2>2
<1>13. CASE HandleStopBatching
  BY <1>13 DEF HandleStopBatching, StopBatching, reqVars, PendingOnlyWhileConnected, InUse
<1>14. ASSUME NEW ch \in Channels,
              \/ HandleNewSubscription(ch)
              \/ \E r \in Requesters : HandleSubscribe(r, ch)
              \/ HandleUnsubscribe(ch) \/ HandleRemoveSubscription(ch)
              \/ HandleResubscribe(ch)
              \/ \E kind \in {"resubscribe", "terminal"} : ServerPushes(ch, kind)
       PROVE  PendingOnlyWhileConnected'
  <2>1. state' = state
    BY <1>14 DEF HandleNewSubscription, HandleSubscribe, HandleUnsubscribe,
                 HandleRemoveSubscription, HandleResubscribe, ServerPushes, lifeVars
  <2>2. state = "Connected" \/ UNCHANGED <<pending, batch_queue>>
    BY <1>14 DEF HandleNewSubscription, HandleSubscribe, HandleUnsubscribe,
                 HandleRemoveSubscription, HandleResubscribe, ServerPushes, OnTheServer,
                 subVars, reqVars, wireVars
  <2> QED BY <2>1, <2>2, <1>c, <1>k
<1>15. CASE \E ch \in Channels :
               \/ ResubscribeNext(ch)
               \/ \E o \in SubTokenOutcomes : HandleRefreshSubToken(ch, o)
  <2>1. pc \in {"resubscribe", "loop"} /\ state' = state
    BY <1>15 DEF ResubscribeNext, HandleRefreshSubToken, lifeVars
  <2> QED BY <2>1, <1>c DEF Inv, ControlMatchesState
<1>16. CASE (\E r \in Requesters : HandleSendRequest(r)) \/ HandleFrame \/ ServerHandles
  <2>1. state' = state
    BY <1>16 DEF HandleSendRequest, HandleFrame, ServerHandles, lifeVars
  <2>2. state = "Connected" \/ UNCHANGED <<pending, batch_queue>>
    BY <1>16 DEF HandleSendRequest, HandleFrame, ServerHandles, reqVars, wireVars, Inv,
                 ControlMatchesState
  <2> QED BY <2>1, <2>2, <1>c, <1>k
<1>17. CASE UNCHANGED actorVars
  BY <1>17, <1>k DEF actorVars, lifeVars, reqVars, wireVars
<1> QED
  BY <1>1, <1>2, <1>3, <1>4, <1>5, <1>6, <1>7, <1>8, <1>9, <1>10, <1>11, <1>12, <1>13, <1>14,
     <1>15, <1>16, <1>17
  DEF ActorNext

\* For an application that batches only while connected, no request and no queued command
\* outlives its connection, so no reply or timeout of one connection acts on the next.
THEOREM NothingPendingOffline ==
  ASSUME BatchUse # "anytime"
  PROVE  ActorSpec => []PendingOnlyWhileConnected
<1>1. ActorInit => LifeInit /\ PendingOnlyWhileConnected
  BY DEF ActorInit, PendingOnlyWhileConnected, InUse, NoRequest, Request
<1>2. LifeInit => Inv /\ BatchInv
  BY InitInv DEF LifeInit, BatchInv, HandshakeGoesOut
<1>3. Inv /\ BatchInv /\ PendingOnlyWhileConnected /\ [ActorNext]_actorVars
        => (Inv /\ BatchInv /\ PendingOnlyWhileConnected)'
  BY PendingNext, ActorStepIsLifeStep, NextInv, BatchNext
<1> QED BY <1>1, <1>2, <1>3, PTL DEF ActorSpec

-------------------------------------------------------------------------------
(* A subscription that is confirmed has told everyone who waited for it.      *)

SubsTyped ==
  /\ sub \in [Channels -> SubscriptionState]
  /\ sub_waiters \in [Channels -> SUBSET Requesters]

SubInv == SubsTyped /\ SubscribedHasNoWaiters

\* Ending a connection confirms no subscription and adds no waiter.  s is the registry
\* as it was, or with a subscription taken out of it.
LEMMA EndKeepsSubInv ==
  ASSUME SubInv, NEW S, NEW r \in BOOLEAN, NEW s \in [Channels -> SubscriptionState],
         \A ch \in Channels : s[ch] = "Subscribed" => sub[ch] = "Subscribed",
         SubsDisconnected(s, S) \/ SubsOnTransportClose(r, s, S) \/ SubsClosed
  PROVE  SubInv'
<1>1. ASSUME NEW T, sub_waiters' = NoWaiters(T)
      PROVE  /\ sub_waiters' \in [Channels -> SUBSET Requesters]
             /\ \A ch \in Channels : sub_waiters[ch] = {} => sub_waiters'[ch] = {}
  BY <1>1 DEF NoWaiters, SubInv, SubsTyped
<1>2. ASSUME NEW T, NEW v \in {"Subscribing", "Unsubscribed"}, NEW s0 \in {s, sub},
             sub' = Set(s0, T, v)
      PROVE  /\ sub' \in [Channels -> SubscriptionState]
             /\ \A ch \in Channels : sub'[ch] = "Subscribed" => sub[ch] = "Subscribed"
  BY <1>2 DEF Set, SubInv, SubsTyped, SubscriptionState
<1>3. CASE SubsDisconnected(s, S)
  BY <1>1, <1>2, <1>3
  DEF SubsDisconnected, FailPendingAnd, SubInv, SubsTyped, SubscribedHasNoWaiters
<1>4. CASE SubsOnTransportClose(r, s, S)
  BY <1>1, <1>2, <1>3, <1>4
  DEF SubsOnTransportClose, FailPendingAnd, SubInv, SubsTyped, SubscribedHasNoWaiters
<1>5. CASE SubsClosed
  BY <1>1, <1>2, <1>5 DEF SubsClosed, FailPendingAnd, SubInv, SubsTyped, SubscribedHasNoWaiters
<1> QED BY <1>3, <1>4, <1>5

\* do_subscribe() confirms nothing by itself.
LEMMA DoSubscribeKeepsSubInv ==
  ASSUME SubInv, NEW ch \in Channels, NEW timers, DoSubscribe(ch, timers)
  PROVE  SubInv'
<1>1. CASE UNCHANGED <<sub, sub_waiters>>
  BY <1>1 DEF SubInv, SubsTyped, SubscribedHasNoWaiters
<1>2. CASE sub' = [sub EXCEPT ![ch] = "Unsubscribed"] /\ sub_waiters' = NoWaiters({ch})
  BY <1>2 DEF SubInv, SubsTyped, SubscribedHasNoWaiters, NoWaiters, SubscriptionState
<1> QED BY <1>1, <1>2 DEF DoSubscribe

\* Replies and pushes.
LEMMA FrameKeepsSubInv ==
  ASSUME SubInv, HandleFrame
  PROVE  SubInv'
<1> USE DEF SubInv, SubsTyped, SubscribedHasNoWaiters, NoWaiters, SubscriptionState
<1>1. ASSUME NEW ch, NEW r, SubscribeSuccess(ch, r) PROVE SubInv'
  BY <1>1 DEF SubscribeSuccess
<1>2. ASSUME NEW ch, NEW r, NEW e, SubscribeError(ch, r, e) PROVE SubInv'
  BY <1>2 DEF SubscribeError
<1>3. ASSUME NEW ch, NEW again \in BOOLEAN, ServerUnsubscribe(ch, again) PROVE SubInv'
  BY <1>3 DEF ServerUnsubscribe
<1>4. CASE UNCHANGED <<sub, sub_waiters>>
  BY <1>4
<1>5. ASSUME NEW i, NEW kind, Resolve(i, kind) PROVE SubInv'
  BY <1>1, <1>2, <1>4, <1>5 DEF Resolve
<1> QED BY <1>3, <1>4, <1>5 DEF HandleFrame

LEMMA SubNext ==
  ASSUME SubInv, [ActorNext]_actorVars
  PROVE  SubInv'
<1>t. sub \in [Channels -> SubscriptionState]
  BY DEF SubInv, SubsTyped
<1>u. ASSUME UNCHANGED <<sub, sub_waiters>> PROVE SubInv'
  BY <1>u DEF SubInv, SubsTyped, SubscribedHasNoWaiters
<1>1. CASE \/ LifeOnly \/ ActorSendConnect \/ ActorFinishConnect \/ ActorLinkBreaks
           \/ HandleStopBatching \/ ServerHandles
           \/ \E r \in Requesters : HandleSendRequest(r)
           \/ UNCHANGED actorVars
  BY <1>1, <1>u DEF LifeOnly, ActorSendConnect, ActorFinishConnect, ActorLinkBreaks,
     HandleStopBatching, ServerHandles, HandleSendRequest, actorVars, subscriptionVars, subVars
<1>2. CASE ActorDisconnect \/ ActorClose \/ ActorTokenUnauthorized
  BY <1>2, <1>t, EndKeepsSubInv DEF ActorDisconnect, ActorClose, ActorTokenUnauthorized
<1>3. CASE ActorHandshakeFails
  BY <1>3, <1>t, <1>u, EndKeepsSubInv DEF ActorHandshakeFails, subVars
<1>4. CASE (\E r \in BOOLEAN : ActorHandshakeDisconnectPush(r)) \/ ActorLosesConnection
  BY <1>4, <1>t, EndKeepsSubInv DEF ActorHandshakeDisconnectPush, ActorLosesConnection
<1>5. ASSUME NEW S \in SUBSET Channels, ActorConnectAccepted(S) PROVE SubInv'
  <2>1. sub' = Set(sub, S, "Subscribed") /\ sub_waiters' = NoWaiters(S)
    BY <1>5 DEF ActorConnectAccepted
  <2> QED BY <2>1
          DEF Set, NoWaiters, SubInv, SubsTyped, SubscribedHasNoWaiters, SubscriptionState
<1>6. ASSUME NEW ch \in Channels, UnsubscribeFails(ch) PROVE SubInv'
  <2>1. /\ [sub EXCEPT ![ch] = "Unsubscribed"] \in [Channels -> SubscriptionState]
        /\ \A c \in Channels :
             [sub EXCEPT ![ch] = "Unsubscribed"][c] = "Subscribed" => sub[c] = "Subscribed"
    BY <1>t DEF SubscriptionState
  <2>2. SubsOnTransportClose(TRUE, [sub EXCEPT ![ch] = "Unsubscribed"], {})
    BY <1>6 DEF UnsubscribeFails
  <2> QED BY <2>1, <2>2, EndKeepsSubInv
<1>7. ASSUME NEW i \in Ids, HandleRequestTimeout(i) PROVE SubInv'
  BY <1>7, <1>t, <1>u, EndKeepsSubInv DEF HandleRequestTimeout, subVars
<1>8. ASSUME NEW o \in TokenOutcomes, HandleRefreshToken(o) PROVE SubInv'
  BY <1>8, <1>t, <1>u, EndKeepsSubInv DEF HandleRefreshToken, subVars
<1>9. ASSUME NEW ch \in Channels, ResubscribeNext(ch) \/ HandleResubscribe(ch) PROVE SubInv'
  BY <1>9, <1>u, DoSubscribeKeepsSubInv DEF ResubscribeNext, HandleResubscribe
<1>10. ASSUME NEW ch \in Channels, NEW r \in Requesters, HandleSubscribe(r, ch) PROVE SubInv'
  <2>1. CASE UNCHANGED <<sub, sub_waiters>>
    BY <2>1, <1>u
  <2>2. CASE /\ sub' = [sub EXCEPT ![ch] = "Subscribing"]
             /\ sub_waiters' \in {sub_waiters, [sub_waiters EXCEPT ![ch] = @ \union {r}]}
    BY <2>2 DEF SubInv, SubsTyped, SubscribedHasNoWaiters, SubscriptionState
  <2> QED BY <1>10, <2>1, <2>2 DEF HandleSubscribe
<1>11. ASSUME NEW ch \in Channels,
              \/ HandleNewSubscription(ch)
              \/ HandleUnsubscribe(ch) \/ HandleRemoveSubscription(ch)
              \/ \E o \in SubTokenOutcomes : HandleRefreshSubToken(ch, o)
              \/ \E kind \in {"resubscribe", "terminal"} : ServerPushes(ch, kind)
       PROVE  SubInv'
  <2>1. CASE UNCHANGED <<sub, sub_waiters>>
    BY <2>1, <1>u
  <2>2. CASE /\ sub' \in {[sub EXCEPT ![ch] = "Unsubscribed"], [sub EXCEPT ![ch] = "absent"]}
             /\ sub_waiters' \in {sub_waiters, NoWaiters({ch})}
    BY <2>2 DEF SubInv, SubsTyped, SubscribedHasNoWaiters, NoWaiters, SubscriptionState
  <2> QED BY <1>11, <2>1, <2>2 DEF HandleNewSubscription, HandleUnsubscribe,
          HandleRemoveSubscription, HandleRefreshSubToken, ServerPushes, subVars
<1>12. CASE HandleFrame
  BY <1>12, FrameKeepsSubInv
<1> QED
  BY <1>1, <1>2, <1>3, <1>4, <1>5, <1>6, <1>7, <1>8, <1>9, <1>10, <1>11, <1>12 DEF ActorNext

\* Whoever attached to a subscription attempt has been told when the subscription is
\* confirmed, whichever of the three paths confirms it: the Connect reply, the reply to a
\* Subscribe, or "already subscribed".
THEOREM SubscribedTellsWaiters == ActorSpec => []SubscribedHasNoWaiters
<1>1. ActorInit => SubInv
  BY DEF ActorInit, SubInv, SubsTyped, SubscribedHasNoWaiters, SubscriptionState
<1>2. SubInv /\ [ActorNext]_actorVars => SubInv'
  BY SubNext
<1>3. SubInv => SubscribedHasNoWaiters
  BY DEF SubInv
<1> QED BY <1>1, <1>2, <1>3, PTL DEF ActorSpec
===============================================================================
