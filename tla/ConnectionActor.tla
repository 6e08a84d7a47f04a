---------------------------- MODULE ConnectionActor ----------------------------
(***************************************************************************)
(* The whole actor: the connection task of ConnectionLifecycle together    *)
(* with the registry of client-side subscriptions, the table of requests   *)
(* awaiting a reply, the batch queue, the Resubscribe timers, the two      *)
(* directions of the wire and a server that answers over it.               *)
(*                                                                         *)
(* Every action of this module is an action of ConnectionLifecycle with    *)
(* its effect on subscriptions and requests, or leaves lifeVars unchanged. *)
(***************************************************************************)
EXTENDS ConnectionLifecycle, Sequences, FiniteSets

CONSTANTS
  Channels,           \* channels the application may subscribe to
  Requesters,         \* tasks that await subscribe() or a request such as rpc()
  Ids,                \* bound: command ids that may be in use at once; 0 marks a push
  MaxTimers,          \* bound: outstanding Resubscribe commands per channel
  MaxInbox,           \* bound: frames on the way to the client before the server pushes more
  SubErrors,          \* error replies the server may give to Subscribe
  SubTokenOutcomes,   \* what a subscription's get_token may answer; {} when none is configured
  SubTokenValues,     \* whether SubscriptionConfig.token may be empty (FALSE) or not (TRUE)
  UnsubscribeAnytime  \* unsubscribe() may be called before the subscription has settled

ASSUME ActorAssumption ==
  /\ "none" \notin Channels
  /\ "nobody" \notin Requesters
  /\ 0 \notin Ids
  /\ MaxTimers \in Nat \ {0}
  /\ MaxInbox \in Nat
  /\ SubErrors \subseteq {"token_expired", "temporary", "permanent"}
  /\ SubTokenOutcomes \subseteq {"ok", "unauthorized", "error"}
  /\ SubTokenValues \subseteq BOOLEAN
  /\ UnsubscribeAnytime \in BOOLEAN

VARIABLES
  sub,          \* subs: each channel's SubState.state, or "absent"
  sub_token,    \* SubState.token is not empty
  sub_waiters,  \* SubState.subscribe_waiters
  pending,      \* the table of requests awaiting a reply
  resub,        \* Resubscribe commands asleep or in the command channel
  todo,         \* the channels resubscribe_all() still has to go through
  scall,        \* what became of each requester's call
  batch_queue,  \* BatchState.queue
  outbox,       \* commands on their way to the server
  inbox,        \* replies and pushes on their way to the client
  srv           \* channels the server holds a subscription for on this connection

subVars  == <<sub, sub_token, sub_waiters, resub, todo>>
reqVars  == <<pending, scall>>
wireVars == <<batch_queue, outbox, inbox, srv>>
actorVars == <<lifeVars, subVars, reqVars, wireVars>>

SubscriptionState == {"absent", "Unsubscribed", "Subscribing", "Subscribed"}
Live              == {"Subscribing", "Subscribed"}

\* A pending request: its kind, the channel of a Subscribe or SubRefresh, and the
\* requester whose oneshot it holds ("nobody" when the actor sent it on its own).
Request(k, ch, r) == [kind |-> k, ch |-> ch, caller |-> r]
NoRequest         == Request("none", "none", "nobody")
PendingRequest ==
  [kind   : {"none", "subscribe", "request", "refresh", "sub_refresh"},
   ch     : Channels \union {"none"},
   caller : Requesters \union {"nobody"}]

ActorTypeOK ==
  /\ sub \in [Channels -> SubscriptionState]
  /\ sub_token \in [Channels -> BOOLEAN]
  /\ sub_waiters \in [Channels -> SUBSET Requesters]
  /\ pending \in [Ids -> PendingRequest]
  /\ resub \in [Channels -> 0 .. MaxTimers]
  /\ todo \subseteq Channels
  /\ scall \in [Requesters -> {"idle", "waiting", "ok", "err"}]
  /\ srv \subseteq Channels

ActorInit ==
  /\ LifeInit
  /\ sub = [ch \in Channels |-> "absent"]
  /\ sub_token = [ch \in Channels |-> FALSE]
  /\ sub_waiters = [ch \in Channels |-> {}]
  /\ pending = [i \in Ids |-> NoRequest]
  /\ resub = [ch \in Channels |-> 0]
  /\ todo = {}
  /\ scall = [r \in Requesters |-> "idle"]
  /\ batch_queue = <<>>
  /\ outbox = <<>>
  /\ inbox = <<>>
  /\ srv = {}

-------------------------------------------------------------------------------
(* Callers and the request table.                                             *)

\* The requesters in S get answer a.
AnswerSubs(S, a) == [r \in Requesters |-> IF r \in S THEN a ELSE scall[r]]

InUse(i) == pending[i].kind # "none"

PendingCallers == {r \in Requesters : \E i \in Ids : InUse(i) /\ pending[i].caller = r}

Waiters(S) == {r \in Requesters : \E ch \in S : r \in sub_waiters[ch]}

NoWaiters(S) == [ch \in Channels |-> IF ch \in S THEN {} ELSE sub_waiters[ch]]

\* Ids are drawn from a counter that does not come round within a connection: a
\* fresh one is not in the table and not on the wire.
OnWire(i) ==
  \/ \E k \in 1 .. Len(outbox) : outbox[k].id = i
  \/ \E k \in 1 .. Len(inbox) : inbox[k].id = i
  \/ \E k \in 1 .. Len(batch_queue) : batch_queue[k].id = i
FreeIds == {i \in Ids : ~InUse(i) /\ ~OnWire(i)}
NewId   == CHOOSE i \in FreeIds : TRUE

\* send_command(): into the batch, or to the sink; a sink whose transport has
\* broken may swallow the bytes or report the error.
Sent(id, kind, ch) ==
  LET cmd == [id |-> id, kind |-> kind, ch |-> ch] IN
  /\ batch_queue' = IF batch_active THEN Append(batch_queue, cmd) ELSE batch_queue
  /\ outbox' = IF ~batch_active /\ link = "joined" THEN Append(outbox, cmd) ELSE outbox
  /\ UNCHANGED <<inbox, srv>>

SendFails ==
  /\ ~batch_active
  /\ link \in {"none", "broken"}
  /\ UNCHANGED wireVars

\* Sink and stream are dropped, and with them what was on the wire; the server
\* forgets the subscriptions of the connection.
WireDown ==
  /\ outbox' = <<>>
  /\ inbox' = <<>>
  /\ srv' = {}

\* Mutant: requests in flight survive the connection.
FailPendingAndKeepRequests(S) ==
  /\ scall' = AnswerSubs(Waiters(S), "err")
  /\ sub_waiters' = NoWaiters(S)
  /\ UNCHANGED pending

\* fail_all_pending(), with the waiting subscribe() callers of S failed as well.
FailPendingAnd(S) ==
  /\ pending' = [i \in Ids |-> NoRequest]
  /\ scall' = AnswerSubs(PendingCallers \union Waiters(S), "err")
  /\ sub_waiters' = NoWaiters(S)

-------------------------------------------------------------------------------
(* The subscription half of move_to_disconnected(), move_to_closed() and      *)
(* on_transport_close().  s is the registry's states when they are called, S  *)
(* the channels whose waiters the handler has failed before.                  *)

LiveIn(s) == {ch \in Channels : s[ch] \in Live}

Set(s, S, v) == [ch \in Channels |-> IF ch \in S THEN v ELSE s[ch]]

SubsDisconnected(s, S) ==
  LET ended == IF state = "Connected" THEN LiveIn(s) ELSE {} IN
  /\ FailPendingAnd(S \union ended)
  /\ sub' = Set(s, ended, "Unsubscribed")
  /\ batch_queue' = <<>>
  /\ WireDown
  /\ UNCHANGED <<sub_token, resub, todo>>

\* run() returns right after, and drops the senders that are still held.
SubsClosed ==
  /\ FailPendingAnd(Channels)
  /\ sub' = Set(sub, LiveIn(sub), "Unsubscribed")
  /\ batch_queue' = <<>>
  /\ WireDown
  /\ UNCHANGED <<sub_token, resub, todo>>

SubsOnTransportClose(reconnect, s, S) ==
  IF reconnect /\ connect_requested
  THEN /\ FailPendingAnd(S)
       /\ sub' = Set(s, {ch \in Channels : s[ch] = "Subscribed"}, "Subscribing")
       /\ batch_queue' = <<>>
       /\ WireDown
       /\ UNCHANGED <<sub_token, resub, todo>>
  ELSE SubsDisconnected(s, S)

-------------------------------------------------------------------------------
(* The registry and subscribe().                                              *)

TakesApiCommand == TakesCommands /\ handles_held

HandleNewSubscription(ch) ==
  /\ TakesApiCommand
  /\ sub[ch] = "absent"
  /\ sub' = [sub EXCEPT ![ch] = "Unsubscribed"]
  /\ \E t \in SubTokenValues : sub_token' = [sub_token EXCEPT ![ch] = t]
  /\ UNCHANGED <<lifeVars, sub_waiters, resub, todo, reqVars, wireVars>>

\* Mutant: a request that could not be sent stays in the table.
SendPendingKeepingEntry(kind, ch, r) ==
  /\ FreeIds # {}
  /\ pending' = [pending EXCEPT ![NewId] = Request(kind, ch, r)]
  /\ \/ scall' = AnswerSubs({r}, "waiting") /\ Sent(NewId, kind, ch)
     \/ scall' = AnswerSubs({r}, "err") /\ SendFails

\* Insert into the pending table, then send; a failed send takes the entry out.
SendPending(kind, ch, r) ==
  /\ FreeIds # {}
  /\ \/ /\ pending' = [pending EXCEPT ![NewId] = Request(kind, ch, r)]
        /\ scall' = AnswerSubs({r}, "waiting")
        /\ Sent(NewId, kind, ch)
     \/ /\ SendFails
        /\ scall' = AnswerSubs({r}, "err")
        /\ UNCHANGED pending

HandleSubscribe(r, ch) ==
  /\ TakesApiCommand
  /\ scall[r] # "waiting"
  /\ \/ /\ sub[ch] \in {"absent", "Subscribed"}
        /\ scall' = AnswerSubs({r}, IF sub[ch] = "absent" THEN "err" ELSE "ok")
        /\ UNCHANGED <<sub, sub_waiters, pending, wireVars>>
     \/ /\ sub[ch] = "Subscribing" \/ (sub[ch] = "Unsubscribed" /\ state # "Connected")
        /\ sub' = [sub EXCEPT ![ch] = "Subscribing"]
        /\ sub_waiters' = [sub_waiters EXCEPT ![ch] = @ \union {r}]
        /\ scall' = AnswerSubs({r}, "waiting")
        /\ UNCHANGED <<pending, wireVars>>
     \/ /\ sub[ch] = "Unsubscribed" /\ state = "Connected"
        /\ sub' = [sub EXCEPT ![ch] = "Subscribing"]
        /\ SendPending("subscribe", ch, r)
        /\ UNCHANGED sub_waiters
  /\ UNCHANGED <<lifeVars, sub_token, resub, todo>>

\* publish(), rpc(), history() and presence(): send_request_command().
HandleSendRequest(r) ==
  /\ TakesApiCommand
  /\ scall[r] # "waiting"
  /\ \/ /\ state # "Connected"
        /\ scall' = AnswerSubs({r}, "err")
        /\ UNCHANGED <<pending, wireVars>>
     \/ /\ state = "Connected"
        /\ SendPending("request", "none", r)
  /\ UNCHANGED <<lifeVars, subVars>>

HasSubGetToken    == SubTokenOutcomes # {}
NeedsSubToken(ch) == HasSubGetToken /\ ~sub_token[ch]

\* do_subscribe(): nothing for a subscription that is gone or Unsubscribed, else a
\* token if there is none, then Subscribe on the wire with nobody waiting for it.
\* timers is resub without the command being handled.
DoSubscribe(ch, timers) ==
  \/ /\ sub[ch] \notin Live
     /\ resub' = timers
     /\ UNCHANGED <<sub, sub_token, sub_waiters, reqVars, wireVars>>
  \/ /\ sub[ch] \in Live
     /\ NeedsSubToken(ch) /\ "unauthorized" \in SubTokenOutcomes
     /\ sub' = [sub EXCEPT ![ch] = "Unsubscribed"]
     /\ scall' = AnswerSubs(sub_waiters[ch], "err")
     /\ sub_waiters' = NoWaiters({ch})
     /\ resub' = timers
     /\ UNCHANGED <<sub_token, pending, wireVars>>
  \/ /\ sub[ch] \in Live
     /\ NeedsSubToken(ch) /\ "error" \in SubTokenOutcomes
     /\ timers[ch] < MaxTimers
     /\ resub' = [timers EXCEPT ![ch] = @ + 1]
     /\ UNCHANGED <<sub, sub_token, sub_waiters, reqVars, wireVars>>
  \/ /\ sub[ch] \in Live
     /\ NeedsSubToken(ch) => "ok" \in SubTokenOutcomes
     /\ sub_token' = [sub_token EXCEPT ![ch] = @ \/ NeedsSubToken(ch)]
     /\ SendPending("subscribe", ch, "nobody")
     /\ resub' = timers
     /\ UNCHANGED <<sub, sub_waiters>>

\* Mutant: a Resubscribe is handled that nobody has scheduled.
HandleResubscribeUnasked(ch) ==
  /\ TakesCommands
  /\ state = "Connected"
  /\ DoSubscribe(ch, [resub EXCEPT ![ch] = @ - 1])
  /\ UNCHANGED <<lifeVars, todo>>

\* A Resubscribe timer has fired.
HandleResubscribe(ch) ==
  /\ TakesCommands
  /\ resub[ch] > 0
  /\ LET timers == [resub EXCEPT ![ch] = @ - 1] IN
     \/ state = "Connected" /\ DoSubscribe(ch, timers)
     \/ /\ state # "Connected"
        /\ resub' = timers
        /\ UNCHANGED <<sub, sub_token, sub_waiters, reqVars, wireVars>>
  /\ UNCHANGED <<lifeVars, todo>>

-------------------------------------------------------------------------------
(* unsubscribe() and remove_subscription().                                   *)

InFlight(ch) == \E i \in Ids : pending[i].kind = "subscribe" /\ pending[i].ch = ch

\* The application's side of UnsubscribeAnytime = FALSE: it unsubscribes from, or
\* removes, what it has seen subscribed, or what it has never subscribed to.
MayUnsubscribe(ch) ==
  UnsubscribeAnytime \/ (sub[ch] \in {"Subscribed", "Unsubscribed"} /\ ~InFlight(ch))

\* The reply to a wire Unsubscribe is not tracked: its id is 0 here.
OnTheServer(ch) == sub[ch] = "Subscribed" /\ state = "Connected"

\* Mutant: unsubscribe() does not reach the server.
HandleUnsubscribeLocally(ch) ==
  /\ TakesApiCommand
  /\ sub[ch] # "absent"
  /\ MayUnsubscribe(ch)
  /\ sub' = [sub EXCEPT ![ch] = "Unsubscribed"]
  /\ UNCHANGED <<lifeVars, sub_token, sub_waiters, resub, todo, reqVars, wireVars>>

HandleUnsubscribe(ch) ==
  /\ TakesApiCommand
  /\ sub[ch] # "absent"
  /\ MayUnsubscribe(ch)
  /\ sub' = [sub EXCEPT ![ch] = "Unsubscribed"]
  /\ IF OnTheServer(ch) THEN Sent(0, "unsubscribe", ch) ELSE UNCHANGED wireVars
  /\ UNCHANGED <<lifeVars, sub_token, sub_waiters, resub, todo, reqVars>>

\* The wire Unsubscribe cannot be sent: the connection is given up.
UnsubscribeFails(ch) ==
  /\ TakesApiCommand
  /\ MayUnsubscribe(ch)
  /\ OnTheServer(ch)
  /\ ~batch_active /\ link = "broken"
  /\ CommandFailure
  /\ SubsOnTransportClose(TRUE, [sub EXCEPT ![ch] = "Unsubscribed"], {})

\* The waiters of a subscription that is removed get an error, or lose their sender
\* with the dropped SubState.  A failed send is ignored.
HandleRemoveSubscription(ch) ==
  /\ TakesApiCommand
  /\ sub[ch] # "absent"
  /\ MayUnsubscribe(ch)
  /\ sub' = [sub EXCEPT ![ch] = "absent"]
  /\ sub_token' = [sub_token EXCEPT ![ch] = FALSE]
  /\ scall' = AnswerSubs(sub_waiters[ch], "err")
  /\ sub_waiters' = NoWaiters({ch})
  /\ IF OnTheServer(ch) THEN Sent(0, "unsubscribe", ch) ELSE UNCHANGED wireVars
  /\ UNCHANGED <<lifeVars, resub, todo, pending>>

-------------------------------------------------------------------------------
(* Timeouts and token refresh.                                                *)

\* RequestTimeout finds its entry still pending.  Refresh and SubRefresh have no timer.
HandleRequestTimeout(i) ==
  /\ TakesCommands
  /\ pending[i].kind \in {"subscribe", "request"}
  /\ IF pending[i].kind = "subscribe" /\ sub[pending[i].ch] # "absent"
     THEN /\ CommandFailure
          /\ SubsOnTransportClose(TRUE, sub, {pending[i].ch})
     ELSE /\ pending' = [pending EXCEPT ![i] = NoRequest]
          /\ scall' = AnswerSubs({pending[i].caller}, "err")
          /\ UNCHANGED <<lifeVars, subVars, wireVars>>

HandleRefreshToken(o) ==
  /\ RefreshTimer(o)
  /\ \/ o = "unauthorized" /\ SubsDisconnected(sub, {})
     \/ o = "ok" /\ SendPending("refresh", "none", "nobody") /\ UNCHANGED subVars
     \/ o = "error" /\ UNCHANGED <<subVars, reqVars, wireVars>>

HandleRefreshSubToken(ch, o) ==
  /\ pc = "loop"
  /\ sub[ch] = "Subscribed"
  /\ \/ /\ o = "unauthorized"
        /\ sub' = [sub EXCEPT ![ch] = "Unsubscribed"]
        /\ scall' = AnswerSubs(sub_waiters[ch], "err")
        /\ sub_waiters' = NoWaiters({ch})
        /\ UNCHANGED <<sub_token, pending, wireVars>>
     \/ /\ o = "ok"
        /\ sub_token' = [sub_token EXCEPT ![ch] = TRUE]
        /\ SendPending("sub_refresh", ch, "nobody")
        /\ UNCHANGED <<sub, sub_waiters>>
  /\ UNCHANGED <<lifeVars, resub, todo>>

HandleStopBatching ==
  /\ StopBatching
  /\ outbox' = IF link = "joined" THEN outbox \o batch_queue ELSE outbox
  /\ batch_queue' = <<>>
  /\ UNCHANGED <<subVars, reqVars, inbox, srv>>

-------------------------------------------------------------------------------
(* Frames from the server, dispatched in the connected loop.                  *)

\* Mutant: the callers attached to an attempt are forgotten when it succeeds.
SubscribeSuccessKeepingWaiters(ch, r) ==
  /\ sub' = IF sub[ch] = "absent" THEN sub ELSE [sub EXCEPT ![ch] = "Subscribed"]
  /\ scall' = AnswerSubs({r}, "ok")
  /\ UNCHANGED <<sub_token, sub_waiters, resub>>

\* handle_subscribe_success() and the answer to the requester r of the attempt.
SubscribeSuccess(ch, r) ==
  /\ sub' = IF sub[ch] = "absent" THEN sub ELSE [sub EXCEPT ![ch] = "Subscribed"]
  /\ sub_waiters' = NoWaiters({ch})
  /\ scall' = AnswerSubs({r} \union sub_waiters[ch], "ok")
  /\ UNCHANGED <<sub_token, resub>>

\* handle_subscribe_error() and the answer to r.
SubscribeError(ch, r, e) ==
  \/ /\ sub[ch] = "absent"
     /\ scall' = AnswerSubs({r}, "err")
     /\ UNCHANGED <<sub, sub_token, sub_waiters, resub>>
  \/ /\ sub[ch] # "absent" /\ e # "permanent"
     /\ resub[ch] < MaxTimers
     /\ resub' = [resub EXCEPT ![ch] = @ + 1]
     /\ sub_token' = [sub_token EXCEPT ![ch] = @ /\ e # "token_expired"]
     /\ scall' = AnswerSubs({r}, "err")
     /\ UNCHANGED <<sub, sub_waiters>>
  \/ /\ sub[ch] # "absent" /\ e = "permanent"
     /\ sub' = [sub EXCEPT ![ch] = "Unsubscribed"]
     /\ scall' = AnswerSubs({r} \union sub_waiters[ch], "err")
     /\ sub_waiters' = NoWaiters({ch})
     /\ UNCHANGED <<sub_token, resub>>

\* resolve_pending() for request i; any reply satisfies the other kinds.
Resolve(i, kind) ==
  /\ pending' = [pending EXCEPT ![i] = NoRequest]
  /\ \/ /\ pending[i].kind = "subscribe" /\ kind \in {"ok", "already"}
        /\ SubscribeSuccess(pending[i].ch, pending[i].caller)
     \/ /\ pending[i].kind = "subscribe" /\ kind \notin {"ok", "already"}
        /\ SubscribeError(pending[i].ch, pending[i].caller, kind)
     \/ /\ pending[i].kind # "subscribe"
        /\ scall' = AnswerSubs({pending[i].caller}, "ok")
        /\ UNCHANGED <<sub, sub_token, sub_waiters, resub>>

\* Mutant: a server unsubscribe that asks for a resubscribe is not followed by one.
ServerUnsubscribeWithoutTimer(ch, again) ==
  /\ sub' = IF sub[ch] = "absent" THEN sub
            ELSE [sub EXCEPT ![ch] = IF again THEN "Subscribing" ELSE "Unsubscribed"]
  /\ UNCHANGED <<sub_token, sub_waiters, resub, reqVars>>

\* handle_server_unsubscribe(): the code says whether to subscribe again.
ServerUnsubscribe(ch, again) ==
  /\ \/ /\ sub[ch] = "absent"
        /\ UNCHANGED <<sub, resub>>
     \/ /\ sub[ch] # "absent" /\ again
        /\ resub[ch] < MaxTimers
        /\ sub' = [sub EXCEPT ![ch] = "Subscribing"]
        /\ resub' = [resub EXCEPT ![ch] = @ + 1]
     \/ /\ sub[ch] # "absent" /\ ~again
        /\ sub' = [sub EXCEPT ![ch] = "Unsubscribed"]
        /\ UNCHANGED resub
  /\ UNCHANGED <<sub_token, sub_waiters, reqVars>>

\* dispatch_reply(): a push, a reply to a request in the table, or an unknown id.
HandleFrame ==
  /\ pc = "loop"
  /\ inbox # <<>>
  /\ LET m == Head(inbox) IN
     \/ m.id = 0 /\ ServerUnsubscribe(m.ch, m.kind = "resubscribe")
     \/ m.id \in Ids /\ InUse(m.id) /\ Resolve(m.id, m.kind)
     \/ /\ m.id \in Ids /\ ~InUse(m.id)
        /\ UNCHANGED <<sub, sub_token, sub_waiters, resub, reqVars>>
  /\ inbox' = Tail(inbox)
  /\ UNCHANGED <<lifeVars, todo, batch_queue, outbox, srv>>

-------------------------------------------------------------------------------
(* The server, for as long as the transport carries frames.                   *)

Reply(id, kind) == Append(inbox, [id |-> id, kind |-> kind, ch |-> "none"])

ServerHandles ==
  /\ link = "joined"
  /\ outbox # <<>>
  /\ LET c == Head(outbox) IN
     \/ /\ c.kind = "subscribe" /\ c.ch \in srv
        /\ inbox' = Reply(c.id, "already")
        /\ UNCHANGED srv
     \/ /\ c.kind = "subscribe" /\ c.ch \notin srv
        /\ inbox' = Reply(c.id, "ok")
        /\ srv' = srv \union {c.ch}
     \/ /\ c.kind = "subscribe" /\ c.ch \notin srv
        /\ \E e \in SubErrors : inbox' = Reply(c.id, e)
        /\ UNCHANGED srv
     \/ /\ c.kind = "unsubscribe"
        /\ srv' = srv \ {c.ch}
        /\ UNCHANGED inbox
     \/ /\ c.kind \in {"request", "refresh", "sub_refresh"}
        /\ inbox' = Reply(c.id, "ok")
        /\ UNCHANGED srv
  /\ outbox' = Tail(outbox)
  /\ UNCHANGED <<lifeVars, subVars, reqVars, batch_queue>>

\* The server ends a subscription it holds, for good or to have it taken up again.
ServerPushes(ch, kind) ==
  /\ link = "joined"
  /\ ch \in srv
  /\ Len(inbox) < MaxInbox
  /\ srv' = srv \ {ch}
  /\ inbox' = Append(inbox, [id |-> 0, kind |-> kind, ch |-> ch])
  /\ UNCHANGED <<lifeVars, subVars, reqVars, batch_queue, outbox>>

-------------------------------------------------------------------------------
(* The connection task's own steps.                                           *)

subscriptionVars == <<subVars, reqVars, wireVars>>

\* Steps that concern no subscription and no request.
LifeOnly ==
  /\ \/ \E c \in Callers : CallConnect(c) \/ HandleConnect(c) \/ RejectAfterClose(c)
     \/ \E t \in TokenValues : HandleSetToken(t)
     \/ StartBatching \/ DropHandles
     \/ BackoffExpires
     \/ TokenNotRefreshed \/ TokenRefreshed \/ TokenRefreshFails
     \/ OpenTransport
  /\ UNCHANGED subscriptionVars

\* While batching, the Connect command itself is parked in the queue.
ActorSendConnect ==
  /\ SendConnect
  /\ batch_queue' = IF batch_active
                     THEN Append(batch_queue, [id |-> 0, kind |-> "connect", ch |-> "none"])
                     ELSE batch_queue
  /\ UNCHANGED <<subVars, reqVars, outbox, inbox, srv>>

ActorDisconnect == HandleDisconnect /\ SubsDisconnected(sub, {})
ActorClose      == HandleClose /\ SubsClosed

ActorTokenUnauthorized == TokenUnauthorized /\ SubsDisconnected(sub, {})

ActorHandshakeFails ==
  \/ (HandshakeLost \/ \E e \in HandshakeErrors \ {"permanent"} : ConnectRefused(e))
       /\ WireDown /\ UNCHANGED <<subVars, reqVars, batch_queue>>
  \/ "permanent" \in HandshakeErrors /\ ConnectRefused("permanent") /\ SubsDisconnected(sub, {})

ActorHandshakeDisconnectPush(r) == HandshakeDisconnectPush(r) /\ SubsOnTransportClose(r, sub, {})

\* Subscribing channels that need no callback travel in the Connect command; the
\* server resolves those in S, and resubscribe_all() takes up the rest.
ActorConnectAccepted(S) ==
  /\ ConnectAccepted
  /\ S \subseteq {ch \in Channels : sub[ch] = "Subscribing" /\ ~NeedsSubToken(ch)}
  /\ sub' = Set(sub, S, "Subscribed")
  /\ scall' = AnswerSubs(Waiters(S), "ok")
  /\ sub_waiters' = NoWaiters(S)
  /\ todo' = {ch \in Channels : sub'[ch] = "Subscribing"}
  /\ srv' = S
  /\ UNCHANGED <<sub_token, resub, pending, batch_queue, outbox, inbox>>

ResubscribeNext(ch) ==
  /\ pc = "resubscribe"
  /\ ch \in todo
  /\ DoSubscribe(ch, resub)
  /\ todo' = todo \ {ch}
  /\ UNCHANGED lifeVars

ActorFinishConnect == todo = {} /\ FinishConnect /\ UNCHANGED subscriptionVars

ActorLosesConnection ==
  \/ \E r \in BOOLEAN : (TransportCloses(r) \/ DisconnectPush(r)) /\ SubsOnTransportClose(r, sub, {})
  \/ DecodeError /\ SubsOnTransportClose(FALSE, sub, {})
  \/ PingTimeout /\ SubsOnTransportClose(TRUE, sub, {})

\* What the client has not read yet may still arrive; the server's side is over.
ActorLinkBreaks ==
  /\ LinkBreaks
  /\ outbox' = <<>>
  /\ srv' = {}
  /\ UNCHANGED <<subVars, reqVars, batch_queue, inbox>>

-------------------------------------------------------------------------------
ActorNext ==
  \/ LifeOnly
  \/ ActorDisconnect \/ ActorClose
  \/ ActorTokenUnauthorized
  \/ ActorSendConnect
  \/ ActorHandshakeFails
  \/ \E r \in BOOLEAN : ActorHandshakeDisconnectPush(r)
  \/ \E S \in SUBSET Channels : ActorConnectAccepted(S)
  \/ \E ch \in Channels : ResubscribeNext(ch)
  \/ ActorFinishConnect
  \/ ActorLosesConnection
  \/ ActorLinkBreaks
  \/ \E ch \in Channels :
        \/ HandleNewSubscription(ch)
        \/ \E r \in Requesters : HandleSubscribe(r, ch)
        \/ HandleUnsubscribe(ch) \/ UnsubscribeFails(ch)
        \/ HandleRemoveSubscription(ch)
        \/ HandleResubscribe(ch)
        \/ \E o \in SubTokenOutcomes : HandleRefreshSubToken(ch, o)
        \/ \E kind \in {"resubscribe", "terminal"} : ServerPushes(ch, kind)
  \/ \E r \in Requesters : HandleSendRequest(r)
  \/ \E i \in Ids : HandleRequestTimeout(i)
  \/ \E o \in TokenOutcomes : HandleRefreshToken(o)
  \/ HandleStopBatching
  \/ HandleFrame
  \/ ServerHandles

ActorSpec == ActorInit /\ [][ActorNext]_actorVars

-------------------------------------------------------------------------------
(* Properties.                                                                *)

\* Nothing is awaited, queued or retried on a connection that is gone: an entry left
\* behind would be resolved by a reply of the next connection, or time it out.
PendingOnlyWhileConnected ==
  state # "Connected" => (\A i \in Ids : ~InUse(i)) /\ batch_queue = <<>>

\* The places a requester's oneshot can be held at.
HeldBy(r) == {ch \in Channels : r \in sub_waiters[ch]}
AwaitedBy(r) == {i \in Ids : InUse(i) /\ pending[i].caller = r}

\* A requester that waits is held in exactly one place, and one that has its answer in
\* none: nobody is forgotten, whatever happens to the subscription, the request and
\* the connection in between, and nobody is answered twice.
CallersOwned ==
  \A r \in Requesters :
    Cardinality(HeldBy(r)) + Cardinality(AwaitedBy(r)) = IF scall[r] = "waiting" THEN 1 ELSE 0

\* Whoever attached to an attempt is told when it succeeds.
SubscribedHasNoWaiters == \A ch \in Channels : sub[ch] = "Subscribed" => sub_waiters[ch] = {}

\* A Subscribing subscription on a working connection is going somewhere: a Subscribe
\* awaits its reply, or a Resubscribe is due.
NoStrandedSubscription ==
  pc = "loop" /\ link = "joined" =>
    \A ch \in Channels : sub[ch] = "Subscribing" => InFlight(ch) \/ resub[ch] > 0

\* No subscribe() is left hanging on a subscription that has ended.
NoStrandedWaiters ==
  \A ch \in Channels : sub[ch] \in {"absent", "Unsubscribed"} => sub_waiters[ch] = {}

\* Nothing on the way in either direction that concerns ch.
Quiet(ch) ==
  /\ pc = "loop" /\ link = "joined"
  /\ ~InFlight(ch)
  /\ outbox = <<>> /\ inbox = <<>> /\ batch_queue = <<>>

\* Once everything on the way has arrived, client and server agree on who is subscribed.
AgreesWithServer == \A ch \in Channels : Quiet(ch) => (sub[ch] = "Subscribed" <=> ch \in srv)

\* unsubscribe() holds until the next subscribe().
UnsubscribeHolds ==
  [][\A ch \in Channels : sub[ch] = "Unsubscribed" => sub'[ch] # "Subscribed"]_actorVars

\* A disconnect fails every subscribe() still waiting, confirmed subscription or not
\* (tests/actor_connection.rs:611).
DisconnectFailsWaiters ==
  [][state # "Disconnected" /\ state' = "Disconnected" =>
       \A ch \in Channels : sub_waiters'[ch] = {}]_actorVars
===============================================================================
