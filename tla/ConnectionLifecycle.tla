-------------------------- MODULE ConnectionLifecycle --------------------------
(***************************************************************************)
(* The connection half of ConnectionActor: one task that owns the client   *)
(* state and walks run() -> do_connect_cycle() -> do_connected_loop().     *)
(* Client handles reach it through a command channel, and it takes a       *)
(* command only where the code awaits cmd_rx: idle in run(), waiting in    *)
(* wait_backoff(), or in the connected loop.  During a token callback,     *)
(* Transport::connect(), the handshake and resubscribe_all() it is deaf.   *)
(*                                                                         *)
(* pc names the await the task is suspended at:                            *)
(*   idle        run(), Disconnected: cmd_rx.recv()                        *)
(*   backoff     wait_backoff(): sleep or command                          *)
(*   refresh     refresh_token_if_needed(): the get_token callback         *)
(*   open        open_transport(): Transport::connect()                    *)
(*   handshake   do_handshake() before send_command(Connect)               *)
(*   await       read_reply_with_timeout(connect id)                       *)
(*   resubscribe on_handshake_success(): resubscribe_all()                 *)
(*   loop        do_connected_loop(): frame, command or ping deadline      *)
(*   done        run() has returned; the actor is dropped                  *)
(***************************************************************************)
EXTENDS Naturals

CONSTANTS
  Callers,          \* tasks that hold a Client handle and call connect()
  MaxAttempts,      \* bound: reconnect_attempts saturates here (it is compared with 0 only)
  TokenOutcomes,    \* what get_token may answer; {} when no callback is configured
  HandshakeErrors,  \* error replies the server may give to Connect
  TokenValues,      \* whether config.token, given or set, may be empty (FALSE) or not (TRUE)
  BatchUse          \* when start_batching() is handled: "never", "connected" or "anytime"

ASSUME LifecycleAssumption ==
  /\ MaxAttempts \in Nat \ {0}
  /\ TokenOutcomes \subseteq {"ok", "unauthorized", "error"}
  /\ HandshakeErrors \subseteq {"token_expired", "temporary", "permanent"}
  /\ TokenValues \subseteq BOOLEAN
  /\ BatchUse \in {"never", "connected", "anytime"}

VARIABLES
  state,              \* ConnectionActor.state
  pc,                 \* where the task is suspended
  connect_requested,  \* connect() wishes a connection
  connect_waiters,    \* callers whose oneshot sender is in connect_waiters
  reconnect_attempts,
  token,              \* config.token is not empty
  refresh_required,   \* TokenState.refresh_required
  link,               \* sink and stream, and what the server knows of them
  batch_active,       \* BatchState.active
  call,               \* what became of each caller's connect()
  handles_held        \* some Client or Subscription handle still exists

callVars  == <<connect_waiters, call>>
tokenVars == <<token, refresh_required>>
lifeVars  == <<state, pc, connect_requested, connect_waiters, reconnect_attempts, token,
               refresh_required, link, batch_active, call, handles_held>>

ClientState == {"Disconnected", "Connecting", "Connected", "Closed"}
Control     == {"idle", "backoff", "refresh", "open", "handshake", "await", "resubscribe",
                "loop", "done"}

\* none: no sink and stream.  open: connected, but Connect has not reached the
\* server.  joined: the server has Connect.  broken: the peer or the network is gone.
Link == {"none", "open", "joined", "broken"}

\* queued: the command is in the channel.  waiting: its reply sender is held by
\* the actor.  The rest are answers.
Answers    == {"ok", "disconnected", "closed"}
CallStatus == {"idle", "queued", "waiting"} \union Answers

TypeOK ==
  /\ state \in ClientState
  /\ pc \in Control
  /\ connect_requested \in BOOLEAN
  /\ connect_waiters \subseteq Callers
  /\ reconnect_attempts \in 0 .. MaxAttempts
  /\ token \in BOOLEAN
  /\ refresh_required \in BOOLEAN
  /\ link \in Link
  /\ batch_active \in BOOLEAN
  /\ call \in [Callers -> CallStatus]
  /\ handles_held \in BOOLEAN

LifeInit ==
  /\ state = "Disconnected"
  /\ pc = "idle"
  /\ connect_requested = FALSE
  /\ connect_waiters = {}
  /\ reconnect_attempts = 0
  /\ token \in TokenValues
  /\ refresh_required = FALSE
  /\ link = "none"
  /\ batch_active = FALSE
  /\ call = [c \in Callers |-> "idle"]
  /\ handles_held = TRUE

-------------------------------------------------------------------------------
(* State changes shared by the handlers (state.rs, transport_io.rs).          *)

\* Mutant: a failed attempt is repeated at once.
ResumeWithoutBackoff(s, n) ==
  CASE s = "Disconnected" -> "idle"
    [] s = "Connecting"   -> "refresh"
    [] s = "Connected"    -> "loop"
    [] s = "Closed"       -> "done"

\* Where the task is suspended next when the current handler returns in state s
\* with n attempts made: run() dispatches on the state, and do_connect_cycle()
\* starts with a backoff unless this is the first attempt.
Resume(s, n) ==
  CASE s = "Disconnected" -> "idle"
    [] s = "Connecting"   -> IF n > 0 THEN "backoff" ELSE "refresh"
    [] s = "Connected"    -> "loop"
    [] s = "Closed"       -> "done"

\* Mutant: the attempt is taken off the counter.
CountAttemptDown(n) == n - 1

CountAttempt(n) == IF n < MaxAttempts THEN n + 1 ELSE n

\* The callers in S get answer a.
Answer(S, a) == [c \in Callers |-> IF c \in S THEN a ELSE call[c]]

\* Mutant: the waiting connect() callers are not drained.
MoveToDisconnectedKeepingWaiters ==
  /\ state' = "Disconnected"
  /\ connect_requested' = FALSE
  /\ link' = "none"
  /\ batch_active' = FALSE
  /\ UNCHANGED callVars

\* Mutant: the wish for a connection outlives disconnect().
MoveToDisconnectedKeepingWish ==
  /\ state' = "Disconnected"
  /\ link' = "none"
  /\ batch_active' = FALSE
  /\ connect_waiters' = {}
  /\ call' = Answer(connect_waiters, "disconnected")
  /\ UNCHANGED connect_requested

MoveToDisconnected ==
  /\ state' = "Disconnected"
  /\ connect_requested' = FALSE
  /\ link' = "none"
  /\ batch_active' = FALSE
  /\ connect_waiters' = {}
  /\ call' = Answer(connect_waiters, "disconnected")

MoveToClosed ==
  /\ state' = "Closed"
  /\ link' = "none"
  /\ batch_active' = FALSE
  /\ connect_waiters' = {}
  /\ call' = Answer(connect_waiters, "closed")
  /\ UNCHANGED connect_requested

\* Mutant: the batch outlives the connection it belongs to.
OnTransportCloseKeepingBatch(reconnect) ==
  IF reconnect /\ connect_requested
  THEN /\ state' = "Connecting"
       /\ link' = "none"
       /\ UNCHANGED <<connect_requested, batch_active, callVars>>
  ELSE MoveToDisconnected

\* Mutant: a lost connection is sought again whether or not it is still wanted.
OnTransportCloseAlwaysReconnecting(reconnect) ==
  IF reconnect \/ connect_requested
  THEN /\ state' = "Connecting"
       /\ link' = "none"
       /\ batch_active' = FALSE
       /\ connect_requested' = reconnect
       /\ UNCHANGED callVars
  ELSE MoveToDisconnected

OnTransportClose(reconnect) ==
  IF reconnect /\ connect_requested
  THEN /\ state' = "Connecting"
       /\ link' = "none"
       /\ batch_active' = FALSE
       /\ UNCHANGED <<connect_requested, callVars>>
  ELSE MoveToDisconnected

-------------------------------------------------------------------------------
(* The application.                                                           *)

\* A caller puts Connect on the command channel and waits for its oneshot.
CallConnect(c) ==
  /\ handles_held
  /\ call[c] \notin {"queued", "waiting"}
  /\ call' = [call EXCEPT ![c] = "queued"]
  /\ UNCHANGED <<state, pc, connect_requested, connect_waiters, reconnect_attempts,
                 tokenVars, link, batch_active, handles_held>>

\* The last handle is dropped.  The actor keeps a sender of its own command
\* channel (ConnectionActor.cmd_tx), so cmd_rx.recv() does not return None.
DropHandles ==
  /\ handles_held
  /\ \A c \in Callers : call[c] \notin {"queued", "waiting"}
  /\ handles_held' = FALSE
  /\ UNCHANGED <<state, pc, connect_requested, reconnect_attempts, callVars, tokenVars,
                 link, batch_active>>

-------------------------------------------------------------------------------
(* Commands, handled only where the task awaits cmd_rx.                       *)

TakesCommands == pc \in {"idle", "backoff", "loop"}

HandleConnect(c) ==
  /\ TakesCommands
  /\ call[c] = "queued"
  /\ \/ /\ state = "Disconnected"
        /\ connect_requested' = TRUE
        /\ connect_waiters' = connect_waiters \union {c}
        /\ call' = [call EXCEPT ![c] = "waiting"]
        /\ state' = "Connecting"
        /\ pc' = Resume("Connecting", reconnect_attempts)
     \/ /\ state = "Connecting"
        /\ connect_waiters' = connect_waiters \union {c}
        /\ call' = [call EXCEPT ![c] = "waiting"]
        /\ UNCHANGED <<state, pc, connect_requested>>
     \/ /\ state = "Connected"
        /\ call' = [call EXCEPT ![c] = "ok"]
        /\ UNCHANGED <<state, pc, connect_requested, connect_waiters>>
  /\ UNCHANGED <<reconnect_attempts, tokenVars, link, batch_active, handles_held>>

HandleDisconnect ==
  /\ TakesCommands
  /\ handles_held
  /\ MoveToDisconnected
  /\ pc' = Resume("Disconnected", reconnect_attempts)
  /\ UNCHANGED <<reconnect_attempts, tokenVars, handles_held>>

HandleClose ==
  /\ TakesCommands
  /\ handles_held
  /\ MoveToClosed
  /\ pc' = Resume("Closed", reconnect_attempts)
  /\ UNCHANGED <<reconnect_attempts, tokenVars, handles_held>>

HandleSetToken(t) ==
  /\ TakesCommands
  /\ handles_held
  /\ token' = t
  /\ UNCHANGED <<state, pc, connect_requested, reconnect_attempts, callVars,
                 refresh_required, link, batch_active, handles_held>>

StartBatching ==
  /\ TakesCommands
  /\ handles_held
  /\ BatchUse # "never"
  /\ BatchUse = "anytime" \/ state = "Connected"
  /\ batch_active' = TRUE
  /\ UNCHANGED <<state, pc, connect_requested, reconnect_attempts, callVars, tokenVars,
                 link, handles_held>>

StopBatching ==
  /\ TakesCommands
  /\ handles_held
  /\ batch_active' = FALSE
  /\ UNCHANGED <<state, pc, connect_requested, reconnect_attempts, callVars, tokenVars,
                 link, handles_held>>

\* The actor is gone: dropping cmd_rx drops the queued oneshot senders, which
\* request() turns into ClientClosed.
RejectAfterClose(c) ==
  /\ pc = "done"
  /\ call[c] = "queued"
  /\ call' = [call EXCEPT ![c] = "closed"]
  /\ UNCHANGED <<state, pc, connect_requested, connect_waiters, reconnect_attempts,
                 tokenVars, link, batch_active, handles_held>>

-------------------------------------------------------------------------------
(* do_connect_cycle(): backoff, token, transport, handshake.                  *)

BackoffExpires ==
  /\ pc = "backoff"
  /\ pc' = "refresh"
  /\ UNCHANGED <<state, connect_requested, reconnect_attempts, callVars, tokenVars, link,
                 batch_active, handles_held>>

HasGetToken  == TokenOutcomes # {}
NeedsRefresh == refresh_required \/ (~token /\ HasGetToken)

\* `reconnect_attempts += 1`, then the token is fresh enough, or there is no
\* callback and do_token_refresh() succeeds without one.
TokenNotRefreshed ==
  /\ pc = "refresh"
  /\ ~NeedsRefresh \/ ~HasGetToken
  /\ reconnect_attempts' = CountAttempt(reconnect_attempts)
  /\ refresh_required' = FALSE
  /\ pc' = "open"
  /\ UNCHANGED <<state, connect_requested, callVars, token, link, batch_active, handles_held>>

\* Mutant: the refresh is skipped when some token is at hand, expired or not.
TokenRefreshedIgnoringExpiry ==
  /\ pc = "refresh"
  /\ HasGetToken
  /\ refresh_required \/ ~token
  /\ reconnect_attempts' = CountAttempt(reconnect_attempts)
  /\ token' = TRUE
  /\ pc' = "open"
  /\ UNCHANGED <<state, connect_requested, callVars, refresh_required, link, batch_active,
                 handles_held>>

TokenRefreshed ==
  /\ pc = "refresh"
  /\ NeedsRefresh
  /\ "ok" \in TokenOutcomes
  /\ reconnect_attempts' = CountAttempt(reconnect_attempts)
  /\ token' = TRUE
  /\ refresh_required' = FALSE
  /\ pc' = "open"
  /\ UNCHANGED <<state, connect_requested, callVars, link, batch_active, handles_held>>

\* get_token answered Unauthorized or an empty token: refresh_token_if_needed()
\* moves to Disconnected and returns true, so the cycle goes on to the transport.
TokenUnauthorized ==
  /\ pc = "refresh"
  /\ NeedsRefresh
  /\ "unauthorized" \in TokenOutcomes
  /\ reconnect_attempts' = CountAttempt(reconnect_attempts)
  /\ MoveToDisconnected
  /\ pc' = "open"
  /\ UNCHANGED <<tokenVars, handles_held>>

\* Any other error: `continue`, which backs off first.
TokenRefreshFails ==
  /\ pc = "refresh"
  /\ NeedsRefresh
  /\ "error" \in TokenOutcomes
  /\ reconnect_attempts' = CountAttempt(reconnect_attempts)
  /\ pc' = Resume(state, reconnect_attempts')
  /\ UNCHANGED <<state, connect_requested, callVars, tokenVars, link, batch_active,
                 handles_held>>

RefreshToken ==
  TokenNotRefreshed \/ TokenRefreshed \/ TokenUnauthorized \/ TokenRefreshFails

TransportOpens ==
  /\ pc = "open"
  /\ link' = "open"
  /\ pc' = "handshake"
  /\ UNCHANGED <<state, connect_requested, reconnect_attempts, callVars, tokenVars,
                 batch_active, handles_held>>

TransportFails ==
  /\ pc = "open"
  /\ pc' = Resume(state, reconnect_attempts)
  /\ UNCHANGED <<state, connect_requested, reconnect_attempts, callVars, tokenVars, link,
                 batch_active, handles_held>>

OpenTransport == TransportOpens \/ TransportFails

\* The peer or the network ends an open transport.
LinkBreaks ==
  /\ link \in {"open", "joined"}
  /\ link' = "broken"
  /\ UNCHANGED <<state, pc, connect_requested, reconnect_attempts, callVars, tokenVars,
                 batch_active, handles_held>>

\* send_command(Connect): into the batch queue while batching, else to the sink.
\* A sink whose transport has broken may still accept the bytes.
SendConnect ==
  /\ pc = "handshake"
  /\ pc' = "await"
  /\ link' = IF link = "open" /\ ~batch_active THEN "joined" ELSE link
  /\ UNCHANGED <<state, connect_requested, reconnect_attempts, callVars, tokenVars,
                 batch_active, handles_held>>

\* Mutant: the transport of a failed handshake is kept.
OnHandshakeFailureKeepingLink(e) ==
  /\ IF e = "permanent"
     THEN MoveToDisconnected
     ELSE UNCHANGED <<state, connect_requested, batch_active, callVars, link>>
  /\ refresh_required' = (refresh_required \/ e = "token_expired")
  /\ pc' = Resume(state', reconnect_attempts)
  /\ UNCHANGED <<reconnect_attempts, token, handles_held>>

\* Mutant: a refused connection is given up without the callers being told.
OnHandshakeFailureForgettingWaiters(e) ==
  /\ link' = "none"
  /\ IF e = "permanent"
     THEN /\ state' = "Disconnected"
          /\ connect_requested' = FALSE
          /\ batch_active' = FALSE
          /\ UNCHANGED callVars
     ELSE UNCHANGED <<state, connect_requested, batch_active, callVars>>
  /\ refresh_required' = (refresh_required \/ e = "token_expired")
  /\ pc' = Resume(state', reconnect_attempts)
  /\ UNCHANGED <<reconnect_attempts, token, handles_held>>

\* e is the server's error, or "lost" for a timeout, a closed transport, a
\* failed send or a reply that is not a connect result.
OnHandshakeFailure(e) ==
  /\ IF e = "permanent"
     THEN MoveToDisconnected
     ELSE /\ link' = "none"
          /\ UNCHANGED <<state, connect_requested, batch_active, callVars>>
  /\ refresh_required' = (refresh_required \/ e = "token_expired")
  /\ pc' = Resume(state', reconnect_attempts)
  /\ UNCHANGED <<reconnect_attempts, token, handles_held>>

\* The send fails, the reply times out, the transport closes, or the frame is bad.
HandshakeLost ==
  \/ pc = "handshake" /\ link = "broken" /\ OnHandshakeFailure("lost")
  \/ pc = "await" /\ OnHandshakeFailure("lost")

ConnectRefused(e) ==
  /\ pc = "await"
  /\ link = "joined"
  /\ OnHandshakeFailure(e)

\* A disconnect push that arrives before the connect reply is dispatched as in
\* the connected loop; read_reply_with_timeout() then waits without a stream.
HandshakeDisconnectPush(reconnect) ==
  /\ pc = "await"
  /\ link = "joined"
  /\ OnTransportClose(reconnect)
  /\ UNCHANGED <<pc, reconnect_attempts, tokenVars, handles_held>>

\* on_handshake_success() up to resubscribe_all().
ConnectAccepted ==
  /\ pc = "await"
  /\ link = "joined"
  /\ state' = "Connected"
  /\ reconnect_attempts' = 0
  /\ pc' = "resubscribe"
  /\ UNCHANGED <<connect_requested, callVars, tokenVars, link, batch_active, handles_held>>

\* resubscribe_all() is over: the waiting callers learn of the connection.
FinishConnect ==
  /\ pc = "resubscribe"
  /\ connect_waiters' = {}
  /\ call' = Answer(connect_waiters, "ok")
  /\ pc' = "loop"
  /\ UNCHANGED <<state, connect_requested, reconnect_attempts, tokenVars, link, batch_active,
                 handles_held>>

-------------------------------------------------------------------------------
(* do_connected_loop().                                                       *)

\* Mutant: do_connected_loop() goes on after the connection has ended.
LoseConnectionAndGoOn(reconnect) ==
  /\ OnTransportClose(reconnect)
  /\ UNCHANGED <<pc, reconnect_attempts, tokenVars, handles_held>>

\* The connection ends while it is established.
LoseConnection(reconnect) ==
  /\ OnTransportClose(reconnect)
  /\ pc' = Resume(state', reconnect_attempts)
  /\ UNCHANGED <<reconnect_attempts, tokenVars, handles_held>>

\* Close frame or end of stream; the code of the frame decides on reconnecting.
TransportCloses(reconnect) ==
  pc = "loop" /\ link = "broken" /\ LoseConnection(reconnect)

\* A disconnect push decides by its code; a frame that does not decode is final.
DisconnectPush(reconnect) == pc = "loop" /\ link = "joined" /\ LoseConnection(reconnect)
DecodeError == pc = "loop" /\ link = "joined" /\ LoseConnection(FALSE)

\* No frame within the ping interval plus max_server_ping_delay.
PingTimeout == pc = "loop" /\ LoseConnection(TRUE)

\* RequestTimeout of a Subscribe, or a failed send of Unsubscribe.
CommandFailure == pc = "loop" /\ LoseConnection(TRUE)

\* do_refresh_token() while Connected: the callback may end the connection.  (A server
\* that makes a token expire is used with a get_token callback.)
RefreshTimer(o) ==
  /\ pc = "loop"
  /\ o \in TokenOutcomes
  /\ \/ /\ o = "unauthorized"
        /\ MoveToDisconnected
        /\ pc' = Resume("Disconnected", reconnect_attempts)
        /\ UNCHANGED token
     \/ /\ o # "unauthorized"
        /\ token' = (token \/ o = "ok")
        /\ UNCHANGED <<state, pc, connect_requested, link, batch_active, callVars>>
  /\ UNCHANGED <<reconnect_attempts, refresh_required, handles_held>>

-------------------------------------------------------------------------------
Application ==
  \/ \E c \in Callers : CallConnect(c) \/ HandleConnect(c) \/ RejectAfterClose(c)
  \/ HandleDisconnect
  \/ HandleClose
  \/ \E t \in TokenValues : HandleSetToken(t)
  \/ StartBatching
  \/ StopBatching
  \/ DropHandles

ConnectCycle ==
  \/ BackoffExpires
  \/ RefreshToken
  \/ OpenTransport
  \/ SendConnect
  \/ HandshakeLost
  \/ \E e \in HandshakeErrors : ConnectRefused(e)
  \/ \E r \in BOOLEAN : HandshakeDisconnectPush(r)
  \/ ConnectAccepted
  \/ FinishConnect

ConnectedLoop ==
  \/ \E r \in BOOLEAN : TransportCloses(r) \/ DisconnectPush(r)
  \/ DecodeError
  \/ PingTimeout
  \/ CommandFailure
  \/ \E o \in TokenOutcomes : RefreshTimer(o)

LifeNext == Application \/ ConnectCycle \/ ConnectedLoop \/ LinkBreaks

LifeSpec == LifeInit /\ [][LifeNext]_lifeVars

-------------------------------------------------------------------------------
(* Fairness.  The task is never starved by the tokio runtime, its timers fire *)
(* and its callbacks return; the command channel is FIFO and tokio::select!   *)
(* polls its branches in random order, so a queued command is taken if the    *)
(* task keeps coming back to the channel.                                     *)
ActorFairness ==
  /\ WF_lifeVars(BackoffExpires)
  /\ WF_lifeVars(RefreshToken)
  /\ WF_lifeVars(OpenTransport)
  /\ WF_lifeVars(SendConnect \/ HandshakeLost)
  /\ WF_lifeVars(FinishConnect)
  /\ \A c \in Callers : SF_lifeVars(HandleConnect(c)) /\ WF_lifeVars(RejectAfterClose(c))

\* Nothing here forces the server: with these in addition, an attempt that is
\* repeated for ever meets a server that is there.
ServerFairness ==
  /\ SF_lifeVars(TokenRefreshed)
  /\ SF_lifeVars(TransportOpens)
  /\ SF_lifeVars(SendConnect /\ link' = "joined")
  /\ SF_lifeVars(ConnectAccepted)

FairLifeSpec == LifeSpec /\ ActorFairness

-------------------------------------------------------------------------------
(* Properties.                                                                *)

\* The state a handler leaves behind is the one the place the task waits at was
\* chosen for: run() would otherwise wait for commands while a connection is up,
\* or serve a connection that is gone.  (Between get_token and the handshake the
\* state is free: see ConnectionWanted.)
ControlMatchesState ==
  /\ pc = "idle" => state = "Disconnected"
  /\ pc \in {"backoff", "refresh"} => state = "Connecting"
  /\ pc \in {"open", "handshake", "await"} => state \in {"Connecting", "Disconnected"}
  /\ pc \in {"resubscribe", "loop"} <=> state = "Connected"
  /\ pc = "done" <=> state = "Closed"

\* Nobody who awaits connect() is forgotten: the callers waiting are exactly those
\* whose sender the actor holds, and it holds senders only while it is on its way
\* to a connection -- never once it has disconnected, closed, or begun to serve.
WaitersServed ==
  /\ connect_waiters = {c \in Callers : call[c] = "waiting"}
  /\ connect_waiters # {} => state = "Connecting" \/ pc = "resubscribe"

\* A transport is held only by an attempt in progress or an established
\* connection: no attempt begins, and the task never rests, on an old socket.
NoLeakedTransport ==
  /\ pc \in {"idle", "backoff", "refresh", "open", "done"} => link = "none"
  /\ pc \in {"resubscribe", "loop"} => link \in {"joined", "broken"}

\* The actor has a connection, or seeks one, only while connect() asks for it: the
\* comment at connect.rs:99 relies on it ("State changed to Disconnected; outer
\* loop will return").
ConnectionWanted == state \in {"Connecting", "Connected"} => connect_requested

\* After "token expired" no Connect goes out before get_token has been asked again.
RefreshedBeforeRetry == pc \in {"open", "handshake", "await"} => ~refresh_required

\* The task never waits for the reply to a Connect it has parked in the batch
\* queue (transport_io.rs:22-27 resets the batch for this).
HandshakeGoesOut == pc = "await" => link # "open"

\* What ClientStates promises, with connect_requested as the wish.
ClientStatesSpec == INSTANCE ClientStates WITH wanted <- connect_requested
ImplementsClientStates == ClientStatesSpec!Spec

\* However the network and the callbacks behave, the task comes back to its command
\* channel, so that disconnect() and close() are heard.
AlwaysHeardAgain == []<>(TakesCommands \/ pc = "done")

\* With a server that is there, every connect() is answered, whatever comes between.
ConnectAnswered ==
  ServerFairness => \A c \in Callers : call[c] = "queued" ~> call[c] \in Answers

\* An actor that nobody can reach any more closes instead of reconnecting for ever
\* (tests/actor_connection.rs:674: "all handles dropped during backoff closes actor").
ClosesWithoutHandles == (pc = "backoff" /\ ~handles_held) ~> state = "Closed"
===============================================================================
