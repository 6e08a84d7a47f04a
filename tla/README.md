# centrifuge-rs in TLA+

A verification project for `centrifuge-client`, a Rust client of the Centrifugo real-time
messaging server. `src/` below is the root of the repository, so the crate's sources are in `src/src/`.

## 1. The system

One task, the **connection actor** (`src/src/client/`), owns all state. Everything else talks to it.

| Part | State it keeps | Operations | Works with |
|---|---|---|---|
| Handles `Client`, `Subscription` (`client/mod.rs`, `subscription.rs`) | a sender of the command channel (256), an atomic copy of the client state | `connect`, `disconnect`, `close`, `new_subscription`, `subscribe`, `unsubscribe`, `remove_subscription`, `publish`/`rpc`/`history`/`presence`, `send`, `set_token`, batching | a command and a oneshot per call |
| Connection task (`actor.rs`, `connect.rs`, `state.rs`, `transport_io.rs`) | `state`, `connect_requested`, `connect_waiters`, `reconnect_attempts`, `sink`/`stream` | `run`, `do_connect_cycle`, `do_connected_loop`, moves between states, `on_transport_close` | commands, frames, timers, token callbacks, transport |
| Request table (`commands.rs`, `transport_io.rs`) | `pending`, `next_id` | `send_request_command`, `resolve_pending`, `RequestTimeout` | replies by id; one timer per request |
| Batching (`transport_io.rs`) | `batch.active`, `batch.queue` | start, stop/flush, queueing in `send_command` | every command sent |
| Client-side subscriptions (`subscriptions.rs`, `push.rs`) | per channel: state, token, `subscribe_waiters`, attempts, offset/epoch, delta base | `subscribe`, `unsubscribe`, replies, server unsubscribes, resubscribe timers, publications | request table, Connect command (Subscribing channels travel in it) |
| Server-side subscriptions (`server_subs.rs`, `push.rs`) | per channel: recoverable, offset, epoch | taken from each connect result and from pushes | events |
| Token refresh (`token.rs`) | `expires`, `ttl`, `refresh_required` | refresh at 90 % of the TTL, retry after 10 s | callbacks of the application, timers |
| Ping (`connect.rs`) | interval, `last_data_received` | pong, deadline | frames, clock |
| WebSocket transport (`transport.rs`) | two bounded queues (256), a reader and a writer task | connect, send_data, frames, close codes and advice, release of the socket | actor, socket |
| Algorithms (`backoff.rs`, `codes.rs`, `delta.rs`, `codec.rs`) | none | delay with jitter, code ranges, fossil delta, JSON/protobuf framing | retries, transport, publications, every message |
| Event streams | bounded queues (256), `try_send` | | application |

**What is hard here.** The actor awaits in many places (callbacks, transport, handshake, sends), and only
in three of them does it take commands; replies, pushes and timers of an attempt may arrive after the
state they belong to is gone; a connection can end at every await, with callers held in three
different places (`connect_waiters`, `subscribe_waiters`, `pending`); timers are never cancelled, only
found stale; a subscription can be confirmed by three paths. The hazards are listed with their lines in
`PROJECT.json`.

**What makes each part correct.** Connection task: every `connect()` is answered, a connection exists only
while wished, no old socket is kept, the task stays reachable, an expired token is not reused. Requests:
each caller is answered exactly once; nothing outlives its connection. Subscriptions: an attempt is always
going somewhere; client and server agree once the wire is quiet; `unsubscribe()` holds. Streams: an application that
waits for its calls to settle misses no publication unannounced, sees none twice, gets the bytes that
were published, and what the client asks to recover is what it has shown. Server-side subscriptions: their
events tell the application which exist. Transport: no command or frame is lost, repeated or reordered while
the connection lives; nobody waits for ever on a peer that reads; the client gives up only when told to.
Algorithms: bounds and reference definitions.

## 2. Modules

| Module | Models |
|---|---|
| `ClientStates` | the abstract promise: four states, the wish for a connection, the moves between them |
| `ConnectionLifecycle` | the connection task (abstracts nothing of its control), `connect()` callers, the token callback, a nondeterministic transport and server |
| `ConnectionActor` | the same task composed with subscriptions, the request table, batch queue, Resubscribe timers, the wire in both directions and a server |
| `WsTransport` | one WebSocket connection: actor, writer task, reader task, their two queues, the socket and a peer |
| `Streams` | stream positions over reconnects: client- and server-side subscriptions, publications, recovery, deltas, a server with retained history |
| `Codes` | `codes.rs`: the code ranges, used by `WsTransport` and `Streams` |
| `FossilDelta` | `delta.rs`: the delta decoder; used by `Streams` |
| `Backoff` | `backoff.rs`: the set of delays an attempt may be given |
| `Framing` | `codec.rs` and the joining of a batch: how commands and replies share a message |
| `MCConnectionActor` | `ConnectionActor` for TLC, with the symmetry of requesters; the checks of `Backoff` and `Framing` |
| `MCWsTransport` | `WsTransport` for TLC, with Close codes at the edges of the ranges |
| `MCStreams` | `Streams` for TLC, with payloads; the checks of `FossilDelta` |
| `ConnectionLifecycle_proofs` | theorems: the connection task and its refinement of `ClientStates` |
| `ConnectionActor_proofs`, `ConnectionActorAttempts_proofs`, `ConnectionActorAgreement_proofs` | theorems: the actor implements the task; types, attempts and callers; agreement with the server |
| `WsTransport_proofs` | theorems: commands and frames of a connection, giving up |
| `FossilDelta_proofs` | theorems: the checksum, the decoder and the encoder, for data of any length |
| `Streams_proofs`, `StreamsPositions_proofs` | theorems: types and the server-side registry; what the application sees of a stream |

`ConnectionActor` extends `ConnectionLifecycle`, which implements `ClientStates`. `WsTransport` details what is
one variable (`link`) and two sequences there; `Streams` details what a subscription carries besides its
state, and takes connections and attempts to come and go as the other two show. `Backoff` and `Framing` are
instantiated with short integers and small messages.

### ConnectionLifecycle

`pc` names the await the task is suspended at (the module's head comment maps the nine values to
functions); every action runs from one await to the next, which is the grain of interleaving of an actor
on one task. `state`, `connect_requested`, `connect_waiters`, `reconnect_attempts`, `refresh_required` and
`batch_active` are the fields of those names. `token` is whether `config.token` is non-empty. `link` joins
`sink`/`stream` with what the peer knows (`none`, `open`, `joined`, `broken`). `call` follows each
`connect()` from the command channel to its answer. Choices made:

* A delay is abstracted to "may expire now"; attempts matter only as zero or not, so the counter saturates
  at `MaxAttempts`.
* Server errors enter as the three classes the code distinguishes (`token_expired`, `temporary`,
  `permanent`); disconnect codes as the Boolean of `should_reconnect_on_disconnect`.
* `get_token` answers `ok`, `unauthorized` (also an empty token) or `error`; an empty `TokenOutcomes` means
  no callback. `get_data` never changes the control and is left out.
* The actor holds a sender of its own command channel (`ConnectionActor.cmd_tx`), so the `None` arms of
  `cmd_rx.recv()` are unreachable and have no action.
* `disconnect()`, `close()` and the other commands are taken directly where the task listens; only
  `connect()` has its way through the channel and its answer modelled, because only it may wait long.
* Before the connect reply the server sends nothing but possibly a disconnect push.

### ConnectionActor

Every action either conjoins an action of `ConnectionLifecycle` with its effect on subscriptions and
requests, or leaves `lifeVars` unchanged; that is what `ActorImplementsLifecycle` proves. `sub`, `sub_token`,
`sub_waiters` are the fields of `SubState` (`absent`: not in the registry); `pending` is the request table;
`resub` counts Resubscribe commands asleep or queued; `todo` is the rest of `resubscribe_all()`; `scall`
follows each requester; `outbox`, `inbox` and `srv` are the two directions of the wire and the server's set
of subscribed channels. Choices made:

* Command ids come from a counter; here a fresh id is any id neither pending nor on the wire.
* The server handles commands in order, answers each, and forgets subscriptions with the connection.
  It may end a subscription by a push, for good or to be resubscribed.
* A frame carries one reply. (A disconnect push is the last reply of its frame; a frame that also carried
  the connect reply would lose the rest, which is among the hazards.)
* A send on a broken transport may succeed or fail.
* In the handshake any subset of the batched Subscribing channels may be resolved by the connect result.
* A token refresh may happen at any time in the connected loop; the timers are planned.
* Error codes enter as the outcome of their classification, which `Codes` defines.
* `UnsubscribeAnytime = FALSE` describes an application that unsubscribes from, or removes, only a
  subscription with nothing in flight.

### WsTransport

`write_q` and `frame_q` are the two channels of `connect()`. The actor is `idle` in its `select!`, `sending` in
`send_data()`, where it takes no frames, or `gone` when it has dropped sink and stream. `writer` and `reader`
name the await each task is at: `recv`, `sending`, `closing` and `next`, `forwarding`; `done` is the end of a task, and
what it held in its hand (`writing`, `reading`) goes with it. `ReaderEnds` is the abort of the writer at the end of the
reader. `ParseClose` and `MapCloseCode` are the functions of those names; `outcome` is what
`on_transport_close()` is called with. Choices made:

* Commands and frames are numbers. A Close frame is bare, has a code with plain text, or advice in JSON.
* The socket holds `SocketCapacity` messages in each direction; a write waits for room in it.
* tungstenite refuses writes once the peer's Close has been read; the peer (external) may read, send, close,
  answer a Close, or do nothing.
* `LinkBreaks` loses what is under way to the peer, and none or all of what has come from it.
* A connection is modelled once: a new one shares nothing with the old.

### Streams

`conn` joins the client's state with the connection. A connect cycle that succeeds is one step (`Reconnect`): the
actor takes no commands in it, so nothing of it is seen before its end. `sub` keeps the fields of `SubState` that
concern positions: state, offset, epoch, recover, `delta_negotiated`, `prev_data`. `server_subs` is the
registry of server-side subscriptions. `stream` and `held` are the server's: epoch and top offset of each channel,
and what this connection holds, with whether it sends deltas and against which publication. `app` is the
application as its events make it: the last lifecycle event of a server-side subscription, the position
shown, and the faults met. A Subscribed event that does not say `recovered` resets the position,
as an application would reload then. Choices made:

* All streams are positioned and recoverable, and retain `HistorySize` publications. A stream
  restarts, under another epoch, only while the client is not connected.
* A server-side subscription never negotiates deltas, as in the code.
* A delta is a real one: `FossilDelta` writes it and the client's decoder applies it to `prev_data`, after the JSON
  string is unwrapped where the protocol is JSON. Escapes inside such strings are left out.
* Positions start from nothing or from `since`.
* The Connect reply has a frame of its own: what shares a frame with it is dropped by the code.
* The application keeps up with its events; a full event queue (256) drops them, and their loss is not
  recovered.
* `PatientApplication` is an application that waits for a subscription to settle before the next call
  about it. `PromptResubscribes` has no Resubscribe command outlive its connection: `already_subscribed` shows what
  such a command does.

### Codes, FossilDelta, Backoff, Framing

Pure operators. `FossilDelta` keeps `u32` as two halves of 16 bits, wrap-around included, and all error paths as one
result; lengths of 64 KiB and more are cut at a value that fails every check they meet, which is why texts in
`FossilDelta_proofs` and payloads in `Streams` are assumed to be shorter. `apply_delta()` is a loop: `Command` is
one turn of it and `RunFrom` the turns from a position on. `Backoff` takes the
widths of `u128` and `u64` as constants, so that saturation and the cast happen within TLC's integers. `Framing` works on
bytes: lines, trimming and varints of up to ten bytes; whether a body parses is a parameter.

## 3. Runs

| Run | Shows | Bounds |
|---|---|---|
| `lifecycle` | types, control/state agreement, callers served, no leaked transport, connection wanted, token refreshed before a retry, handshake not batched; implements `ClientStates` | 2 callers, counter to 2, `get_token` ok/error, all errors; 1 940 states |
| `lifecycle_live` | the task comes back to its channel; every `connect()` is answered if the server is there | as above with `unauthorized`; 3 366 states |
| `actor` | callers owned exactly once, nothing pending offline, confirmed means told, no stranded attempt | 1 channel, 2 requesters, 2 ids, 1 timer, 1 frame before a push, every token outcome, temporary and permanent errors; 824 000 states (with symmetry) |
| `actor_settled` | client and server agree when quiet | 1 channel, 1 requester, batching, both callbacks, all errors, `UnsubscribeAnytime = FALSE`; 606 000 states |
| `transport` | commands and frames complete and in order; the client gives up only on a Close that asks for it; `send_data()` returns, losses are noticed, sockets released | queues and socket of 1, 4 commands, 4 frames, Close codes at both edges of each range, advice against its code; 204 000 states |
| `streams` | no silent gap, no repetition, publications intact, recovery from what was shown, server-side subscriptions known; subscriptions catch up and attempts end | 1 client and 1 server channel, 2 epochs, history 2, 3 publications, 2 lost connections, 1 command and 1 push under way before another, JSON with deltas, codes 2000 and 2500, errors 103 and 109; 900 000 states |
| `unauthorized_refresh` | violates `ConnectionWanted` (`connect.rs:99`) | |
| `batching_before_connect` | violates `HandshakeGoesOut` (`transport_io.rs:22-27`) | |
| `handles_dropped` | violates `ClosesWithoutHandles` (`tests/actor_connection.rs:674`) | |
| `disconnect_while_connecting` | violates `DisconnectFailsWaiters` (`tests/actor_subscriptions.rs:1051`) | |
| `unsubscribe_in_flight` | violates `UnsubscribeHolds` (`SDK_COMPLIANCE.md:91`) | |
| `already_subscribed` | violates `PublicationsIntact` (`connect.rs:367`, `subscription.rs:207`) | 1 channel, protobuf, `PromptResubscribes = FALSE` |

Assumptions of the MC modules are checked by TLC before these runs. `MCStreams`: `AppliedAsMeant` (a delta is
applied as its commands mean, or refused when a copy leaves its source), `RoundTrip`, `CutShort` (no prefix of a
delta is taken for one), `ChecksumOfWords` (the checksum, unrolled in the code, is the sum of the
big-endian words). `RoundTrip`, `ChecksumOfWords` and the first half of `AppliedAsMeant` are also
proved, for texts of any length below 64 KiB (section 5). `MCConnectionActor`: `DelaysWithinBounds`, `SaturationHarmless`, `BatchesReadBack` (a flushed batch
is one message that reads back in order, in both formats), `NoInventedReplies`, `BlankLinesIgnored`,
`LongestLengths`.

**Why the bounds are enough for what the runs ask.** Two `connect()` callers let one arrive in each state
while another waits. Two requesters on one channel give one that owns the pending Subscribe and one
attached to it, or one of each and an `rpc`. Two ids allow a duplicate Subscribe beside a live one, or a
request beside a Subscribe whose timeout tears the connection down. One outstanding timer is enough for a
stale Resubscribe to meet a later attempt; steps that would start a second one are disabled, which cuts
behaviours with two such timers. Channels meet only through a lost connection and the order of
`resubscribe_all()`; runs of two channels (526 000 states without errors and callbacks) showed nothing new. What
is proved (section 5) needs none of these bounds.

Transport: with queues and sockets of one place, four commands fill queue, hand and socket and leave one
that waits, and so do four frames; the theorems hold for every capacity. Streams: three publications and a
history of two make a stream that can be recovered from zero, one or two missed, and not from three; two
losses allow a recovery that is itself cut off; two epochs, a restart between them. Payloads share a prefix, so a
delta against the wrong base gives other bytes or is refused. The two kinds of channel share nothing
but the connection.

Deadlock is not checked, because a closed or disconnected client, or one with no handle left, rests for ever.

**Limits of four runs.** `ConnectionWanted`, `RefreshedBeforeRetry` and `ImplementsClientStates` hold only
while `get_token` does not answer Unauthorized in the connect cycle: `unauthorized_refresh` shows why.
`AgreesWithServer` holds only for applications as described by `UnsubscribeAnytime = FALSE`, and without
Unauthorized answers to a subscription's token: `unsubscribe()` in flight, and
`unsubscribe_unauthorized()`, leave the server subscribed. The properties of `streams` hold for a patient
application whose Resubscribe timers do not outlive the connection: an `unsubscribe()` and `subscribe()` that
overtake replies mix the results of two attempts, and `already_subscribed` shows what a late timer does. The liveness of
`transport` needs a peer that reads and answers a Close (section 4).

**Findings.** The six violation runs are disagreements between the code and its own comments, tests or
compliance table; each is quoted in `PROJECT.json`. The newest: a Resubscribe timer of an earlier attempt
meets a channel that is subscribed, the server answers "already subscribed" without a result, and the client takes
the default result, which switches deltas off on its side only.
One more behaviour met while modelling has no document against it: a terminal unsubscribe push that crosses
`unsubscribe()` and a second `subscribe()` ends the new attempt and leaves the callers attached to it
waiting (`NoStrandedWaiters`, in no run, states the contrary).

## 4. Fairness

`ActorFairness` (`ConnectionLifecycle`): weak fairness of each step of the task, because tokio does not starve a
ready task, timers fire, the handshake has a timeout, and callbacks and `Transport::connect()` are assumed to
return (they have no timeout in the code). Strong fairness of taking a queued `connect()`: the task leaves and
re-enters the places where it listens, the channel is FIFO, and `tokio::select!` polls its branches in random order.
`ServerFairness` is a premise of `ConnectAnswered` only: an attempt repeated for ever sometimes gets a
token, a transport, a sent Connect and an accepting reply. `AlwaysHeardAgain` does not use it.

`TaskFairness` (`WsTransport`): weak fairness of every step of the writer and the reader and of the return of
`send_data()`; strong fairness of taking a frame, which commands of the application interrupt again and again while the
`select!` is random. `PeerFairness` is a premise: the peer reads, and answers a Close. It is needed. A
peer that does not read holds the actor in `send_data()`, where it hears neither frames nor
`disconnect()` nor its ping deadline; a peer that reads only while its own sends have room completes a
cycle in which everyone waits; a silent one leaves the reader task and its socket behind after the
actor has dropped the connection.

`FairSpec` (`Streams`): the actor handles what arrives, the server handles what it is sent, Resubscribe timers fire.
The first two are weak fairness with ENABLED written out. The last conjunct is a premise: a server that is
asked for a subscription again and again holds it again and again.

Nothing is assumed of the application.

## 5. Proofs

For every set of callers, channels, requesters and ids, every bound and every choice of answers:

**The connection task** (`ConnectionLifecycle_proofs`)

* `Safety`, with `LifecycleTyped` and `TransportNeverLeaked`: `TypeOK`, `ControlMatchesState`, `WaitersServed` and
  `NoLeakedTransport` together are inductive; one lemma per group of actions. `WaitersServed` needs
  `ControlMatchesState` (callers are added only where the task listens), and all need the types.
* `Wanted` and `NoStaleToken`, assuming `"unauthorized" \notin TokenOutcomes`: the strengthening `WantedInv` adds that
  the cycle's places (`open`, `handshake`, `await`) are reached only while Connecting, so that no wish is
  lost on the way.
* `Refinement`, same assumption: initial states and steps of the task map to those of `ClientStates` or stutter,
  with `connect_requested` for `wanted`.
* `HandshakeNeverBatched`, assuming batches are opened only while connected: `BatchInv` adds that an open batch
  implies Connected.

**The actor** (`ConnectionActor_proofs`, `ConnectionActorAttempts_proofs`, `ConnectionActorAgreement_proofs`)

* `ActorImplementsLifecycle`: each action of the composite is a step of the task or leaves it alone; hence
  `ActorSafety`.
* `NothingPendingOffline`, same assumption on batches: needs `ControlMatchesState` to place the actions that
  add requests inside a connection, and `BatchInv` for the Connect command.
* `SubscribedTellsWaiters`: inductive with the types of `sub` and `sub_waiters` (`SubInv`).
* `ActorTyped`: `ActorTypeOK` is inductive only with the wire typed as well (`ActorTypes`), because the server
  records the channels that Subscribe commands name.
* `NoAttemptStranded`: while `resubscribe_all()` is under way, a channel it has still to go through is as good as one
  that has been seen to. `AttemptsInv` says so: on a working connection each Subscribing channel has a Subscribe in
  the table, a Resubscribe due, or is in `todo`. A connection that ends makes it void, every other step is gone
  through.
* `EveryCallerOwned`: `CallersOwned` counts places; `OwnedInv` names them: a requester has its answer and is
  nowhere, or is in exactly one channel's `subscribe_waiters`, or in exactly one entry of the table. One lemma,
  `Settled`, covers every handler that answers: whoever gives up a set of places and answers those held
  there keeps it. The table's Subscribes name channels (`SubscribesNamed`), which a success needs.
* `ClientAgreesWithServer`, assuming `UnsubscribeAnytime = FALSE`, `"unauthorized" \notin SubTokenOutcomes` and batches only
  while connected: `AgreesWithServer` speaks of quiet moments only, so the invariant says what will be true when the
  wire is quiet. A message *decides* about a channel when it confirms it (the reply to its pending Subscribe) or denies it
  (an unsubscribe push, a refusal for good). `Agreed`: the last deciding message still to be read confirms the
  channel if and only if the server holds it and no Unsubscribe for it is under way; where no message
  decides, the registry itself says so. It needs what `Orderly` says of the wire: an id is on it once (`Once`, `Apart`),
  commands match their entries in the table (`AllMatch`), and no Subscribe goes out before an Unsubscribe for
  its channel (`InTurn`), which is where `unsubscribe()` in flight would break it. One lemma per thing that can happen to
  the wire, then one per group of actions; off a connection `Nothing` is left. `AgreeInv` was model-checked in the
  setting of `actor_settled` before it was proved.

**The transport** (`WsTransport_proofs`), for every capacity:

* `TransportTyped`; `CommandsKept` and `FramesKept`: the queue, the hand of a task and the socket, put together, are the
  suffix still under way. Each move between neighbours leaves that sequence as it is (`Moves`, `Taken`, `Given`), and
  the ends only add or take. `FramesKept` needs that an actor that listens has not met a Close.
* `GivesUpSafely`: `GiveUpInv` follows the messages of the peer through every place they can be at: each was
  sent by it. With the tables of `Codes` (`MappedCode`, `ReconnectUnlessTerminal`), for every code and advice.

**Fossil delta** (`FossilDelta_proofs`), for data, deltas and command lists of any length:

* `ChecksumIsWordSum`: the checksum, four lanes shifted apart plus the bytes left over, is the sum of the big-endian
  words modulo 2^32. Wrapping addition is associative and commutative on the two halves, so lanes can be summed first.
* `ApplyDeltaType`: the decoder ends on every source and every delta, intact or damaged, with an error or a sequence
  of bytes. It ends because each turn of the loop moves on (`Command` never leads back).
* `DeltasDecode`: what the encoder writes for any list of copies and insertions decodes to its meaning. The argument
  is an invariant over the turns of the loop: after k turns the reader stands behind the k-th command
  and the output is the meaning of the first k. `RoundTrip` is its instance for the delta a server sends. Source and
  target are below 64 KiB, where lengths are cut in the model.

**Streams** (`Streams_proofs`, `StreamsPositions_proofs`), for every set of channels, payload, history size and bound on
publications, lost connections and the wire:

* `TypesCorrect`: `TypeOK` with the types of the wire and of the server (`TypeInv`), and of what a decoded delta can be
  (`ApplyDeltaType`).
* `RegistryTold`: `AppKnowsServerSubs`. The loops of connect result, loss and disconnect keep registry and last event
  together, entry by entry.
* `ConversationsHold`, and from it `GapsAreTold`, `ShownOnce`, `ShownAsPublished` and `RecoveryStartsWhereShown`. None
  of the four properties is inductive: whether the next publication leaves a gap depends on every message before
  it on the wire. The invariant looks at one channel at a time (`Of` projects a queue on it) and says what a
  conversation may look like: the messages on the wire, read in order, go on where the client is (`InOrder`),
  and where they end the server goes on (`UpToDate`); at most one attempt is under way, as a command, a reply or a
  Resubscribe (`Attempts`); the delta base of the client is the publication the server compares with. A step appends
  to such a sequence, takes its head or replaces both ends; there is one lemma for each way, for each kind of channel.
  `RoundTrip` is what makes a delta show what was published.
  These theorems are about a patient application and prompt resubscribes (`PatientApplication`,
  `PromptResubscribes`, two constants that are TRUE). Without the second the code does otherwise: `already_subscribed`.

Loops over data are recursive functions, and an invariant of a loop is proved by induction on its turns. The
induction theorems of the library take an operator, which the provers cannot instantiate; `LeastNumber` (a set of natural
numbers has a least member, from `NatLessThanWellFounded` and `WFMin`, which take sets) and `UpTo` take their place. That a
recursive definition has the function it describes is proved the same way (`AllPublishedUnfolds`, `OfUnfolds`).

Assumptions on constants are the named `ASSUME`s, which TLC evaluates in the passing runs. `StreamsAssumption` asks that
payloads are below 64 KiB and that client-side channels are finitely many, as a registry's are.
`ActorAssumption` asks that 0 is no command id: the counter starts at 1 and 0 marks a push. (That the counter comes round to 0
after 2^32 commands is among the hazards no property covers.)

**Only model-checked.** Liveness (temporal proofs under fairness and ENABLED are beyond the prover). That no prefix of a
delta is taken for one (`CutShort`), that a copy outside its source is refused, and the checks of `Backoff` and `Framing`.
Every invariant of a passing run is stated by a theorem; `RefreshedBeforeRetry`, `ConnectionWanted`,
`ImplementsClientStates`, `AgreesWithServer`, what batches are about and what `Streams` shows the application are proved only
under the assumptions above, which are those of their runs.

## 6. Not modelled

* Event streams: bounded queues filled with `try_send`. What a full one drops is lost while the stream offset moves
  on; nothing in the repository promises otherwise.
* `get_data`, join and leave, presence: they change the content of requests and events and no state.
* The refresh timers of connection and subscription tokens; a refresh may happen at any time instead.
* The bound of the command channel (256), and the loss of `try_send` commands when it is full.
* Server-side subscriptions on `close()`: the client is gone with them.
* Commands with no reply (`send`, pong).
* JSON and protobuf serialisation of one command or reply, TLS and the socket below tungstenite: libraries.
* Configuration builders, error types, crate root: data without behaviour. Logging and wording throughout.

## 7. Plan

1. `TokenTimers`: refresh timers of connection and subscriptions over reconnects, with expiry at the server;
   how timers multiply; a refreshed token under fairness; an error reply to Refresh.
2. The command channel with its bound, and a client task that follows the batching example of the
   repository's README (`await` of each `subscribe()` before `stop_batching()`).
3. Liveness of requests in `ConnectionActor`: each is answered by a reply, its timeout or the end of the
   connection.
4. Proofs: `CutShort`; the refinement of `ConnectionActor`'s wire by `WsTransport`.
