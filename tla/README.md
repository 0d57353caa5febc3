# Barbarossa in TLA+

A verification project for barbarossa, a device-side client of a "control
channel": a WAMP-like protocol over a websocket.  Paths below are relative to the
repository's root.

## The system

| part | source | state | operations |
|---|---|---|---|
| Session | `include/barbarossa/session.ipp`, `.hpp` | `state_`, `session_id_`, `transport_`, the promises `joined_`, `leaved_`, `pong_received_`, the heartbeat thread | `Join`, `Listen`, `Leave`, `OnAttach`, `OnDetach`, `OnMessage` and the `Process...Message` handlers, `HearbeatController` |
| Transport | `include/barbarossa/transport.hpp` | none (interface) | `Connect`, `Disconnect`, `SendMessage`, `Attach`, `Detach` |
| WebSocketTransport | `include/barbarossa/websocket_transport.ipp` | `open_`, `done_`, `connected_`, `handler_`, `thread_` | the interface, the websocketpp callbacks, the destructor |
| Messages | `include/barbarossa/message.ipp`, `protocol.hpp`, `protocol_details.hpp`, `message_type.hpp` | none | fields with checked access; a class per message, and one for the details of a WELCOME, with `to_json` and `from_json` |
| Program | `src/main.cpp` | the `io_context` | wires the parts, handles exceptions and signals, destroys them |
| Earlier client | `spikes/statemachine/websocket.hpp` | `state_` behind a mutex, the connection, two threads | `Run`, `Handler`, the callbacks, the destructor |
| State machine spike | `spikes/statemachine/main.cpp` | a `std::variant` | |
| Documents | `docs/*.md` | | the intended state machine |

Three threads meet in one `Session` object.  The thread of `main()` attaches,
connects, joins, listens, detaches and destroys.  The io thread, which the
transport's constructor starts, runs the `io_context`: websocketpp's callbacks
(which call `OnMessage`), the lambdas that `Join` and the heartbeat post with
`asio::dispatch`, and the signal handler, which calls `Leave`.  The heartbeat
thread is started by WELCOME.  They talk through promises, which may be set once,
and through plain members, most of them without a lock.  An exception that
leaves a thread ends the process.

What is hard about it: one promise serves all rounds of the heartbeat; timeouts
race answers; a promise set twice throws; the close callback does not tell the
session; `main()` detaches and destroys while the io thread and the heartbeat run, and
nothing keeps the session alive for a message handler; some joins are made on the very thread that is joined.  The earlier client looks at
its state, sends and writes the state back in three steps, between which callbacks
write it too.  `PROJECT.json` lists the hazards with their lines and the
properties about them.

What makes each part correct: Join returns the id of a session that is established
and has its heartbeat, and ids and rounds are never confused; a transport's flags say
what websocketpp would say, and its waits end; the program ends when its connection or
its user does, with nothing left running; a message is read as it was written.

## Modules

| module | models | checked and proved in |
|---|---|---|
| `Session` | the session, with the calls of `main()`, the heartbeat, the server and the network | `compliant`, `rogue`, claims |
| `Lifecycle` | what a session promises its user (abstract) | refined by `Session` |
| `Link` | the life of a connection as the code above a transport may see it (abstract) | refined by `WebSocketTransport` |
| `WebSocketTransport` | the transport and its io thread | `transport`, a claim |
| `Client` | `main()` with one `Session` on one `WebSocketTransport` | `client` |
| `Protocol` | the JSON of all messages and of the WELCOME details, their readers and writers | used by `Exchange` |
| `Exchange` | one message or details object written, perhaps in part, and read | `exchange` |
| `Endpoint` | the earlier client | `endpoint`, a claim |
| `SessionProofs`, `RoundProofs`, `HealthProofs`, `AnswerProofs` | theorems about `Session`, each module on top of the one before | TLAPS |
| `TransportProofs`, `ClientProofs`, `EndpointProofs`, `ExchangeProofs` | theorems about the modules they name; `ClientProofs` uses those about `Session` and `WebSocketTransport` | TLAPS |

### Session

The variables carry the members' names (`joined`, `leaved` and `pong` are the
promises; `sessionId` is `session_id_`).  `caller`, `io` and `beat` are the
positions of the three threads; a step of the model is what a thread does between
two accesses to something another thread can touch.

* `Connect` is the transport's: a callback settles the connection
  (`ConnectSettles`) and the calling thread learns of it later (`ConnectReturns`).
* `Join` is `JoinEnsureState`, `JoinDispatch`, and `JoinReturns` or `JoinTimesOut`.
* A lambda is taken (`TakeLambda`), does its work (`JoinLambda` or `PingLambda`,
  `Transmit`, `FailLeaved`) and returns (`LambdaReturns`); meanwhile it owns the
  session.
* A message is received in steps, as the transport does it: `RecvMessage` tests
  `handler_`, and after the message is parsed `OnMessage` calls the handler, or, if
  `main()` has reset `handler_` in between, goes through a null pointer (`NoHandler`).
  The message stays in `io` until a `Process...Message` action (or `OnOtherMessage`)
  has handled it.  `ProcessWelcomeMessage` writes `state_`, `StartHeartbeat` starts the
  thread, `KeepId` writes `session_id_` and `AnswerJoin` sets `joined_`; anything may
  come in between, also the end of `main()`.  The operation of a CALL runs between
  `OnMessage` and `ProcessCallMessage`.  A reply is sent by `Transmit`.
* `SendMessage` is split between its checks and the transport's send because
  `OnDetach` and the end of the connection can come in between.
* `Leave` settles its promise and `LeaveDisconnect` calls the transport;
  `OnDetach` and `HandlerReset` are the two halves of the transport's `Detach`.
* `main()` drops its owner in `Release`.  If a lambda is running, that one is the last
  owner, and `LambdaDestroys` is `~Session` on the io thread; otherwise `Destroy` is.
  A message handler and the signal handler own nothing: if they run on when the
  session is gone, that is undefined, and the model lets them go on as if it were there
  or end the process (`UseDestroyed`).
* A round of the heartbeat is `BeatPing`, possibly `PongTimesOut` and `BeatExpires`,
  and `BeatVerdict`: the end of the four seconds and `set_value(false)` are two
  steps, and a pong fits between them.

`fault` records an exception that leaves a thread, after which only `Ended`
is possible.  `SetJoined`, `SetLeaved` and `SetPong` are `set_value` and
`set_exception` of `std::promise`.

The server is the environment.  It answers or ignores HELLO and PING, issues up
to `MaxCalls` CALLs once it has sent a WELCOME, and up to `MaxRogue` messages
whose kind is in `Unsolicited`, at any time.  `CALL_UNKNOWN` names an operation
that is not registered, `CALL_THROWS` one whose function throws; `FORBIDDEN` is
HELLO, PING or RESULT, `MALFORMED` any message that makes a field access throw,
`IGNORED` one of the types that OnMessage drops, `EMPTY` the empty array.
`Protocol!OnMessage` computes these branches from the fields.  The
session id 0 stands for an id that `Field<uint32_t>` reads as 0.

Abstractions: a message that arrives without a handler is dropped by the transport;
the model leaves it in `inbox`, where nothing reads it again.  Messages stop moving
when the link is no longer open.  Copies of the `std::promise` that replaces
`pong_received_` are not distinguished.  The time limits (16, 20 and 4 seconds) are
choices: any of them may run out before any answer.

`Lifecycle` tells the same story without threads, messages or a link: Join is
answered once, by an id or an error; before it is answered by an id the session is
established, its heartbeat begins and it is given the id, in this order and in steps of
their own; an error comes only to a session that is not established; Listen is answered
once; a heartbeat that has ended does not begin again; the process may end at any
moment.  `ImplementsLifecycle` is `Session` seen through a mapping: the four positions
of a running heartbeat are one, and a process that has ended by a fault shows nothing
(`Shown`).

### WebSocketTransport and Link

`WebSocketTransport` has the members of the class, websocketpp's connection (`conn`)
and the position of the user's thread and of the io thread.  `OnClientFail` is two
steps because it releases `Connect` before it sets `done_`; `OnClientMessage` tests
`handler_` and `RecvMessage` uses it; `Leave` and `LeaveDisconnect` are the signal
handler; `Disconnect` is two steps around the join in `StopClient`.  An error on the
io thread ends the process.  `SendMessage` changes nothing in the transport; it is
`Session!Transmit`.  A call that the code refuses with `std::logic_error` on the
user's side changes nothing and is no step.  One connection is made per transport,
as in `main()`.

`Link` is what both agree on: none, open, closing, closed, or failed.
`WebSocketTransport!link` computes it from the flags, the promise and `conn`, and is
shown to implement `Link`; `Session` keeps `link` as a variable of its environment, and
in `Client` the transport's takes its place.

### Client

`Client` has the variables of both, less the link of the session, which is what the
transport's flags say.  Each of its steps is a step of `Session`, of
`WebSocketTransport`, or one of each at once: `Attach`, `Detach`, `ConnectReturns`,
the callbacks, a message and the signal handler pass through both objects.  What
`Client` adds is which go together, that the io thread is in one callback at a time,
and the end of `main()`'s scope: the session is destroyed (`Release`, `Destroy`)
before the transport.  `HandleMessage` is what the session's handlers do on the io
thread, also after `main()` has left.  Since the steps of the parts are used whole, that both agree
(a callback of the one is enabled when the other is ready for it) is what the
properties `ImplementsSession` and `ImplementsTransport`, the absence of deadlocks
and the liveness properties check.

### Protocol and Exchange

A message class is the sequence of its members; `Encode` is `to_json`, `Decode` is
`from_json`, which reads by unchecked index, so that what it makes of a short array is
"undefined": any value, or the end of the process.
`Field` is the checked access of `message.ipp`.  `WelcomeDetails` is an object with
four keys, read one after another with `at()`.  Numbers are converted with their
width: `Half` is 2^31 in the code and 32 in the runs, the smallest power of two
above the largest message type.  `Exchange` writes every message of the classes
and of `Session` and every object of details, cuts the message to any length (`Cut`),
and reads it with both readers (`Read`) or as details (`ReadDetails`).

### Endpoint

The earlier client has a user, who constructs it, calls `Run` once and destroys it;
the handler thread, which polls the state every second, sends HELLO and every
`PingEvery` polls a ping; and websocketpp's io thread with its callbacks.  The mutex
protects one access of `state_`, so a turn of the handler is `Poll`, which takes a
copy of the state, `SendHello` or `SendPing`, and `SetGreeted`.  `OnMessage` parses
in any state and looks at the message only after HELLO.  The server sends what it
likes: not JSON at all (`GARBLED`), a field of another type (`MISTYPED`), which throws,
or a WELCOME or ABORT that lacks a field (`CUT_...`), whose end is read past, which is
undefined and so either goes unnoticed or ends the process.

## Runs

| run | bounds | shows |
|---|---|---|
| `compliant` | ids {1, 2}, 2 CALLs, no rogue message | `TypeOK`; `RoundsDoNotOverlap`: at most one ping or pong is under way, none between rounds; `HealthyNoFault`: nothing is raised while nothing disturbs the session; `RepliesInOrder`: one reply per CALL, in order; `JoinAnsweredOnce`: one HELLO or answer to it is under way, and none once `joined_` is set; `WaitsAreServed`: whoever waits is waited for by a thread that will release it |
| `rogue` | ids {0, 1}, 1 throwing CALL, 2 rogue messages of any kind, spurious wake-ups | `SessionAgreesWithJoin`: state, id, promise and heartbeat agree although they are written in separate steps; `SessionIdStable`; `ImplementsLifecycle` |
| `client` | 1 id, 1 CALL, 1 rogue PONG or empty message | `ImplementsSession` and `ImplementsTransport`; `ExitIsQuiet`: no thread survives `main()`, but for a heartbeat that WELCOME starts after Join has failed; `ClosedIsNoticed`: Listen ends after a loss; `LossEndsProcess`: no thread waits for ever after a loss or a signal |
| `transport` | one connection | `TypeOK`; `GoneIsQuiet`, `ConnectedIsOpen`, `WaitsAreServed`, `ImplementsLink`, and that the waits of `Connect`, `Disconnect` and the destructor end |
| `exchange` | all messages over 2 strings, 2 objects, 6-bit integers; details with the extreme times and 0 | `RoundTrip`, `SessionReadsAnswers` |
| `endpoint` | a ping every 2 polls (30 in the code), 2 messages of any kind | `TypeOK`; `RegisteredIsLive`, `PingsFollowWelcome`: what a registered client has done and has; `RunEndsConnection`: `Run` leaves no open connection to the destructor; `LossEndsRun` and `DestructorReturns` |

`RepliesInOrder` looks along the path from the server's end (`Path`: the wire, the
message in the io thread's hands, the inbox): the CALLs that are not answered yet,
and their replies, stand there in the order of their numbers, none twice and none
missing.  `WaitsAreServed` is the safety half of the liveness properties: a wait
without anybody left who could end it is a state, and needs no fairness to be found.

Two CALLs are the fewest that can be reordered; two rogue messages let
one open a hole and another use it (WELCOME twice, ABORT after WELCOME, a stale
PONG and an answer).  The number of heartbeat rounds is not bounded: the promise is
reset in each, so the states recur; so do the rounds of `Endpoint`.  In `client` the
rogue message is one that the session survives for a while, which leaves the longer
lives to the liveness properties; the others end the process at once and are in
`rogue`.  Two messages suffice for `Endpoint`, which keeps nothing of a message but
the state it leads to.

`Session` and `Client` have an explicit end and are checked for deadlock.
`Transport.cfg`, `Endpoint.cfg` and `Exchange.cfg` do not check it: a transport or an
endpoint whose user calls nothing more and a message that has been read are
legitimate ends; the same goes for the two claims about the first two.

Fairness.  `Session` has none: its liveness is that of the program.  In `Client` the
thread of `main()`, the io thread and the heartbeat take the steps they can
(operating system threads; clocks advance), and a websocket handshake, opening or
closing, ends one way or the other (websocketpp has a timer for each).  Nothing is
asked of the server, the network or the user with his signals.  The run excludes
spurious wake-ups: the code waits on its condition variable without a predicate, so
such a wake-up silently ends the heartbeat, and after it nothing tells Listen of a
loss.  In `WebSocketTransport` and `Endpoint` a call that has begun goes on, the
threads run, and handshakes end; no call is owed.  `OtherWork` is FALSE in
`transport`: with other work in the `io_context`, such as the `signal_set` of `main()`
(TRUE in `Client`), the join in `StopClient` ends only after `io_context.stop()`.

### Where code and text disagree

Each claim run checks one sentence of the repository and finds a counterexample:

* `FailuresAreThrown`: a loss while `Join` waits ends it by a sliced `std::exception`,
  which `main()` does not catch.  That is the shortest trace; the following are longer
  ones to the same property, each with a compliant server and no signal.
    * `main()` resets `transport_` between the null check and its use in `SendMessage`
      (`session.ipp:194`, `:205`).
    * `Detach` resets `handler_` between the test and the call
      (`websocket_transport.ipp:281`, `:304`).
    * A pong that comes between the end of the four seconds and `set_value(false)` makes
      the heartbeat set the promise twice (`session.ipp:324`, `:327`).
    * A ping that cannot be sent makes the lambda and the heartbeat both set `leaved_`,
      and the process ends instead of Listen (`session.ipp:310`, `:334`).
* `AbortIsHandled`: ABORT in an established session sets `joined_` twice and ends the process.
* `LeaveIsRegular`: `Leave` runs on the io thread and joins it, inside a `noexcept` function.
* `HeartbeatEndsWithSession`: `~Session` joins no heartbeat, and the io thread, still in
  `ProcessWelcomeMessage`, starts it afterwards.  `io_context.run()` of `main()` does not
  prevent it: on a stopped context it returns at once and waits for no handler.
* `DestructorWaits`: after a close by the server the destructor does not wait, and
  destroys a joinable thread.
* `CloseStopsClient`: the handler of the earlier client overwrites the state that
  `OnClose` has written, and polls for ever.

Three more were met while modelling and have no run.  `PongMessage` is written with the
type of a ping (`protocol.hpp:391`, against `:356`); `Encode` does the same.
`HelloMessage` reads a third element (`protocol.hpp:112`) of the HELLO that `Session`
writes with two (`session.ipp:52`); what that yields is undefined.  And a caller of
`Disconnect` waits for ever if its `io_context` has other work, as that of `main()` has
(`websocket_transport.ipp:271`); `main()` itself calls it only through `Leave`.

## Proofs

The theorems hold for every value of the constants: any session ids, CALLs, messages
out of turn and bounds, any other work of the `io_context`, any strings, objects and
integer width, any ping interval.  They assume the named assumptions of the modules
(`SessionConstants`, `TransportConstants`, `ProtocolConstants`, `EndpointConstants`)
and what their statements say.

`SessionProofs`:

* `TypeCorrect`: `Spec => []TypeOK`, which is inductive as it stands.  The lemmas
  type the sets of records, the operations on promises and queues, and
  `SendMessage`; `TypeStep` has one step per action.
* `SessionAgrees`: `Spec => []SessionAgreesWithJoin`.  It is not inductive: nothing in
  it says that Join, when it sets `state_` to establishing, finds no session to
  overwrite, nor what `ProcessWelcomeMessage` has written at each of its steps.
  `SessionInv` adds both.  `OthersKeepSession` shows that only `JoinEnsureState` and
  `ProcessWelcomeMessage` do more to the session than put an error into `joined_`.
* `IdNeverChanges`: `Spec => SessionIdStable`, from `SessionInv`: a WELCOME changes
  the id only in state establishing, where there is none.
* `SessionLifecycle`: the refinement of `Lifecycle`, from `SessionInv`.  `LifeSteps`
  sorts the actions by what they do to the mapped state; a step that ends the process
  maps to `Lose`.

`RoundProofs`, for a server that sends a PONG only in answer to a PING:

* `RoundsAreApart`: `RoundsDoNotOverlap`.  `RoundInv` says where the one ping or pong
  may be (`OnePlace`) and when it is nowhere.  A step is calm if it moves none and
  leaves the round as it is (`CalmStep`); the lemmas show which actions are, and the
  proof takes the others one by one.

`HealthProofs`, for a `Compliant` server:

* `HealthyRuns`: `HealthyNoFault`.  `HealthInv` adds, for a session that nothing has
  disturbed, the course of its life: which positions the threads may be in together,
  that HELLO is one token on its way from `Join` to WELCOME, and that CALLs follow
  the WELCOME in the inbox.  It uses `RoundInv`: a pong that comes in its own round
  finds the promise unset.

`AnswerProofs`, for any server unless said otherwise:

* `WaitsEnd`: `WaitsAreServed`.  `WaitInv` says why each wait is served: nothing but
  Leave runs, and nothing is stopped, before there is a link; a heartbeat ends with a
  word to Listen; `main()` detaches after it has stopped the `io_context` or because
  Leave has told it to.  That Listen has a heartbeat at all is `SessionInv`.  `Busy`
  is what all steps but those of the caller and Leave have in common.
* `JoinIsAnsweredOnce`: `JoinAnsweredOnce`, for a server that sends WELCOME and ABORT
  only in answer to HELLO.  `AskInv` says that HELLO or its answer is in one place and
  there once.  `HealthInv` says as much of an undisturbed session, from where its
  `caller` is; here Join may have given up, and the connection may have gone.
* `CallsAreAnswered`: `RepliesInOrder`.  `OrderInv` has the order and the numbers of
  each part of `Path` on its own, and how the parts follow one another, because a
  step changes the ends of one or two parts.  `DueTaken` and `DueAdded` say what
  taking the head of a queue and appending to it do to the numbers in it, without a
  filter and so without induction; `DueJoined` and `DueAround` put the parts together
  again.  It holds of the sessions that can still have an open link (`Connectable`);
  the rest of the life of the others is not about replies.
* `EndInv`, used by `ExitsQuietly`: how `main()` comes to destroy the session.  What
  Listen reports, or the error of a Connect that failed, comes to a session that Join has
  answered by an id or that is closed, so that no WELCOME can start a heartbeat any more,
  and its heartbeat has ended when the session goes.  Only where Join has timed out or
  was refused may the io thread still be in `ProcessWelcomeMessage`.

`TransportProofs`: `TypeCorrect`, `DestructorIsSafe`, `ConnectedAgrees` and
`TransportIsLink` follow from `TransportInv`, which says what the three flags are
(`FlagsFollowConnection`) and what the threads may be doing
(`ThreadsFollowConnection`) in each state of websocketpp's connection.
`TransportIsLink` is a refinement: the mapping computes a link from the flags and
the connection, and each step is a step of `Link` or a stutter.  `WaitsEnd` needs
`UserWaits` besides: what the user's thread has told the io thread before it waits.

`ClientProofs`: `ClientIsTransport` and `ClientIsSession` show that the program is a
run of each part: `main()` calls the transport only when it may, and the transport
gives the session the connection, the callbacks and the end that `Session` takes for
granted.  `ClientInv` says that
`main()` is in no call of the transport while it uses the session, which thread has
ended before which object goes, and which connections were never open; the last is
needed because `OnClientFail` leaves `connected_` alone when `open_` is set.
`ExitsQuietly` is about the end: the transport's destructor joins an io thread that is
in nothing of the session's (`QuietInv`), and `EndInv` of `AnswerProofs` has the heartbeat
ended.  With the two refinements the theorems about
the parts are theorems about the program, for constants that satisfy
`SessionConstants`: `ProgramKeepsSession`, `ProgramWaitsEnd` and, with a `Compliant`
server, `ProgramIsHealthy`.  They cite the theorems of `AnswerProofs` and
`TransportProofs` through instances of these modules (`AS`, `AT`); `SameSession` and
`SameTransport` say that what is instantiated there is the specification that
`Client` instantiates as `S` and `T`.

`EndpointProofs`: `TypeCorrect`, `RegisteredAgrees` and `PingsAgree` from
`EndpointInv`, which says what each value of the state means for the connection, and
what the handler thread knows at each of its steps although the state may have
changed meanwhile.  `RunIsOver` is `RunEndsConnection`, from `RunInv`: the handler is
done only when the connection is over or about to be.  It follows that the destructor
never has an open connection to close, whatever the state says.

`ExchangeProofs`: `WholeIsRead` and `AnswersAreRead` are the two properties of `Exchange`
for any `Half` greater than 21, hence for 32-bit integers.  `Widths` is the arithmetic of
the casts; `DecodesWhole` says what `from_json` makes of a whole array.

Checked by TLC only: the liveness properties (`ConnectReturning`,
`DisconnectReturning`, `DestroyReturning`, `ClosedIsNoticed`, `LossEndsProcess`,
`LossEndsRun`, `DestructorReturns`), which rest on fairness and `ENABLED` and are out
of the prover's reach.  Their safety half, `WaitsAreServed` and `RunEndsConnection`,
is proved.  Every invariant and every action property of the runs is a theorem.

## Not modelled

* `spikes/statemachine/main.cpp` shows how a `std::variant` serves as a state
  machine: two states, one thread, no input; it does not use the earlier client.
* Documents: text about an intended state machine.  It is compared with the code
  where a claim quotes it.
* `main()` runs the `io_context` itself after `Detach`.  Handlers are given to the io
  thread alone, which is where they are in practice until `stop()`; the second thread
  could take them only when Listen ended by a signal, between the two statements of
  `Leave` and `stop()`; `main()` then waits in `Release` until `stopped`.
* `get_connection` refusing the URI in `Connect`, which throws before anything is
  changed.
* The TLS setup, logging, formatting, the contents of calls and results, and the zmq
  socket of the earlier client, which is bound and never read.

## Plan

Done: `Session`, `Lifecycle`, `Link`, `WebSocketTransport`, `Client`, `Protocol`,
`Exchange`, `Endpoint`, and the theorems above.  `Client` has replaced what `Session`
took from the transport by contract.

Left: a second connection per transport, should the program come to reconnect, as its
TODOs say.
