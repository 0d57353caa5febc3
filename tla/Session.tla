------------------------------- MODULE Session -------------------------------
(***************************************************************************)
(* The control channel session (include/barbarossa/session.hpp and .ipp):  *)
(* one Session object, shared by three threads.                            *)
(*                                                                         *)
(*   caller     the thread that runs main(): it attaches the session, calls *)
(*              Join and Listen, detaches and destroys it                  *)
(*   io         the thread that runs the io_context: websocketpp's message  *)
(*              callback, the lambdas posted by asio::dispatch, and the     *)
(*              signal handler that calls Leave                            *)
(*   heartbeat  HearbeatController, started by the WELCOME message          *)
(*                                                                         *)
(* A step is what a thread does between two accesses to state that another  *)
(* thread can touch; a handler or lambda that the io thread is in is kept   *)
(* in "io", since main() does not wait for it.  std::promise is a cell that *)
(* is written once: writing it again throws std::future_error, and an       *)
(* exception that leaves a thread ends the process (std::terminate):        *)
(* "fault" records who raised what.  Nothing keeps the session alive for a  *)
(* message handler: one that runs on after ~Session is undefined behaviour, *)
(* here any step it could have taken, or the end of the process.            *)
(*                                                                         *)
(* The transport is reduced to what the session sees of it: whether the    *)
(* link is up.  The server is the environment: it follows the protocol, and *)
(* besides sends any message whose type is in Unsolicited.                 *)
(***************************************************************************)
EXTENDS Naturals, Sequences

CONSTANTS
  SessionIds,   \* session ids that a WELCOME may carry
  CallTypes,    \* kinds of CALL the server issues
  Unsolicited,  \* types of message the server may send out of turn
  MaxCalls,     \* bound: number of CALLs the server issues
  MaxRogue,     \* bound: number of messages sent out of turn
  Spurious      \* may the condition variable wake up without a notify?

CallKinds  == {"CALL", "CALL_UNKNOWN", "CALL_THROWS"}
RogueKinds == {"WELCOME", "ABORT", "PONG", "FORBIDDEN", "IGNORED", "EMPTY",
               "MALFORMED"}

ASSUME SessionConstants ==
  /\ SessionIds \subseteq Nat
  /\ CallTypes \subseteq CallKinds
  /\ Unsolicited \subseteq RogueKinds
  /\ MaxCalls \in Nat
  /\ MaxRogue \in Nat
  /\ Spurious \in BOOLEAN

VARIABLES
  state,      \* state_
  sessionId,  \* session_id_
  joined,     \* joined_: what it holds, and the id it was set to
  leaved,     \* leaved_
  pong,       \* pong_received_
  attached,   \* is transport_ set?
  caller,     \* control state of the calling thread
  outcome,    \* how Connect, Join or Listen ended for the caller
  beat,       \* control state of the heartbeat thread
  io,         \* the message the io thread handles or sends, or its control state
  posted,     \* lambdas posted to the io_context and not yet run
  link,       \* the websocket connection
  wire,       \* messages on their way to the server
  inbox,      \* messages on their way to the client
  welcomed,   \* has the server sent a WELCOME in answer to HELLO?
  issued,     \* number of CALLs the server has issued
  rogue,      \* number of messages the server has sent out of turn
  answered,   \* number of replies the server has received
  signalled,  \* has the signal handler been called?
  stopped,    \* has io_context.stop() been called?
  fault       \* the exception that ended the process

object   == <<state, sessionId, attached>>
promises == <<joined, leaved, pong>>
main     == <<caller, outcome>>
signals  == <<signalled, stopped>>
client   == <<object, promises, main, beat, io, posted, signals, fault>>
server   == <<welcomed, issued, rogue, answered>>
network  == <<link, wire, inbox, server>>
vars == <<object, promises, main, beat, io, posted, network, signals, fault>>

----------------------------------------------------------------------------
(* Messages.  The id is the session id of a WELCOME and the request id of a *)
(* CALL, RESULT or ERROR; it is 0 in the other messages.  What the io thread *)
(* is doing is written in the same way.                                    *)

Msg(type, id) == [type |-> type, id |-> id]

ClientTypes == {"HELLO", "PING", "RESULT", "ERROR"}
Lambdas     == {"JOIN", "BEAT"}   \* Join's, and the heartbeat's for a ping
ServerTypes == RogueKinds \cup CallKinds

Idle       == Msg("IDLE", 0)
Failing    == Msg("FAILING", 0)      \* in the ping lambda's catch block
Returning  == Msg("RETURNING", 0)    \* at the end of a lambda
Destroying == Msg("DESTROYING", 0)   \* in ~Session, called by a lambda
Leaving    == Msg("LEAVING", 0)      \* in Leave(), before Disconnect()
Parsing    == Msg("PARSING", 0)      \* in RecvMessage(), after the test of handler_

\* In ProcessWelcomeMessage: before the heartbeat is started, session_id_ is
\* written, joined_ is set.
Welcoming == {"STARTING", "NAMING", "ANSWERING"}

ClientMessages == [type : ClientTypes, id : Nat]
ServerMessages == [type : ServerTypes, id : Nat]
LambdaMessages == [type : Lambdas, id : {0}]
WelcomeSteps   == [type : Welcoming, id : Nat]
IoStates       == ClientMessages \cup ServerMessages \cup WelcomeSteps
                    \cup LambdaMessages \cup {Idle, Failing, Returning, Destroying, Leaving, Parsing}

\* The positions of q that hold a message of type t.
At(q, t) == {i \in DOMAIN q : q[i].type = t}

----------------------------------------------------------------------------
(* Promises and exceptions.                                                *)

Errors  == {"none", "promise_already_satisfied", "bad_weak_ptr", "null transport",
            "null handler", "already disconnected", "thread joins itself",
            "close refused", "NetworkError", "NoSessionError", "ProtocolError",
            "out_of_range", "operation", "protocol", "exception", "logic",
            "destroyed session"}
Faults  == [thread : {"none", "caller", "io", "heartbeat"}, error : Errors]
NoFault == [thread |-> "none", error |-> "none"]
Terminate(thread, error) == fault' = [thread |-> thread, error |-> error]

\* Fault: the promise may be set again.
SetLeavedAgain(thread, v) == leaved' = v /\ UNCHANGED fault

SetPong(thread, v) ==
  IF pong = "unset" THEN pong' = v /\ UNCHANGED fault
  ELSE Terminate(thread, "promise_already_satisfied") /\ UNCHANGED pong

SetLeaved(thread, v) ==
  IF leaved = "unset" THEN leaved' = v /\ UNCHANGED fault
  ELSE Terminate(thread, "promise_already_satisfied") /\ UNCHANGED leaved

SetJoined(v, id) ==
  IF joined.is = "unset" THEN joined' = [is |-> v, id |-> id] /\ UNCHANGED fault
  ELSE Terminate("io", "promise_already_satisfied") /\ UNCHANGED joined

----------------------------------------------------------------------------
(* Owners.  main() owns the session until it drops its shared_ptr, a lambda  *)
(* while it runs; a message handler and the signal handler own nothing.      *)

LambdaRuns == io.type \in Lambdas \cup {"HELLO", "PING", "FAILING", "RETURNING"}
NoOwner    == caller \in {"destroying", "destroyed"} /\ ~LambdaRuns
Gone       == caller = "destroyed" /\ ~LambdaRuns /\ io # Destroying

\* The io thread or the heartbeat is about to use a session that is gone.
UseDestroyed ==
  /\ Gone
  /\ \/ io.type \in ServerTypes \cup Welcoming \cup {"RESULT", "ERROR", "LEAVING"}
        /\ Terminate("io", "destroyed session")
     \/ beat \notin {"off", "done"} /\ Terminate("heartbeat", "destroyed session")
  /\ UNCHANGED <<object, promises, main, beat, io, posted, network, signals>>

----------------------------------------------------------------------------
(* Sending, on the io thread.                                              *)

IsConnected == link \in {"open", "closing"}

\* A NetworkError leaves SendMessage(m): Join's lambda stores it in joined_,
\* the ping lambda's catch block begins, ProcessCallMessage does not catch it.
NetworkFailure(m) ==
  CASE m.type = "HELLO" ->
         SetJoined("exception", 0) /\ io' = Returning /\ UNCHANGED pong
    [] m.type = "PING" ->
         SetPong("io", "false") /\ io' = Failing /\ UNCHANGED joined
    [] OTHER ->
         Terminate("io", "NetworkError") /\ UNCHANGED <<joined, pong, io>>

\* Session::SendMessage up to its last statement: the checks.
SendMessage(m) ==
  \/ /\ ~attached \/ ~IsConnected
     /\ NetworkFailure(m)
  \/ /\ attached /\ IsConnected
     /\ m.type # "HELLO" /\ sessionId = 0
     /\ Terminate("io", "NoSessionError")
     /\ UNCHANGED <<joined, pong, io>>
  \/ /\ attached /\ IsConnected
     /\ m.type = "HELLO" \/ sessionId # 0
     /\ io' = m
     /\ UNCHANGED <<joined, pong, fault>>

\* Its last statement, transport_->SendMessage(m): websocketpp refuses a
\* message once the close handshake has begun.
Transmit ==
  /\ io.type \in ClientTypes
  /\ \/ /\ ~attached
        /\ Terminate("io", "null transport")
        /\ UNCHANGED <<joined, pong, io, wire>>
     \/ /\ attached /\ link = "open"
        /\ wire' = Append(wire, io)
        /\ io' = IF LambdaRuns THEN Returning ELSE Idle
        /\ UNCHANGED <<joined, pong, fault>>
     \/ /\ attached /\ link # "open"
        /\ NetworkFailure(io)
        /\ UNCHANGED wire
  /\ UNCHANGED <<object, leaved, main, beat, posted, link, inbox, server,
                 signals>>

\* The rest of the ping lambda's catch block.
FailLeaved ==
  /\ io = Failing
  /\ SetLeaved("io", "network")
  /\ io' = Returning
  /\ UNCHANGED <<object, joined, pong, main, beat, posted, network, signals>>

----------------------------------------------------------------------------
(* Lambdas run by the io_context.  weak_self.lock() succeeds in each: they  *)
(* are taken before stop(), and the last owner of the session goes after it. *)

TakeLambda ==
  /\ io = Idle /\ ~stopped
  /\ posted # <<>>
  /\ io' = Head(posted)
  /\ posted' = Tail(posted)
  /\ UNCHANGED <<object, promises, main, beat, network, signals, fault>>

JoinLambda ==
  /\ io.type = "JOIN"
  /\ IF sessionId # 0 THEN SetJoined("logic", 0) /\ io' = Returning /\ UNCHANGED pong
                      ELSE SendMessage(Msg("HELLO", 0))
  /\ UNCHANGED <<object, leaved, main, beat, posted, network, signals>>

PingLambda ==
  /\ io.type = "BEAT"
  /\ SendMessage(Msg("PING", 0))
  /\ UNCHANGED <<object, leaved, main, beat, posted, network, signals>>

\* shared_self goes.  If main() has dropped its own, ~Session runs here, and joins
\* the heartbeat thread.
LambdaReturns ==
  /\ io = Returning
  /\ io' = IF caller = "destroyed" THEN Destroying ELSE Idle
  /\ UNCHANGED <<object, promises, main, beat, posted, network, signals, fault>>

LambdaDestroys ==
  /\ io = Destroying
  /\ beat \in {"off", "done"}
  /\ io' = Idle
  /\ UNCHANGED <<object, promises, main, beat, posted, network, signals, fault>>

----------------------------------------------------------------------------
(* Messages.  RecvMessage tests handler_, parses the message, and calls       *)
(* OnMessage; main() may reset handler_ in between, and detach and destroy the *)
(* session while the handler runs.                                         *)

HasHandler == caller \notin {"new", "detached", "destroying", "destroyed"}

RecvMessage ==
  /\ io = Idle /\ ~stopped
  /\ link = "open"
  /\ HasHandler
  /\ inbox # <<>>
  /\ io' = Parsing
  /\ UNCHANGED <<object, promises, main, beat, posted, network, signals, fault>>

NoHandler ==
  /\ io = Parsing /\ ~HasHandler
  /\ Terminate("io", "null handler")
  /\ UNCHANGED <<object, promises, main, beat, io, posted, network, signals>>

OnMessage ==
  /\ io = Parsing /\ HasHandler
  /\ inbox # <<>>
  /\ io' = Head(inbox)
  /\ inbox' = Tail(inbox)
  /\ UNCHANGED <<object, promises, main, beat, posted, link, wire, server, signals,
                 fault>>

WelcomeIf(expected) ==
  /\ io.type = "WELCOME"
  /\ \/ /\ ~expected
        /\ Terminate("io", "ProtocolError")
        /\ UNCHANGED <<state, io>>
     \/ /\ expected
        /\ state' = "established"
        /\ io' = Msg("STARTING", io.id)
        /\ UNCHANGED fault
  /\ UNCHANGED <<sessionId, attached, promises, main, beat, posted, network, signals>>

\* Fault: the state of the session is not checked.
WelcomeAtAnyTime == WelcomeIf(TRUE)

\* The test of state_ and its assignment are one step: once it is ESTABLISHING no
\* other thread writes it.
ProcessWelcomeMessage == WelcomeIf(state = "establishing")

StartHeartbeat ==
  /\ io.type = "STARTING"
  /\ beat' = "sleep"
  /\ io' = Msg("NAMING", io.id)
  /\ UNCHANGED <<object, promises, main, posted, network, signals, fault>>

\* Fault: the promise is set before the id is kept.
NameLate ==
  /\ io.type = "NAMING"
  /\ SetJoined("id", io.id)
  /\ io' = Msg("ANSWERING", io.id)
  /\ UNCHANGED <<object, leaved, pong, main, beat, posted, network, signals>>

\* Fault: the session id is not kept.
NameForgotten ==
  /\ io.type = "NAMING"
  /\ io' = Msg("ANSWERING", io.id)
  /\ UNCHANGED <<object, promises, main, beat, posted, network, signals, fault>>

KeepId ==
  /\ io.type = "NAMING"
  /\ sessionId' = io.id
  /\ io' = Msg("ANSWERING", io.id)
  /\ UNCHANGED <<state, attached, promises, main, beat, posted, network, signals,
                 fault>>

AnswerJoin ==
  /\ io.type = "ANSWERING"
  /\ SetJoined("id", sessionId)
  /\ io' = Idle
  /\ UNCHANGED <<object, leaved, pong, main, beat, posted, network, signals>>

ProcessAbortMessage ==
  /\ io.type = "ABORT"
  /\ SetJoined("abort", 0)
  /\ io' = Idle
  /\ UNCHANGED <<object, leaved, pong, main, beat, posted, network, signals>>

ProcessPongMessage ==
  /\ io.type = "PONG"
  /\ SetPong("io", "true")
  /\ io' = Idle
  /\ UNCHANGED <<object, joined, leaved, main, beat, posted, network, signals>>

\* Fault: a call of an unknown operation gets no answer.
UnknownCallUnanswered ==
  /\ \/ io.type = "CALL" /\ SendMessage(Msg("RESULT", io.id))
     \/ io.type = "CALL_UNKNOWN" /\ io' = Idle /\ UNCHANGED <<joined, pong, fault>>
  /\ UNCHANGED <<object, leaved, main, beat, posted, network, signals>>

\* The end of the operation, which has run since OnMessage; it may throw
\* (CALL_THROWS).
ProcessCallMessage ==
  /\ \/ io.type = "CALL" /\ SendMessage(Msg("RESULT", io.id))
     \/ io.type = "CALL_UNKNOWN" /\ SendMessage(Msg("ERROR", io.id))
     \/ /\ io.type = "CALL_THROWS"
        /\ Terminate("io", "operation")
        /\ UNCHANGED <<joined, pong, io>>
  /\ UNCHANGED <<object, leaved, main, beat, posted, network, signals>>

\* HELLO, PING and RESULT are refused with a ProtocolError, a message that is
\* too short makes Field() throw; ERROR, PUBLISH, PUBLISHED and unknown types
\* are ignored; a message without fields ends Listen.
OnOtherMessage ==
  /\ \/ /\ io.type = "FORBIDDEN"
        /\ Terminate("io", "ProtocolError")
        /\ UNCHANGED leaved
     \/ /\ io.type = "MALFORMED"
        /\ Terminate("io", "out_of_range")
        /\ UNCHANGED leaved
     \/ /\ io.type = "IGNORED"
        /\ UNCHANGED <<leaved, fault>>
     \/ /\ io.type = "EMPTY"
        /\ SetLeaved("io", "protocol")
  /\ io' = Idle
  /\ UNCHANGED <<object, joined, pong, main, beat, posted, network, signals>>

----------------------------------------------------------------------------
(* Leave, called by the signal handler on the io thread.                   *)

Leave ==
  /\ io = Idle
  /\ ~stopped /\ ~signalled
  /\ signalled' = TRUE
  /\ SetLeaved("io", "left")
  /\ io' = Leaving
  /\ UNCHANGED <<object, joined, pong, main, beat, posted, network, stopped>>

\* transport_->Disconnect(), then io_context.stop().  StopClient returns at once
\* when the connection is gone; otherwise it joins the thread it runs on.
LeaveDisconnect ==
  /\ io = Leaving
  /\ \/ ~attached /\ Terminate("io", "null transport") /\ UNCHANGED <<io, stopped>>
     \/ /\ attached /\ link \in {"none", "failed"}
        /\ Terminate("io", "already disconnected")
        /\ UNCHANGED <<io, stopped>>
     \/ /\ attached /\ IsConnected
        /\ Terminate("io", IF link = "open" THEN "thread joins itself"
                                           ELSE "close refused")
        /\ UNCHANGED <<io, stopped>>
     \/ /\ attached /\ link = "closed"
        /\ io' = Idle
        /\ stopped' = TRUE
        /\ UNCHANGED fault
  /\ UNCHANGED <<object, promises, main, beat, posted, network, signalled>>

----------------------------------------------------------------------------
(* The calling thread.                                                     *)

Goto(from, to) == caller = from /\ caller' = to

OnAttach ==
  /\ Goto("new", "attached")
  /\ ~attached
  /\ attached' = TRUE
  /\ UNCHANGED <<state, sessionId, promises, outcome, beat, io, posted,
                 network, signals, fault>>

\* The transport's Connect, by its contract: a callback settles the connection,
\* and the calling thread learns of it later.
ConnectSettles ==
  /\ caller = "attached" /\ link = "none"
  /\ io = Idle /\ ~stopped
  /\ link' \in {"open", "failed"}
  /\ UNCHANGED <<client, wire, inbox, server>>

ConnectReturns ==
  /\ caller = "attached" /\ link # "none"
  /\ IF link = "failed" THEN caller' = "over" /\ outcome' = "network"
                        ELSE caller' = "connected" /\ UNCHANGED outcome
  /\ UNCHANGED <<object, promises, beat, io, posted, network, signals, fault>>

JoinEnsureState ==
  /\ Goto("connected", "joining")
  /\ state' = "establishing"
  /\ UNCHANGED <<sessionId, attached, promises, outcome, beat, io, posted,
                 network, signals, fault>>

\* Fault: the message that Join posts has the wrong type.
JoinDispatchesWrongType ==
  /\ Goto("joining", "waiting")
  /\ posted' = Append(posted, Msg("WELCOME", 0))
  /\ UNCHANGED <<object, promises, outcome, beat, io, network, signals, fault>>

JoinDispatch ==
  /\ Goto("joining", "waiting")
  /\ posted' = Append(posted, Msg("JOIN", 0))
  /\ UNCHANGED <<object, promises, outcome, beat, io, network, signals, fault>>

JoinReturns ==
  /\ caller = "waiting"
  /\ \/ /\ joined.is = "id"
        /\ caller' = "listening"
        /\ UNCHANGED outcome
     \/ /\ joined.is \notin {"unset", "id"}
        /\ caller' = "over"
        /\ outcome' = joined.is
  /\ UNCHANGED <<object, promises, beat, io, posted, network, signals, fault>>

\* Fault: Join tries once more.
JoinTimesOutRetries ==
  /\ Goto("waiting", "joining")
  /\ joined.is = "unset"
  /\ UNCHANGED <<object, promises, outcome, beat, io, posted, network, signals, fault>>

JoinTimesOut ==
  /\ Goto("waiting", "over")
  /\ joined.is = "unset"
  /\ outcome' = "unanswered"
  /\ UNCHANGED <<object, promises, beat, io, posted, network, signals, fault>>

ListenReturns ==
  /\ Goto("listening", "over")
  /\ leaved # "unset"
  /\ outcome' = leaved
  /\ UNCHANGED <<object, promises, beat, io, posted, network, signals, fault>>

\* Fault: the io_context is not stopped.
CatchWithoutStop ==
  /\ Goto("over", "caught")
  /\ outcome \in {"abort", "unanswered", "timeout", "network"}
  /\ UNCHANGED <<object, promises, outcome, beat, io, posted, network, signals,
                 fault>>

\* main() stops the io_context on an AbortError or a NetworkError (TimeoutError is
\* one); any other exception leaves main().
Catch ==
  /\ Goto("over", "caught")
  /\ outcome \in {"abort", "unanswered", "timeout", "network"}
  /\ stopped' = TRUE
  /\ UNCHANGED <<object, promises, outcome, beat, io, posted, network,
                 signalled, fault>>

Uncaught ==
  /\ caller = "over"
  /\ outcome \in {"protocol", "exception", "logic"}
  /\ Terminate("caller", outcome)
  /\ UNCHANGED <<object, promises, main, beat, io, posted, network, signals>>

OnDetach ==
  /\ \/ Goto("over", "detaching") /\ outcome = "left"
     \/ Goto("caught", "detaching")
  /\ attached' = FALSE
  /\ UNCHANGED <<state, sessionId, promises, outcome, beat, io, posted,
                 network, signals, fault>>

HandlerReset ==
  /\ Goto("detaching", "detached")
  /\ UNCHANGED <<object, promises, outcome, beat, io, posted, network, signals,
                 fault>>

\* io_context.run() returns once the context is stopped, and main() drops its
\* shared_ptr.  A lambda that is running still holds one: then it is the lambda that
\* will call ~Session, and main() goes on.
Release ==
  /\ caller = "detached"
  /\ stopped
  /\ caller' = IF LambdaRuns THEN "destroyed" ELSE "destroying"
  /\ UNCHANGED <<object, promises, outcome, beat, io, posted, network, signals,
                 fault>>

\* ~Session joins the heartbeat thread, if one was started.
Destroy ==
  /\ Goto("destroying", "destroyed")
  /\ beat \in {"off", "done"}
  /\ UNCHANGED <<object, promises, outcome, beat, io, posted, network, signals,
                 fault>>

----------------------------------------------------------------------------
(* HearbeatController.                                                     *)

\* 20 seconds have passed.  shared_from_this() throws if no owner is left.
BeatPing ==
  /\ beat = "sleep"
  /\ IF NoOwner
     THEN Terminate("heartbeat", "bad_weak_ptr") /\ UNCHANGED <<beat, posted>>
     ELSE /\ posted' = Append(posted, Msg("BEAT", 0))
          /\ beat' = "await"
          /\ UNCHANGED fault
  /\ UNCHANGED <<object, promises, main, io, network, signals>>

\* Nobody notifies stop_signal_; wait_for may still return no_timeout.
BeatWakesSpuriously ==
  /\ Spurious
  /\ beat = "sleep"
  /\ beat' = "done"
  /\ UNCHANGED <<object, promises, main, io, posted, network, signals, fault>>

\* 4 seconds have passed without a pong.
PongTimesOut ==
  /\ beat = "await"
  /\ pong = "unset"
  /\ beat' = "expired"
  /\ UNCHANGED <<object, promises, main, io, posted, network, signals, fault>>

BeatExpires ==
  /\ beat = "expired"
  /\ SetPong("heartbeat", "false")
  /\ beat' = "verdict"
  /\ UNCHANGED <<object, joined, leaved, main, io, posted, network, signals>>

\* Fault: the promise is not reset for the next pong.
VerdictKeepsPong ==
  /\ beat \in {"await", "verdict"} /\ pong = "true"
  /\ beat' = "sleep"
  /\ UNCHANGED <<object, promises, main, io, posted, network, signals, fault>>

\* Fault: a timeout ends the controller, and Listen is not told.
VerdictUnreported ==
  /\ beat \in {"await", "verdict"} /\ pong # "unset"
  /\ pong' = IF pong = "true" THEN "unset" ELSE pong
  /\ beat' = IF pong = "true" THEN "sleep" ELSE "done"
  /\ UNCHANGED <<object, joined, leaved, main, io, posted, network, signals,
                 fault>>

\* pong_received_future.get(): a pong starts the next round with a fresh
\* promise, false ends the controller.
BeatVerdict ==
  /\ beat \in {"await", "verdict"}
  /\ \/ /\ pong = "true"
        /\ pong' = "unset"
        /\ beat' = "sleep"
        /\ UNCHANGED <<leaved, fault>>
     \/ /\ pong = "false"
        /\ SetLeaved("heartbeat", "timeout")
        /\ beat' = "done"
        /\ UNCHANGED pong
  /\ UNCHANGED <<object, joined, main, io, posted, network, signals>>

----------------------------------------------------------------------------
(* The server and the network.                                             *)

TakeWire(t) ==
  /\ link = "open"
  /\ wire # <<>>
  /\ Head(wire).type = t
  /\ wire' = Tail(wire)

Send(m) == link = "open" /\ inbox' = Append(inbox, m)

\* It admits the client, refuses it, or stays silent.
AnswerHello ==
  /\ TakeWire("HELLO")
  /\ \/ /\ \E n \in SessionIds : Send(Msg("WELCOME", n))
        /\ welcomed' = TRUE
     \/ Send(Msg("ABORT", 0)) /\ UNCHANGED welcomed
     \/ UNCHANGED <<inbox, welcomed>>
  /\ UNCHANGED <<client, link, issued, rogue, answered>>

AnswerPing ==
  /\ TakeWire("PING")
  /\ Send(Msg("PONG", 0)) \/ UNCHANGED inbox
  /\ UNCHANGED <<client, link, server>>

TakeReply ==
  /\ TakeWire("RESULT") \/ TakeWire("ERROR")
  /\ answered' = answered + 1
  /\ UNCHANGED <<client, link, inbox, welcomed, issued, rogue>>

IssueCall ==
  /\ welcomed
  /\ issued < MaxCalls
  /\ issued' = issued + 1
  /\ \E t \in CallTypes : Send(Msg(t, issued + 1))
  /\ UNCHANGED <<client, link, wire, welcomed, rogue, answered>>

SendOutOfTurn ==
  /\ rogue < MaxRogue
  /\ rogue' = rogue + 1
  /\ \/ \E t \in Unsolicited \ {"WELCOME"} : Send(Msg(t, 0))
     \/ "WELCOME" \in Unsolicited /\ \E n \in SessionIds : Send(Msg("WELCOME", n))
  /\ UNCHANGED <<client, link, wire, welcomed, issued, answered>>

\* The io thread reads a close frame or an end of file ...
LinkCloses ==
  /\ io = Idle /\ ~stopped
  /\ link = "open"
  /\ link' = "closing"
  /\ UNCHANGED <<client, wire, inbox, server>>

\* ... and later runs the transport's close callback.
LinkClosed ==
  /\ io = Idle /\ ~stopped
  /\ link = "closing"
  /\ link' = "closed"
  /\ UNCHANGED <<client, wire, inbox, server>>

----------------------------------------------------------------------------
Init ==
  /\ state = "closed"
  /\ sessionId = 0
  /\ joined = [is |-> "unset", id |-> 0]
  /\ leaved = "unset"
  /\ pong = "unset"
  /\ attached = FALSE
  /\ caller = "new"
  /\ outcome = "none"
  /\ beat = "off"
  /\ io = Idle
  /\ posted = <<>>
  /\ link = "none"
  /\ wire = <<>>
  /\ inbox = <<>>
  /\ welcomed = FALSE
  /\ issued = 0
  /\ rogue = 0
  /\ answered = 0
  /\ signalled = FALSE
  /\ stopped = FALSE
  /\ fault = NoFault

CallerStep ==
  \/ OnAttach \/ ConnectReturns \/ JoinEnsureState \/ JoinDispatch \/ JoinReturns
  \/ JoinTimesOut \/ ListenReturns \/ Catch \/ Uncaught \/ OnDetach \/ HandlerReset
  \/ Release \/ Destroy

\* OnMessage, after the switch on the type.
HandlerStep ==
  \/ ProcessWelcomeMessage \/ StartHeartbeat \/ KeepId \/ AnswerJoin
  \/ ProcessAbortMessage \/ ProcessPongMessage \/ ProcessCallMessage
  \/ OnOtherMessage

IoStep ==
  \/ ConnectSettles \/ TakeLambda \/ JoinLambda \/ PingLambda \/ Transmit
  \/ FailLeaved \/ LambdaReturns \/ LambdaDestroys
  \/ RecvMessage \/ NoHandler \/ OnMessage \/ HandlerStep
  \/ LeaveDisconnect \/ UseDestroyed

BeatStep == BeatPing \/ PongTimesOut \/ BeatExpires \/ BeatVerdict

ServerStep ==
  \/ AnswerHello \/ AnswerPing \/ TakeReply \/ IssueCall \/ SendOutOfTurn
  \/ LinkCloses

Running ==
  /\ fault = NoFault
  /\ \/ CallerStep \/ IoStep \/ BeatStep \/ BeatWakesSpuriously
     \/ Leave \/ ServerStep \/ LinkClosed

\* A process that has terminated takes no step; one whose session is gone may stop.
Ended ==
  /\ fault # NoFault \/ caller = "destroyed"
  /\ UNCHANGED vars

Next == Running \/ Ended

Spec == Init /\ [][Next]_vars

----------------------------------------------------------------------------
(* Properties.                                                             *)

Results  == {"unset", "id", "exception", "logic", "abort"}
Answers  == [is : Results, id : Nat]
Verdicts == {"unset", "left", "protocol", "network", "timeout"}
Pongs    == {"unset", "true", "false"}

\* Every variable has its type: the states of the promises and of the threads,
\* messages of the client on the wire and of the server in the inbox.
TypeOK ==
  /\ state \in {"closed", "establishing", "established"}
  /\ sessionId \in Nat
  /\ joined \in Answers
  /\ leaved \in Verdicts
  /\ pong \in Pongs
  /\ attached \in BOOLEAN
  /\ caller \in {"new", "attached", "connected", "joining", "waiting",
                 "listening", "over", "caught", "detaching", "detached",
                 "destroying", "destroyed"}
  /\ outcome \in Results \cup Verdicts \cup {"none", "unanswered"}
  /\ beat \in {"off", "sleep", "await", "expired", "verdict", "done"}
  /\ io \in IoStates
  /\ posted \in Seq(LambdaMessages)
  /\ link \in {"none", "open", "closing", "closed", "failed"}
  /\ wire \in Seq(ClientMessages)
  /\ inbox \in Seq(ServerMessages)
  /\ welcomed \in BOOLEAN
  /\ issued \in Nat /\ rogue \in Nat /\ answered \in Nat
  /\ signalled \in BOOLEAN /\ stopped \in BOOLEAN
  /\ fault \in Faults

\* A server that sends nothing out of turn and no session id 0, and operations
\* that do not throw.
Compliant ==
  /\ Unsolicited = {}
  /\ 0 \notin SessionIds
  /\ "CALL_THROWS" \notin CallTypes

\* The places of the pings and pongs that are under way.
InFlight ==
  ({"posted"} \X At(posted, "BEAT")) \cup ({"wire"} \X At(wire, "PING"))
  \cup ({"inbox"} \X At(inbox, "PONG"))
  \cup (IF io.type \in {"BEAT", "PING", "PONG"} THEN {<<"io", 0>>} ELSE {})

\* Rounds of the heartbeat do not overlap: at most one ping or pong is under way,
\* and none when the controller sleeps, when pong_received_ is then a fresh
\* promise, or once a pong has been taken.  HearbeatController reuses one promise
\* for all rounds and a pong carries no number, so an overlap would credit one
\* round with the pong of another.
RoundsDoNotOverlap ==
  /\ \A x, y \in InFlight : x = y
  /\ beat \in {"off", "sleep"} /\ fault = NoFault => InFlight = {} /\ pong = "unset"
  /\ pong = "true" => InFlight = {}

\* Something other than the ordinary course of a session has happened: the link
\* went down, Connect or Join failed, a pong was late or Leave was called.
Disturbed ==
  \/ link \notin {"none", "open"}
  \/ outcome # "none"
  \/ pong = "false" \/ beat \in {"expired", "verdict"}
  \/ leaved # "unset" \/ signalled

\* With a server that follows the protocol no exception leaves a thread as long
\* as nothing disturbs the session: no promise is set twice, no message is
\* refused and no reply is sent without a session id, in any interleaving of
\* Join, the io thread, the heartbeat and the server.
HealthyNoFault == fault # NoFault => Disturbed

\* ProcessWelcomeMessage writes state_, the heartbeat thread, session_id_ and joined_
\* one after another, while Join waits or has given up, main() tears the session down
\* and the heartbeat runs.  Join is told last: once joined_ holds an id the session is
\* established under that id and has its heartbeat.  And outside of that handler a
\* session that joined_ has not been told of is not established and has neither.
SessionAgreesWithJoin ==
  fault = NoFault =>
    /\ joined.is = "id" =>
         state = "established" /\ sessionId = joined.id /\ beat # "off"
    /\ joined.is # "id" /\ io.type \notin Welcoming =>
         state # "established" /\ sessionId = 0 /\ beat = "off"

\* No message changes the session id once a session has one, a second WELCOME
\* included (ProcessWelcomeMessage).
SessionIdStable == [][sessionId # 0 => sessionId' = sessionId]_vars

\* What a variable shows of the session while the process lives.
Shown(value, otherwise) == IF fault = NoFault THEN value ELSE otherwise

C == INSTANCE Lifecycle WITH
       Ids     <- Nat,
       phase   <- Shown(state, "lost"),
       id      <- Shown(sessionId, 0),
       answer  <- Shown(joined.is, "unset"),
       verdict <- Shown(leaved, "unset"),
       beat    <- Shown(IF beat \in {"off", "done"} THEN beat ELSE "on", "off")

\* Join, the io thread and the heartbeat together are one session with the life that
\* Lifecycle describes: a WELCOME establishes it, starts its heartbeat, names it and
\* answers Join, in this order and once each; Join and Listen are answered once, and a
\* heartbeat that has ended does not return.
ImplementsLifecycle == C!Spec

\* A CALL that has no answer yet is under way to the io thread, or its reply is in
\* SendMessage or under way to the server.
Path   == wire \o <<io>> \o inbox
Due(m) == m.type \in {"RESULT", "ERROR"} \cup CallKinds

\* Each CALL gets one reply, and replies arrive in the order of the calls: along the
\* path from the server's end the calls not yet answered, or their replies, follow one
\* another, none twice and none missing (ProcessCallMessage, whatever its branch).
RepliesInOrder ==
  fault = NoFault /\ link = "open" =>
    /\ \A i, j \in DOMAIN Path :
         Due(Path[i]) /\ Due(Path[j]) /\ i < j => Path[i].id < Path[j].id
    /\ {Path[i].id : i \in {k \in DOMAIN Path : Due(Path[k])}} = answered + 1 .. issued

\* The places of HELLO, or of the server's answer to it, while it is under way.
Asking ==
  ({"posted"} \X At(posted, "JOIN")) \cup ({"wire"} \X At(wire, "HELLO"))
  \cup ({"inbox"} \X (At(inbox, "WELCOME") \cup At(inbox, "ABORT")))
  \cup (IF io.type \in {"JOIN", "HELLO", "WELCOME", "ABORT"} \cup Welcoming
          THEN {<<"io", 0>>} ELSE {})

\* One HELLO is under way at most, and nothing once joined_ is set: no answer can set
\* it again, although Join may have given up, been detached or lost the connection
\* before the io thread comes to the lambda or to the answer.
JoinAnsweredOnce ==
  /\ \A x, y \in Asking : x = y
  /\ joined.is # "unset" => Asking = {}

\* A thread that waits is waited for by one that will release it.  Connect waits for
\* an io thread that can still run its callback, or is in Leave, which ends the
\* process; Listen waits for a heartbeat that has not ended without a word;
\* io_context.run() in main() waits for a stop() that has been called or is the next
\* thing that Leave does.
WaitsAreServed ==
  fault = NoFault =>
    /\ caller = "attached" /\ link = "none" => ~stopped /\ io \in {Idle, Leaving}
    /\ caller = "listening" /\ leaved = "unset" /\ ~Spurious => beat \notin {"off", "done"}
    /\ caller = "detached" => stopped \/ io = Leaving

----------------------------------------------------------------------------
(* What comments and documents say of the session, and the code does not do. *)

\* include/barbarossa/session.ipp:18-25: what goes wrong in the transport or in time is
\* thrown by Join, and by Listen (:24-25, NetworkError; :22-23, TimeoutError).  While no
\* signal tears the session down, it neither ends the process, by an error of another
\* thread, nor reaches main() as an exception of no kind.
FailuresAreThrown == ~signalled => fault = NoFault /\ outcome # "exception"

\* docs/message_handling.md:8-13: an ABORT after WELCOME aborts the session.
AbortIsHandled ==
  [][state = "established" /\ ProcessAbortMessage => fault' = NoFault]_vars

\* include/barbarossa/websocket_transport.ipp:79: Leave's Disconnect is the regular shutdown.
LeaveIsRegular == fault.error # "thread joins itself"

\* include/barbarossa/session.ipp:43: ~Session waits for the heartbeat thread to finish.
\* A handler of the io thread may start it later, or still.
HeartbeatEndsWithSession == Gone /\ fault = NoFault => beat \in {"off", "done"}
=============================================================================
