-------------------------------- MODULE Client --------------------------------
(***************************************************************************)
(* The program (src/main.cpp): main() with one Session on one              *)
(* WebSocketTransport, which share the io thread and the io_context.       *)
(*                                                                         *)
(* Every step is a step of Session, of WebSocketTransport, or one of each:  *)
(* main()'s calls pass through the transport into the session, and          *)
(* websocketpp's callbacks through the transport into OnMessage.  The link  *)
(* of the session is not a variable here: it is what the transport's flags  *)
(* and promise say.                                                        *)
(***************************************************************************)
EXTENDS Naturals, Sequences

CONSTANTS SessionIds, CallTypes, Unsolicited, MaxCalls, MaxRogue, Spurious

VARIABLES
  \* the session and its server
  state, sessionId, joined, leaved, pong, attached, caller, outcome, beat, io,
  posted, wire, inbox, welcomed, issued, rogue, answered, signalled, fault,
  \* the transport
  open, done, connected, handler, thread, perpetual, conn, user,
  callback,   \* the transport's callback that the io thread is in
  crash,      \* the error that ended the process in the transport
  \* the io_context
  stopped

session ==
  <<state, sessionId, joined, leaved, pong, attached, caller, outcome, beat, io,
    posted, wire, inbox, welcomed, issued, rogue, answered, signalled, fault>>
transport ==
  <<open, done, connected, handler, thread, perpetual, conn, user, callback, crash>>
vars == <<session, transport, stopped>>

\* main()'s signal_set is work that the io_context has besides the connection.
T == INSTANCE WebSocketTransport
       WITH OtherWork <- TRUE, io <- callback, fault <- crash

S == INSTANCE Session WITH link <- T!link

Alive == fault = S!NoFault /\ crash = "none"

----------------------------------------------------------------------------
(* main().                                                                 *)

Attach == T!Attach /\ S!OnAttach

Connect == caller = "attached" /\ T!Connect /\ UNCHANGED session

\* Fault: main() does not wait for the connection.
ConnectReturnsEarly ==
  /\ user = "connecting" /\ caller = "attached"
  /\ user' = "ready" /\ caller' = "connected"
  /\ UNCHANGED <<state, sessionId, joined, leaved, pong, attached, outcome, beat,
                 io, posted, wire, inbox, welcomed, issued, rogue, answered,
                 signalled, fault>>
  /\ UNCHANGED <<open, done, connected, handler, thread, perpetual, conn,
                 callback, crash, stopped>>

ConnectReturns == T!ConnectReturns /\ S!ConnectReturns

\* Join, Listen and the catch clauses; a catch clause stops the io_context.
UseSession ==
  /\ UNCHANGED transport
  /\ \/ S!JoinEnsureState \/ S!JoinDispatch \/ S!JoinReturns \/ S!JoinTimesOut
     \/ S!ListenReturns \/ S!Catch \/ S!Uncaught

\* Fault: the handler is reset before it is told.
DetachUntold ==
  /\ user = "ready" /\ handler
  /\ handler' = FALSE
  /\ UNCHANGED <<open, done, connected, thread, perpetual, conn, user, callback,
                 crash>>
  /\ S!OnDetach

Detach == T!Detach /\ S!OnDetach

HandlerReset == T!HandlerReset /\ S!HandlerReset

\* The locals are destroyed in the reverse of their order: the session, then the
\* transport.
DestroySession == UNCHANGED transport /\ (S!Release \/ S!Destroy)

\* Fault: the transport does not wait for the session.
DestroyTransportFirst ==
  /\ caller \in {"destroying", "destroyed"}
  /\ T!Destroy \/ T!DestroyJoins
  /\ UNCHANGED session

DestroyTransport ==
  /\ caller = "destroyed"
  /\ T!Destroy \/ T!DestroyJoins
  /\ UNCHANGED session

----------------------------------------------------------------------------
(* The io thread.  It is in the transport, in the session, or in both.      *)

OnClientSettles == (T!OnClientOpen \/ T!OnClientFail) /\ S!ConnectSettles

OnClientFailDone == T!OnClientFailDone /\ UNCHANGED session

OnClientClose == T!OnClientClose /\ S!LinkClosed

OnClientMessage == T!OnClientMessage /\ S!RecvMessage

\* The call of handler_->OnMessage().  RecvMessage has no more to do but return.
OnMessage == T!RecvMessage /\ (S!NoHandler \/ S!OnMessage)

\* The session's own steps: inside its message handler, or in a lambda.  The handler
\* may still be at it when main() has left; what it then does to a session that is
\* gone is undefined.
HandleMessage ==
  /\ UNCHANGED transport
  /\ S!HandlerStep \/ S!Transmit \/ S!UseDestroyed

RunLambda ==
  /\ thread = "running" /\ callback = "idle"
  /\ UNCHANGED transport
  /\ \/ S!TakeLambda \/ S!JoinLambda \/ S!PingLambda \/ S!FailLeaved
     \/ S!LambdaReturns \/ S!LambdaDestroys

Leave == T!Leave /\ S!Leave

LeaveDisconnect == T!LeaveDisconnect /\ S!LeaveDisconnect

ThreadExits == io = S!Idle /\ T!ThreadExits /\ UNCHANGED session

PeerCloses == T!PeerCloses /\ S!LinkCloses

----------------------------------------------------------------------------
Init ==
  /\ T!Init
  /\ state = "closed" /\ sessionId = 0 /\ attached = FALSE
  /\ joined = [is |-> "unset", id |-> 0] /\ leaved = "unset" /\ pong = "unset"
  /\ caller = "new" /\ outcome = "none"
  /\ beat = "off" /\ io = S!Idle /\ posted = <<>>
  /\ wire = <<>> /\ inbox = <<>>
  /\ welcomed = FALSE /\ issued = 0 /\ rogue = 0 /\ answered = 0
  /\ signalled = FALSE
  /\ fault = S!NoFault

MainStep ==
  \/ Attach \/ Connect \/ ConnectReturns \/ UseSession \/ Detach \/ HandlerReset
  \/ DestroySession \/ DestroyTransport

IoStep ==
  \/ OnClientSettles \/ OnClientFailDone \/ OnClientClose \/ OnClientMessage
  \/ OnMessage \/ HandleMessage \/ RunLambda \/ LeaveDisconnect \/ ThreadExits

\* The heartbeat thread.
BeatStep == UNCHANGED transport /\ (S!BeatStep \/ S!BeatWakesSpuriously)

ServerStep ==
  /\ UNCHANGED transport
  /\ \/ S!AnswerHello \/ S!AnswerPing \/ S!TakeReply \/ S!IssueCall
     \/ S!SendOutOfTurn

Running == Alive /\ (MainStep \/ IoStep \/ BeatStep \/ ServerStep \/ Leave \/ PeerCloses)

\* The process has ended.
Ended == (~Alive \/ user = "gone") /\ UNCHANGED vars

Next == Running \/ Ended

Spec == Init /\ [][Next]_vars

\* The scheduler runs the three threads and clocks advance.  websocketpp ends a
\* handshake, of either kind, that takes too long.
RunMain == Alive /\ MainStep
RunIo   == Alive /\ IoStep
RunBeat == Alive /\ UNCHANGED transport /\ S!BeatStep

Fairness == WF_vars(RunMain) /\ WF_vars(RunIo) /\ WF_vars(RunBeat)

FairSpec == Spec /\ Fairness

----------------------------------------------------------------------------
(* Properties.                                                             *)

\* The program is a run of Session: what main() and the transport do to the
\* session, and the link that the flags of the transport make up, are what Session
\* takes for granted, so that what is proved of Session holds of the program.
ImplementsSession == S!Spec

\* The program is a run of WebSocketTransport: main() and the session call the
\* transport only as that module lets its user call it.
ImplementsTransport == T!Spec

\* When main() returns the io thread is joined and was in no handler, and the
\* heartbeat has ended, unless Join has failed on an ABORT or has given up: only then can
\* a WELCOME that the io thread is handling start a heartbeat that outlives ~Session.
ExitIsQuiet ==
  user = "gone" =>
    /\ caller = "destroyed"
    /\ thread = "joined" /\ callback = "idle" /\ io = S!Idle
    /\ beat \in {"off", "done"} \/ outcome \in {"unanswered", "abort"}

\* Listen returns after the connection is lost: OnClientClose tells the session
\* nothing, but the next ping fails.
ClosedIsNoticed == conn = "closed" /\ caller = "listening" ~> caller # "listening" \/ ~Alive

\* A lost connection, and a signal, end the process: neither Listen, the session's
\* destructor nor the transport's waits for ever.
LossEndsProcess ==
  conn \in {"closed", "failed"} \/ signalled ~> ~Alive \/ user = "gone"
=============================================================================
