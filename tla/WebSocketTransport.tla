-------------------------- MODULE WebSocketTransport --------------------------
(***************************************************************************)
(* The transport (include/barbarossa/websocket_transport.hpp and .ipp): one *)
(* connection of a websocketpp client, used by two threads.                *)
(*                                                                         *)
(*   user   the thread that owns the transport: Attach, Connect, Disconnect, *)
(*          Detach, the destructor, and io_context.stop()                  *)
(*   io     the thread that StartClient starts: it runs the callbacks of    *)
(*          websocketpp, and the signal handler, which calls Disconnect too *)
(*                                                                         *)
(* open_, done_ and handler_ are plain members that one thread writes while *)
(* the other reads them, so every access of a shared member is a step of its *)
(* own.  A call that the code refuses (std::logic_error) changes nothing and *)
(* is left out on the user's side; on the io thread it ends the process.    *)
(* websocketpp is external: conn is the state of its connection.           *)
(***************************************************************************)

CONSTANT OtherWork \* does the io_context have work besides the connection?

ASSUME TransportConstants == OtherWork \in BOOLEAN

VARIABLES
  open,       \* open_
  done,       \* done_
  connected,  \* connected_: "unset", "set" or "failed"
  handler,    \* is handler_ set?
  thread,     \* thread_: "running", "exited" or "joined"
  perpetual,  \* is the client perpetual (start_perpetual)?
  stopped,    \* has io_context.stop() been called?
  conn,       \* websocketpp's connection
  user,       \* control state of the user
  io,         \* control state of the io thread
  fault       \* the error that ended the process

flags == <<open, done, connected>>
run   == <<thread, perpetual, stopped>>
vars  == <<flags, handler, run, conn, user, io, fault>>

Terminate(error) == fault' = error

----------------------------------------------------------------------------
(* The user.                                                               *)

Attach ==
  /\ user = "ready"
  /\ ~handler
  /\ handler' = TRUE
  /\ UNCHANGED <<flags, run, conn, user, io, fault>>

\* Up to the wait for connected_.
Connect ==
  /\ user = "ready"
  /\ ~open /\ conn = "none"
  /\ conn' = "connecting"
  /\ user' = "connecting"
  /\ UNCHANGED <<flags, handler, run, io, fault>>

ConnectReturns ==
  /\ user = "connecting"
  /\ connected # "unset"
  /\ user' = "ready"
  /\ UNCHANGED <<flags, handler, run, conn, io, fault>>

\* Fault: the client stays perpetual.
DisconnectPerpetual ==
  /\ user = "ready"
  /\ open /\ ~done /\ conn = "open"
  /\ conn' = "closing"
  /\ user' = "stopping"
  /\ UNCHANGED <<flags, handler, run, io, fault>>

\* Disconnect and StopClient up to the join.  close() throws when the connection
\* is not open any more, and StopClient is noexcept.
Disconnect ==
  /\ user = "ready"
  /\ open /\ ~done
  /\ perpetual' = FALSE
  /\ IF conn = "open"
     THEN conn' = "closing" /\ user' = "stopping" /\ UNCHANGED fault
     ELSE Terminate("close refused") /\ UNCHANGED <<conn, user>>
  /\ UNCHANGED <<flags, handler, thread, stopped, io>>

StopClientJoins ==
  /\ user = "stopping"
  /\ thread = "exited"
  /\ thread' = "joined"
  /\ open' = FALSE
  /\ user' = "ready"
  /\ UNCHANGED <<done, connected, handler, perpetual, stopped, conn, io, fault>>

\* handler_->OnDetach() and handler_.reset().
Detach ==
  /\ user = "ready"
  /\ handler
  /\ user' = "detaching"
  /\ UNCHANGED <<flags, handler, run, conn, io, fault>>

HandlerReset ==
  /\ user = "detaching"
  /\ handler' = FALSE
  /\ user' = "ready"
  /\ UNCHANGED <<flags, run, conn, io, fault>>

\* main() stops the io_context once Connect has failed or the session is over.
Stop ==
  /\ user = "ready"
  /\ connected # "unset"
  /\ ~stopped
  /\ stopped' = TRUE
  /\ UNCHANGED <<flags, handler, thread, perpetual, conn, user, io, fault>>

\* Fault: the destructor does not wait when the connection is up.
DestroyWithoutJoin ==
  /\ user = "ready"
  /\ ~handler
  /\ stopped \/ thread = "joined"
  /\ user' = "gone"
  /\ UNCHANGED <<flags, handler, run, conn, io, fault>>

\* Fault: the destructor runs before the io_context is stopped.
DestroyUnstopped ==
  /\ user = "ready"
  /\ ~handler /\ ~done /\ thread # "joined"
  /\ user' = "destroying"
  /\ UNCHANGED <<flags, handler, run, conn, io, fault>>

\* The destructor.  It is reached when io_context.run() returns in main(), or
\* after a Disconnect.  A std::thread that is destroyed while it is joinable, or
\* joined when it is not, ends the process.
Destroy ==
  /\ user = "ready"
  /\ ~handler
  /\ stopped \/ thread = "joined"
  /\ \/ ~done /\ thread # "joined" /\ user' = "destroying" /\ UNCHANGED fault
     \/ ~done /\ thread = "joined" /\ Terminate("not joinable") /\ UNCHANGED user
     \/ done /\ thread # "joined" /\ Terminate("joinable destroyed") /\ UNCHANGED user
     \/ done /\ thread = "joined" /\ user' = "gone" /\ UNCHANGED fault
  /\ UNCHANGED <<flags, handler, run, conn, io>>

DestroyJoins ==
  /\ user = "destroying"
  /\ thread = "exited"
  /\ thread' = "joined"
  /\ user' = "gone"
  /\ UNCHANGED <<flags, handler, perpetual, stopped, conn, io, fault>>

----------------------------------------------------------------------------
(* The io thread.                                                          *)

IoIdle == thread = "running" /\ io = "idle" /\ ~stopped

OnClientOpen ==
  /\ IoIdle /\ conn = "connecting"
  /\ conn' = "open"
  /\ open' = TRUE
  /\ connected' = "set"
  /\ UNCHANGED <<done, handler, run, user, io, fault>>

\* Fault: the waiting Connect is not told.
OnClientFailSilent ==
  /\ IoIdle /\ conn = "connecting"
  /\ conn' = "failed"
  /\ io' = "failing"
  /\ UNCHANGED <<flags, handler, run, user, fault>>

\* connected_ is set outside the lock, before done_.
OnClientFail ==
  /\ IoIdle /\ conn = "connecting"
  /\ conn' = "failed"
  /\ connected' = IF open THEN connected ELSE "failed"
  /\ io' = "failing"
  /\ UNCHANGED <<open, done, handler, run, user, fault>>

OnClientFailDone ==
  /\ thread = "running" /\ io = "failing"
  /\ done' = TRUE
  /\ io' = "idle"
  /\ UNCHANGED <<open, connected, handler, run, conn, user, fault>>

\* Fault: the promise is renewed for a connection to come.
OnClientCloseRenews ==
  /\ IoIdle /\ conn = "closing"
  /\ conn' = "closed"
  /\ done' = TRUE
  /\ connected' = "unset"
  /\ UNCHANGED <<open, handler, run, user, io, fault>>

\* Fault: done_ is not set.
OnClientCloseForgets ==
  /\ IoIdle /\ conn = "closing"
  /\ conn' = "closed"
  /\ UNCHANGED <<flags, handler, run, user, io, fault>>

\* Fault: the callback settles connected_ with an outcome of its own.
OnClientCloseSettles ==
  /\ IoIdle /\ conn = "closing"
  /\ conn' = "closed"
  /\ done' = TRUE
  /\ connected' = "closed"
  /\ UNCHANGED <<open, handler, run, user, io, fault>>

OnClientClose ==
  /\ IoIdle /\ conn = "closing"
  /\ conn' = "closed"
  /\ done' = TRUE
  /\ UNCHANGED <<open, connected, handler, run, user, io, fault>>

\* A message without a handler is dropped.
OnClientMessage ==
  /\ IoIdle /\ conn = "open"
  /\ handler
  /\ io' = "delivering"
  /\ UNCHANGED <<flags, handler, run, conn, user, fault>>

\* handler_->OnMessage(), after the message is parsed.
RecvMessage ==
  /\ thread = "running" /\ io = "delivering"
  /\ IF handler THEN io' = "idle" /\ UNCHANGED fault
                ELSE Terminate("null handler") /\ UNCHANGED io
  /\ UNCHANGED <<flags, handler, run, conn, user>>

\* The signal handler: Session::Leave settles its promise ...
Leave ==
  /\ IoIdle
  /\ io' = "leaving"
  /\ UNCHANGED <<flags, handler, run, conn, user, fault>>

\* ... then calls Disconnect, if the session has a transport, and main() calls
\* io_context.stop().
LeaveDisconnect ==
  /\ thread = "running" /\ io = "leaving"
  /\ LET detached == ~handler \/ user = "detaching" IN
     \/ detached /\ Terminate("null transport") /\ UNCHANGED <<stopped, io>>
     \/ /\ ~detached /\ ~open
        /\ Terminate("already disconnected")
        /\ UNCHANGED <<stopped, io>>
     \/ /\ ~detached /\ open /\ ~done
        /\ Terminate(IF conn = "open" THEN "thread joins itself" ELSE "close refused")
        /\ UNCHANGED <<stopped, io>>
     \/ /\ ~detached /\ open /\ done
        /\ stopped' = TRUE
        /\ io' = "idle"
        /\ UNCHANGED fault
  /\ UNCHANGED <<flags, handler, thread, perpetual, conn, user>>

\* client_t::run returns.
ThreadExits ==
  /\ thread = "running" /\ io = "idle"
  /\ \/ stopped
     \/ ~perpetual /\ ~OtherWork /\ conn \in {"failed", "closed"}
  /\ thread' = "exited"
  /\ UNCHANGED <<flags, handler, perpetual, stopped, conn, user, io, fault>>

\* The peer starts the close handshake, or the connection breaks.
PeerCloses ==
  /\ IoIdle /\ conn = "open"
  /\ conn' = "closing"
  /\ UNCHANGED <<flags, handler, run, user, io, fault>>

----------------------------------------------------------------------------
\* The constructor has run StartClient.
Init ==
  /\ open = FALSE /\ done = FALSE
  /\ connected = "unset"
  /\ handler = FALSE
  /\ thread = "running" /\ perpetual = TRUE /\ stopped = FALSE
  /\ conn = "none"
  /\ user = "ready"
  /\ io = "idle"
  /\ fault = "none"

UserCall ==
  \/ Attach \/ Connect \/ Disconnect \/ Detach \/ Stop \/ Destroy

UserGoesOn ==
  \/ ConnectReturns \/ StopClientJoins \/ HandlerReset \/ DestroyJoins

IoStep ==
  \/ OnClientOpen \/ OnClientFail \/ OnClientFailDone \/ OnClientClose
  \/ RecvMessage \/ LeaveDisconnect \/ ThreadExits

\* A process whose transport is gone, or that has terminated, takes no step.
Next ==
  /\ fault = "none"
  /\ \/ UserCall \/ UserGoesOn \/ IoStep
     \/ OnClientMessage \/ Leave \/ PeerCloses

Spec == Init /\ [][Next]_vars

\* A call that has begun goes on, the io thread runs, and a handshake ends; the
\* user, the peer and signals owe nothing.
RunUser == fault = "none" /\ UserGoesOn
RunIo   == fault = "none" /\ IoStep

FairSpec == Spec /\ WF_vars(RunUser) /\ WF_vars(RunIo)

----------------------------------------------------------------------------
(* Properties.                                                             *)

Callbacks == {"idle", "failing", "delivering", "leaving"}
Faults    == {"none", "close refused", "not joinable", "joinable destroyed",
              "null handler", "null transport", "already disconnected",
              "thread joins itself"}

\* Every variable has its type: open_, done_ and handler_, the promise, the
\* connection of websocketpp and the control states of the two threads.
TypeOK ==
  /\ open \in BOOLEAN /\ done \in BOOLEAN /\ handler \in BOOLEAN
  /\ connected \in {"unset", "set", "failed"}
  /\ thread \in {"running", "exited", "joined"}
  /\ perpetual \in BOOLEAN /\ stopped \in BOOLEAN
  /\ conn \in {"none", "connecting", "open", "closing", "closed", "failed"}
  /\ user \in {"ready", "connecting", "stopping", "detaching", "destroying", "gone"}
  /\ io \in Callbacks
  /\ fault \in Faults

IsConnected == open /\ ~done

\* What the code above the transport sees of the connection.
link ==
  IF connected = "unset" THEN "none"
  ELSE IF connected = "failed" THEN "failed"
  ELSE IF ~IsConnected THEN "closed"
  ELSE IF conn = "open" THEN "open" ELSE "closing"

L == INSTANCE Link WITH link <- link

\* open_, done_, connected_ and the connection of websocketpp, which the two
\* threads change in separate steps, form one connection that opens and ends at
\* most once.
ImplementsLink == L!Spec

\* No callback can run on a transport that is gone: the destructor has not
\* returned, or the io thread is joined and was in no callback.
GoneIsQuiet == user = "gone" => thread = "joined" /\ io = "idle"

\* IsConnected, which is computed from two flags that are never reset together,
\* says what websocketpp would say: it holds only for a connection that Connect
\* has reported and that has not ended, and for every one that can carry messages.
ConnectedIsOpen ==
  /\ IsConnected => connected = "set" /\ conn \in {"open", "closing"}
  /\ conn = "open" => IsConnected

\* A thread that waits is waited for by one that will release it: Connect by a
\* running io thread that has yet to call OnClientOpen or OnClientFail, Disconnect and
\* the destructor by one that has been told to end.  Disconnect has told it in vain if
\* the io_context has other work.
WaitsAreServed ==
  fault = "none" =>
    /\ user = "connecting" /\ connected = "unset" =>
         conn = "connecting" /\ thread = "running" /\ ~stopped
    /\ user = "stopping" => ~perpetual /\ conn \in {"closing", "closed"}
    /\ user = "destroying" => stopped

\* Connect returns: OnClientOpen or OnClientFail settles connected_.
ConnectReturning == user = "connecting" ~> user # "connecting" \/ fault # "none"

\* Disconnect returns when the connection is all the io_context has to do.
DisconnectReturning == user = "stopping" ~> user # "stopping" \/ fault # "none"

\* The destructor returns: its join waits only for an io_context that is stopped.
DestroyReturning == user = "destroying" ~> user = "gone" \/ fault # "none"

----------------------------------------------------------------------------
(* What a comment of the transport says, and the code does not do.         *)

\* include/barbarossa/websocket_transport.ipp:33-35: after the server has closed
\* the connection the destructor waits until the thread is done.
DestructorWaits == conn = "closed" => fault # "joinable destroyed"
=============================================================================
