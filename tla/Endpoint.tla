------------------------------- MODULE Endpoint -------------------------------
(***************************************************************************)
(* The earlier client, WebsocketEndpoint (spikes/statemachine/websocket.hpp): *)
(* one connection and a state behind a mutex, used by three threads.        *)
(*                                                                         *)
(*   user     constructs the endpoint, calls Run once and destroys it       *)
(*   handler  the thread that Run starts and joins: it polls the state every *)
(*            second, and sends HELLO and the pings                         *)
(*   io       the thread of websocketpp: OnOpen, OnFail, OnClose, OnMessage  *)
(*                                                                         *)
(* The mutex protects one access of state_.  The handler looks at it, sends, *)
(* and writes it in separate steps, and the callbacks come in between.      *)
(***************************************************************************)
EXTENDS Naturals, Sequences

CONSTANTS
  PingEvery,    \* polls between two pings (30 in the code)
  MaxMessages   \* bound: number of messages the server sends

ASSUME EndpointConstants == PingEvery \in Nat /\ MaxMessages \in Nat

VARIABLES
  state,      \* state_
  conn,       \* websocketpp's connection
  thread,     \* thread_: "running", "exited" or "joined"
  perpetual,  \* is the client perpetual (start_perpetual)?
  user,       \* control state of the user
  handler,    \* control state of the handler thread
  timeout,    \* Handler's timeout: polls since the last ping
  inbox,      \* messages on their way to the client
  messages,   \* number of messages the server has sent
  welcomed,   \* has the server sent a WELCOME, whole or cut?
  hellos,     \* number of HELLOs sent
  pinged,     \* has a PING been sent?
  fault       \* has the process ended: by an exception of the io thread, or worse?

worker == <<handler, timeout, hellos, pinged>>
server == <<inbox, messages, welcomed>>
run    == <<thread, perpetual>>
vars   == <<state, conn, run, user, worker, server, fault>>

\* A GARBLED message is not JSON; a MISTYPED one is not an array, or has a field of
\* another type, which throws.  A WELCOME or ABORT that is CUT lacks a field.
Welcomes == {"WELCOME", "CUT_WELCOME"}
Kinds == Welcomes \cup {"ABORT", "CUT_ABORT", "OTHER", "MISTYPED", "GARBLED"}

----------------------------------------------------------------------------
(* The user.                                                               *)

\* Up to the join of the handler.  get_connection may refuse the URI.
Run ==
  /\ user = "ready"
  /\ \/ user' = "returned" /\ UNCHANGED <<conn, handler>>
     \/ user' = "running" /\ conn' = "connecting" /\ handler' = "polling"
  /\ UNCHANGED <<state, run, timeout, hellos, pinged, server, fault>>

\* Fault: Run does not wait for the handler.
RunReturnsUnjoined ==
  /\ user = "running"
  /\ user' = "returned"
  /\ UNCHANGED <<state, conn, run, worker, server, fault>>

RunReturns ==
  /\ user = "running" /\ handler = "done"
  /\ user' = "returned"
  /\ UNCHANGED <<state, conn, run, worker, server, fault>>

\* Fault: the destructor leaves the client perpetual.
DestroyPerpetual ==
  /\ user \in {"ready", "returned"}
  /\ user' = "destroying"
  /\ UNCHANGED <<state, conn, run, worker, server, fault>>

\* The destructor: stop_perpetual(), ...
Destroy ==
  /\ user \in {"ready", "returned"}
  /\ user' = "destroying"
  /\ perpetual' = FALSE
  /\ UNCHANGED <<state, conn, thread, worker, server, fault>>

\* ... close() unless the state says disconnected, which is an error that is only
\* logged when the connection is not open, ...
DestroyCloses ==
  /\ user = "destroying"
  /\ user' = "joining"
  /\ conn' = IF state # "disconnected" /\ conn = "open" THEN "closing" ELSE conn
  /\ UNCHANGED <<state, run, worker, server, fault>>

\* ... and the join.
DestroyJoins ==
  /\ user = "joining"
  /\ thread = "exited"
  /\ thread' = "joined"
  /\ user' = "gone"
  /\ UNCHANGED <<state, conn, perpetual, worker, server, fault>>

----------------------------------------------------------------------------
(* The handler thread.                                                     *)

\* One turn of the loop up to its effects: HELLO, a ping every n polls, or the end;
\* in the other states it does nothing.
PollPinging(n) ==
  /\ handler = "polling"
  /\ \/ state = "connected" /\ handler' = "greeting" /\ UNCHANGED timeout
     \/ state = "disconnected" /\ handler' = "done" /\ UNCHANGED timeout
     \/ state = "registered" /\ timeout = n /\ handler' = "pinging" /\ UNCHANGED timeout
     \/ state = "registered" /\ timeout # n /\ timeout' = timeout + 1 /\ UNCHANGED handler
  /\ UNCHANGED <<state, conn, run, user, hellos, pinged, server, fault>>

\* Fault: the ping is one poll late.
PollCountsOneMore == PollPinging(PingEvery + 1)

\* Fault: a loss is noticed only before HELLO is sent.
PollIgnoresLoss == (state = "disconnected" => hellos = 0) /\ PollPinging(PingEvery)

Poll == PollPinging(PingEvery)

\* send() refuses a message once the connection is not open, but the state is
\* written before the error is looked at.
SendHello ==
  /\ handler = "greeting"
  /\ IF conn = "open" THEN handler' = "greeted" /\ hellos' = hellos + 1
                      ELSE handler' = "refused" /\ UNCHANGED hellos
  /\ UNCHANGED <<state, conn, run, user, timeout, pinged, server, fault>>

SetGreeted ==
  /\ handler \in {"greeted", "refused"}
  /\ state' = "greeted"
  /\ handler' = IF handler = "greeted" THEN "polling" ELSE "done"
  /\ UNCHANGED <<conn, run, user, timeout, hellos, pinged, server, fault>>

SendPing ==
  /\ handler = "pinging"
  /\ timeout' = 0
  /\ IF conn = "open" THEN handler' = "polling" /\ pinged' = TRUE
                      ELSE handler' = "done" /\ UNCHANGED pinged
  /\ UNCHANGED <<state, conn, run, user, hellos, server, fault>>

----------------------------------------------------------------------------
(* The io thread.                                                          *)

OnOpen ==
  /\ thread = "running" /\ conn = "connecting"
  /\ conn' = "open"
  /\ state' = "connected"
  /\ UNCHANGED <<run, user, worker, server, fault>>

OnFail ==
  /\ thread = "running" /\ conn = "connecting"
  /\ conn' = "failed"
  /\ state' = "disconnected"
  /\ UNCHANGED <<run, user, worker, server, fault>>

\* Fault: the state is left as it is.
OnCloseSilent ==
  /\ thread = "running" /\ conn = "closing"
  /\ conn' = "closed"
  /\ UNCHANGED <<state, run, user, worker, server, fault>>

OnClose ==
  /\ thread = "running" /\ conn = "closing"
  /\ conn' = "closed"
  /\ state' = "disconnected"
  /\ UNCHANGED <<run, user, worker, server, fault>>

Receive(kinds) ==
  /\ thread = "running" /\ conn = "open"
  /\ inbox # <<>>
  /\ Head(inbox) \in kinds
  /\ inbox' = Tail(inbox)

\* The message is parsed in any state, and looked at only after HELLO.  from_json reads
\* past the end of a message that is cut, which ends the process or goes unnoticed.
OnAnswer(welcomes) ==
  /\ \/ Receive({"GARBLED"}) /\ fault' = TRUE /\ UNCHANGED <<state, conn>>
     \/ /\ state # "greeted"
        /\ Receive(Kinds \ {"GARBLED"})
        /\ UNCHANGED <<state, conn, fault>>
     \/ /\ state = "greeted"
        /\ \/ /\ Receive({"MISTYPED", "CUT_WELCOME", "CUT_ABORT"})
              /\ fault' = TRUE
              /\ UNCHANGED <<state, conn>>
           \/ Receive(welcomes) /\ state' = "registered" /\ UNCHANGED <<conn, fault>>
           \/ /\ Receive({"ABORT", "CUT_ABORT", "OTHER"} \ welcomes)
              /\ conn' = "closing"
              /\ UNCHANGED <<state, fault>>
  /\ UNCHANGED <<run, user, worker, messages, welcomed>>

\* Fault: an ABORT is taken for a WELCOME.
OnMessageTakesAbort == OnAnswer(Welcomes \cup {"ABORT"})

OnMessage == OnAnswer(Welcomes)

\* client::run returns when there is nothing left to do.
ThreadExits ==
  /\ thread = "running" /\ ~perpetual
  /\ conn \in {"none", "closed", "failed"}
  /\ thread' = "exited"
  /\ UNCHANGED <<state, conn, perpetual, user, worker, server, fault>>

----------------------------------------------------------------------------
(* The server: it sends what it likes, or closes.                          *)

Send ==
  /\ conn = "open"
  /\ messages < MaxMessages
  /\ messages' = messages + 1
  /\ \E k \in Kinds : inbox' = Append(inbox, k) /\ welcomed' = (welcomed \/ k \in Welcomes)
  /\ UNCHANGED <<state, conn, run, user, worker, fault>>

PeerCloses ==
  /\ conn = "open"
  /\ conn' = "closing"
  /\ UNCHANGED <<state, run, user, worker, server, fault>>

----------------------------------------------------------------------------
Init ==
  /\ state = "open" /\ conn = "none"
  /\ thread = "running" /\ perpetual = TRUE
  /\ user = "ready"
  /\ handler = "off" /\ timeout = 0
  /\ inbox = <<>> /\ messages = 0 /\ welcomed = FALSE
  /\ hellos = 0 /\ pinged = FALSE
  /\ fault = FALSE

UserGoesOn  == RunReturns \/ DestroyCloses \/ DestroyJoins
HandlerStep == Poll \/ SendHello \/ SetGreeted \/ SendPing
IoStep      == OnOpen \/ OnFail \/ OnClose \/ OnMessage \/ ThreadExits

Next ==
  /\ ~fault
  /\ Run \/ Destroy \/ UserGoesOn \/ HandlerStep \/ IoStep \/ Send \/ PeerCloses

Spec == Init /\ [][Next]_vars

\* The threads run, and websocketpp ends a handshake that takes too long; the user
\* and the server owe nothing.
RunUser    == ~fault /\ UserGoesOn
RunHandler == ~fault /\ HandlerStep
RunIo      == ~fault /\ IoStep

FairSpec ==
  Spec /\ WF_vars(RunUser) /\ WF_vars(RunHandler) /\ WF_vars(RunIo)

----------------------------------------------------------------------------
(* Properties.                                                             *)

\* Every variable has its type; the handler never counts past the ping.
TypeOK ==
  /\ state \in {"open", "connected", "greeted", "registered", "disconnected"}
  /\ conn \in {"none", "connecting", "open", "closing", "closed", "failed"}
  /\ thread \in {"running", "exited", "joined"}
  /\ perpetual \in BOOLEAN
  /\ user \in {"ready", "running", "returned", "destroying", "joining", "gone"}
  /\ handler \in {"off", "polling", "greeting", "greeted", "refused", "pinging",
                  "done"}
  /\ timeout \in 0 .. PingEvery
  /\ inbox \in Seq(Kinds)
  /\ messages \in Nat /\ hellos \in Nat
  /\ welcomed \in BOOLEAN /\ pinged \in BOOLEAN /\ fault \in BOOLEAN

\* The client is registered only on a connection that has not ended, after HELLO,
\* although the handler overwrites what OnClose has written.
RegisteredIsLive ==
  state = "registered" => conn \in {"open", "closing"} /\ hellos = 1

\* HELLO is sent at most once, and no ping before both HELLO and a WELCOME have been sent.
PingsFollowWelcome == hellos <= 1 /\ (pinged => hellos = 1 /\ welcomed)

\* Run returns only when its connection is over or about to be: neither the handler's
\* last look at the state nor an error of send() leaves the destructor, which closes
\* by that state, with an open connection.
RunEndsConnection ==
  user \in {"returned", "destroying", "joining"} => conn \notin {"connecting", "open"}

\* Once a callback has found the connection failed or closed, Run returns, unless
\* the handler is greeting and about to overwrite what the callback wrote.
LossEndsRun ==
  state = "disconnected" /\ handler \notin {"greeting", "greeted", "refused"}
    ~> user \notin {"ready", "running"} \/ fault

\* The destructor returns: its join waits for a connection that has ended or that
\* it closes.
DestructorReturns == user = "destroying" ~> user = "gone" \/ fault

----------------------------------------------------------------------------
(* What a text of the endpoint says, and the code does not do.             *)

\* spikes/statemachine/websocket.hpp:124-128: OnClose stops the client.
CloseStopsClient == conn = "closed" ~> handler = "done" \/ fault
=============================================================================
