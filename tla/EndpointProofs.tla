---------------------------- MODULE EndpointProofs ----------------------------
(***************************************************************************)
(* Proofs about Endpoint, for every distance of pings and any number of     *)
(* messages.                                                               *)
(***************************************************************************)
EXTENDS Endpoint, TLAPS

\* What each state says of the connection and of the handler thread, which has
\* sent HELLO or not.
StateInv ==
  /\ state = "open" => conn \in {"none", "connecting"}
  /\ state = "connected" => conn \in {"open", "closing"}
  /\ state = "greeted" => hellos = 1 \/ conn \in {"closing", "closed"}
  /\ state = "registered" => conn \in {"open", "closing"} /\ hellos = 1 /\ welcomed
  /\ state = "disconnected" => conn \in {"failed", "closed"}

\* What the handler thread knows at each of its steps, and how often it has sent
\* HELLO.
HandlerInv ==
  /\ hellos \in {0, 1}
  /\ conn \in {"none", "connecting"} => state = "open" /\ hellos = 0
  /\ handler \in {"greeting", "greeted", "refused"} => state \in {"connected", "disconnected"}
  /\ handler \in {"off", "greeting", "refused"} => hellos = 0
  /\ handler \in {"greeting", "greeted", "refused"} => conn \in {"open", "closing", "closed"}
  /\ handler = "refused" => conn # "open"
  /\ user = "ready" => conn = "none"
  /\ handler = "greeted" => hellos = 1
  /\ handler = "off" <=> conn = "none"
  /\ handler = "pinging" => hellos = 1 /\ welcomed
  /\ state = "connected" /\ hellos = 1 => handler = "greeted"
  /\ pinged => hellos = 1 /\ welcomed

\* A WELCOME that is under way has been sent.
InboxInv == \A i \in DOMAIN inbox : inbox[i] \in Welcomes => welcomed

\* The inductive invariant.
EndpointInv == TypeOK /\ StateInv /\ HandlerInv /\ InboxInv

\* The count of polls starts in its range.
LEMMA Zero == 0 \in 0 .. PingEvery
BY EndpointConstants

\* What a queue keeps when a message is taken or added.
LEMMA Taken ==
  ASSUME InboxInv, inbox \in Seq(Kinds), inbox # <<>>
  PROVE  /\ Tail(inbox) \in Seq(Kinds)
         /\ Head(inbox) \in Welcomes => welcomed
         /\ \A i \in DOMAIN Tail(inbox) : Tail(inbox)[i] \in Welcomes => welcomed
BY DEF InboxInv

LEMMA Added ==
  ASSUME InboxInv, inbox \in Seq(Kinds), NEW k \in Kinds, welcomed \in BOOLEAN
  PROVE  /\ Append(inbox, k) \in Seq(Kinds)
         /\ \A i \in DOMAIN Append(inbox, k) :
              Append(inbox, k)[i] \in Welcomes => welcomed \/ k \in Welcomes
BY DEF InboxInv

LEMMA InvInit == Init => EndpointInv
<1> SUFFICES ASSUME Init PROVE EndpointInv
  OBVIOUS
<1>1. inbox \in Seq(Kinds) /\ InboxInv
  BY DEF Init, InboxInv
<1>2. TypeOK
  BY <1>1, Zero DEF Init, TypeOK
<1>3. StateInv /\ HandlerInv
  BY DEF Init, StateInv, HandlerInv
<1>4. QED
  BY <1>1, <1>2, <1>3 DEF EndpointInv

LEMMA InvStutter ==
  ASSUME EndpointInv, UNCHANGED vars
  PROVE  EndpointInv'
<1>1. /\ state' = state /\ conn' = conn /\ thread' = thread /\ perpetual' = perpetual
      /\ user' = user /\ handler' = handler /\ timeout' = timeout /\ inbox' = inbox
      /\ messages' = messages /\ welcomed' = welcomed /\ hellos' = hellos
      /\ pinged' = pinged /\ fault' = fault
  BY DEF vars, worker, server, run
<1>2. TypeOK'
  <2>1. /\ perpetual' \in BOOLEAN /\ welcomed' \in BOOLEAN
        /\ pinged' \in BOOLEAN /\ fault' \in BOOLEAN
    BY <1>1, Zenon DEF EndpointInv, TypeOK
  <2>2. QED
    BY <1>1, <2>1 DEF EndpointInv, TypeOK
<1>3. StateInv'
  BY <1>1, Zenon DEF EndpointInv, StateInv
<1>4. HandlerInv'
  BY <1>1, Zenon DEF EndpointInv, HandlerInv
<1>5. InboxInv'
  BY <1>1, Zenon DEF EndpointInv, InboxInv
<1>6. QED
  BY <1>2, <1>3, <1>4, <1>5 DEF EndpointInv

LEMMA InvStep ==
  ASSUME EndpointInv, [Next]_vars
  PROVE  EndpointInv'
<1> USE EndpointConstants DEF EndpointInv, TypeOK, StateInv, HandlerInv, worker, server, run
<1>1. CASE Run
  <2>1. TypeOK'
    BY <1>1 DEF Run
  <2>2. StateInv'
    BY <1>1 DEF Run
  <2>3. HandlerInv'
    BY <1>1 DEF Run
  <2>4. InboxInv'
    BY <1>1 DEF Run, InboxInv
  <2>5. QED
    BY <2>1, <2>2, <2>3, <2>4
<1>2. CASE RunReturns
  BY <1>2 DEF RunReturns, InboxInv
<1>3. CASE Destroy
  <2>1. TypeOK'
    <3>1. user' = "destroying" /\ perpetual' \in BOOLEAN
      BY <1>3 DEF Destroy
    <3>2. UNCHANGED <<state, conn, thread, worker, server, fault>>
      BY <1>3, Zenon DEF Destroy
    <3>3. QED
      BY <3>1, <3>2
  <2>2. StateInv'
    BY <1>3 DEF Destroy
  <2>3. HandlerInv'
    BY <1>3 DEF Destroy
  <2>4. InboxInv'
    BY <1>3 DEF Destroy, InboxInv
  <2>5. QED
    BY <2>1, <2>2, <2>3, <2>4
<1>4. CASE DestroyCloses
  BY <1>4 DEF DestroyCloses, InboxInv
<1>5. CASE DestroyJoins
  BY <1>5 DEF DestroyJoins, InboxInv
<1>6. CASE Poll
  <2>1. TypeOK'
    BY <1>6 DEF Poll, PollPinging
  <2>2. StateInv'
    BY <1>6 DEF Poll, PollPinging
  <2>3. HandlerInv'
    BY <1>6 DEF Poll, PollPinging
  <2>4. InboxInv'
    BY <1>6 DEF Poll, PollPinging, InboxInv
  <2>5. QED
    BY <2>1, <2>2, <2>3, <2>4
<1>7. CASE SendHello
  <2>1. TypeOK'
    BY <1>7 DEF SendHello
  <2>2. StateInv'
    BY <1>7 DEF SendHello
  <2>3. HandlerInv'
    BY <1>7 DEF SendHello
  <2>4. InboxInv'
    BY <1>7 DEF SendHello, InboxInv
  <2>5. QED
    BY <2>1, <2>2, <2>3, <2>4
<1>8. CASE SetGreeted
  <2>1. TypeOK'
    BY <1>8 DEF SetGreeted
  <2>2. StateInv'
    BY <1>8 DEF SetGreeted
  <2>3. HandlerInv'
    BY <1>8 DEF SetGreeted
  <2>4. InboxInv'
    BY <1>8 DEF SetGreeted, InboxInv
  <2>5. QED
    BY <2>1, <2>2, <2>3, <2>4
<1>9. CASE SendPing
  <2>1. TypeOK'
    <3>1. timeout' \in 0 .. PingEvery
      BY <1>9, Zero DEF SendPing
    <3>2. handler' \in {"polling", "done"} /\ pinged' \in BOOLEAN
      BY <1>9 DEF SendPing
    <3>3. UNCHANGED <<state, conn, run, user, hellos, server, fault>>
      BY <1>9 DEF SendPing
    <3>4. QED
      BY <3>1, <3>2, <3>3
  <2>2. StateInv'
    BY <1>9 DEF SendPing
  <2>3. HandlerInv'
    BY <1>9 DEF SendPing
  <2>4. InboxInv'
    BY <1>9 DEF SendPing, InboxInv
  <2>5. QED
    BY <2>1, <2>2, <2>3, <2>4
<1>10. CASE OnOpen
  BY <1>10 DEF OnOpen, InboxInv
<1>11. CASE OnFail
  BY <1>11 DEF OnFail, InboxInv
<1>12. CASE OnClose
  BY <1>12 DEF OnClose, InboxInv
<1>13. CASE OnMessage
  <2>1. inbox' \in Seq(Kinds) /\ InboxInv'
    BY <1>13, Taken DEF OnMessage, OnAnswer, Receive, InboxInv
  <2>2. state' = "registered" => state = "registered" \/ welcomed
    BY <1>13, Taken DEF OnMessage, OnAnswer, Receive
  <2>3. TypeOK'
    <3>1. /\ state' = state \/ state' = "registered"
          /\ conn' = conn \/ conn' = "closing"
          /\ fault' = fault \/ fault' = TRUE
      BY <1>13 DEF OnMessage, OnAnswer
    <3>2. UNCHANGED <<run, user, worker, messages, welcomed>>
      BY <1>13, Zenon DEF OnMessage, OnAnswer
    <3>3. fault' \in BOOLEAN
      BY <3>1, Zenon
    <3>4. QED
      BY <2>1, <3>1, <3>2, <3>3
  <2>4. StateInv'
    BY <1>13, <2>2 DEF OnMessage, OnAnswer, Receive
  <2>5. HandlerInv'
    BY <1>13 DEF OnMessage, OnAnswer, Receive
  <2>6. QED
    BY <2>1, <2>3, <2>4, <2>5
<1>14. CASE ThreadExits
  BY <1>14 DEF ThreadExits, InboxInv
<1>15. CASE Send
  <2>1. PICK k \in Kinds : inbox' = Append(inbox, k) /\ welcomed' = (welcomed \/ k \in Welcomes)
    BY <1>15 DEF Send
  <2>2. inbox' \in Seq(Kinds) /\ InboxInv'
    BY <2>1, Added DEF InboxInv
  <2>3. welcomed' \in BOOLEAN /\ (welcomed => welcomed')
    BY <2>1
  <2>4. QED
    BY <1>15, <2>2, <2>3 DEF Send
<1>16. CASE PeerCloses
  BY <1>16 DEF PeerCloses, InboxInv
<1>17. CASE UNCHANGED vars
  BY <1>17, InvStutter
<1>18. QED
  BY <1>1, <1>2, <1>3, <1>4, <1>5, <1>6, <1>7, <1>8, <1>9, <1>10, <1>11, <1>12,
     <1>13, <1>14, <1>15, <1>16, <1>17
  DEF Next, UserGoesOn, HandlerStep, IoStep

LEMMA InvAlways == Spec => []EndpointInv
BY InvInit, InvStep, PTL DEF Spec

\* Every variable has its type, and the handler never counts past the ping.
THEOREM TypeCorrect == Spec => []TypeOK
BY InvAlways, PTL DEF EndpointInv

\* A registered client has greeted and has a connection, whatever the handler
\* thread overwrites.
THEOREM RegisteredAgrees == Spec => []RegisteredIsLive
<1>1. EndpointInv => RegisteredIsLive
  BY DEF EndpointInv, StateInv, RegisteredIsLive
<1>2. QED
  BY <1>1, InvAlways, PTL

\* HELLO is sent once, and no ping before a WELCOME.
THEOREM PingsAgree == Spec => []PingsFollowWelcome
<1>1. EndpointInv => PingsFollowWelcome
  BY DEF EndpointInv, HandlerInv, PingsFollowWelcome
<1>2. QED
  BY <1>1, InvAlways, PTL

\* The handler thread ends, and Run returns, only when the connection has not begun, is
\* closing or is over.
RunInv ==
  /\ user \in {"returned", "destroying", "joining", "gone"} => handler \in {"off", "done"}
  /\ handler \in {"off", "done"} => conn \notin {"connecting", "open"}

LEMMA RunInit == Init => RunInv
BY DEF Init, RunInv

LEMMA RunStep ==
  ASSUME EndpointInv, RunInv, [Next]_vars
  PROVE  RunInv'
<1> USE DEF RunInv, worker, run
<1>1. CASE Run
  <2>1. user = "ready" /\ handler = "off"
    BY <1>1 DEF Run, EndpointInv, HandlerInv
  <2>2. QED
    BY <1>1, <2>1 DEF Run
<1>2. CASE Destroy
  <2>1. user = "ready" => handler = "off"
    BY DEF EndpointInv, HandlerInv
  <2>2. UNCHANGED <<conn, handler>> /\ user \in {"ready", "returned"}
    BY <1>2 DEF Destroy
  <2>3. QED
    BY <2>1, <2>2
<1>3. CASE RunReturns \/ DestroyCloses \/ DestroyJoins
  BY <1>3 DEF RunReturns, DestroyCloses, DestroyJoins
<1>4. CASE Poll
  <2>1. handler = "polling" /\ UNCHANGED <<conn, user>>
    BY <1>4 DEF Poll, PollPinging
  <2>2. handler' = "done" => state = "disconnected"
    BY <1>4, <2>1 DEF Poll, PollPinging
  <2>3. handler' # "off"
    BY <1>4, <2>1 DEF Poll, PollPinging
  <2>4. QED
    BY <2>1, <2>2, <2>3 DEF EndpointInv, StateInv
<1>5. CASE SendHello \/ SetGreeted
  <2>1. /\ handler \notin {"off", "done"} /\ UNCHANGED <<conn, user>> /\ handler' # "off"
        /\ handler' = "done" => handler = "refused"
    BY <1>5 DEF SendHello, SetGreeted, EndpointInv, TypeOK
  <2>2. handler = "refused" => conn \in {"closing", "closed"}
    BY DEF EndpointInv, HandlerInv
  <2>3. QED
    BY <2>1, <2>2
<1>6. CASE SendPing
  <2>1. /\ handler = "pinging" /\ UNCHANGED <<conn, user>> /\ handler' # "off"
        /\ handler' = "done" => conn # "open"
    BY <1>6 DEF SendPing
  <2>2. conn # "connecting"
    BY <2>1 DEF EndpointInv, HandlerInv
  <2>3. QED
    BY <2>1, <2>2
<1>7. CASE OnOpen \/ OnFail \/ OnClose \/ ThreadExits \/ Send \/ PeerCloses
  BY <1>7 DEF OnOpen, OnFail, OnClose, ThreadExits, Send, PeerCloses
<1>8. CASE OnMessage
  <2>1. UNCHANGED <<handler, user>> /\ conn' \in {conn, "closing"}
    BY <1>8 DEF OnMessage, OnAnswer
  <2>2. QED
    BY <2>1
<1>9. CASE UNCHANGED vars
  BY <1>9 DEF vars
<1>10. QED
  BY <1>1, <1>2, <1>3, <1>4, <1>5, <1>6, <1>7, <1>8, <1>9
  DEF Next, UserGoesOn, HandlerStep, IoStep

\* Run returns only when its connection is over or about to be (RunEndsConnection),
\* however the handler's polls, its sends and the callbacks interleave.
THEOREM RunIsOver == Spec => []RunEndsConnection
<1>1. RunInv => RunEndsConnection
  BY DEF RunInv, RunEndsConnection
<1>2. QED
  BY <1>1, RunInit, RunStep, InvAlways, PTL DEF Spec

=============================================================================
