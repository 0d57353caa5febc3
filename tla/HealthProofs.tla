---------------------------- MODULE HealthProofs -----------------------------
(***************************************************************************)
(* Proofs about an undisturbed session (Session) with a server that follows *)
(* the protocol and operations that do not throw (Compliant): no exception  *)
(* leaves a thread.                                                        *)
(***************************************************************************)
EXTENDS RoundProofs

----------------------------------------------------------------------------
(* Queues.                                                                 *)

\* From q to r no message of type t is added.
Keeps(q, r, t) == (Has(r, t) => Has(q, t)) /\ (One(q, t) => One(r, t))

\* What the server sends: no message out of turn, and no session id 0.
Regular(m) == /\ m.type \in {"WELCOME", "ABORT", "PONG", "CALL", "CALL_UNKNOWN"}
              /\ m.type = "WELCOME" => m.id # 0
Calls(q)   == \E i \in DOMAIN q : q[i].type \in CallKinds
InOrder(q) == /\ \A i \in DOMAIN q : Regular(q[i])
              /\ \A i, j \in DOMAIN q :
                   q[i].type \in CallKinds /\ q[j].type = "WELCOME" => j < i

\* A queue keeps what it had of a type that is not added.
LEMMA Keeping ==
  ASSUME NEW S, NEW q \in Seq(S), NEW t
  PROVE  /\ Keeps(q, q, t)
         /\ q # <<>> => Keeps(q, Tail(q), t)
         /\ \A m \in S : m.type # t => Keeps(q, Append(q, m), t)
BY TakesFrom, AddsTo DEF Keeps

\* An inbox from which a message is taken.
LEMMA OrderTakes ==
  ASSUME NEW S, NEW q \in Seq(S), q # <<>>, InOrder(q)
  PROVE  /\ InOrder(Tail(q))
         /\ Calls(Tail(q)) => Calls(q)
         /\ Regular(Head(q))
         /\ Head(q).type \in CallKinds => Calls(q) /\ ~Has(q, "WELCOME")
<1>1. /\ Len(q) \in Nat /\ Len(q) # 0 /\ DOMAIN q = 1 .. Len(q) /\ Head(q) = q[1]
      /\ DOMAIN Tail(q) = 1 .. Len(q) - 1
  OBVIOUS
<1>2. \A i \in DOMAIN Tail(q) : Tail(q)[i] = q[i + 1] /\ i + 1 \in DOMAIN q /\ i \in Nat
  BY <1>1
<1>3. 1 \in DOMAIN q
  BY <1>1
<1>4. ASSUME NEW i \in DOMAIN Tail(q), NEW j \in DOMAIN Tail(q),
             Tail(q)[i].type \in CallKinds, Tail(q)[j].type = "WELCOME"
      PROVE  j < i
  <2>1. j + 1 < i + 1
    BY <1>2, <1>4 DEF InOrder
  <2>2. QED
    BY <1>2, <2>1
<1>5. InOrder(Tail(q))
  BY <1>2, <1>4 DEF InOrder
<1>6. Calls(Tail(q)) => Calls(q)
  BY <1>2 DEF Calls
<1>7. Regular(Head(q))
  BY <1>1, <1>3 DEF InOrder
<1>8. ASSUME Head(q).type \in CallKinds PROVE Calls(q) /\ ~Has(q, "WELCOME")
  <2>1. Calls(q)
    BY <1>1, <1>3, <1>8 DEF Calls
  <2>2. ASSUME NEW j \in DOMAIN q, q[j].type = "WELCOME" PROVE FALSE
    <3>1. j < 1
      BY <1>1, <1>3, <1>8, <2>2 DEF InOrder
    <3>2. QED
      BY <1>1, <3>1
  <2>3. QED
    BY <2>1, <2>2 DEF Has
<1>9. QED
  BY <1>5, <1>6, <1>7, <1>8

\* An inbox to which a message is added.
LEMMA OrderAdds ==
  ASSUME NEW S, NEW q \in Seq(S), NEW m \in S, InOrder(q), Regular(m),
         m.type = "WELCOME" => ~Calls(q)
  PROVE  /\ InOrder(Append(q, m))
         /\ Calls(Append(q, m)) <=> Calls(q) \/ m.type \in CallKinds
<1>1. /\ Len(q) \in Nat /\ DOMAIN q = 1 .. Len(q)
      /\ DOMAIN Append(q, m) = 1 .. Len(q) + 1
      /\ \A i \in DOMAIN q : Append(q, m)[i] = q[i]
      /\ Append(q, m)[Len(q) + 1] = m
  OBVIOUS
<1>2. \A i \in DOMAIN Append(q, m) : i \in DOMAIN q \/ i = Len(q) + 1
  BY <1>1
<1>3. DOMAIN q \subseteq DOMAIN Append(q, m) /\ Len(q) + 1 \in DOMAIN Append(q, m)
  BY <1>1
<1>4. \A i \in DOMAIN Append(q, m) : Regular(Append(q, m)[i])
  BY <1>1, <1>2 DEF InOrder
<1>5. "WELCOME" \notin CallKinds
  BY DEF CallKinds
<1>6. ASSUME NEW i \in DOMAIN Append(q, m), NEW j \in DOMAIN Append(q, m),
             Append(q, m)[i].type \in CallKinds, Append(q, m)[j].type = "WELCOME"
      PROVE  j < i
  <2>1. CASE i \in DOMAIN q /\ j \in DOMAIN q
    BY <1>1, <1>6, <2>1 DEF InOrder
  <2>2. CASE i = Len(q) + 1 /\ j \in DOMAIN q
    BY <1>1, <2>2
  <2>3. CASE j = Len(q) + 1 /\ i \in DOMAIN q
    BY <1>1, <1>6, <2>3 DEF Calls
  <2>4. CASE i = Len(q) + 1 /\ j = Len(q) + 1
    BY <1>1, <1>5, <1>6, <2>4
  <2>5. QED
    BY <1>2, <2>1, <2>2, <2>3, <2>4
<1>7. InOrder(Append(q, m))
  BY <1>4, <1>6 DEF InOrder
<1>8. Calls(Append(q, m)) <=> Calls(q) \/ m.type \in CallKinds
  BY <1>1, <1>2, <1>3 DEF Calls
<1>9. QED
  BY <1>7, <1>8

----------------------------------------------------------------------------
(* The course of an undisturbed session.                                   *)

Undisturbed == fault = NoFault /\ ~Disturbed

\* Before the caller has posted HELLO, and the places of HELLO and its answer.
Early       == caller \in {"new", "attached", "connected", "joining"}
HelloPosted == Has(posted, "JOIN")
WelcomeAtIo == io.type \in {"WELCOME"} \cup Welcoming
HelloAtIo   == io.type \in {"JOIN", "HELLO", "ABORT"} \/ WelcomeAtIo
HelloSent   == Has(wire, "HELLO")
Admitted    == Has(inbox, "WELCOME")
Aborted     == Has(inbox, "ABORT")

\* The calling thread is in Connect, Join or Listen; the io thread has a handler
\* and sends only over an open link.
Threads ==
  /\ caller \in {"new", "attached", "connected", "joining", "waiting", "listening"}
  /\ attached <=> caller # "new"
  /\ link = "none" => caller \in {"new", "attached"}
  /\ caller \in {"joining", "waiting", "listening"} => state # "closed"
  /\ io.type \notin {"FAILING", "DESTROYING", "LEAVING"}
  /\ link # "none" => caller # "new"
  /\ io.type # "IDLE" => link # "none"

\* HELLO or its answer is in one place, and there once, as long as Join waits.
Hellos ==
  /\ One(posted, "JOIN") /\ One(wire, "HELLO")
  /\ One(inbox, "WELCOME") /\ One(inbox, "ABORT")
  /\ HelloPosted => ~HelloAtIo /\ ~HelloSent /\ ~Admitted /\ ~Aborted
  /\ HelloAtIo => ~HelloSent /\ ~Admitted /\ ~Aborted
  /\ HelloSent => ~Admitted /\ ~Aborted
  /\ Admitted => ~Aborted
  /\ HelloPosted \/ HelloAtIo \/ HelloSent \/ Admitted \/ Aborted
       => joined.is = "unset" /\ caller = "waiting"
  /\ Early => joined.is = "unset"

\* The calls of the server follow its WELCOME.
InboxCourse ==
  /\ InOrder(inbox)
  /\ Calls(inbox) => welcomed
  /\ welcomed => Admitted \/ WelcomeAtIo \/ joined.is = "id"
  /\ joined.is = "id" => joined.id # 0

\* What the io thread handles is regular, and a call finds the session joined.
Handling ==
  /\ io.type \in ServerTypes => Regular(io)
  /\ WelcomeAtIo => io.id # 0
  /\ io.type \in CallKinds => joined.is = "id"

Course == Threads /\ Hellos /\ InboxCourse /\ Handling

\* A round that has ended without a pong stays without one.
VerdictIsFalse == beat = "verdict" /\ fault = NoFault => pong = "false"

HealthInv == HealthyNoFault /\ VerdictIsFalse /\ (Undisturbed => Course)

\* What has been disturbed stays so, and so does the verdict on a round.
LEMMA DisturbedStays ==
  ASSUME SessionInv, VerdictIsFalse, Next, fault = NoFault
  PROVE  (Disturbed => Disturbed') /\ VerdictIsFalse'
<1> USE DEF Disturbed, VerdictIsFalse, object, promises, main, signals, client, server,
        network
<1>1. CASE \/ OnAttach \/ JoinEnsureState \/ JoinDispatch \/ Catch \/ Uncaught
           \/ OnDetach \/ HandlerReset \/ Release \/ Destroy
  BY <1>1 DEF OnAttach, JoinEnsureState, JoinDispatch, Catch, Uncaught, OnDetach,
     HandlerReset, Release, Destroy
<1>2. CASE ConnectReturns
  BY <1>2 DEF ConnectReturns
<1>3. CASE JoinReturns \/ JoinTimesOut \/ ListenReturns
  BY <1>3 DEF JoinReturns, JoinTimesOut, ListenReturns, SessionInv, TypeOK, Answers,
     Results, Verdicts
<1>4. CASE ConnectSettles \/ LinkCloses \/ LinkClosed
  BY <1>4 DEF ConnectSettles, LinkCloses, LinkClosed
<1>5. CASE \/ RecvMessage \/ NoHandler \/ OnMessage \/ ProcessWelcomeMessage \/ KeepId
           \/ AnswerJoin \/ ProcessAbortMessage \/ LeaveDisconnect \/ UseDestroyed
           \/ TakeLambda \/ LambdaReturns \/ LambdaDestroys
  <2>1. UNCHANGED <<link, outcome, beat, pong, leaved, signalled>>
    BY <1>5 DEF RecvMessage, NoHandler, OnMessage, ProcessWelcomeMessage, WelcomeIf, KeepId,
       AnswerJoin, ProcessAbortMessage, LeaveDisconnect, UseDestroyed, TakeLambda,
       LambdaReturns, LambdaDestroys
  <2>2. QED
    BY <2>1
<1>6. CASE FailLeaved \/ Leave \/ OnOtherMessage
  <2>1. UNCHANGED <<link, outcome, beat, pong>> /\ (signalled => signalled')
    BY <1>6 DEF FailLeaved, Leave, OnOtherMessage
  <2>2. leaved # "unset" => leaved' # "unset"
    BY <1>6 DEF FailLeaved, Leave, OnOtherMessage, SetLeaved
  <2>3. QED
    BY <2>1, <2>2
<1>7. CASE JoinLambda \/ PingLambda \/ Transmit \/ ProcessCallMessage
  <2>1. UNCHANGED <<link, outcome, beat, leaved, signalled>>
    BY <1>7 DEF JoinLambda, PingLambda, Transmit, ProcessCallMessage
  <2>2. pong = "false" => pong' = "false"
    BY <1>7 DEF JoinLambda, PingLambda, Transmit, ProcessCallMessage, SendMessage,
       NetworkFailure, SetPong
  <2>3. fault' = NoFault => fault = NoFault
    OBVIOUS
  <2>4. QED
    BY <2>1, <2>2, <2>3
<1>8. CASE StartHeartbeat
  <2>1. beat = "off"
    BY <1>8 DEF StartHeartbeat, SessionInv, InWelcome, Welcoming
  <2>2. QED
    BY <1>8, <2>1 DEF StartHeartbeat
<1>9. CASE ProcessPongMessage
  BY <1>9 DEF ProcessPongMessage, SetPong
<1>10. CASE BeatPing \/ PongTimesOut \/ BeatWakesSpuriously
  BY <1>10 DEF BeatPing, PongTimesOut, BeatWakesSpuriously
<1>11. CASE BeatExpires
  BY <1>11, TerminateFaults DEF BeatExpires, SetPong
<1>12. CASE BeatVerdict
  BY <1>12 DEF BeatVerdict
<1>13. CASE \/ AnswerHello \/ AnswerPing \/ TakeReply \/ IssueCall \/ SendOutOfTurn
  BY <1>13 DEF AnswerHello, AnswerPing, TakeReply, IssueCall, SendOutOfTurn
<1>14. CASE UNCHANGED vars
  BY <1>14 DEF vars
<1>15. QED
  BY Steps, <1>1, <1>2, <1>3, <1>4, <1>5, <1>6, <1>7, <1>8, <1>9, <1>10, <1>11, <1>12,
     <1>13, <1>14

----------------------------------------------------------------------------
(* The steps of an undisturbed session.                                     *)

\* What a step starts from, and what it comes to.
Live == SessionInv /\ RoundInv /\ Undisturbed /\ Course
Fine == Disturbed' \/ (fault' = NoFault /\ Course')

\* A step that puts neither HELLO nor an answer to it anywhere.
HelloCalm ==
  /\ Keeps(posted, posted', "JOIN") /\ Keeps(wire, wire', "HELLO")
  /\ Keeps(inbox, inbox', "WELCOME") /\ Keeps(inbox, inbox', "ABORT")
  /\ HelloAtIo' => HelloAtIo
  /\ joined' = joined
  /\ caller' = caller \/ (Early /\ Early') \/ (joined.is # "unset" /\ ~Early')

\* Such a step keeps what holds of HELLO.
LEMMA HellosStay ==
  ASSUME Hellos, HelloCalm
  PROVE  Hellos'
BY DEF Hellos, HelloCalm, Keeps, HelloPosted, HelloAtIo, HelloSent, Admitted, Aborted,
       Early

\* A step that leaves alone the inbox, what the server has sent and what is handled.
HandlesOn == io' = io \/ (~WelcomeAtIo /\ io'.type \notin ServerTypes \cup Welcoming)

LEMMA HandlesStill ==
  ASSUME Handling, UNCHANGED <<io, joined>>
  PROVE  Handling'
BY DEF Handling, Regular, WelcomeAtIo

LEMMA InboxStays ==
  ASSUME InboxCourse, Handling, UNCHANGED <<inbox, welcomed, joined>>, HandlesOn
  PROVE  InboxCourse' /\ Handling'
<1>1. /\ WelcomeAtIo' <=> WelcomeAtIo
      /\ io' = io \/ ~(io'.type \in ServerTypes \/ WelcomeAtIo' \/ io'.type \in CallKinds)
  BY DEF HandlesOn, WelcomeAtIo, ServerTypes, RogueKinds
<1>2. InboxCourse'
  BY <1>1 DEF InboxCourse, InOrder, Calls, Regular, Has, Admitted
<1>3. Handling'
  BY <1>1 DEF Handling, Regular
<1>4. QED
  BY <1>2, <1>3

\* The queues that a step leaves alone.
LEMMA Untouched ==
  ASSUME TypeOK
  PROVE  /\ posted' = posted => Keeps(posted, posted', "JOIN")
         /\ wire' = wire => Keeps(wire, wire', "HELLO")
         /\ inbox' = inbox => /\ Keeps(inbox, inbox', "WELCOME")
                              /\ Keeps(inbox, inbox', "ABORT")
         /\ posted # <<>> /\ posted' = Tail(posted) => Keeps(posted, posted', "JOIN")
         /\ wire # <<>> /\ wire' = Tail(wire) => Keeps(wire, wire', "HELLO")
         /\ inbox # <<>> /\ inbox' = Tail(inbox) =>
              /\ Keeps(inbox, inbox', "WELCOME") /\ Keeps(inbox, inbox', "ABORT")
BY Keeping DEF TypeOK

\* The types of what the io thread does.
LEMMA Types ==
  /\ Idle.type = "IDLE" /\ Failing.type = "FAILING" /\ Returning.type = "RETURNING"
  /\ Destroying.type = "DESTROYING" /\ Leaving.type = "LEAVING"
  /\ Parsing.type = "PARSING"
  /\ \A t, n : Msg(t, n).type = t /\ Msg(t, n).id = n
BY DEF Idle, Failing, Returning, Destroying, Leaving, Parsing, Msg

\* The control states of the io thread between messages.
LEMMA Pauses ==
  \A t \in ClientTypes \cup Lambdas
          \cup {"IDLE", "FAILING", "RETURNING", "DESTROYING", "LEAVING", "PARSING"} :
    t \notin ServerTypes \cup Welcoming
BY DEF ClientTypes, Lambdas, ServerTypes, RogueKinds, CallKinds, Welcoming

\* The steps of Connect and Join.
LEMMA CallerFine ==
  ASSUME Live, CallerStep
  PROVE  Fine
<1> USE DEF object, promises, main, signals, client, server, network, Goto
<1>1. /\ TypeOK /\ Threads /\ Hellos /\ InboxCourse /\ Handling
      /\ fault = NoFault /\ outcome = "none" /\ leaved = "unset"
  BY DEF Live, SessionInv, Course, Undisturbed, Disturbed
<1>2. CASE OnAttach \/ (ConnectReturns /\ outcome' = "none") \/ JoinEnsureState
  <2>1. /\ UNCHANGED <<io, posted, link, wire, inbox, welcomed, joined, fault>>
        /\ Early /\ Early'
    BY <1>1, <1>2 DEF OnAttach, ConnectReturns, JoinEnsureState, Early, Threads
  <2>2. HelloCalm
    BY <1>1, <2>1, Untouched DEF HelloCalm, HelloAtIo, WelcomeAtIo
  <2>3. Threads'
    BY <1>1, <1>2, <2>1 DEF OnAttach, ConnectReturns, JoinEnsureState, Threads
  <2>4. QED
    BY <1>1, <2>1, <2>2, <2>3, HellosStay, InboxStays DEF Fine, Course, HandlesOn
<1>3. CASE JoinDispatch
  <2>1. /\ UNCHANGED <<io, link, wire, inbox, welcomed, joined, fault, state, attached>>
        /\ posted' = Append(posted, Msg("JOIN", 0))
        /\ caller = "joining" /\ caller' = "waiting"
    BY <1>3 DEF JoinDispatch
  <2>2. /\ ~HelloPosted /\ ~HelloAtIo /\ ~HelloSent /\ ~Admitted /\ ~Aborted
        /\ joined.is = "unset"
    BY <1>1, <2>1 DEF Hellos, Early
  <2>3. One(posted', "JOIN")
    BY <1>1, <2>1, <2>2, AddsTo, Messages DEF TypeOK, Hellos, HelloPosted, Lambdas
  <2>4. Hellos'
    BY <1>1, <2>1, <2>2, <2>3 DEF Hellos, HelloAtIo, WelcomeAtIo, HelloSent, Admitted, Aborted,
       Early
  <2>5. Threads'
    BY <1>1, <2>1 DEF Threads
  <2>6. QED
    BY <1>1, <2>1, <2>4, <2>5, InboxStays DEF Fine, Course, HandlesOn
<1>4. CASE JoinReturns /\ joined.is = "id" /\ caller' = "listening"
  <2>1. /\ UNCHANGED <<io, posted, link, wire, inbox, welcomed, joined, fault, state,
                       attached>>
        /\ caller = "waiting"
    BY <1>4 DEF JoinReturns
  <2>2. HelloCalm
    BY <1>1, <1>4, <2>1, Untouched DEF HelloCalm, HelloAtIo, WelcomeAtIo, Early
  <2>3. Threads'
    BY <1>1, <1>4, <2>1 DEF Threads
  <2>4. QED
    BY <1>1, <2>1, <2>2, <2>3, HellosStay, InboxStays DEF Fine, Course, HandlesOn
<1>5. CASE \/ (ConnectReturns /\ outcome' # "none") \/ JoinTimesOut \/ ListenReturns
           \/ (JoinReturns /\ outcome' = joined.is /\ joined.is # "id")
  BY <1>1, <1>5 DEF ConnectReturns, JoinTimesOut, ListenReturns, JoinReturns, Fine,
     Disturbed, TypeOK, Answers, Results, Verdicts
<1>6. CASE \/ Catch \/ Uncaught \/ OnDetach \/ HandlerReset \/ Release \/ Destroy
  BY <1>1, <1>6 DEF Catch, Uncaught, OnDetach, HandlerReset, Release, Destroy, Threads
<1>7. QED
  BY <1>2, <1>3, <1>4, <1>5, <1>6 DEF CallerStep, JoinReturns

\* The io thread starts to send m: the session is attached, and the link is open.
LEMMA SendFine ==
  ASSUME Live, NEW m, SendMessage(m), ~(caller = "new"), link # "none",
         m.type = "HELLO" \/ sessionId # 0
  PROVE  io' = m /\ UNCHANGED <<joined, pong, fault>>
<1>1. attached /\ IsConnected
  BY DEF Live, Course, Threads, Undisturbed, Disturbed, IsConnected
<1>2. QED
  BY <1>1 DEF SendMessage

\* A ping is sent by a session that is established.
LEMMA PingFine ==
  ASSUME Live, PingLambda
  PROVE  Fine
<1> USE DEF object, promises, main, signals, client, server, network
<1>1. /\ TypeOK /\ Threads /\ Hellos /\ InboxCourse /\ Handling /\ fault = NoFault
      /\ SessionAgreesWithJoin /\ RoundInv
  BY DEF Live, SessionInv, Course, Undisturbed
<1>2. /\ io.type = "BEAT" /\ SendMessage(Msg("PING", 0))
      /\ UNCHANGED <<state, sessionId, attached, caller, link, posted, wire, inbox, welcomed>>
  BY DEF PingLambda
<1>3. AtIo /\ io.type \notin Welcoming
  BY <1>2 DEF AtIo, Welcoming
<1>4. beat # "off"
  BY <1>1, <1>3 DEF RoundInv, Nowhere, Between
<1>5. joined.is = "id" /\ sessionId # 0
  BY <1>1, <1>3, <1>4 DEF SessionAgreesWithJoin, InboxCourse
<1>6. caller # "new" /\ link # "none"
  BY <1>1, <1>5 DEF Hellos, Early, Threads
<1>7. io' = Msg("PING", 0) /\ io'.type = "PING" /\ UNCHANGED <<joined, pong, fault>>
  BY <1>2, <1>5, <1>6, SendFine, Types
<1>8. HelloCalm
  BY <1>1, <1>2, <1>7, Untouched DEF HelloCalm, HelloAtIo, WelcomeAtIo, Welcoming
<1>9. Threads'
  BY <1>1, <1>2, <1>6, <1>7 DEF Threads
<1>10. HandlesOn
  BY <1>2, <1>7, Pauses DEF HandlesOn, WelcomeAtIo, Welcoming, ClientTypes
<1>11. QED
  BY <1>1, <1>2, <1>7, <1>8, <1>9, <1>10, HellosStay, InboxStays DEF Fine, Course

\* HELLO is sent while Join waits, once.
LEMMA HelloFine ==
  ASSUME Live, JoinLambda
  PROVE  Fine
<1> USE DEF object, promises, main, signals, client, server, network
<1>1. /\ TypeOK /\ Threads /\ Hellos /\ InboxCourse /\ Handling /\ fault = NoFault
      /\ SessionAgreesWithJoin
  BY DEF Live, SessionInv, Course, Undisturbed
<1>2. /\ io.type = "JOIN"
      /\ UNCHANGED <<state, sessionId, attached, caller, link, posted, wire, inbox, welcomed>>
  BY DEF JoinLambda
<1>3. HelloAtIo /\ io.type \notin Welcoming
  BY <1>2 DEF HelloAtIo, Welcoming
<1>4. joined.is = "unset" /\ caller = "waiting"
  BY <1>1, <1>3 DEF Hellos
<1>5. sessionId = 0 /\ link # "none"
  BY <1>1, <1>3, <1>4 DEF SessionAgreesWithJoin, Threads
<1>6. SendMessage(Msg("HELLO", 0))
  BY <1>5 DEF JoinLambda
<1>7. io' = Msg("HELLO", 0) /\ io'.type = "HELLO" /\ UNCHANGED <<joined, pong, fault>>
  BY <1>4, <1>5, <1>6, SendFine, Types
<1>8. HelloCalm
  BY <1>1, <1>2, <1>3, <1>7, Untouched DEF HelloCalm
<1>9. Threads'
  BY <1>1, <1>2, <1>5, <1>7 DEF Threads
<1>10. HandlesOn
  BY <1>2, <1>7, Pauses DEF HandlesOn, WelcomeAtIo, Welcoming, ClientTypes
<1>11. QED
  BY <1>1, <1>2, <1>7, <1>8, <1>9, <1>10, HellosStay, InboxStays DEF Fine, Course

\* The io thread takes the lambda of Join, or one of the heartbeat.
LEMMA LambdaFine ==
  ASSUME Live, TakeLambda
  PROVE  Fine
<1> USE DEF object, promises, main, signals, client, server, network
<1>1. /\ TypeOK /\ Threads /\ Hellos /\ InboxCourse /\ Handling /\ fault = NoFault
      /\ SessionAgreesWithJoin /\ RoundInv
  BY DEF Live, SessionInv, Course, Undisturbed
<1>2. /\ posted # <<>> /\ posted' = Tail(posted) /\ io' = Head(posted) /\ io.type = "IDLE"
      /\ UNCHANGED <<state, sessionId, attached, caller, link, wire, inbox, welcomed, joined,
                     fault>>
  BY Types DEF TakeLambda
<1>3. io'.type \in Lambdas
  <2>1. io' \in LambdaMessages
    BY <1>1, <1>2, Queues DEF TypeOK
  <2>2. QED
    BY <2>1 DEF LambdaMessages
<1>4. HandlesOn
  BY <1>2, <1>3, Pauses DEF HandlesOn, WelcomeAtIo, Welcoming
<1>5. CASE io'.type = "JOIN"
  <2>1. HelloPosted /\ ~Has(posted', "JOIN") /\ One(posted', "JOIN")
    BY <1>1, <1>2, <1>5, TakesFrom DEF TypeOK, Hellos, HelloPosted
  <2>2. joined.is = "unset" /\ caller = "waiting" /\ ~HelloSent /\ ~Admitted /\ ~Aborted
    BY <1>1, <2>1 DEF Hellos
  <2>3. Hellos'
    BY <1>1, <1>2, <2>1, <2>2 DEF Hellos, HelloPosted, HelloSent, Admitted, Aborted, Early
  <2>4. Threads'
    BY <1>1, <1>2, <1>5, <2>2 DEF Threads
  <2>5. QED
    BY <1>1, <1>2, <1>4, <2>3, <2>4, InboxStays DEF Fine, Course
<1>6. CASE io'.type = "BEAT"
  <2>1. AtPosted
    BY <1>1, <1>2, <1>6, Takes
  <2>2. beat # "off"
    BY <1>1, <2>1 DEF RoundInv, Nowhere, Between
  <2>3. joined.is = "id"
    BY <1>1, <1>2, <2>2 DEF SessionAgreesWithJoin, Welcoming
  <2>4. link # "none"
    BY <1>1, <2>3 DEF Hellos, Early, Threads
  <2>5. HelloCalm
    BY <1>1, <1>2, <1>6, Untouched DEF HelloCalm, HelloAtIo, WelcomeAtIo, Welcoming
  <2>6. Threads'
    BY <1>1, <1>2, <1>6, <2>4 DEF Threads
  <2>7. QED
    BY <1>1, <1>2, <1>4, <2>5, <2>6, HellosStay, InboxStays DEF Fine, Course
<1>7. QED
  BY <1>3, <1>5, <1>6 DEF Lambdas

\* A message goes out: the link is open, since the session was connected.
LEMMA TransmitFine ==
  ASSUME Live, Transmit
  PROVE  Fine
<1> USE DEF object, promises, main, signals, client, server, network
<1>1. /\ TypeOK /\ Threads /\ Hellos /\ InboxCourse /\ Handling /\ fault = NoFault
      /\ link = "open"
  BY DEF Transmit, ClientTypes, Live, SessionInv, Course, Undisturbed, Disturbed, Threads
<1>2. /\ io \in ClientMessages /\ io.type \in ClientTypes
      /\ UNCHANGED <<state, sessionId, attached, caller, link, posted, inbox, welcomed>>
  BY <1>1, IoMessages DEF Transmit, TypeOK
<1>3. attached
  BY <1>1 DEF Threads
<1>4. wire' = Append(wire, io) /\ UNCHANGED <<joined, pong, fault>>
  BY <1>1, <1>3 DEF Transmit
<1>5. io'.type \in {"IDLE", "RETURNING"}
  BY <1>1, <1>3, Types DEF Transmit
<1>6. ~HelloAtIo'
  BY <1>5 DEF HelloAtIo, WelcomeAtIo, Welcoming
<1>7. Hellos'
  <2>1. CASE HelloAtIo
    <3>1. /\ ~HelloPosted /\ ~HelloSent /\ ~Admitted /\ ~Aborted
          /\ joined.is = "unset" /\ caller = "waiting"
      BY <1>1, <2>1 DEF Hellos
    <3>2. One(wire', "HELLO")
      BY <1>1, <1>2, <1>4, <3>1, AddsTo DEF TypeOK, Hellos, HelloSent
    <3>3. QED
      BY <1>1, <1>2, <1>4, <1>6, <3>1, <3>2 DEF Hellos, HelloPosted, Admitted, Aborted,
         Early
  <2>2. CASE ~HelloAtIo
    <3>1. Keeps(wire, wire', "HELLO")
      BY <1>1, <1>2, <1>4, <2>2, Keeping DEF TypeOK, HelloAtIo
    <3>2. HelloCalm
      BY <1>1, <1>2, <1>4, <1>6, <3>1, Untouched DEF HelloCalm
    <3>3. QED
      BY <1>1, <3>2, HellosStay
  <2>3. QED
    BY <2>1, <2>2
<1>8. Threads'
  BY <1>1, <1>2, <1>4, <1>5 DEF Threads
<1>9. HandlesOn
  BY <1>2, <1>5, Pauses DEF HandlesOn, WelcomeAtIo, Welcoming, ClientTypes
<1>10. QED
  BY <1>1, <1>2, <1>4, <1>7, <1>8, <1>9, InboxStays DEF Fine, Course

\* The connection opens, or fails.
LEMMA ConnectFine ==
  ASSUME Live, ConnectSettles
  PROVE  Fine
<1> USE DEF object, promises, main, signals, client, server, network
<1>1. /\ TypeOK /\ Threads /\ Hellos /\ InboxCourse /\ Handling /\ fault = NoFault
  BY DEF Live, SessionInv, Course, Undisturbed
<1>2. /\ UNCHANGED <<state, attached, caller, io, posted, wire, inbox, welcomed, joined,
                     fault>>
      /\ caller = "attached" /\ link' \in {"open", "failed"}
  BY DEF ConnectSettles
<1>3. Threads'
  BY <1>1, <1>2 DEF Threads
<1>4. HelloCalm
  BY <1>1, <1>2, Untouched DEF HelloCalm, HelloAtIo, WelcomeAtIo
<1>5. QED
  BY <1>1, <1>2, <1>3, <1>4, HellosStay, InboxStays DEF Fine, Course, HandlesOn

\* RecvMessage finds a handler, which is still there once the message is parsed; a
\* lambda returns, and another owns the session.
LEMMA RecvFine ==
  ASSUME Live, RecvMessage \/ NoHandler \/ LambdaReturns
  PROVE  Fine
<1> USE DEF object, promises, main, signals, client, server, network
<1>1. /\ TypeOK /\ Threads /\ Hellos /\ InboxCourse /\ Handling /\ fault = NoFault
  BY DEF Live, SessionInv, Course, Undisturbed
<1>2. HasHandler \/ caller = "new"
  BY <1>1 DEF Threads, HasHandler
<1>3. ~NoHandler
  BY <1>1, <1>2, Types DEF NoHandler, Threads
<1>4. /\ UNCHANGED <<state, attached, caller, link, posted, wire, inbox, welcomed,
                     joined, fault>>
      /\ io.type \in {"IDLE", "RETURNING"} /\ io'.type \in {"IDLE", "PARSING"}
      /\ link = "open" \/ io'.type = "IDLE"
  BY <1>1, <1>3, Types DEF RecvMessage, LambdaReturns, Threads
<1>5. Threads'
  BY <1>1, <1>4 DEF Threads
<1>6. HelloCalm
  BY <1>1, <1>4, Untouched DEF HelloCalm, HelloAtIo, WelcomeAtIo, Welcoming
<1>7. HandlesOn
  BY <1>4, Pauses DEF HandlesOn, WelcomeAtIo, Welcoming
<1>8. QED
  BY <1>1, <1>4, <1>5, <1>6, <1>7, HellosStay, InboxStays DEF Fine, Course

\* A message is taken from the inbox.
LEMMA TakeFine ==
  ASSUME Live, OnMessage
  PROVE  Fine
<1> USE DEF object, promises, main, signals, client, server, network
<1>1. /\ TypeOK /\ Threads /\ Hellos /\ InboxCourse /\ Handling /\ fault = NoFault
  BY DEF Live, SessionInv, Course, Undisturbed
<1>2. /\ inbox # <<>> /\ inbox' = Tail(inbox) /\ io' = Head(inbox) /\ io.type = "PARSING"
      /\ UNCHANGED <<state, attached, caller, link, posted, wire, welcomed, joined, fault>>
  BY Types DEF OnMessage
<1>3. inbox \in Seq(ServerMessages) /\ io' \in ServerMessages /\ ~WelcomeAtIo
  BY <1>1, <1>2, Queues DEF TypeOK, WelcomeAtIo, Welcoming
<1>4. /\ InOrder(inbox') /\ (Calls(inbox') => Calls(inbox)) /\ Regular(io')
      /\ io'.type \in CallKinds => Calls(inbox) /\ ~Has(inbox, "WELCOME")
  BY <1>1, <1>2, <1>3, OrderTakes DEF InboxCourse
<1>5. Threads'
  BY <1>1, <1>2, <1>4 DEF Threads, Regular
<1>6. Admitted => Admitted' \/ io'.type = "WELCOME"
  BY <1>2, <1>3, TakesFrom DEF Admitted
<1>7. InboxCourse'
  BY <1>1, <1>2, <1>3, <1>4, <1>6 DEF InboxCourse, WelcomeAtIo
<1>8. Handling'
  <2>1. Regular(io)'
    BY <1>4 DEF Regular
  <2>2. (WelcomeAtIo => io.id # 0)'
    BY <1>4 DEF Regular, WelcomeAtIo, Welcoming
  <2>3. (io.type \in CallKinds => joined.is = "id")'
    BY <1>1, <1>2, <1>3, <1>4 DEF InboxCourse, Admitted
  <2>4. QED
    BY <2>1, <2>2, <2>3 DEF Handling
<1>9. Hellos'
  <2>1. CASE io'.type \in {"WELCOME", "ABORT"}
    <3>1. Admitted \/ Aborted
      BY <1>2, <1>3, <2>1, TakesFrom DEF Admitted, Aborted
    <3>2. /\ joined.is = "unset" /\ caller = "waiting" /\ ~HelloPosted /\ ~HelloSent
          /\ ~(Admitted /\ Aborted)
      BY <1>1, <3>1 DEF Hellos
    <3>3. /\ One(inbox', "WELCOME") /\ One(inbox', "ABORT")
          /\ ~Has(inbox', "WELCOME") /\ ~Has(inbox', "ABORT")
      BY <1>1, <1>2, <1>3, <2>1, <3>2, TakesFrom DEF Hellos, Admitted, Aborted
    <3>4. QED
      BY <1>1, <1>2, <3>2, <3>3 DEF Hellos, HelloPosted, HelloSent, Admitted, Aborted, Early
  <2>2. CASE io'.type \notin {"WELCOME", "ABORT"}
    <3>1. ~HelloAtIo'
      BY <1>4, <2>2 DEF HelloAtIo, WelcomeAtIo, Regular, Welcoming
    <3>2. HelloCalm
      BY <1>1, <1>2, <3>1, Untouched DEF HelloCalm
    <3>3. QED
      BY <1>1, <3>2, HellosStay
  <2>3. QED
    BY <2>1, <2>2
<1>10. QED
  BY <1>1, <1>2, <1>5, <1>7, <1>8, <1>9 DEF Fine, Course

\* WELCOME finds Join waiting, and the session is made.
LEMMA WelcomeFine ==
  ASSUME Live, ProcessWelcomeMessage \/ StartHeartbeat \/ KeepId
  PROVE  Fine
<1> USE DEF object, promises, main, signals, client, server, network
<1>1. /\ TypeOK /\ Threads /\ Hellos /\ InboxCourse /\ Handling /\ fault = NoFault
      /\ SessionAgreesWithJoin
  BY DEF Live, SessionInv, Course, Undisturbed
<1>2. /\ WelcomeAtIo /\ HelloAtIo
      /\ UNCHANGED <<attached, caller, link, posted, wire, inbox, welcomed, joined>>
  BY DEF ProcessWelcomeMessage, WelcomeIf, StartHeartbeat, KeepId, WelcomeAtIo, Welcoming,
     HelloAtIo
<1>3. joined.is = "unset" /\ caller = "waiting"
  BY <1>1, <1>2 DEF Hellos
<1>4. ProcessWelcomeMessage => state = "establishing"
  <2>1. ProcessWelcomeMessage => io.type \notin Welcoming
    BY DEF ProcessWelcomeMessage, WelcomeIf, Welcoming
  <2>2. QED
    BY <1>1, <1>3, <2>1 DEF Threads, SessionAgreesWithJoin, TypeOK
<1>5. /\ fault' = NoFault /\ io'.type \in Welcoming /\ io'.id = io.id
      /\ state' = state \/ state' = "established"
  BY <1>1, <1>4, Types DEF ProcessWelcomeMessage, WelcomeIf, StartHeartbeat, KeepId,
     Welcoming
<1>6. WelcomeAtIo' /\ HelloAtIo' /\ io'.type \notin ServerTypes
  BY <1>5 DEF WelcomeAtIo, HelloAtIo, Welcoming, ServerTypes, RogueKinds, CallKinds
<1>7. HelloCalm
  BY <1>1, <1>2, <1>6, Untouched DEF HelloCalm
<1>8. Threads'
  BY <1>1, <1>2, <1>3, <1>5 DEF Threads, Welcoming
<1>9. InboxCourse'
  BY <1>1, <1>2, <1>6 DEF InboxCourse, Admitted
<1>10. Handling'
  BY <1>1, <1>2, <1>5, <1>6 DEF Handling, ServerTypes
<1>11. QED
  BY <1>1, <1>5, <1>7, <1>8, <1>9, <1>10, HellosStay DEF Fine, Course

\* Nothing else is under way when the handler of a WELCOME, or of an ABORT, ends.
LEMMA AnswerFine ==
  ASSUME Live, HelloAtIo, io' = Idle, joined'.is = "id" => joined'.id # 0,
         welcomed => joined'.is = "id",
         UNCHANGED <<state, attached, caller, link, posted, wire, inbox, welcomed, fault>>
  PROVE  Fine
<1>1. Threads /\ Hellos /\ InboxCourse /\ Handling /\ fault = NoFault
  BY DEF Live, Course, Undisturbed
<1>2. ~HelloAtIo' /\ ~WelcomeAtIo' /\ io'.type = "IDLE" /\ io'.type \notin ServerTypes
  BY Types, Pauses DEF HelloAtIo, WelcomeAtIo, Welcoming
<1>3. Hellos'
  BY <1>1, <1>2 DEF Hellos, HelloPosted, HelloSent, Admitted, Aborted, Early
<1>4. Threads'
  BY <1>1, <1>2 DEF Threads
<1>5. InboxCourse'
  BY <1>1 DEF InboxCourse
<1>6. Handling'
  BY <1>2 DEF Handling, ServerTypes
<1>7. QED
  BY <1>1, <1>3, <1>4, <1>5, <1>6 DEF Fine, Course

\* Join's promise is set to the id.
LEMMA JoinFine ==
  ASSUME Live, AnswerJoin
  PROVE  Fine
<1> USE DEF object, promises, main, signals, client, server, network
<1>1. /\ Hellos /\ Handling /\ fault = NoFault /\ InWelcome
  BY DEF Live, SessionInv, Course, Undisturbed
<1>2. /\ io.type = "ANSWERING" /\ WelcomeAtIo /\ HelloAtIo /\ io' = Idle
      /\ UNCHANGED <<state, attached, caller, link, posted, wire, inbox, welcomed>>
  BY DEF AnswerJoin, WelcomeAtIo, HelloAtIo, Welcoming
<1>3. joined.is = "unset" /\ sessionId = io.id /\ io.id # 0
  BY <1>1, <1>2 DEF Hellos, Handling, InWelcome, Welcoming
<1>4. fault' = fault /\ joined' = [is |-> "id", id |-> sessionId]
  BY <1>3 DEF AnswerJoin, SetJoined
<1>5. joined'.is = "id" /\ joined'.id # 0
  BY <1>3, <1>4
<1>6. QED
  BY <1>2, <1>4, <1>5, AnswerFine

\* ABORT finds Join waiting, and sets its promise.
LEMMA AbortFine ==
  ASSUME Live, ProcessAbortMessage
  PROVE  Fine
<1> USE DEF object, promises, main, signals, client, server, network
<1>1. Hellos /\ InboxCourse
  BY DEF Live, Course
<1>2. /\ HelloAtIo /\ ~WelcomeAtIo /\ io' = Idle
      /\ UNCHANGED <<state, attached, caller, link, posted, wire, inbox, welcomed>>
  BY DEF ProcessAbortMessage, WelcomeAtIo, HelloAtIo, Welcoming
<1>3. joined.is = "unset" /\ ~Admitted
  BY <1>1, <1>2 DEF Hellos
<1>4. fault' = fault /\ joined' = [is |-> "abort", id |-> 0]
  BY <1>3 DEF ProcessAbortMessage, SetJoined
<1>5. joined'.is = "abort" /\ ~welcomed
  BY <1>1, <1>2, <1>3, <1>4 DEF InboxCourse
<1>6. QED
  BY <1>2, <1>4, <1>5, AnswerFine

\* PONG finds pong_received_ unset.
LEMMA PongFine ==
  ASSUME Live, ProcessPongMessage
  PROVE  Fine
<1> USE DEF object, promises, main, signals, client, server, network
<1>1. /\ TypeOK /\ Threads /\ Hellos /\ InboxCourse /\ Handling /\ fault = NoFault /\ RoundInv
      /\ pong # "false"
  BY DEF Live, SessionInv, Course, Undisturbed, Disturbed
<1>2. /\ io.type = "PONG" /\ io'.type = "IDLE"
      /\ UNCHANGED <<state, attached, caller, link, posted, wire, inbox, welcomed, joined>>
  BY Types DEF ProcessPongMessage
<1>3. AtIo
  BY <1>2 DEF AtIo
<1>4. pong = "unset"
  BY <1>1, <1>3 DEF RoundInv, Nowhere, TypeOK, Pongs
<1>5. fault' = NoFault
  BY <1>1, <1>4 DEF ProcessPongMessage, SetPong
<1>6. HelloCalm
  BY <1>1, <1>2, Untouched DEF HelloCalm, HelloAtIo, WelcomeAtIo, Welcoming
<1>7. Threads'
  BY <1>1, <1>2 DEF Threads
<1>8. HandlesOn
  BY <1>2, Pauses DEF HandlesOn, WelcomeAtIo, Welcoming
<1>9. QED
  BY <1>1, <1>2, <1>5, <1>6, <1>7, <1>8, HellosStay, InboxStays DEF Fine, Course

\* A call finds the session established, and its operation returns.
LEMMA CallFine ==
  ASSUME Live, ProcessCallMessage
  PROVE  Fine
<1> USE DEF object, promises, main, signals, client, server, network
<1>1. /\ TypeOK /\ Threads /\ Hellos /\ InboxCourse /\ Handling /\ fault = NoFault
      /\ SessionAgreesWithJoin
  BY DEF Live, SessionInv, Course, Undisturbed
<1>2. /\ io.type \in CallKinds /\ io.type \in ServerTypes
      /\ UNCHANGED <<state, attached, caller, link, posted, wire, inbox, welcomed>>
  BY DEF ProcessCallMessage, CallKinds, ServerTypes
<1>3. io.type # "CALL_THROWS" /\ joined.is = "id"
  BY <1>1, <1>2 DEF Handling, Regular
<1>4. PICK r \in {"RESULT", "ERROR"} : SendMessage(Msg(r, io.id))
  BY <1>3 DEF ProcessCallMessage
<1>5. sessionId # 0 /\ caller # "new" /\ link # "none"
  BY <1>1, <1>3 DEF InboxCourse, SessionAgreesWithJoin, Hellos, Early, Threads
<1>6. io' = Msg(r, io.id) /\ io'.type = r /\ UNCHANGED <<joined, pong, fault>>
  BY <1>4, <1>5, SendFine, Types
<1>7. HelloCalm
  BY <1>1, <1>2, <1>6, Untouched DEF HelloCalm, HelloAtIo, WelcomeAtIo, Welcoming
<1>8. Threads'
  BY <1>1, <1>2, <1>5, <1>6 DEF Threads
<1>9. HandlesOn
  BY <1>2, <1>6, Pauses DEF HandlesOn, WelcomeAtIo, Welcoming, ClientTypes, CallKinds
<1>10. QED
  BY <1>1, <1>2, <1>6, <1>7, <1>8, <1>9, HellosStay, InboxStays DEF Fine, Course

\* Nothing else is handled; Leave disturbs the session.
LEMMA OtherFine ==
  ASSUME Live, \/ FailLeaved \/ OnOtherMessage \/ LeaveDisconnect \/ LambdaDestroys
               \/ UseDestroyed \/ Leave
  PROVE  Fine
<1>1. Threads /\ Handling
  BY DEF Live, Course
<1>2. ~FailLeaved /\ ~LeaveDisconnect /\ ~LambdaDestroys /\ ~UseDestroyed
  BY <1>1, Types DEF Threads, FailLeaved, LeaveDisconnect, LambdaDestroys, UseDestroyed, Gone
<1>3. ~OnOtherMessage
  BY <1>1 DEF Handling, Regular, OnOtherMessage, ServerTypes, RogueKinds
<1>4. Leave => Disturbed'
  BY DEF Leave, Disturbed
<1>5. QED
  BY <1>2, <1>3, <1>4 DEF Fine

\* The heartbeat.
LEMMA BeatFine ==
  ASSUME Live, BeatStep \/ BeatWakesSpuriously
  PROVE  Fine
<1> USE DEF object, promises, main, signals, client, server, network
<1>1. /\ TypeOK /\ Threads /\ Hellos /\ InboxCourse /\ Handling /\ fault = NoFault
      /\ pong # "false" /\ beat # "expired"
  BY DEF Live, SessionInv, Course, Undisturbed, Disturbed
<1>2. CASE PongTimesOut \/ BeatExpires
  BY <1>1, <1>2 DEF PongTimesOut, BeatExpires, Fine, Disturbed
<1>3. CASE BeatPing \/ BeatVerdict \/ BeatWakesSpuriously
  <2>1. /\ UNCHANGED <<state, attached, caller, link, io, wire, inbox, welcomed,
                       joined, fault>>
    BY <1>1, <1>3 DEF BeatPing, NoOwner, BeatVerdict, BeatWakesSpuriously, Threads
  <2>2. posted' = posted \/ posted' = Append(posted, Msg("BEAT", 0))
    BY <1>1, <1>3 DEF BeatPing, NoOwner, BeatVerdict, BeatWakesSpuriously, Threads
  <2>3. Msg("BEAT", 0) \in LambdaMessages /\ Msg("BEAT", 0).type # "JOIN"
    BY Messages DEF Lambdas, Msg
  <2>4. Keeps(posted, posted', "JOIN")
    BY <1>1, <2>2, <2>3, Keeping DEF TypeOK
  <2>5. HelloCalm
    BY <1>1, <2>1, <2>4, Untouched DEF HelloCalm, HelloAtIo, WelcomeAtIo
  <2>6. Threads'
    BY <1>1, <2>1 DEF Threads
  <2>7. QED
    BY <1>1, <2>1, <2>5, <2>6, HellosStay, InboxStays DEF Fine, Course, HandlesOn
<1>4. QED
  BY <1>2, <1>3 DEF BeatStep

\* The server admits the client, refuses it, or stays silent.
LEMMA HelloAnswered ==
  ASSUME Live, Compliant, SessionConstants, AnswerHello
  PROVE  Fine
<1> USE DEF object, promises, main, signals, client, server, network
<1>1. /\ TypeOK /\ Threads /\ Hellos /\ InboxCourse /\ Handling /\ fault = NoFault
  BY DEF Live, SessionInv, Course, Undisturbed
<1>2. /\ wire # <<>> /\ wire' = Tail(wire) /\ Head(wire).type = "HELLO"
      /\ UNCHANGED <<state, attached, caller, link, io, posted, joined, fault>>
  BY DEF AnswerHello, TakeWire
<1>3. HelloSent /\ ~Has(wire', "HELLO") /\ One(wire', "HELLO")
  BY <1>1, <1>2, TakesFrom DEF TypeOK, Hellos, HelloSent
<1>4. /\ joined.is = "unset" /\ caller = "waiting"
      /\ ~HelloPosted /\ ~HelloAtIo /\ ~Admitted /\ ~Aborted
  BY <1>1, <1>3 DEF Hellos
<1>5. ~welcomed /\ ~Calls(inbox)
  BY <1>1, <1>4 DEF InboxCourse, HelloAtIo
<1>6. Threads'
  BY <1>1, <1>2 DEF Threads
<1>7. inbox \in Seq(ServerMessages) /\ InOrder(inbox)
  BY <1>1 DEF TypeOK, InboxCourse
<1>8. CASE UNCHANGED <<inbox, welcomed>>
  <2>1. Hellos'
    BY <1>1, <1>2, <1>3, <1>4, <1>8 DEF Hellos, HelloPosted, HelloAtIo, WelcomeAtIo, HelloSent,
       Admitted, Aborted, Early
  <2>2. QED
    BY <1>1, <1>2, <1>6, <1>8, <2>1, InboxStays DEF Fine, Course, HandlesOn
<1>9. CASE Send(Msg("ABORT", 0)) /\ UNCHANGED welcomed
  <2> DEFINE m == Msg("ABORT", 0)
  <2>1. /\ m \in ServerMessages /\ m.type = "ABORT" /\ Regular(m)
        /\ m.type \notin CallKinds
    BY Messages DEF ServerTypes, RogueKinds, Regular, Msg, CallKinds
  <2>2. inbox' = Append(inbox, m)
    BY <1>9 DEF Send
  <2> HIDE DEF m
  <2>3. One(inbox', "ABORT") /\ Keeps(inbox, inbox', "WELCOME")
    BY <1>1, <1>4, <1>7, <2>1, <2>2, AddsTo, Keeping DEF Hellos, Aborted
  <2>4. Hellos'
    BY <1>1, <1>2, <1>3, <1>4, <2>3 DEF Hellos, HelloPosted, HelloAtIo, WelcomeAtIo, HelloSent,
       Admitted, Aborted, Early, Keeps
  <2>5. InOrder(inbox') /\ ~Calls(inbox')
    BY <1>5, <1>7, <2>1, <2>2, OrderAdds
  <2>6. InboxCourse'
    BY <1>2, <1>4, <1>5, <1>9, <2>5 DEF InboxCourse, InOrder, Calls, Regular, WelcomeAtIo
  <2>7. QED
    BY <1>1, <1>2, <1>6, <2>4, <2>6, HandlesStill DEF Fine, Course
<1>10. CASE (\E n \in SessionIds : Send(Msg("WELCOME", n))) /\ welcomed' = TRUE
  <2>1. PICK n \in SessionIds : Send(Msg("WELCOME", n))
    BY <1>10
  <2> DEFINE m == Msg("WELCOME", n)
  <2>2. n \in Nat /\ n # 0
    BY DEF Compliant, SessionConstants
  <2>3. /\ m \in ServerMessages /\ m.type = "WELCOME" /\ Regular(m)
        /\ m.type \notin CallKinds
    BY <2>2, Messages DEF ServerTypes, RogueKinds, Regular, Msg, CallKinds
  <2>4. inbox' = Append(inbox, m)
    BY <2>1 DEF Send
  <2> HIDE DEF m
  <2>5. /\ One(inbox', "WELCOME") /\ Keeps(inbox, inbox', "ABORT")
        /\ Has(inbox', "WELCOME")
    BY <1>1, <1>4, <1>7, <2>3, <2>4, AddsTo, Keeping DEF Hellos, Admitted
  <2>6. Hellos'
    BY <1>1, <1>2, <1>3, <1>4, <2>5 DEF Hellos, HelloPosted, HelloAtIo, WelcomeAtIo, HelloSent,
       Admitted, Aborted, Early, Keeps
  <2>7. InOrder(inbox') /\ ~Calls(inbox')
    BY <1>5, <1>7, <2>3, <2>4, OrderAdds
  <2>8. InboxCourse'
    BY <1>2, <1>4, <2>5, <2>7 DEF InboxCourse, InOrder, Calls, Regular, WelcomeAtIo, Admitted
  <2>9. QED
    BY <1>1, <1>2, <1>6, <2>6, <2>8, HandlesStill DEF Fine, Course
<1>11. QED
  BY <1>8, <1>9, <1>10 DEF AnswerHello

\* The server answers a ping, or adds a call.
LEMMA ServerAdds ==
  ASSUME Live, NEW m \in ServerMessages, Regular(m), m.type \notin {"WELCOME", "ABORT"},
         inbox' = Append(inbox, m), Keeps(wire, wire', "HELLO"),
         m.type \in CallKinds => welcomed,
         UNCHANGED <<state, attached, caller, link, io, posted, joined, fault, welcomed>>
  PROVE  Fine
<1>1. /\ TypeOK /\ Threads /\ Hellos /\ InboxCourse /\ Handling /\ fault = NoFault
  BY DEF Live, SessionInv, Course, Undisturbed
<1>2. inbox \in Seq(ServerMessages) /\ InOrder(inbox)
  BY <1>1 DEF TypeOK, InboxCourse
<1>3. InOrder(inbox') /\ (Calls(inbox') => Calls(inbox) \/ m.type \in CallKinds)
  BY <1>2, OrderAdds
<1>4. /\ Keeps(inbox, inbox', "WELCOME") /\ Keeps(inbox, inbox', "ABORT")
      /\ Admitted => Has(inbox', "WELCOME")
  BY <1>2, Keeping, AddsTo DEF Admitted
<1>5. HelloCalm
  BY <1>1, <1>4, Untouched DEF HelloCalm, HelloAtIo, WelcomeAtIo
<1>6. InboxCourse'
  BY <1>1, <1>3, <1>4 DEF InboxCourse, InOrder, Calls, Regular, WelcomeAtIo, Admitted
<1>7. Threads'
  BY <1>1 DEF Threads
<1>8. QED
  BY <1>1, <1>5, <1>6, <1>7, HellosStay, HandlesStill DEF Fine, Course

\* The server and the network.
LEMMA ServerFine ==
  ASSUME Live, Compliant, SessionConstants, ServerStep \/ LinkClosed
  PROVE  Fine
<1> USE DEF object, promises, main, signals, client, server, network
<1>1. /\ TypeOK /\ Threads /\ Hellos /\ InboxCourse /\ Handling /\ fault = NoFault
      /\ link \in {"none", "open"}
  BY DEF Live, SessionInv, Course, Undisturbed, Disturbed
<1>2. CASE AnswerPing \/ TakeReply
  <2>1. /\ wire # <<>> /\ wire' = Tail(wire)
        /\ inbox' = inbox \/ inbox' = Append(inbox, Msg("PONG", 0))
        /\ UNCHANGED <<state, attached, caller, link, io, posted, joined, fault, welcomed>>
    BY <1>2 DEF AnswerPing, TakeReply, TakeWire, Send
  <2>2. Keeps(wire, wire', "HELLO")
    BY <1>1, <2>1, Untouched
  <2>3. CASE inbox' = inbox
    <3>1. HelloCalm
      BY <1>1, <2>1, <2>2, <2>3, Untouched DEF HelloCalm, HelloAtIo, WelcomeAtIo
    <3>2. Threads'
      BY <1>1, <2>1 DEF Threads
    <3>3. QED
      BY <1>1, <2>1, <2>3, <3>1, <3>2, HellosStay, InboxStays DEF Fine, Course, HandlesOn
  <2>4. CASE inbox' = Append(inbox, Msg("PONG", 0))
    <3> DEFINE m == Msg("PONG", 0)
    <3>1. /\ m \in ServerMessages /\ Regular(m) /\ m.type = "PONG"
          /\ m.type \notin CallKinds
      BY Messages DEF ServerTypes, RogueKinds, Regular, Msg, CallKinds
    <3>2. inbox' = Append(inbox, m)
      BY <2>4
    <3> HIDE DEF m
    <3>3. QED
      BY <2>1, <2>2, <3>1, <3>2, ServerAdds
  <2>5. QED
    BY <2>1, <2>3, <2>4
<1>3. CASE IssueCall
  <2>1. PICK t \in CallTypes : Send(Msg(t, issued + 1))
    BY <1>3 DEF IssueCall
  <2> DEFINE m == Msg(t, issued + 1)
  <2>2. t \in {"CALL", "CALL_UNKNOWN"} /\ issued + 1 \in Nat
    BY <1>1 DEF Compliant, SessionConstants, CallKinds, TypeOK
  <2>3. m \in ServerMessages /\ Regular(m) /\ m.type \notin {"WELCOME", "ABORT"}
    BY <2>2, Messages DEF ServerTypes, CallKinds, Regular, Msg
  <2>4. /\ inbox' = Append(inbox, m) /\ welcomed /\ wire' = wire
        /\ UNCHANGED <<state, attached, caller, link, io, posted, joined, fault, welcomed>>
    BY <1>3, <2>1 DEF IssueCall, Send
  <2> HIDE DEF m
  <2>5. Keeps(wire, wire', "HELLO")
    BY <1>1, <2>4, Untouched
  <2>6. QED
    BY <2>3, <2>4, <2>5, ServerAdds
<1>4. ~SendOutOfTurn
  BY DEF SendOutOfTurn, Compliant
<1>5. CASE LinkCloses \/ LinkClosed
  BY <1>1, <1>5 DEF LinkCloses, LinkClosed, Fine, Disturbed
<1>6. CASE AnswerHello
  BY <1>6, HelloAnswered
<1>7. QED
  BY <1>2, <1>3, <1>4, <1>5, <1>6 DEF ServerStep

----------------------------------------------------------------------------

\* The inductive invariant, initially and in each step.
LEMMA HealthInvInit == Init => HealthInv
<1> SUFFICES ASSUME Init PROVE HealthInv
  OBVIOUS
<1>1. HealthyNoFault /\ VerdictIsFalse
  BY DEF Init, HealthyNoFault, VerdictIsFalse
<1>2. Threads
  BY Types DEF Init, Threads
<1>3. Hellos
  BY Types DEF Init, Hellos, HelloPosted, HelloAtIo, WelcomeAtIo, Welcoming, HelloSent,
     Admitted, Aborted, Has, One
<1>4. InboxCourse
  BY DEF Init, InboxCourse, InOrder, Calls
<1>5. Handling
  BY Types, Pauses DEF Init, Handling, WelcomeAtIo, Welcoming, ServerTypes
<1>6. QED
  BY <1>1, <1>2, <1>3, <1>4, <1>5 DEF HealthInv, Course

LEMMA HealthInvStep ==
  ASSUME SessionInv, RoundInv, HealthInv, [Next]_vars, Compliant, SessionConstants
  PROVE  HealthInv'
<1>1. CASE UNCHANGED vars
  <2> USE <1>1 DEF vars, object, promises, main, signals, server, network
  <2>1. HealthyNoFault' /\ VerdictIsFalse' /\ (Undisturbed' => Undisturbed)
    BY DEF HealthInv, HealthyNoFault, VerdictIsFalse, Undisturbed, Disturbed
  <2>2. Threads => Threads'
    BY DEF Threads
  <2>3. InboxCourse /\ Handling => InboxCourse' /\ Handling'
    BY InboxStays DEF HandlesOn
  <2>4. Hellos => Hellos'
    BY DEF Hellos, HelloPosted, HelloAtIo, WelcomeAtIo, HelloSent, Admitted, Aborted, Early
  <2>5. QED
    BY <2>1, <2>2, <2>3, <2>4 DEF HealthInv, Course
<1>2. CASE Next /\ fault = NoFault /\ Disturbed
  <2>1. Disturbed' /\ VerdictIsFalse'
    BY <1>2, DisturbedStays DEF HealthInv
  <2>2. QED
    BY <2>1 DEF HealthInv, HealthyNoFault, Undisturbed
<1>3. CASE Next /\ fault = NoFault /\ ~Disturbed /\ ~UNCHANGED vars
  <2>1. Live
    BY <1>3 DEF Live, HealthInv, Undisturbed
  <2>2. Fine
    BY <1>3, <2>1, CallerFine, ConnectFine, LambdaFine, HelloFine, PingFine, TransmitFine,
       RecvFine, TakeFine, WelcomeFine, JoinFine, AbortFine, PongFine, CallFine, OtherFine,
       BeatFine, ServerFine
       DEF Next, Running, Ended, IoStep, HandlerStep
  <2>3. VerdictIsFalse'
    BY <1>3, DisturbedStays DEF HealthInv
  <2>4. QED
    BY <2>2, <2>3 DEF Fine, HealthInv, HealthyNoFault, Undisturbed
<1>4. QED
  BY <1>1, <1>2, <1>3 DEF Next, Running, Ended

\* With a server that follows the protocol no exception leaves a thread as long as
\* nothing disturbs the session (HealthyNoFault): in every interleaving of Join, the io
\* thread, the heartbeat and any number of calls, HELLO is answered once, the calls
\* follow WELCOME and no promise is set twice.
THEOREM HealthyRuns ==
  ASSUME Compliant
  PROVE  Spec => []HealthyNoFault
<1>1. ASSUME SessionInv, RoundInv, [Next]_vars
      PROVE  RoundInv'
  BY <1>1, RoundInvStep, SessionConstants DEF Compliant
<1>2. ASSUME SessionInv, RoundInv, HealthInv, [Next]_vars
      PROVE  HealthInv'
  BY <1>2, HealthInvStep, SessionConstants
<1>3. HealthInv => HealthyNoFault
  BY DEF HealthInv
<1>4. QED
  BY <1>1, <1>2, <1>3, RoundInvInit, HealthInvInit, SessionInvAlways, PTL DEF Spec
=============================================================================
