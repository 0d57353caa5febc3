--------------------------- MODULE RoundProofs -------------------------------
(***************************************************************************)
(* Proofs about the rounds of the heartbeat (Session), with a server that   *)
(* sends a PONG only in answer to a PING.                                   *)
(***************************************************************************)
EXTENDS SessionProofs

\* A queue holds a message of type t, or not more than one.
Has(q, t) == \E i \in DOMAIN q : q[i].type = t
One(q, t) == \A i, j \in DOMAIN q : q[i].type = t /\ q[j].type = t => i = j

\* What is left of a queue whose head is taken.
LEMMA TakesFrom ==
  ASSUME NEW S, NEW q \in Seq(S), q # <<>>, NEW t
  PROVE  /\ Head(q).type = t => Has(q, t)
         /\ Has(Tail(q), t) => Has(q, t)
         /\ One(q, t) => One(Tail(q), t)
         /\ One(q, t) /\ Head(q).type = t => ~Has(Tail(q), t)
         /\ Has(q, t) => Head(q).type = t \/ Has(Tail(q), t)
<1>1. Len(q) \in Nat /\ Len(q) # 0 /\ DOMAIN q = 1 .. Len(q) /\ Head(q) = q[1]
  OBVIOUS
<1>2. /\ DOMAIN Tail(q) = 1 .. Len(q) - 1
      /\ \A i \in DOMAIN Tail(q) : Tail(q)[i] = q[i + 1] /\ i + 1 \in DOMAIN q
  BY <1>1
<1>3. \A i \in DOMAIN q : i = 1 \/ (i - 1 \in DOMAIN Tail(q) /\ Tail(q)[i - 1] = q[i])
  BY <1>1, <1>2
<1>4. 1 \in DOMAIN q
  BY <1>1
<1>5. Head(q).type = t => Has(q, t)
  BY <1>1, <1>4 DEF Has
<1>6. Has(Tail(q), t) => Has(q, t)
  BY <1>2 DEF Has
<1>7. Has(q, t) => Head(q).type = t \/ Has(Tail(q), t)
  BY <1>1, <1>3 DEF Has
<1>8. ASSUME One(q, t) PROVE One(Tail(q), t)
  <2>1. ASSUME NEW i \in DOMAIN Tail(q), NEW j \in DOMAIN Tail(q),
               Tail(q)[i].type = t, Tail(q)[j].type = t
        PROVE  i = j
    <3>1. i \in 1 .. Len(q) - 1 /\ j \in 1 .. Len(q) - 1
      BY <1>2
    <3>2. i + 1 \in DOMAIN q /\ j + 1 \in DOMAIN q
      BY <1>2, <2>1
    <3>3. q[i + 1].type = t /\ q[j + 1].type = t
      BY <1>2, <2>1
    <3>4. i + 1 = j + 1
      BY <1>8, <3>2, <3>3 DEF One
    <3>5. QED
      BY <1>1, <3>1, <3>4
  <2>2. QED
    BY <2>1 DEF One
<1>9. ASSUME One(q, t), Head(q).type = t PROVE ~Has(Tail(q), t)
  <2>1. ASSUME NEW i \in DOMAIN Tail(q), Tail(q)[i].type = t
        PROVE  FALSE
    <3>1. i + 1 = 1
      BY <1>1, <1>2, <1>4, <1>9, <2>1 DEF One
    <3>2. i \in 1 .. Len(q) - 1
      BY <1>2
    <3>3. QED
      BY <1>1, <3>1, <3>2
  <2>2. QED
    BY <2>1 DEF Has
<1>10. QED
  BY <1>5, <1>6, <1>7, <1>8, <1>9

\* What a queue holds when a message is added.
LEMMA AddsTo ==
  ASSUME NEW S, NEW q \in Seq(S), NEW m \in S, NEW t
  PROVE  /\ Has(Append(q, m), t) <=> Has(q, t) \/ m.type = t
         /\ One(q, t) /\ (m.type = t => ~Has(q, t)) => One(Append(q, m), t)
<1>1. /\ Len(q) \in Nat /\ DOMAIN q = 1 .. Len(q)
      /\ DOMAIN Append(q, m) = 1 .. Len(q) + 1
      /\ \A i \in DOMAIN q : Append(q, m)[i] = q[i]
      /\ Append(q, m)[Len(q) + 1] = m
  OBVIOUS
<1>2. \A i \in DOMAIN Append(q, m) : i \in DOMAIN q \/ i = Len(q) + 1
  BY <1>1
<1>3. DOMAIN q \subseteq DOMAIN Append(q, m) /\ Len(q) + 1 \in DOMAIN Append(q, m)
  BY <1>1
<1>4. Has(Append(q, m), t) <=> Has(q, t) \/ m.type = t
  BY <1>1, <1>2, <1>3 DEF Has
<1>5. One(q, t) /\ (m.type = t => ~Has(q, t)) => One(Append(q, m), t)
  BY <1>1, <1>2 DEF Has, One
<1>6. QED
  BY <1>4, <1>5

----------------------------------------------------------------------------
(* Where the ping or the pong of a round can be.                           *)

AtIo     == io.type \in {"BEAT", "PING", "PONG"}
AtPosted == Has(posted, "BEAT")
AtWire   == Has(wire, "PING")
AtInbox  == Has(inbox, "PONG")

Nowhere == ~AtPosted /\ ~AtIo /\ ~AtWire /\ ~AtInbox

\* A ping or a pong is in one place, and there once.
OnePlace ==
  /\ One(posted, "BEAT") /\ One(wire, "PING") /\ One(inbox, "PONG")
  /\ AtPosted => ~AtIo /\ ~AtWire /\ ~AtInbox
  /\ AtIo => ~AtWire /\ ~AtInbox
  /\ AtWire => ~AtInbox

\* Between two rounds nothing is under way.
Between == beat \in {"off", "sleep"} /\ fault = NoFault

RoundInv ==
  /\ OnePlace
  /\ Between => Nowhere /\ pong = "unset"
  /\ pong = "true" => Nowhere

\* A step that puts no ping and no pong anywhere, and starts no round.
Calm ==
  /\ (AtPosted' => AtPosted) /\ (One(posted, "BEAT") => One(posted, "BEAT")')
  /\ (AtWire' => AtWire) /\ (One(wire, "PING") => One(wire, "PING")')
  /\ (AtInbox' => AtInbox) /\ (One(inbox, "PONG") => One(inbox, "PONG")')
  /\ AtIo' => AtIo
  /\ Between' => Between /\ pong' = pong
  /\ pong' = "true" => pong = "true"

\* Such a step keeps the invariant.
LEMMA CalmStep ==
  ASSUME RoundInv, Calm
  PROVE  RoundInv'
<1>1. Nowhere => Nowhere'
  BY DEF Calm, Nowhere
<1>2. OnePlace'
  BY DEF Calm, OnePlace, RoundInv
<1>3. (Between => Nowhere /\ pong = "unset")'
  BY <1>1 DEF RoundInv, Calm
<1>4. (pong = "true" => Nowhere)'
  BY <1>1 DEF RoundInv, Calm
<1>5. QED
  BY <1>2, <1>3, <1>4 DEF RoundInv

\* The invariant, initially.
LEMMA RoundInvInit == Init => RoundInv
BY DEF Init, RoundInv, OnePlace, One, Has, Nowhere, AtIo, AtPosted, AtWire, AtInbox,
       Between, Idle, Msg

\* The invariant is stronger than RoundsDoNotOverlap.
LEMMA Implied ==
  ASSUME TypeOK, RoundInv
  PROVE  RoundsDoNotOverlap
<1>1. ASSUME NEW x \in InFlight, NEW y \in InFlight
      PROVE  x = y
  BY <1>1 DEF InFlight, At, RoundInv, OnePlace, One, Has, AtIo, AtPosted, AtWire, AtInbox
<1>2. Nowhere => InFlight = {}
  BY DEF InFlight, At, Nowhere, Has, AtIo, AtPosted, AtWire, AtInbox
<1>3. QED
  BY <1>1, <1>2 DEF RoundsDoNotOverlap, RoundInv, Between

----------------------------------------------------------------------------
(* The steps that start no round and move no ping or pong.                  *)

\* A lambda is taken from posted_, a message from the wire or the inbox.
LEMMA Takes ==
  ASSUME TypeOK
  PROVE  /\ posted # <<>> /\ posted' = Tail(posted) =>
              /\ AtPosted' => AtPosted
              /\ One(posted, "BEAT") => One(posted, "BEAT")'
              /\ One(posted, "BEAT") /\ Head(posted).type = "BEAT" => ~AtPosted'
              /\ Head(posted).type = "BEAT" => AtPosted
         /\ wire # <<>> /\ wire' = Tail(wire) =>
              /\ AtWire' => AtWire
              /\ One(wire, "PING") => One(wire, "PING")'
              /\ One(wire, "PING") /\ Head(wire).type = "PING" => ~AtWire'
              /\ Head(wire).type = "PING" => AtWire
         /\ inbox # <<>> /\ inbox' = Tail(inbox) =>
              /\ AtInbox' => AtInbox
              /\ One(inbox, "PONG") => One(inbox, "PONG")'
              /\ One(inbox, "PONG") /\ Head(inbox).type = "PONG" => ~AtInbox'
              /\ Head(inbox).type = "PONG" => AtInbox
<1>1. posted \in Seq(LambdaMessages) /\ wire \in Seq(ClientMessages) /\ inbox \in Seq(ServerMessages)
  BY DEF TypeOK
<1>2. ASSUME posted # <<>>, posted' = Tail(posted)
      PROVE  /\ AtPosted' => AtPosted
             /\ One(posted, "BEAT") => One(posted, "BEAT")'
             /\ One(posted, "BEAT") /\ Head(posted).type = "BEAT" => ~AtPosted'
             /\ Head(posted).type = "BEAT" => AtPosted
  BY <1>1, <1>2, TakesFrom DEF AtPosted
<1>3. ASSUME wire # <<>>, wire' = Tail(wire)
      PROVE  /\ AtWire' => AtWire
             /\ One(wire, "PING") => One(wire, "PING")'
             /\ One(wire, "PING") /\ Head(wire).type = "PING" => ~AtWire'
             /\ Head(wire).type = "PING" => AtWire
  BY <1>1, <1>3, TakesFrom DEF AtWire
<1>4. ASSUME inbox # <<>>, inbox' = Tail(inbox)
      PROVE  /\ AtInbox' => AtInbox
             /\ One(inbox, "PONG") => One(inbox, "PONG")'
             /\ One(inbox, "PONG") /\ Head(inbox).type = "PONG" => ~AtInbox'
             /\ Head(inbox).type = "PONG" => AtInbox
  BY <1>1, <1>4, TakesFrom DEF AtInbox
<1>5. QED
  BY <1>2, <1>3, <1>4

\* A lambda is posted, a message is sent to the server or to the client.
LEMMA Adds ==
  ASSUME TypeOK
  PROVE  /\ \A m \in LambdaMessages : posted' = Append(posted, m) =>
              /\ AtPosted' <=> AtPosted \/ m.type = "BEAT"
              /\ One(posted, "BEAT") /\ (m.type = "BEAT" => ~AtPosted)
                   => One(posted, "BEAT")'
         /\ \A m \in ClientMessages : wire' = Append(wire, m) =>
              /\ AtWire' <=> AtWire \/ m.type = "PING"
              /\ One(wire, "PING") /\ (m.type = "PING" => ~AtWire)
                   => One(wire, "PING")'
         /\ \A m \in ServerMessages : inbox' = Append(inbox, m) =>
              /\ AtInbox' <=> AtInbox \/ m.type = "PONG"
              /\ One(inbox, "PONG") /\ (m.type = "PONG" => ~AtInbox)
                   => One(inbox, "PONG")'
<1>1. ASSUME NEW m \in LambdaMessages, posted' = Append(posted, m)
      PROVE  /\ AtPosted' <=> AtPosted \/ m.type = "BEAT"
             /\ One(posted, "BEAT") /\ (m.type = "BEAT" => ~AtPosted)
                  => One(posted, "BEAT")'
  <2>1. posted \in Seq(LambdaMessages)
    BY DEF TypeOK
  <2>2. QED
    BY <1>1, <2>1, AddsTo DEF AtPosted
<1>2. ASSUME NEW m \in ClientMessages, wire' = Append(wire, m)
      PROVE  /\ AtWire' <=> AtWire \/ m.type = "PING"
             /\ One(wire, "PING") /\ (m.type = "PING" => ~AtWire)
                  => One(wire, "PING")'
  <2>1. wire \in Seq(ClientMessages)
    BY DEF TypeOK
  <2>2. QED
    BY <1>2, <2>1, AddsTo DEF AtWire
<1>3. ASSUME NEW m \in ServerMessages, inbox' = Append(inbox, m)
      PROVE  /\ AtInbox' <=> AtInbox \/ m.type = "PONG"
             /\ One(inbox, "PONG") /\ (m.type = "PONG" => ~AtInbox)
                  => One(inbox, "PONG")'
  <2>1. inbox \in Seq(ServerMessages)
    BY DEF TypeOK
  <2>2. QED
    BY <1>3, <2>1, AddsTo DEF AtInbox
<1>4. QED
  BY <1>1, <1>2, <1>3

\* The queues and io that a step leaves alone.
LEMMA Unmoved ==
  /\ posted' = posted =>
       (AtPosted' <=> AtPosted) /\ (One(posted, "BEAT") => One(posted, "BEAT")')
  /\ wire' = wire =>
       (AtWire' <=> AtWire) /\ (One(wire, "PING") => One(wire, "PING")')
  /\ inbox' = inbox =>
       (AtInbox' <=> AtInbox) /\ (One(inbox, "PONG") => One(inbox, "PONG")')
  /\ io' = io => (AtIo' <=> AtIo)
  /\ io' \in {Idle, Failing, Returning, Destroying, Leaving, Parsing} => ~AtIo'
  /\ \A t \in Welcoming, n \in Nat : io' = Msg(t, n) => ~AtIo'
BY DEF AtPosted, AtWire, AtInbox, AtIo, One, Has, Idle, Failing, Returning, Destroying,
       Leaving, Parsing, Welcoming, Msg

\* A message other than a ping never sets pong_received_.
LEMMA SendsCalmly ==
  ASSUME NEW m, m.type \notin {"BEAT", "PING", "PONG"},
         SendMessage(m) \/ NetworkFailure(m)
  PROVE  (AtIo' => AtIo) /\ pong' = pong
<1>1. CASE NetworkFailure(m)
  BY <1>1, Unmoved DEF NetworkFailure
<1>2. CASE SendMessage(m) /\ ~NetworkFailure(m)
  BY <1>2, Unmoved DEF SendMessage, AtIo
<1>3. QED
  BY <1>1, <1>2

\* The steps of the calling thread.
LEMMA CallerCalm ==
  ASSUME TypeOK, CallerStep, fault = NoFault
  PROVE  Calm
<1> USE Unmoved DEF Calm, Between, object, promises, main, signals, client, server,
        network, Goto
<1>1. CASE JoinDispatch
  <2>1. Msg("JOIN", 0) \in LambdaMessages /\ Msg("JOIN", 0).type # "BEAT"
    BY Messages DEF Msg, Lambdas
  <2>2. posted' = Append(posted, Msg("JOIN", 0))
    BY <1>1 DEF JoinDispatch
  <2>3. (AtPosted' => AtPosted) /\ (One(posted, "BEAT") => One(posted, "BEAT")')
    BY <2>1, <2>2, Adds
  <2>4. QED
    BY <1>1, <2>3 DEF JoinDispatch
<1>2. CASE \/ OnAttach \/ ConnectReturns \/ JoinEnsureState \/ JoinReturns
           \/ JoinTimesOut \/ ListenReturns \/ Catch \/ OnDetach \/ HandlerReset
           \/ Release \/ Destroy
  BY <1>2 DEF OnAttach, ConnectReturns, JoinEnsureState, JoinReturns,
     JoinTimesOut, ListenReturns, Catch, OnDetach, HandlerReset, Release, Destroy
<1>3. CASE Uncaught
  BY <1>3 DEF Uncaught
<1>4. QED
  BY <1>1, <1>2, <1>3 DEF CallerStep

\* The steps of the io thread other than the start, the flight and the end of a round.
LEMMA IoCalm ==
  ASSUME TypeOK, IoStep \/ Leave, fault = NoFault,
         ~(TakeLambda /\ AtPosted), ~PingLambda, ~(Transmit /\ AtIo),
         ~(OnMessage /\ AtInbox), ~StartHeartbeat, ~ProcessPongMessage
  PROVE  Calm
<1> USE Unmoved DEF Calm, Between, object, promises, main, signals, client, server,
        network
<1>1. CASE TakeLambda
  <2>1. Head(posted).type # "BEAT" /\ Head(posted) \in LambdaMessages
    BY <1>1, Takes, Queues DEF TakeLambda, TypeOK
  <2>2. ~AtIo'
    BY <1>1, <2>1 DEF TakeLambda, AtIo, LambdaMessages, Lambdas
  <2>3. (AtPosted' => AtPosted) /\ (One(posted, "BEAT") => One(posted, "BEAT")')
    BY <1>1, Takes DEF TakeLambda
  <2>4. UNCHANGED <<fault, beat, pong, wire, inbox>>
    BY <1>1 DEF TakeLambda
  <2>5. QED
    BY <2>2, <2>3, <2>4
<1>2. CASE Transmit
  <2>1. io \in ClientMessages /\ io.type \notin {"BEAT", "PING", "PONG"}
    BY <1>2, IoMessages DEF Transmit, TypeOK, AtIo
  <2>2. pong' = pong /\ ~AtIo'
    <3>1. CASE NetworkFailure(io)
      BY <2>1, <3>1, SendsCalmly DEF AtIo
    <3>2. CASE io' \in {io, Idle, Returning} /\ pong' = pong
      BY <2>1, <3>2 DEF AtIo
    <3>3. QED
      BY <1>2, <3>1, <3>2 DEF Transmit
  <2>3. wire' = wire \/ wire' = Append(wire, io)
    BY <1>2 DEF Transmit
  <2>4. (AtWire' => AtWire) /\ (One(wire, "PING") => One(wire, "PING")')
    BY <2>1, <2>3, Adds
  <2>5. fault = NoFault /\ UNCHANGED <<beat, posted, inbox>>
    BY <1>2 DEF Transmit
  <2>6. QED
    BY <2>2, <2>4, <2>5
<1>3. CASE JoinLambda \/ ProcessCallMessage
  <2>1. pong' = pong /\ (AtIo' => AtIo)
    BY <1>3, SendsCalmly DEF JoinLambda, ProcessCallMessage, Msg
  <2>2. UNCHANGED <<beat, posted, wire, inbox>>
    BY <1>3 DEF JoinLambda, ProcessCallMessage
  <2>3. QED
    BY <2>1, <2>2
<1>4. CASE OnMessage
  <2>1. Head(inbox).type # "PONG" /\ Head(inbox) \in ServerMessages
    BY <1>4, Takes, Queues DEF OnMessage, TypeOK
  <2>2. ~AtIo'
    BY <1>4, <2>1 DEF OnMessage, AtIo, ServerMessages, ServerTypes, RogueKinds, CallKinds
  <2>3. (AtInbox' => AtInbox) /\ (One(inbox, "PONG") => One(inbox, "PONG")')
    BY <1>4, Takes DEF OnMessage
  <2>4. UNCHANGED <<fault, beat, pong, posted, wire>>
    BY <1>4 DEF OnMessage
  <2>5. QED
    BY <2>2, <2>3, <2>4
<1>5. CASE ProcessWelcomeMessage
  <2>1. AtIo' => AtIo
    BY <1>5, IoMessages DEF ProcessWelcomeMessage, WelcomeIf, TypeOK, Welcoming
  <2>2. UNCHANGED <<beat, pong, posted, wire, inbox>>
    BY <1>5 DEF ProcessWelcomeMessage, WelcomeIf
  <2>3. QED
    BY <2>1, <2>2
<1>6. CASE KeepId
  <2>1. ~AtIo'
    BY <1>6, IoMessages DEF KeepId, TypeOK, Welcoming
  <2>2. UNCHANGED <<fault, beat, pong, posted, wire, inbox>>
    BY <1>6 DEF KeepId
  <2>3. QED
    BY <2>1, <2>2
<1>7. CASE \/ ConnectSettles \/ FailLeaved \/ RecvMessage \/ NoHandler
           \/ LambdaReturns \/ LambdaDestroys \/ AnswerJoin \/ ProcessAbortMessage
           \/ OnOtherMessage \/ LeaveDisconnect \/ UseDestroyed \/ Leave
  BY <1>7 DEF ConnectSettles, FailLeaved, RecvMessage, NoHandler, LambdaReturns,
     LambdaDestroys, AnswerJoin, ProcessAbortMessage, OnOtherMessage, LeaveDisconnect,
     UseDestroyed, Leave
<1>8. QED
  BY <1>1, <1>2, <1>3, <1>4, <1>5, <1>6, <1>7 DEF IoStep, HandlerStep

\* The steps of the heartbeat other than a ping and the end of a round.
LEMMA BeatCalm ==
  ASSUME PongTimesOut \/ BeatExpires \/ BeatWakesSpuriously
           \/ (BeatVerdict /\ pong = "false"),
         fault = NoFault
  PROVE  Calm
<1> USE Unmoved DEF Calm, Between, object, promises, main, signals, client, server,
        network
<1>1. CASE PongTimesOut \/ BeatWakesSpuriously
  BY <1>1 DEF PongTimesOut, BeatWakesSpuriously
<1>2. CASE BeatExpires
  <2>1. pong' \in {pong, "false"} /\ beat' = "verdict"
    BY <1>2 DEF BeatExpires, SetPong
  <2>2. UNCHANGED <<io, posted, wire, inbox>>
    BY <1>2 DEF BeatExpires
  <2>3. QED
    BY <2>1, <2>2
<1>3. CASE BeatVerdict /\ pong = "false"
  BY <1>3 DEF BeatVerdict
<1>4. QED
  BY <1>1, <1>2, <1>3

\* The steps of the server and the network other than the answer to a ping.
LEMMA ServerCalm ==
  ASSUME TypeOK, ServerStep \/ LinkClosed, ~AnswerPing, "PONG" \notin Unsolicited,
         SessionConstants, fault = NoFault
  PROVE  Calm
<1> USE Unmoved DEF Calm, Between, object, promises, main, signals, client, server,
        network
\* A message other than a pong is added to the inbox.
<1>1. ASSUME NEW m \in ServerMessages, m.type # "PONG", Send(m)
      PROVE  (AtInbox' => AtInbox) /\ (One(inbox, "PONG") => One(inbox, "PONG")')
  BY <1>1, Adds DEF Send
<1>2. \A t \in ServerTypes \ {"PONG"}, n \in Nat :
        Msg(t, n) \in ServerMessages /\ Msg(t, n).type # "PONG"
  BY Messages DEF Msg
<1>3. CASE AnswerHello
  <2>1. (AtInbox' => AtInbox) /\ (One(inbox, "PONG") => One(inbox, "PONG")')
    <3>1. \A n \in SessionIds : Send(Msg("WELCOME", n)) =>
            (AtInbox' => AtInbox) /\ (One(inbox, "PONG") => One(inbox, "PONG")')
      BY <1>1, <1>2 DEF SessionConstants, ServerTypes, RogueKinds
    <3>2. Send(Msg("ABORT", 0)) =>
            (AtInbox' => AtInbox) /\ (One(inbox, "PONG") => One(inbox, "PONG")')
      BY <1>1, <1>2 DEF ServerTypes, RogueKinds
    <3>3. QED
      BY <1>3, <3>1, <3>2 DEF AnswerHello
  <2>2. wire # <<>> /\ wire' = Tail(wire)
    BY <1>3 DEF AnswerHello, TakeWire
  <2>3. (AtWire' => AtWire) /\ (One(wire, "PING") => One(wire, "PING")')
    BY <2>2, Takes
  <2>4. UNCHANGED <<pong, beat, io, posted>>
    BY <1>3 DEF AnswerHello
  <2>5. QED
    BY <2>1, <2>3, <2>4
<1>4. CASE TakeReply
  <2>1. wire # <<>> /\ wire' = Tail(wire)
    BY <1>4 DEF TakeReply, TakeWire
  <2>2. (AtWire' => AtWire) /\ (One(wire, "PING") => One(wire, "PING")')
    BY <2>1, Takes
  <2>3. UNCHANGED <<pong, beat, io, posted, inbox>>
    BY <1>4 DEF TakeReply
  <2>4. QED
    BY <2>2, <2>3
<1>5. CASE IssueCall
  <2>1. PICK t \in CallTypes : Send(Msg(t, issued + 1))
    BY <1>5 DEF IssueCall
  <2>2. t \in ServerTypes \ {"PONG"} /\ issued + 1 \in Nat
    BY <2>1 DEF SessionConstants, CallKinds, ServerTypes, TypeOK
  <2>3. (AtInbox' => AtInbox) /\ (One(inbox, "PONG") => One(inbox, "PONG")')
    BY <1>1, <1>2, <2>1, <2>2
  <2>4. UNCHANGED <<pong, beat, io, posted, wire>>
    BY <1>5 DEF IssueCall
  <2>5. QED
    BY <2>3, <2>4
<1>6. CASE SendOutOfTurn
  <2>1. \E t \in ServerTypes \ {"PONG"}, n \in Nat : Send(Msg(t, n))
    BY <1>6 DEF SendOutOfTurn, SessionConstants, ServerTypes, RogueKinds
  <2>2. (AtInbox' => AtInbox) /\ (One(inbox, "PONG") => One(inbox, "PONG")')
    BY <1>1, <1>2, <2>1
  <2>3. UNCHANGED <<pong, beat, io, posted, wire>>
    BY <1>6 DEF SendOutOfTurn
  <2>4. QED
    BY <2>2, <2>3
<1>7. CASE LinkCloses \/ LinkClosed
  BY <1>7 DEF LinkCloses, LinkClosed
<1>8. QED
  BY <1>3, <1>4, <1>5, <1>6, <1>7 DEF ServerStep

----------------------------------------------------------------------------
(* A round.                                                                *)

\* A step that does nothing between two rounds, and starts none.
LEMMA MovesInRound ==
  ASSUME ~Between', pong' # "true", OnePlace'
  PROVE  RoundInv'
BY DEF RoundInv

\* Each step of a round keeps the invariant; all others are calm.
LEMMA RoundInvStep ==
  ASSUME SessionInv, RoundInv, [Next]_vars, SessionConstants,
         "PONG" \notin Unsolicited
  PROVE  RoundInv'
<1> USE DEF object, promises, main, signals, client, server, network
<1>1. TypeOK
  BY DEF SessionInv
<1>2. CASE UNCHANGED vars
  BY <1>2, Unmoved DEF vars, RoundInv, OnePlace, Nowhere, Between
<1>3. CASE fault = NoFault /\ BeatPing
  <2>1. CASE fault' # NoFault
    BY <1>3, <2>1, Unmoved DEF BeatPing, RoundInv, OnePlace, Nowhere, Between
  <2>2. CASE fault' = NoFault
    <3>1. /\ posted' = Append(posted, Msg("BEAT", 0)) /\ beat' = "await"
          /\ UNCHANGED <<io, wire, inbox, pong>>
      BY <1>3, <2>2, TerminateFaults DEF BeatPing
    <3>2. Nowhere /\ pong = "unset"
      BY <1>3 DEF BeatPing, RoundInv, Between
    <3>3. One(posted, "BEAT")'
      BY <1>1, <3>1, <3>2, Adds, Messages DEF RoundInv, OnePlace, Nowhere, Lambdas
    <3>4. ~AtIo' /\ ~AtWire' /\ ~AtInbox' /\ One(wire, "PING")' /\ One(inbox, "PONG")'
      BY <3>1, <3>2, Unmoved DEF RoundInv, OnePlace, Nowhere
    <3>5. OnePlace'
      BY <3>3, <3>4 DEF OnePlace
    <3>6. QED
      BY <3>1, <3>2, <3>5, MovesInRound DEF Between
  <2>3. QED
    BY <2>1, <2>2
<1>4. CASE fault = NoFault /\ TakeLambda /\ AtPosted
  <2>1. posted # <<>> /\ posted' = Tail(posted) /\ UNCHANGED <<wire, inbox, beat, pong>>
    BY <1>4 DEF TakeLambda
  <2>2. /\ ~AtWire /\ ~AtInbox /\ beat \notin {"off", "sleep"} /\ pong # "true"
        /\ One(posted, "BEAT")
    BY <1>4 DEF RoundInv, OnePlace, Nowhere, Between
  <2>3. ~AtWire' /\ ~AtInbox' /\ One(wire, "PING")' /\ One(inbox, "PONG")'
    BY <2>1, <2>2, Unmoved DEF RoundInv, OnePlace
  <2>4. One(posted, "BEAT")' /\ (Head(posted).type = "BEAT" => ~AtPosted')
    BY <1>1, <2>1, <2>2, Takes
  <2>5. Head(posted).type # "BEAT" => ~AtIo'
    <3>1. Head(posted) \in LambdaMessages /\ io' = Head(posted)
      BY <1>1, <1>4, Queues DEF TakeLambda, TypeOK
    <3>2. QED
      BY <3>1 DEF AtIo, LambdaMessages, Lambdas
  <2>6. OnePlace'
    BY <2>3, <2>4, <2>5 DEF OnePlace
  <2>7. QED
    BY <2>1, <2>2, <2>6, MovesInRound DEF Between
<1>5. CASE fault = NoFault /\ AtIo /\ (PingLambda \/ Transmit)
  <2>1. ~AtPosted /\ ~AtWire /\ ~AtInbox /\ beat \notin {"off", "sleep"} /\ pong # "true"
    BY <1>5 DEF RoundInv, OnePlace, Nowhere, Between
  <2>2. UNCHANGED <<posted, inbox, beat>>
    BY <1>5 DEF PingLambda, Transmit
  <2>3. ~AtPosted' /\ ~AtInbox' /\ One(posted, "BEAT")' /\ One(inbox, "PONG")'
    BY <2>1, <2>2, Unmoved DEF RoundInv, OnePlace
  <2>4. One(wire, "PING")' /\ ~(AtIo' /\ AtWire')
    <3>1. CASE wire' = wire
      BY <2>1, <3>1, Unmoved DEF RoundInv, OnePlace
    <3>2. CASE Transmit /\ wire' # wire
      <4>1. io \in ClientMessages /\ wire' = Append(wire, io) /\ io' \in {Idle, Returning}
        BY <1>1, <3>2, IoMessages DEF Transmit, TypeOK
      <4>2. QED
        BY <1>1, <2>1, <4>1, Adds, Unmoved DEF RoundInv, OnePlace
    <3>3. QED
      BY <1>5, <3>1, <3>2 DEF PingLambda
  <2>5. pong' # "true"
    <3>1. pong' \in {pong, "false"}
      BY <1>5 DEF PingLambda, Transmit, SendMessage, NetworkFailure, SetPong, Msg, AtIo
    <3>2. QED
      BY <2>1, <3>1
  <2>6. OnePlace'
    BY <2>3, <2>4 DEF OnePlace
  <2>7. QED
    BY <2>1, <2>2, <2>5, <2>6, MovesInRound DEF Between
<1>6. CASE fault = NoFault /\ AnswerPing
  <2>1. /\ wire # <<>> /\ wire' = Tail(wire) /\ Head(wire).type = "PING"
        /\ inbox' = inbox \/ inbox' = Append(inbox, Msg("PONG", 0))
        /\ UNCHANGED <<posted, io, beat, pong>>
    BY <1>6 DEF AnswerPing, TakeWire, Send
  <2>2. AtWire /\ ~AtWire' /\ One(wire, "PING")'
    BY <1>1, <2>1, Takes DEF RoundInv, OnePlace
  <2>3. /\ ~AtPosted /\ ~AtIo /\ ~AtInbox /\ beat \notin {"off", "sleep"}
        /\ pong # "true"
    BY <1>6, <2>2 DEF RoundInv, OnePlace, Nowhere, Between
  <2>4. ~AtPosted' /\ ~AtIo' /\ One(posted, "BEAT")'
    BY <2>1, <2>3, Unmoved DEF RoundInv, OnePlace
  <2>5. Msg("PONG", 0) \in ServerMessages
    BY Messages DEF ServerTypes, RogueKinds
  <2>6. One(inbox, "PONG")'
    BY <1>1, <2>1, <2>3, <2>5, Adds, Unmoved DEF RoundInv, OnePlace
  <2>7. OnePlace'
    BY <2>2, <2>4, <2>6 DEF OnePlace
  <2>8. QED
    BY <2>1, <2>3, <2>7, MovesInRound DEF Between
<1>7. CASE fault = NoFault /\ OnMessage /\ AtInbox
  <2>1. inbox # <<>> /\ inbox' = Tail(inbox) /\ UNCHANGED <<posted, wire, beat, pong>>
    BY <1>7 DEF OnMessage
  <2>2. /\ ~AtPosted /\ ~AtWire /\ beat \notin {"off", "sleep"} /\ pong # "true"
        /\ One(inbox, "PONG")
    BY <1>7 DEF RoundInv, OnePlace, Nowhere, Between
  <2>3. ~AtPosted' /\ ~AtWire' /\ One(posted, "BEAT")' /\ One(wire, "PING")'
    BY <2>1, <2>2, Unmoved DEF RoundInv, OnePlace
  <2>4. One(inbox, "PONG")' /\ (Head(inbox).type = "PONG" => ~AtInbox')
    BY <1>1, <2>1, <2>2, Takes
  <2>5. Head(inbox).type # "PONG" => ~AtIo'
    <3>1. Head(inbox) \in ServerMessages /\ io' = Head(inbox)
      BY <1>1, <1>7, Queues DEF OnMessage, TypeOK
    <3>2. QED
      BY <3>1 DEF AtIo, ServerMessages, ServerTypes, RogueKinds, CallKinds
  <2>6. OnePlace'
    BY <2>3, <2>4, <2>5 DEF OnePlace
  <2>7. QED
    BY <2>1, <2>2, <2>6, MovesInRound DEF Between
<1>8. CASE fault = NoFault /\ ProcessPongMessage
  <2>1. AtIo /\ ~AtIo' /\ UNCHANGED <<posted, wire, inbox, beat>>
    BY <1>8, Unmoved DEF ProcessPongMessage, AtIo
  <2>2. ~AtPosted /\ ~AtWire /\ ~AtInbox /\ ~Between
    BY <1>8, <2>1 DEF RoundInv, OnePlace, Nowhere
  <2>3. ~AtPosted' /\ ~AtWire' /\ ~AtInbox' /\ OnePlace'
    BY <2>1, <2>2, Unmoved DEF RoundInv, OnePlace
  <2>4. ~Between'
    BY <1>8, <2>1, <2>2 DEF Between
  <2>5. QED
    BY <2>1, <2>3, <2>4 DEF RoundInv, Nowhere
<1>9. CASE fault = NoFault /\ BeatVerdict /\ pong = "true"
  <2>1. UNCHANGED <<io, posted, wire, inbox>> /\ pong' = "unset"
    BY <1>9 DEF BeatVerdict
  <2>2. Nowhere /\ OnePlace
    BY <1>9 DEF RoundInv
  <2>3. QED
    BY <2>1, <2>2, Unmoved DEF RoundInv, Nowhere, OnePlace
<1>10. CASE fault = NoFault /\ StartHeartbeat
  <2>1. io.type = "STARTING" /\ io.id \in Nat
    BY <1>1, <1>10, IoMessages DEF StartHeartbeat, TypeOK
  <2>2. Between
    BY <1>10, <2>1 DEF SessionInv, InWelcome, Welcoming, Between
  <2>3. ~AtIo' /\ UNCHANGED <<posted, wire, inbox, pong, fault>>
    BY <1>10, <2>1, Unmoved DEF StartHeartbeat, Welcoming
  <2>4. Calm
    BY <2>2, <2>3, Unmoved DEF Calm
  <2>5. QED
    BY <2>4, CalmStep
<1>11. CASE fault = NoFault /\ Next /\ ~UNCHANGED vars
  <2>1. \/ CallerStep \/ IoStep \/ Leave \/ BeatStep \/ BeatWakesSpuriously
        \/ ServerStep \/ LinkClosed
    BY <1>11 DEF Next, Running, Ended
  <2>2. (BeatVerdict => pong \in {"true", "false"}) /\ (PingLambda => AtIo)
    BY DEF BeatVerdict, PingLambda, AtIo
  <2>3. QED
    BY <1>1, <1>3, <1>4, <1>5, <1>6, <1>7, <1>8, <1>9, <1>10, <1>11, <2>1, <2>2,
       CallerCalm, IoCalm, BeatCalm, ServerCalm, CalmStep DEF BeatStep
<1>12. QED
  BY <1>2, <1>11 DEF Next, Running, Ended

\* Rounds of the heartbeat do not overlap (RoundsDoNotOverlap), whatever else the
\* server sends, as long as it sends a PONG only in answer to a PING: no late pong
\* is credited to the next round, although one promise serves all rounds.
THEOREM RoundsAreApart ==
  ASSUME "PONG" \notin Unsolicited
  PROVE  Spec => []RoundsDoNotOverlap
<1>1. ASSUME SessionInv, RoundInv, [Next]_vars
      PROVE  RoundInv'
  BY <1>1, RoundInvStep, SessionConstants
<1>2. SessionInv /\ RoundInv => RoundsDoNotOverlap
  BY Implied DEF SessionInv
<1>3. QED
  BY <1>1, <1>2, RoundInvInit, SessionInvAlways, PTL DEF Spec
=============================================================================
