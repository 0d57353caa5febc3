---------------------------- MODULE SessionProofs ----------------------------
(***************************************************************************)
(* Proofs about Session, for every value of its constants.                 *)
(***************************************************************************)
EXTENDS Session, TLAPS

\* What a sequence keeps when its head is taken or a message is added.
LEMMA Queues ==
  ASSUME NEW S, NEW q \in Seq(S)
  PROVE  /\ \A m \in S : Append(q, m) \in Seq(S)
         /\ q # <<>> => Head(q) \in S /\ Tail(q) \in Seq(S)
OBVIOUS

\* The sets that type the records of the model.
LEMMA Records ==
  /\ \A e \in Errors : /\ [thread |-> "caller", error |-> e] \in Faults
                       /\ [thread |-> "io", error |-> e] \in Faults
                       /\ [thread |-> "heartbeat", error |-> e] \in Faults
  /\ NoFault \in Faults
  /\ \A r \in Results, n \in Nat : [is |-> r, id |-> n] \in Answers
  /\ \A a \in Answers : a.is \in Results /\ a.id \in Nat
BY DEF Faults, Errors, NoFault, Answers

\* The sets that type messages, and the control states of the io thread.
LEMMA Messages ==
  /\ \A t \in ClientTypes, n \in Nat : Msg(t, n) \in ClientMessages
  /\ \A t \in ServerTypes, n \in Nat : Msg(t, n) \in ServerMessages
  /\ \A t \in Lambdas : Msg(t, 0) \in LambdaMessages
  /\ \A m \in ClientMessages : m \in IoStates /\ m.id \in Nat
  /\ \A m \in ServerMessages : m.id \in Nat
  /\ Idle \in IoStates /\ Failing \in IoStates /\ Leaving \in IoStates
  /\ Parsing \in IoStates /\ Returning \in IoStates /\ Destroying \in IoStates
BY DEF Msg, ClientMessages, ServerMessages, LambdaMessages, IoStates, Idle,
       Failing, Leaving, Parsing, Returning, Destroying, Lambdas

\* What the io thread may be doing.
LEMMA IoMessages ==
  /\ \A t \in Welcoming, n \in Nat : Msg(t, n) \in IoStates
  /\ \A m \in ServerMessages : m \in IoStates
  /\ \A m \in LambdaMessages : m \in IoStates
  /\ \A m \in IoStates : m.type \in ClientTypes => m \in ClientMessages
  /\ \A m \in IoStates : m.id \in Nat
BY DEF Msg, ClientMessages, ServerMessages, LambdaMessages, WelcomeSteps, IoStates, Idle,
       Failing, Leaving, Parsing, Returning, Destroying, ClientTypes, ServerTypes,
       RogueKinds, CallKinds, Lambdas, Welcoming

\* Setting a promise keeps its type.
LEMMA Promises ==
  ASSUME TypeOK
  PROVE  /\ \A v \in Results, n \in Nat :
              SetJoined(v, n) => joined' \in Answers /\ fault' \in Faults
         /\ \A t \in {"io", "heartbeat"}, v \in Verdicts :
              SetLeaved(t, v) => leaved' \in Verdicts /\ fault' \in Faults
         /\ \A t \in {"io", "heartbeat"}, v \in Pongs :
              SetPong(t, v) => pong' \in Pongs /\ fault' \in Faults
BY Records DEF TypeOK, SetJoined, SetLeaved, SetPong, Terminate, Errors

\* The variables that SendMessage changes keep their types.
Sent == /\ joined' \in Answers /\ pong' \in Pongs
        /\ io' \in IoStates /\ fault' \in Faults

LEMMA NetworkFailureType ==
  ASSUME TypeOK, NEW m, NetworkFailure(m)
  PROVE  Sent
<1>1. CASE m.type = "HELLO"
  BY <1>1, Promises, Messages DEF NetworkFailure, Sent, TypeOK, Results
<1>2. CASE m.type = "PING"
  BY <1>2, Promises, Messages DEF NetworkFailure, Sent, TypeOK, Pongs
<1>3. CASE m.type \notin {"HELLO", "PING"}
  BY <1>3, Records, Messages DEF NetworkFailure, Sent, TypeOK, Terminate, Errors
<1>4. QED
  BY <1>1, <1>2, <1>3

LEMMA SendMessageType ==
  ASSUME TypeOK, NEW m \in ClientMessages, SendMessage(m)
  PROVE  Sent
<1>1. CASE NetworkFailure(m)
  BY <1>1, NetworkFailureType
<1>2. CASE Terminate("io", "NoSessionError") /\ UNCHANGED <<joined, pong, io>>
  BY <1>2, Records, Messages DEF Sent, TypeOK, Terminate, Errors
<1>3. CASE io' = m /\ UNCHANGED <<joined, pong, fault>>
  BY <1>3, Messages DEF Sent, TypeOK
<1>4. QED
  BY <1>1, <1>2, <1>3 DEF SendMessage

\* A step of Session is a step of one of its actions.
LEMMA Steps ==
  ASSUME Next
  PROVE  \/ OnAttach \/ ConnectReturns \/ JoinEnsureState \/ JoinDispatch
         \/ JoinReturns \/ JoinTimesOut \/ ListenReturns \/ Catch \/ Uncaught
         \/ OnDetach \/ HandlerReset \/ Release \/ Destroy
         \/ ConnectSettles \/ RecvMessage \/ NoHandler \/ OnMessage
         \/ TakeLambda \/ JoinLambda \/ PingLambda \/ Transmit \/ FailLeaved
         \/ LambdaReturns \/ LambdaDestroys
         \/ ProcessWelcomeMessage \/ StartHeartbeat \/ KeepId \/ AnswerJoin
         \/ ProcessAbortMessage \/ ProcessPongMessage
         \/ ProcessCallMessage \/ OnOtherMessage \/ LeaveDisconnect \/ Leave
         \/ UseDestroyed
         \/ BeatPing \/ PongTimesOut \/ BeatExpires \/ BeatVerdict
         \/ BeatWakesSpuriously
         \/ AnswerHello \/ AnswerPing \/ TakeReply \/ IssueCall \/ SendOutOfTurn
         \/ LinkCloses \/ LinkClosed
         \/ UNCHANGED vars
BY DEF Next, Running, Ended, CallerStep, IoStep, HandlerStep, BeatStep, ServerStep

LEMMA TypeStep ==
  ASSUME TypeOK, [Next]_vars
  PROVE  TypeOK'
<1> USE Records, Messages DEF TypeOK, object, promises, main, signals, client,
        server, network
<1>1. CASE OnAttach
  BY <1>1 DEF OnAttach, Goto
<1>2. CASE ConnectReturns
  BY <1>2 DEF ConnectReturns, Verdicts
<1>3. CASE JoinEnsureState
  BY <1>3 DEF JoinEnsureState, Goto
<1>4. CASE JoinDispatch
  BY <1>4, Queues DEF JoinDispatch, Goto, Lambdas
<1>5. CASE JoinReturns
  BY <1>5 DEF JoinReturns, Results, Verdicts
<1>6. CASE JoinTimesOut
  BY <1>6 DEF JoinTimesOut, Goto, Verdicts
<1>7. CASE ListenReturns
  BY <1>7 DEF ListenReturns, Goto, Verdicts
<1>8. CASE Catch
  BY <1>8 DEF Catch, Goto
<1>9. CASE Uncaught
  <2>1. fault' \in Faults
    BY <1>9 DEF Uncaught, Terminate, Errors
  <2>2. UNCHANGED <<object, promises, main, beat, io, posted, network, signals>>
    BY <1>9 DEF Uncaught
  <2>3. QED
    BY <2>1, <2>2
<1>10. CASE OnDetach
  <2>1. caller' = "detaching" /\ attached' \in BOOLEAN
    BY <1>10 DEF OnDetach, Goto
  <2>2. UNCHANGED <<state, sessionId, promises, outcome, beat, io, posted, network,
                    signals, fault>>
    BY <1>10, Zenon DEF OnDetach
  <2>3. QED
    BY <2>1, <2>2
<1>11. CASE HandlerReset
  BY <1>11 DEF HandlerReset, Goto
<1>12. CASE Release
  BY <1>12 DEF Release, Goto
<1>13. CASE Destroy
  BY <1>13 DEF Destroy, Goto
<1>14. CASE JoinLambda
  <2>1. Sent
    BY <1>14, Promises, SendMessageType DEF JoinLambda, Sent, Results, ClientTypes
  <2>2. QED
    BY <1>14, <2>1 DEF JoinLambda, Sent
<1>15. CASE PingLambda
  <2>1. Sent
    BY <1>15, SendMessageType DEF PingLambda, ClientTypes
  <2>2. QED
    BY <1>15, <2>1 DEF PingLambda, Sent
<1>16. CASE Transmit
  <2>1. wire' \in Seq(ClientMessages)
    <3>1. io \in ClientMessages
      BY <1>16, IoMessages DEF Transmit
    <3>2. wire' \in {wire, Append(wire, io)}
      BY <1>16 DEF Transmit
    <3>3. wire \in Seq(ClientMessages) /\ Append(wire, io) \in Seq(ClientMessages)
      BY <3>1
    <3>4. QED
      BY <3>2, <3>3
  <2>2. Sent
    <3>1. CASE NetworkFailure(io)
      BY <3>1, NetworkFailureType
    <3>2. CASE ~NetworkFailure(io)
      BY <1>16, <3>2 DEF Transmit, Sent, Terminate, Errors
    <3>3. QED
      BY <3>1, <3>2
  <2>3. UNCHANGED <<object, leaved, main, beat, posted, link, inbox, server, signals>>
    BY <1>16 DEF Transmit
  <2>4. QED
    BY <2>1, <2>2, <2>3 DEF Sent
<1>17. CASE FailLeaved
  BY <1>17, Promises DEF FailLeaved, Verdicts
<1>18. CASE ProcessWelcomeMessage
  <2>1. fault' \in Faults /\ state' \in {state, "established"}
    BY <1>18 DEF ProcessWelcomeMessage, WelcomeIf, Terminate, Errors
  <2>2. io' \in IoStates
    BY <1>18, IoMessages DEF ProcessWelcomeMessage, WelcomeIf, Welcoming
  <2>3. QED
    BY <1>18, <2>1, <2>2 DEF ProcessWelcomeMessage, WelcomeIf
<1>19. CASE ProcessAbortMessage
  <2>1. joined' \in Answers /\ fault' \in Faults
    BY <1>19, Promises DEF ProcessAbortMessage, Results
  <2>2. QED
    BY <1>19, <2>1 DEF ProcessAbortMessage
<1>20. CASE ProcessPongMessage
  <2>1. pong' \in Pongs /\ fault' \in Faults
    BY <1>20, Promises DEF ProcessPongMessage, Pongs
  <2>2. QED
    BY <1>20, <2>1 DEF ProcessPongMessage
<1>21. CASE ProcessCallMessage
  <2>1. Sent
    <3>1. \A t \in ClientTypes : Msg(t, io.id) \in ClientMessages
      BY IoMessages
    <3>2. CASE SendMessage(Msg("RESULT", io.id)) \/ SendMessage(Msg("ERROR", io.id))
      BY <3>1, <3>2, SendMessageType DEF ClientTypes
    <3>3. CASE Terminate("io", "operation") /\ UNCHANGED <<joined, pong, io>>
      BY <3>3 DEF Sent, Terminate, Errors
    <3>4. QED
      BY <1>21, <3>2, <3>3 DEF ProcessCallMessage
  <2>2. QED
    BY <1>21, <2>1 DEF ProcessCallMessage, Sent
<1>22. CASE OnOtherMessage
  <2>1. leaved' \in Verdicts /\ fault' \in Faults
    BY <1>22, Promises DEF OnOtherMessage, Terminate, Errors, Verdicts
  <2>2. QED
    BY <1>22, <2>1 DEF OnOtherMessage
<1>23. CASE LeaveDisconnect
  <2>1. fault' \in Faults /\ io' \in IoStates /\ stopped' \in BOOLEAN
    BY <1>23 DEF LeaveDisconnect, Terminate, Errors
  <2>2. UNCHANGED <<object, promises, main, beat, posted, network, signalled>>
    BY <1>23 DEF LeaveDisconnect
  <2>3. QED
    BY <2>1, <2>2
<1>24. CASE Leave
  BY <1>24, Promises DEF Leave, Verdicts
<1>25. CASE LinkClosed
  BY <1>25 DEF LinkClosed
<1>26. CASE BeatPing
  <2>1. posted' \in Seq(LambdaMessages)
    <3>1. Msg("BEAT", 0) \in LambdaMessages
      BY DEF Lambdas
    <3>2. posted' \in {posted, Append(posted, Msg("BEAT", 0))}
      BY <1>26 DEF BeatPing
    <3>3. Append(posted, Msg("BEAT", 0)) \in Seq(LambdaMessages)
      BY <3>1
    <3>4. QED
      BY <3>2, <3>3
  <2>2. fault' \in Faults /\ beat' \in {"sleep", "await"}
    BY <1>26 DEF BeatPing, Terminate, Errors
  <2>3. QED
    BY <1>26, <2>1, <2>2 DEF BeatPing
<1>27. CASE PongTimesOut
  BY <1>27 DEF PongTimesOut
<1>28. CASE BeatExpires
  BY <1>28, Promises DEF BeatExpires, Pongs
<1>29. CASE BeatVerdict
  BY <1>29, Promises DEF BeatVerdict, Verdicts, Pongs
<1>30. CASE BeatWakesSpuriously
  BY <1>30 DEF BeatWakesSpuriously
<1>31. CASE AnswerHello
  <2>1. wire' \in Seq(ClientMessages)
    BY <1>31, Queues DEF AnswerHello, TakeWire
  <2>2. inbox' \in Seq(ServerMessages) /\ welcomed' \in BOOLEAN
    <3>1. \/ \E t \in ServerTypes, n \in Nat : Send(Msg(t, n))
          \/ UNCHANGED inbox
      BY <1>31, SessionConstants DEF AnswerHello, ServerTypes, RogueKinds
    <3>2. welcomed' \in BOOLEAN
      BY <1>31 DEF AnswerHello
    <3>3. QED
      <4>1. ASSUME NEW t \in ServerTypes, NEW n \in Nat, Send(Msg(t, n))
            PROVE  inbox' \in Seq(ServerMessages)
        BY <4>1, Queues DEF Send
      <4>2. QED
        BY <3>1, <3>2, <4>1
  <2>3. UNCHANGED client
    BY <1>31 DEF AnswerHello
  <2>4. UNCHANGED <<link, issued, rogue, answered>>
    BY <1>31 DEF AnswerHello
  <2>5. QED
    BY <2>1, <2>2, <2>3, <2>4
<1>32. CASE AnswerPing
  <2>1. wire' \in Seq(ClientMessages) /\ inbox' \in Seq(ServerMessages)
    <3>1. wire' \in Seq(ClientMessages)
      BY <1>32, Queues DEF AnswerPing, TakeWire
    <3>2. inbox' \in {inbox, Append(inbox, Msg("PONG", 0))}
      BY <1>32 DEF AnswerPing, Send
    <3>3. Append(inbox, Msg("PONG", 0)) \in Seq(ServerMessages)
      BY Queues DEF ServerTypes, RogueKinds
    <3>4. QED
      BY <3>1, <3>2, <3>3
  <2>2. UNCHANGED client
    BY <1>32 DEF AnswerPing
  <2>3. UNCHANGED <<link, server>>
    BY <1>32 DEF AnswerPing
  <2>4. QED
    BY <2>1, <2>2, <2>3
<1>33. CASE TakeReply
  <2>1. wire' \in Seq(ClientMessages)
    BY <1>33, Queues DEF TakeReply, TakeWire
  <2>2. UNCHANGED client
    BY <1>33 DEF TakeReply
  <2>3. answered' = answered + 1 /\ UNCHANGED <<link, inbox, welcomed, issued, rogue>>
    BY <1>33 DEF TakeReply
  <2>4. QED
    BY <2>1, <2>2, <2>3
<1>34. CASE IssueCall
  <2>1. inbox' \in Seq(ServerMessages)
    BY <1>34, SessionConstants, Queues DEF IssueCall, Send, ServerTypes
  <2>2. QED
    BY <1>34, <2>1 DEF IssueCall
<1>35. CASE SendOutOfTurn
  <2>1. inbox' \in Seq(ServerMessages)
    <3>1. \E t \in ServerTypes, n \in Nat : Send(Msg(t, n))
      BY <1>35, SessionConstants DEF SendOutOfTurn, ServerTypes, RogueKinds
    <3>2. QED
      BY <3>1, Queues DEF Send
  <2>2. QED
    BY <1>35, <2>1 DEF SendOutOfTurn
<1>36. CASE LinkCloses
  BY <1>36 DEF LinkCloses
<1>37. CASE ConnectSettles
  BY <1>37 DEF ConnectSettles
<1>38. CASE RecvMessage
  BY <1>38 DEF RecvMessage
<1>39. CASE NoHandler
  <2>1. fault' \in Faults
    BY <1>39 DEF NoHandler, Terminate, Errors
  <2>2. UNCHANGED <<object, promises, main, beat, io, posted, network, signals>>
    BY <1>39 DEF NoHandler
  <2>3. QED
    BY <2>1, <2>2
<1>40. CASE TakeLambda
  <2>1. posted' \in Seq(LambdaMessages) /\ io' \in LambdaMessages
    BY <1>40, Queues DEF TakeLambda
  <2>2. QED
    BY <1>40, <2>1, IoMessages DEF TakeLambda
<1>41. CASE LambdaReturns \/ LambdaDestroys
  BY <1>41 DEF LambdaReturns, LambdaDestroys
<1>42. CASE OnMessage
  <2>1. inbox' \in Seq(ServerMessages) /\ io' \in ServerMessages
    BY <1>42, Queues DEF OnMessage
  <2>2. QED
    BY <1>42, <2>1, IoMessages DEF OnMessage
<1>43. CASE StartHeartbeat
  BY <1>43, IoMessages DEF StartHeartbeat, Welcoming
<1>44. CASE KeepId
  BY <1>44, IoMessages DEF KeepId, Welcoming
<1>45. CASE AnswerJoin
  <2>1. joined' \in Answers /\ fault' \in Faults
    BY <1>45, Promises DEF AnswerJoin, Results
  <2>2. QED
    BY <1>45, <2>1 DEF AnswerJoin
<1>46. CASE UseDestroyed
  <2>1. fault' \in Faults
    BY <1>46 DEF UseDestroyed, Terminate, Errors
  <2>2. UNCHANGED <<object, promises, main, beat, io, posted, network, signals>>
    BY <1>46 DEF UseDestroyed
  <2>3. QED
    BY <2>1, <2>2
<1>47. CASE UNCHANGED vars
  BY <1>47 DEF vars
<1>48. QED
  BY Steps, <1>1, <1>2, <1>3, <1>4, <1>5, <1>6, <1>7, <1>8, <1>9, <1>10,
     <1>11, <1>12, <1>13, <1>14, <1>15, <1>16, <1>17, <1>18, <1>19, <1>20,
     <1>21, <1>22, <1>23, <1>24, <1>25, <1>26, <1>27, <1>28, <1>29, <1>30,
     <1>31, <1>32, <1>33, <1>34, <1>35, <1>36, <1>37, <1>38, <1>39, <1>40,
     <1>41, <1>42, <1>43, <1>44, <1>45, <1>46, <1>47

LEMMA TypeInit == Init => TypeOK
<1> SUFFICES ASSUME Init PROVE TypeOK
  OBVIOUS
<1>1. joined \in Answers /\ fault \in Faults /\ io \in IoStates
  BY Records, Messages DEF Init, Results
<1>2. /\ posted \in Seq(LambdaMessages)
      /\ wire \in Seq(ClientMessages)
      /\ inbox \in Seq(ServerMessages)
  BY DEF Init
<1>3. QED
  BY <1>1, <1>2 DEF Init, TypeOK, Verdicts, Pongs

\* Every reachable state of the session is well typed: no promise, thread or
\* queue ever holds anything but what the code can put there.
THEOREM TypeCorrect == Spec => []TypeOK
BY TypeInit, TypeStep, PTL DEF Spec

----------------------------------------------------------------------------
(* The session and the promise of Join.                                    *)

\* What holds until Join has begun: there is no session to overwrite.
BeforeJoin == caller \in {"new", "attached", "connected"} => state = "closed"

\* What holds inside ProcessWelcomeMessage: what is still to be written has the value
\* it had before.
InWelcome ==
  fault = NoFault /\ io.type \in Welcoming =>
    /\ state = "established" /\ joined.is # "id"
    /\ beat = "off" <=> io.type = "STARTING"
    /\ sessionId = IF io.type = "ANSWERING" THEN io.id ELSE 0

\* The inductive invariant: SessionAgreesWithJoin alone does not say that Join,
\* which sets state_, finds no session established, nor how far the handler of a
\* WELCOME has come.
SessionInv == TypeOK /\ SessionAgreesWithJoin /\ InWelcome /\ BeforeJoin

\* The steps that make a session: Join's first, and those of ProcessWelcomeMessage.
WelcomeStep == ProcessWelcomeMessage \/ StartHeartbeat \/ KeepId \/ AnswerJoin

\* What any other step does to the session: at most it sets joined_ to an error.
SameSession ==
  /\ state' = state /\ sessionId' = sessionId
  /\ beat' = "off" <=> beat = "off"
  /\ \/ joined' = joined
     \/ joined.is = "unset" /\ joined'.is \notin {"unset", "id"}
     \/ fault' # NoFault
  /\ io.type \in Welcoming \/ io'.type \in Welcoming => io' = io

\* Raising an exception ends the process.
LEMMA TerminateFaults ==
  ASSUME NEW t \in {"caller", "io", "heartbeat"}, NEW e, Terminate(t, e)
  PROVE  fault' # NoFault
BY DEF Terminate, NoFault

\* The control states of the io thread outside of ProcessWelcomeMessage.
LEMMA NotWelcoming ==
  /\ Idle.type \notin Welcoming /\ Failing.type \notin Welcoming
  /\ Returning.type \notin Welcoming /\ Destroying.type \notin Welcoming
  /\ Leaving.type \notin Welcoming /\ Parsing.type \notin Welcoming
  /\ \A m \in ServerMessages : m.type \notin Welcoming
  /\ \A m \in LambdaMessages : m.type \notin Welcoming
  /\ \A t, n : Msg(t, n).type = t
BY DEF Idle, Failing, Returning, Destroying, Leaving, Parsing, Msg, ServerMessages,
       ServerTypes, RogueKinds, CallKinds, LambdaMessages, Lambdas, Welcoming

LEMMA SendKeepsSession ==
  ASSUME NEW m, m.type \notin Welcoming, io.type \notin Welcoming,
         SendMessage(m) \/ NetworkFailure(m)
  PROVE  /\ \/ joined' = joined
            \/ joined.is = "unset" /\ joined'.is = "exception"
            \/ fault' # NoFault
         /\ io'.type \notin Welcoming
<1>1. CASE NetworkFailure(m)
  BY <1>1, TerminateFaults, NotWelcoming DEF NetworkFailure, SetJoined
<1>2. CASE SendMessage(m) /\ ~NetworkFailure(m)
  BY <1>2 DEF SendMessage
<1>3. QED
  BY <1>1, <1>2

\* Only JoinEnsureState and ProcessWelcomeMessage do more.
LEMMA OthersKeepSession ==
  ASSUME TypeOK, Next, ~JoinEnsureState, ~WelcomeStep
  PROVE  SameSession
<1> USE DEF SameSession, object, promises, main, signals, client, server, network
<1>1. CASE \/ OnAttach \/ ConnectReturns \/ JoinDispatch \/ JoinReturns \/ JoinTimesOut
           \/ ListenReturns \/ Catch \/ Uncaught \/ OnDetach \/ HandlerReset
           \/ Release \/ Destroy
  BY <1>1 DEF OnAttach, ConnectReturns, JoinDispatch, JoinReturns, JoinTimesOut,
     ListenReturns, Catch, Uncaught, OnDetach, HandlerReset, Release, Destroy
<1>2. CASE JoinLambda
  <2>1. io.type \notin Welcoming
    BY <1>2 DEF JoinLambda, Welcoming
  <2>2. CASE SetJoined("logic", 0) /\ io' = Returning
    BY <1>2, <2>1, <2>2, TerminateFaults, NotWelcoming DEF JoinLambda, SetJoined
  <2>3. CASE SendMessage(Msg("HELLO", 0))
    <3>1. Msg("HELLO", 0).type \notin Welcoming
      BY DEF Msg, Welcoming
    <3>2. QED
      BY <1>2, <2>1, <2>3, <3>1, SendKeepsSession DEF JoinLambda
  <2>4. QED
    BY <1>2, <2>2, <2>3 DEF JoinLambda
<1>3. CASE PingLambda
  <2>1. io.type \notin Welcoming /\ Msg("PING", 0).type \notin Welcoming
    BY <1>3 DEF PingLambda, Welcoming, Msg
  <2>2. QED
    BY <1>3, <2>1, SendKeepsSession DEF PingLambda
<1>4. CASE Transmit
  <2>1. io.type \notin Welcoming
    BY <1>4 DEF Transmit, Welcoming, ClientTypes
  <2>2. CASE NetworkFailure(io)
    BY <1>4, <2>1, <2>2, SendKeepsSession DEF Transmit
  <2>3. CASE ~NetworkFailure(io)
    BY <1>4, <2>1, <2>3, NotWelcoming DEF Transmit
  <2>4. QED
    BY <2>2, <2>3
<1>5. CASE ProcessAbortMessage
  <2>1. io.type \notin Welcoming
    BY <1>5 DEF ProcessAbortMessage, Welcoming
  <2>2. QED
    BY <1>5, <2>1, TerminateFaults, NotWelcoming DEF ProcessAbortMessage, SetJoined
<1>6. CASE ProcessCallMessage
  <2>1. io.type \notin Welcoming
    BY <1>6 DEF ProcessCallMessage, Welcoming
  <2>2. Msg("RESULT", io.id).type \notin Welcoming /\ Msg("ERROR", io.id).type \notin Welcoming
    BY DEF Msg, Welcoming
  <2>3. CASE SendMessage(Msg("RESULT", io.id)) \/ SendMessage(Msg("ERROR", io.id))
    BY <1>6, <2>1, <2>2, <2>3, SendKeepsSession DEF ProcessCallMessage
  <2>4. CASE UNCHANGED <<joined, io>>
    BY <1>6, <2>4 DEF ProcessCallMessage
  <2>5. QED
    BY <1>6, <2>3, <2>4 DEF ProcessCallMessage
<1>7. CASE \/ RecvMessage \/ FailLeaved \/ ProcessPongMessage \/ OnOtherMessage \/ Leave
           \/ LambdaReturns \/ LambdaDestroys \/ LeaveDisconnect
  <2>1. io.type \notin Welcoming
    BY <1>7, NotWelcoming DEF RecvMessage, FailLeaved, ProcessPongMessage, OnOtherMessage,
       Leave, LambdaReturns, LambdaDestroys, LeaveDisconnect, Welcoming
  <2>2. io'.type \notin Welcoming
    BY <1>7, <2>1, NotWelcoming DEF RecvMessage, FailLeaved, ProcessPongMessage,
       OnOtherMessage, Leave, LambdaReturns, LambdaDestroys, LeaveDisconnect
  <2>3. QED
    BY <1>7, <2>1, <2>2 DEF RecvMessage, FailLeaved, ProcessPongMessage, OnOtherMessage,
       Leave, LambdaReturns, LambdaDestroys, LeaveDisconnect
<1>8. CASE TakeLambda
  <2>1. io'.type \notin Welcoming /\ io.type \notin Welcoming
    BY <1>8, Queues, NotWelcoming DEF TakeLambda, TypeOK
  <2>2. QED
    BY <1>8, <2>1 DEF TakeLambda
<1>9. CASE OnMessage
  <2>1. io'.type \notin Welcoming /\ io.type \notin Welcoming
    BY <1>9, Queues, NotWelcoming DEF OnMessage, TypeOK
  <2>2. QED
    BY <1>9, <2>1 DEF OnMessage
<1>10. CASE \/ ConnectSettles \/ NoHandler \/ UseDestroyed
  BY <1>10 DEF ConnectSettles, NoHandler, UseDestroyed
<1>11. CASE \/ BeatPing \/ PongTimesOut \/ BeatExpires \/ BeatVerdict
            \/ BeatWakesSpuriously
  BY <1>11 DEF BeatPing, PongTimesOut, BeatExpires, BeatVerdict, BeatWakesSpuriously
<1>12. CASE \/ AnswerHello \/ AnswerPing \/ TakeReply \/ IssueCall \/ SendOutOfTurn
            \/ LinkCloses \/ LinkClosed
  BY <1>12 DEF AnswerHello, AnswerPing, TakeReply, IssueCall, SendOutOfTurn,
     LinkCloses, LinkClosed
<1>13. CASE UNCHANGED vars
  BY <1>13 DEF vars
<1>14. QED
  BY Steps, <1>1, <1>2, <1>3, <1>4, <1>5, <1>6, <1>7, <1>8, <1>9, <1>10, <1>11,
     <1>12, <1>13 DEF WelcomeStep

\* No step returns to the time before Join.
LEMMA CallerAdvances ==
  ASSUME Next
  PROVE  caller' \in {"new", "attached", "connected"}
           => caller \in {"new", "attached", "connected"}
<1> USE DEF object, promises, main, signals, client, server, network, Goto
<1>1. CASE \/ OnAttach \/ ConnectReturns \/ JoinEnsureState \/ JoinDispatch
           \/ JoinReturns \/ JoinTimesOut \/ ListenReturns \/ Catch \/ Uncaught
           \/ OnDetach \/ HandlerReset \/ Release \/ Destroy
  BY <1>1 DEF OnAttach, ConnectReturns, JoinEnsureState, JoinDispatch, JoinReturns,
     JoinTimesOut, ListenReturns, Catch, Uncaught, OnDetach, HandlerReset, Release,
     Destroy
<1>2. CASE LinkCloses \/ LinkClosed \/ ConnectSettles
  BY <1>2 DEF LinkCloses, LinkClosed, ConnectSettles
<1>3. CASE \/ TakeLambda \/ JoinLambda \/ PingLambda \/ Transmit \/ FailLeaved
           \/ LambdaReturns \/ LambdaDestroys \/ RecvMessage \/ NoHandler \/ OnMessage
           \/ UseDestroyed \/ LeaveDisconnect \/ Leave
  BY <1>3 DEF TakeLambda, JoinLambda, PingLambda, Transmit, FailLeaved, LambdaReturns,
     LambdaDestroys, RecvMessage, NoHandler, OnMessage, UseDestroyed, LeaveDisconnect, Leave
<1>4. CASE \/ WelcomeStep \/ ProcessAbortMessage \/ ProcessPongMessage
           \/ ProcessCallMessage \/ OnOtherMessage
  BY <1>4 DEF WelcomeStep, ProcessWelcomeMessage, WelcomeIf, StartHeartbeat, KeepId,
     AnswerJoin, ProcessAbortMessage, ProcessPongMessage, ProcessCallMessage, OnOtherMessage
<1>5. CASE \/ BeatPing \/ PongTimesOut \/ BeatExpires \/ BeatVerdict
           \/ BeatWakesSpuriously
           \/ AnswerHello \/ AnswerPing \/ TakeReply \/ IssueCall \/ SendOutOfTurn
  BY <1>5 DEF BeatPing, PongTimesOut, BeatExpires, BeatVerdict, BeatWakesSpuriously,
     AnswerHello, AnswerPing, TakeReply, IssueCall, SendOutOfTurn
<1>6. CASE UNCHANGED vars
  BY <1>6 DEF vars
<1>7. QED
  BY Steps, <1>1, <1>2, <1>3, <1>4, <1>5, <1>6 DEF WelcomeStep

LEMMA SessionInvInit == Init => SessionInv
<1>1. Init => TypeOK
  BY TypeInit
<1>2. Init => SessionAgreesWithJoin /\ InWelcome /\ BeforeJoin
  BY NotWelcoming DEF Init, SessionAgreesWithJoin, InWelcome, BeforeJoin
<1>3. QED
  BY <1>1, <1>2 DEF SessionInv

\* Each step of ProcessWelcomeMessage finds what the one before has left.
LEMMA WelcomeSucceeds ==
  ASSUME SessionInv, WelcomeStep, fault = NoFault, TypeOK'
  PROVE  SessionInv'
<1>1. io.type \in Welcoming => joined.is # "id" /\ state = "established"
  BY DEF SessionInv, InWelcome
<1>2. CASE ProcessWelcomeMessage
  <2>1. io.type \notin Welcoming /\ UNCHANGED <<joined, sessionId, beat, caller>>
    BY <1>2 DEF ProcessWelcomeMessage, WelcomeIf, Welcoming, promises, main
  <2>2. CASE state # "establishing"
    <3>1. fault' # NoFault /\ state' = state
      BY <1>2, <2>2, TerminateFaults DEF ProcessWelcomeMessage, WelcomeIf
    <3>2. QED
      BY <2>1, <3>1 DEF SessionInv, SessionAgreesWithJoin, InWelcome, BeforeJoin
  <2>3. CASE state = "establishing"
    <3>1. state' = "established" /\ io'.type = "STARTING"
      BY <1>2, <2>3, NotWelcoming DEF ProcessWelcomeMessage, WelcomeIf
    <3>2. joined.is # "id" /\ sessionId = 0 /\ beat = "off"
      BY <2>1, <2>3 DEF SessionInv, SessionAgreesWithJoin
    <3>3. caller \notin {"new", "attached", "connected"}
      BY <2>3 DEF SessionInv, BeforeJoin
    <3>4. QED
      BY <2>1, <3>1, <3>2, <3>3
         DEF SessionInv, SessionAgreesWithJoin, InWelcome, BeforeJoin, Welcoming
  <2>4. QED
    BY <2>2, <2>3
<1>3. CASE StartHeartbeat
  <2>1. /\ io.type = "STARTING" /\ io'.type = "NAMING" /\ beat' = "sleep"
        /\ UNCHANGED <<state, sessionId, joined, caller>>
    BY <1>3, NotWelcoming DEF StartHeartbeat, object, promises, main
  <2>2. QED
    BY <2>1 DEF SessionInv, SessionAgreesWithJoin, InWelcome, BeforeJoin, Welcoming
<1>4. CASE KeepId
  <2>1. /\ io.type = "NAMING" /\ io'.type = "ANSWERING" /\ io'.id = io.id
        /\ sessionId' = io.id
        /\ UNCHANGED <<state, beat, joined, caller>>
    BY <1>4 DEF KeepId, promises, main, Msg
  <2>2. QED
    BY <2>1 DEF SessionInv, SessionAgreesWithJoin, InWelcome, BeforeJoin, Welcoming
<1>5. CASE AnswerJoin
  <2>1. /\ io.type = "ANSWERING" /\ io'.type \notin Welcoming
        /\ SetJoined("id", sessionId)
        /\ UNCHANGED <<state, sessionId, beat, caller>>
    BY <1>5, NotWelcoming DEF AnswerJoin, object, main
  <2>2. fault' # NoFault \/ joined' = [is |-> "id", id |-> sessionId]
    BY <2>1, TerminateFaults DEF SetJoined
  <2>3. state = "established" /\ beat # "off"
    BY <2>1 DEF SessionInv, InWelcome, Welcoming
  <2>4. QED
    BY <2>1, <2>2, <2>3 DEF SessionInv, SessionAgreesWithJoin, InWelcome, BeforeJoin
<1>6. QED
  BY <1>2, <1>3, <1>4, <1>5 DEF WelcomeStep

LEMMA SessionInvStep ==
  ASSUME SessionInv, [Next]_vars
  PROVE  SessionInv'
<1>1. TypeOK'
  BY TypeStep DEF SessionInv
<1>2. CASE UNCHANGED vars
  BY <1>1, <1>2 DEF vars, promises, object, main, network, SessionInv,
     SessionAgreesWithJoin, InWelcome, BeforeJoin
<1>3. CASE Next /\ ~UNCHANGED vars
  <2>1. fault = NoFault
    BY <1>3 DEF Next, Running, Ended
  <2>2. CASE JoinEnsureState
    <3>1. state = "closed" /\ state' = "establishing" /\ caller' = "joining"
      BY <2>2 DEF JoinEnsureState, Goto, SessionInv, BeforeJoin
    <3>2. UNCHANGED <<sessionId, joined, beat, io, fault>>
      BY <2>2 DEF JoinEnsureState, promises
    <3>3. QED
      BY <1>1, <3>1, <3>2 DEF SessionInv, SessionAgreesWithJoin, InWelcome, BeforeJoin
  <2>3. CASE WelcomeStep
    BY <1>1, <2>1, <2>3, WelcomeSucceeds
  <2>4. CASE ~JoinEnsureState /\ ~WelcomeStep
    <3>1. SameSession
      BY <1>3, <2>4, OthersKeepSession DEF SessionInv
    <3>2. SessionAgreesWithJoin'
      BY <2>1, <3>1 DEF SessionInv, SameSession, SessionAgreesWithJoin
    <3>3. InWelcome'
      BY <2>1, <3>1 DEF SessionInv, SameSession, InWelcome
    <3>4. BeforeJoin'
      BY <1>3, <3>1, CallerAdvances DEF SessionInv, BeforeJoin, SameSession
    <3>5. QED
      BY <1>1, <3>2, <3>3, <3>4 DEF SessionInv
  <2>5. QED
    BY <2>2, <2>3, <2>4
<1>4. QED
  BY <1>2, <1>3

LEMMA SessionInvAlways == Spec => []SessionInv
BY SessionInvInit, SessionInvStep, PTL DEF Spec

\* state_, session_id_, joined_ and the heartbeat agree, whatever the server sends.
THEOREM SessionAgrees == Spec => []SessionAgreesWithJoin
BY SessionInvAlways, PTL DEF SessionInv

\* No message changes the id of a session, a second WELCOME included.
THEOREM IdNeverChanges == Spec => SessionIdStable
<1>1. ASSUME SessionInv, [Next]_vars
      PROVE  [sessionId # 0 => sessionId' = sessionId]_vars
  <2>1. CASE KeepId /\ fault = NoFault
    <3>1. io.type = "NAMING"
      BY <2>1 DEF KeepId
    <3>2. sessionId = 0
      BY <1>1, <2>1, <3>1 DEF SessionInv, InWelcome, Welcoming
    <3>3. QED
      BY <3>2
  <2>2. CASE \/ JoinEnsureState \/ ProcessWelcomeMessage \/ StartHeartbeat \/ AnswerJoin
    BY <2>2 DEF JoinEnsureState, ProcessWelcomeMessage, WelcomeIf, StartHeartbeat,
       AnswerJoin, object
  <2>3. CASE Next /\ ~JoinEnsureState /\ ~WelcomeStep
    BY <1>1, <2>3, OthersKeepSession DEF SessionInv, SameSession
  <2>4. Next => fault = NoFault \/ UNCHANGED vars
    BY DEF Next, Running, Ended
  <2>5. QED
    BY <1>1, <2>1, <2>2, <2>3, <2>4 DEF WelcomeStep
<1>2. QED
  BY <1>1, SessionInvAlways, PTL DEF Spec, SessionIdStable

----------------------------------------------------------------------------
(* The life of a session.                                                  *)

Beating == beat \notin {"off", "done"}

\* The steps that Lifecycle does not see, and what it sees of the others besides
\* JoinEnsureState and ProcessWelcomeMessage's.
Unseen ==
  /\ UNCHANGED <<state, sessionId, joined, leaved>>
  /\ beat' = beat \/ (Beating /\ Beating')
Refused ==
  /\ joined.is = "unset" /\ joined'.is \notin {"unset", "id"}
  /\ io.type \notin Welcoming
  /\ UNCHANGED <<state, sessionId, leaved, beat>>
Settled ==
  /\ leaved = "unset" /\ leaved' # "unset"
  /\ UNCHANGED <<state, sessionId, joined>>
  /\ beat' = beat \/ (Beating /\ beat' = "done")
Quits ==
  /\ Beating /\ beat' = "done"
  /\ UNCHANGED <<state, sessionId, joined, leaved>>

LEMMA SetsLeaved ==
  ASSUME NEW t \in {"io", "heartbeat"}, NEW v \in Verdicts \ {"unset"},
         SetLeaved(t, v), fault' = NoFault
  PROVE  leaved = "unset" /\ leaved' # "unset"
BY TerminateFaults DEF SetLeaved

\* What the steps of each thread are in the life of a session.
LEMMA LifeSteps ==
  ASSUME Next, fault' = NoFault, ~JoinEnsureState, ~WelcomeStep
  PROVE  Unseen \/ Refused \/ Settled \/ Quits
<1> USE DEF object, promises, main, signals, client, server, network
<1>1. CASE \/ OnAttach \/ ConnectReturns \/ JoinDispatch \/ JoinReturns \/ JoinTimesOut
           \/ ListenReturns \/ Catch \/ Uncaught \/ OnDetach \/ HandlerReset
           \/ Release \/ Destroy
  BY <1>1 DEF Unseen, OnAttach, ConnectReturns, JoinDispatch, JoinReturns, JoinTimesOut,
     ListenReturns, Catch, Uncaught, OnDetach, HandlerReset, Release, Destroy
<1>2. CASE JoinLambda
  <2>1. UNCHANGED <<state, sessionId, leaved, beat>> /\ io.type \notin Welcoming
    BY <1>2 DEF JoinLambda, Welcoming
  <2>2. joined' = joined \/ (joined.is = "unset" /\ joined'.is \notin {"unset", "id"})
    <3>1. CASE SetJoined("logic", 0)
      BY <3>1, TerminateFaults DEF SetJoined
    <3>2. CASE SendMessage(Msg("HELLO", 0))
      BY <2>1, <3>2, SendKeepsSession DEF Msg, Welcoming
    <3>3. QED
      BY <1>2, <3>1, <3>2 DEF JoinLambda
  <2>3. QED
    BY <2>1, <2>2 DEF Unseen, Refused
<1>3. CASE PingLambda
  <2>1. UNCHANGED <<state, sessionId, leaved, beat>> /\ io.type \notin Welcoming
    BY <1>3 DEF PingLambda, Welcoming
  <2>2. Msg("PING", 0).type \notin Welcoming
    BY DEF Msg, Welcoming
  <2>3. QED
    BY <1>3, <2>1, <2>2, SendKeepsSession DEF PingLambda, Unseen, Refused
<1>4. CASE Transmit
  <2>1. UNCHANGED <<state, sessionId, leaved, beat>> /\ io.type \notin Welcoming
    BY <1>4 DEF Transmit, ClientTypes, Welcoming
  <2>2. joined' = joined \/ (joined.is = "unset" /\ joined'.is = "exception")
    BY <1>4, <2>1, SendKeepsSession DEF Transmit
  <2>3. QED
    BY <2>1, <2>2 DEF Unseen, Refused
<1>5. CASE ProcessAbortMessage
  <2>1. io.type \notin Welcoming
    BY <1>5 DEF ProcessAbortMessage, Welcoming
  <2>2. QED
    BY <1>5, <2>1, TerminateFaults DEF ProcessAbortMessage, SetJoined, Refused
<1>6. CASE ProcessCallMessage
  <2>1. UNCHANGED <<state, sessionId, leaved, beat>> /\ io.type \notin Welcoming
    BY <1>6 DEF ProcessCallMessage, Welcoming
  <2>2. Msg("RESULT", io.id).type \notin Welcoming /\ Msg("ERROR", io.id).type \notin Welcoming
    BY DEF Msg, Welcoming
  <2>3. joined' = joined \/ (joined.is = "unset" /\ joined'.is = "exception")
    BY <1>6, <2>1, <2>2, SendKeepsSession DEF ProcessCallMessage
  <2>4. QED
    BY <2>1, <2>3 DEF Unseen, Refused
<1>7. CASE FailLeaved \/ Leave
  BY <1>7, SetsLeaved DEF FailLeaved, Leave, Settled, Verdicts
<1>8. CASE OnOtherMessage
  <2>1. UNCHANGED <<state, sessionId, joined, beat>>
    BY <1>8 DEF OnOtherMessage
  <2>2. leaved' = leaved \/ (leaved = "unset" /\ leaved' # "unset")
    BY <1>8, SetsLeaved DEF OnOtherMessage, Verdicts
  <2>3. QED
    BY <2>1, <2>2 DEF Unseen, Settled
<1>9. CASE \/ ConnectSettles \/ TakeLambda \/ LambdaReturns \/ LambdaDestroys
           \/ RecvMessage \/ NoHandler \/ OnMessage \/ ProcessPongMessage
           \/ LeaveDisconnect \/ UseDestroyed
  BY <1>9 DEF Unseen, ConnectSettles, TakeLambda, LambdaReturns, LambdaDestroys,
     RecvMessage, NoHandler, OnMessage, ProcessPongMessage, LeaveDisconnect, UseDestroyed
<1>10. CASE BeatPing \/ PongTimesOut \/ BeatExpires
  BY <1>10 DEF Unseen, Beating, BeatPing, PongTimesOut, BeatExpires
<1>11. CASE BeatVerdict
  <2>1. Beating /\ UNCHANGED <<state, sessionId, joined>>
    BY <1>11 DEF BeatVerdict, Beating
  <2>2. CASE beat' = "sleep" /\ leaved' = leaved
    BY <2>1, <2>2 DEF Unseen, Beating
  <2>3. CASE beat' = "done" /\ SetLeaved("heartbeat", "timeout")
    BY <2>1, <2>3, SetsLeaved DEF Settled, Verdicts
  <2>4. QED
    BY <1>11, <2>2, <2>3 DEF BeatVerdict
<1>12. CASE BeatWakesSpuriously
  BY <1>12 DEF BeatWakesSpuriously, Quits, Beating
<1>13. CASE \/ AnswerHello \/ AnswerPing \/ TakeReply \/ IssueCall \/ SendOutOfTurn
            \/ LinkCloses \/ LinkClosed
  BY <1>13 DEF Unseen, AnswerHello, AnswerPing, TakeReply, IssueCall, SendOutOfTurn,
     LinkCloses, LinkClosed
<1>14. CASE UNCHANGED vars
  BY <1>14 DEF vars, Unseen
<1>15. QED
  BY Steps, <1>1, <1>2, <1>3, <1>4, <1>5, <1>6, <1>7, <1>8, <1>9, <1>10, <1>11,
     <1>12, <1>13, <1>14 DEF WelcomeStep

\* The session, with its threads, messages and errors, has the life that Lifecycle
\* describes.
THEOREM SessionLifecycle == Spec => ImplementsLifecycle
<1>1. Init => C!Init
  BY DEF Init, C!Init, Shown
<1>2. ASSUME SessionInv, SessionInv', [Next]_vars
      PROVE  [C!Next]_(C!vars)
  <2>1. CASE fault' # NoFault
    BY <2>1 DEF C!Next, C!Lose, Shown
  <2>2. CASE fault' = NoFault
    <3>1. fault = NoFault
      BY <1>2, <2>2 DEF Next, Running, Ended, vars
    <3>2. state # "lost"
      BY <1>2 DEF SessionInv, TypeOK
    <3> USE <2>2, <3>1, <3>2 DEF Shown
    <3>3. CASE JoinEnsureState
      <4>1. state = "closed" /\ state' = "establishing"
        BY <1>2, <3>3 DEF JoinEnsureState, Goto, SessionInv, BeforeJoin
      <4>2. UNCHANGED <<sessionId, joined, leaved, beat>>
        BY <3>3 DEF JoinEnsureState, promises
      <4>3. C!Join
        BY <4>1, <4>2 DEF C!Join
      <4>4. QED
        BY <4>3 DEF C!Next
    <3>4. CASE ProcessWelcomeMessage
      <4>1. /\ state = "establishing" /\ state' = "established"
            /\ UNCHANGED <<sessionId, joined, leaved, beat>>
        BY <3>4, TerminateFaults DEF ProcessWelcomeMessage, WelcomeIf, promises
      <4>2. C!Establish
        BY <4>1 DEF C!Establish
      <4>3. QED
        BY <4>2 DEF C!Next
    <3>5. CASE StartHeartbeat
      <4>1. /\ io.type = "STARTING" /\ beat' = "sleep"
            /\ UNCHANGED <<state, sessionId, joined, leaved>>
        BY <3>5 DEF StartHeartbeat, object, promises
      <4>2. beat = "off" /\ state = "established"
        BY <1>2, <4>1 DEF SessionInv, InWelcome, Welcoming
      <4>3. C!Begin
        BY <4>1, <4>2 DEF C!Begin
      <4>4. QED
        BY <4>3 DEF C!Next
    <3>6. CASE KeepId
      <4>1. io.type = "NAMING" /\ UNCHANGED <<state, joined, leaved, beat>>
        BY <3>6 DEF KeepId, promises
      <4>2. beat # "off" /\ sessionId = 0 /\ joined.is # "id"
        BY <1>2, <4>1 DEF SessionInv, InWelcome, Welcoming
      <4>3. sessionId' \in Nat
        BY <1>2 DEF SessionInv, TypeOK
      <4>4. C!Name
        BY <4>1, <4>2, <4>3 DEF C!Name
      <4>5. QED
        BY <4>4 DEF C!Next
    <3>7. CASE AnswerJoin
      <4>1. /\ io.type = "ANSWERING" /\ SetJoined("id", sessionId)
            /\ UNCHANGED <<state, sessionId, leaved, beat>>
        BY <3>7 DEF AnswerJoin, object
      <4>2. joined.is = "unset" /\ joined'.is = "id"
        BY <4>1, TerminateFaults DEF SetJoined
      <4>3. beat # "off"
        BY <1>2, <4>1 DEF SessionInv, InWelcome, Welcoming
      <4>4. C!Admit
        BY <4>1, <4>2, <4>3 DEF C!Admit
      <4>5. QED
        BY <4>4 DEF C!Next
    <3>8. CASE Unseen
      BY <3>8 DEF Unseen, Beating, C!vars
    <3>9. CASE Refused
      <4>1. state \in {"closed", "establishing"}
        BY <1>2, <3>9 DEF Refused, SessionInv, SessionAgreesWithJoin, TypeOK
      <4>2. C!Refuse
        BY <3>9, <4>1 DEF Refused, C!Refuse
      <4>3. QED
        BY <4>2 DEF C!Next
    <3>10. CASE Settled
      BY <3>10 DEF Settled, Beating, C!Settle, C!Next
    <3>11. CASE Quits
      BY <3>11 DEF Quits, Beating, C!Quit, C!Next
    <3>12. CASE UNCHANGED vars
      BY <3>12 DEF vars, object, promises, C!vars
    <3>13. QED
      BY <1>2, LifeSteps, <3>3, <3>4, <3>5, <3>6, <3>7, <3>8, <3>9, <3>10, <3>11, <3>12
         DEF WelcomeStep
  <2>3. QED
    BY <2>1, <2>2
<1>3. QED
  BY <1>1, <1>2, SessionInvAlways, PTL DEF Spec, ImplementsLifecycle, C!Spec
=============================================================================
