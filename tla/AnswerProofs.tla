----------------------------- MODULE AnswerProofs -----------------------------
(***************************************************************************)
(* Proofs about what the threads of a session owe each other (Session):     *)
(* that a waiting thread is released, that Join is answered once, that      *)
(* every call is answered once and in order, and how a session ends.        *)
(***************************************************************************)
EXTENDS HealthProofs

----------------------------------------------------------------------------
(* Waiting.                                                                *)

\* Why each wait is served.  Nothing but Leave runs, and nothing is stopped, before
\* there is a link; the heartbeat ends with a word to Listen; main() detaches after
\* it has stopped the io_context, or because Leave has told it to.
WaitInv ==
  fault = NoFault =>
    /\ link = "none" =>
         /\ caller \in {"new", "attached"}
         /\ io \in {Idle, Leaving} /\ posted = <<>> /\ ~stopped
    /\ caller = "listening" => joined.is = "id"
    /\ beat = "done" => leaved # "unset" \/ Spurious
    /\ caller = "caught" => stopped
    /\ caller \in {"detaching", "detached", "destroying", "destroyed"}
         => stopped \/ outcome = "left"
    /\ outcome = "left" => leaved = "left"
    /\ leaved = "left" => stopped \/ io = Leaving

\* A session that is established has a heartbeat.
LEMMA WaitsImplied == SessionInv /\ WaitInv => WaitsAreServed
BY DEF SessionInv, SessionAgreesWithJoin, WaitInv, WaitsAreServed

LEMMA WaitInit == Init => WaitInv
BY DEF Init, WaitInv, NoFault

\* Before there is a link no heartbeat has been started.
LEMMA QuietBeforeLink ==
  ASSUME SessionInv, WaitInv, fault = NoFault, link = "none"
  PROVE  /\ beat = "off" /\ caller \in {"new", "attached"} /\ posted = <<>> /\ ~stopped
         /\ io \in {Idle, Leaving}
BY NotWelcoming DEF SessionInv, SessionAgreesWithJoin, BeforeJoin, WaitInv

\* A step that is neither the caller's nor Leave, and ends no heartbeat.
Busy ==
  /\ UNCHANGED <<caller, outcome, stopped>>
  /\ leaved' = leaved \/ (leaved = "unset" /\ leaved' \notin {"unset", "left"})
  /\ joined' = joined \/ joined.is # "id"
  /\ io = Leaving => io' = Leaving
  /\ link' = "none" =>
       link = "none" /\ io' \in {Idle, Leaving} /\ posted' = <<>>
  /\ beat' = "done" => beat = "done" \/ leaved' # "unset" \/ Spurious

LEMMA BusyWaits ==
  ASSUME WaitInv, fault = NoFault, Busy
  PROVE  WaitInv'
BY DEF WaitInv, Busy

\* The steps of the calling thread.
LEMMA CallerWaits ==
  ASSUME SessionInv, WaitInv, fault = NoFault, fault' = NoFault, CallerStep
  PROVE  WaitInv'
<1> USE DEF WaitInv, object, promises, main, signals, client, server, network, Goto
<1>1. CASE \/ OnAttach \/ ConnectReturns \/ JoinEnsureState \/ JoinDispatch
           \/ JoinTimesOut \/ ListenReturns \/ HandlerReset \/ Release \/ Destroy
  BY <1>1 DEF OnAttach, ConnectReturns, JoinEnsureState, JoinDispatch, JoinTimesOut,
     ListenReturns, HandlerReset, Release, Destroy
<1>2. CASE JoinReturns
  <2>1. joined.is # "left"
    BY DEF SessionInv, TypeOK, Answers, Results
  <2>2. QED
    BY <1>2, <2>1 DEF JoinReturns
<1>3. CASE Catch
  BY <1>3, Zenon DEF Catch
<1>4. CASE OnDetach
  BY <1>4 DEF OnDetach
<1>5. ~Uncaught
  BY TerminateFaults DEF Uncaught
<1>6. QED
  BY <1>1, <1>2, <1>3, <1>4, <1>5 DEF CallerStep

\* The steps of the io thread, the heartbeat, the server and the network, but for those
\* of Leave.
LEMMA OthersBusy ==
  ASSUME SessionInv, WaitInv, fault = NoFault, fault' = NoFault, Next, ~CallerStep,
         ~Leave, ~LeaveDisconnect
  PROVE  Busy
<1> USE DEF object, promises, main, signals, client, server, network
<1>1. link = "none" => /\ beat = "off" /\ posted = <<>>
                       /\ io \in {Idle, Leaving} /\ caller \in {"new", "attached"}
  BY QuietBeforeLink
<1>2. joined' = joined \/ joined.is # "id"
  <2>1. CASE AnswerJoin
    BY <2>1, TerminateFaults DEF AnswerJoin, SetJoined
  <2>2. CASE ProcessWelcomeMessage \/ StartHeartbeat \/ KeepId
    BY <2>2 DEF ProcessWelcomeMessage, WelcomeIf, StartHeartbeat, KeepId
  <2>3. CASE ~WelcomeStep
    <3>1. ~JoinEnsureState
      BY DEF CallerStep
    <3>2. SameSession
      BY <2>3, <3>1, OthersKeepSession DEF SessionInv
    <3>3. QED
      BY <3>2 DEF SameSession
  <2>4. QED
    BY <2>1, <2>2, <2>3 DEF WelcomeStep
<1>3. CASE TakeLambda
  <2>1. /\ UNCHANGED <<caller, outcome, stopped, leaved, beat, link>>
        /\ posted # <<>> /\ io # Leaving
    BY <1>3, Types DEF TakeLambda
  <2>2. QED
    BY <1>1, <1>2, <2>1 DEF Busy
<1>4. CASE \/ JoinLambda \/ PingLambda \/ Transmit \/ LambdaReturns \/ LambdaDestroys
           \/ OnMessage \/ ProcessAbortMessage \/ ProcessPongMessage \/ ProcessCallMessage
  <2>1. UNCHANGED <<caller, outcome, stopped, leaved, beat, link>>
    BY <1>4 DEF JoinLambda, PingLambda, Transmit, LambdaReturns, LambdaDestroys,
       OnMessage, ProcessAbortMessage, ProcessPongMessage, ProcessCallMessage
  <2>2. io # Idle /\ io # Leaving
    BY <1>4, Types DEF JoinLambda, PingLambda, Transmit, LambdaReturns, LambdaDestroys,
       OnMessage, ProcessAbortMessage, ProcessPongMessage, ProcessCallMessage, ClientTypes
  <2>3. QED
    BY <1>1, <1>2, <2>1, <2>2 DEF Busy
<1>5. CASE WelcomeStep
  <2>1. UNCHANGED <<caller, outcome, stopped, leaved, link>> /\ beat' \in {beat, "sleep"}
    BY <1>5 DEF WelcomeStep, ProcessWelcomeMessage, WelcomeIf, StartHeartbeat, KeepId,
       AnswerJoin
  <2>2. io # Idle /\ io # Leaving
    BY <1>5, Types DEF WelcomeStep, ProcessWelcomeMessage, WelcomeIf, StartHeartbeat,
       KeepId, AnswerJoin
  <2>3. QED
    BY <1>1, <1>2, <2>1, <2>2 DEF Busy
<1>6. CASE FailLeaved \/ OnOtherMessage
  <2>1. UNCHANGED <<caller, outcome, stopped, beat, link, posted>>
    BY <1>6 DEF FailLeaved, OnOtherMessage
  <2>2. io # Idle /\ io # Leaving
    BY <1>6, Types DEF FailLeaved, OnOtherMessage
  <2>3. leaved' = leaved \/ (leaved = "unset" /\ leaved' \notin {"unset", "left"})
    BY <1>6, TerminateFaults DEF FailLeaved, OnOtherMessage, SetLeaved
  <2>4. QED
    BY <1>1, <1>2, <2>1, <2>2, <2>3 DEF Busy
<1>7. CASE RecvMessage \/ ConnectSettles \/ LinkCloses \/ LinkClosed
  BY <1>1, <1>7, Types DEF RecvMessage, ConnectSettles, LinkCloses, LinkClosed, Busy
<1>8. ~NoHandler /\ ~UseDestroyed
  BY TerminateFaults DEF NoHandler, UseDestroyed
<1>9. CASE BeatPing \/ PongTimesOut \/ BeatExpires
  BY <1>1, <1>9 DEF BeatPing, PongTimesOut, BeatExpires, Busy
<1>10. CASE BeatVerdict
  <2>1. /\ UNCHANGED <<caller, outcome, stopped, io, link, posted, joined>>
        /\ beat # "off"
    BY <1>10 DEF BeatVerdict
  <2>2. \/ beat' = "sleep" /\ leaved' = leaved
        \/ leaved = "unset" /\ leaved' = "timeout"
    BY <1>10, TerminateFaults DEF BeatVerdict, SetLeaved
  <2>3. QED
    BY <1>1, <2>1, <2>2 DEF Busy
<1>11. CASE BeatWakesSpuriously
  BY <1>1, <1>11 DEF BeatWakesSpuriously, Busy
<1>12. CASE \/ AnswerHello \/ AnswerPing \/ TakeReply \/ IssueCall \/ SendOutOfTurn
  BY <1>1, <1>12 DEF AnswerHello, AnswerPing, TakeReply, IssueCall, SendOutOfTurn, Busy
<1>13. CASE UNCHANGED vars
  BY <1>1, <1>13 DEF vars, Busy
<1>14. QED
  BY Steps, <1>3, <1>4, <1>5, <1>6, <1>7, <1>8, <1>9, <1>10, <1>11, <1>12, <1>13
     DEF CallerStep, WelcomeStep

LEMMA WaitInvStep ==
  ASSUME SessionInv, WaitInv, [Next]_vars
  PROVE  WaitInv'
<1> USE DEF object, promises, main, signals, client, server, network
<1>1. CASE UNCHANGED vars
  BY <1>1 DEF vars, WaitInv
<1>2. CASE Next /\ fault' = NoFault
  <2>1. fault = NoFault
    BY <1>2 DEF Next, Running, Ended, vars
  <2>2. CASE CallerStep
    BY <1>2, <2>1, <2>2, CallerWaits
  <2>3. CASE Leave
    <3>1. /\ UNCHANGED <<joined, caller, outcome, beat, posted, link, stopped>>
          /\ io = Idle /\ io' = Leaving
      BY <2>3 DEF Leave
    <3>2. leaved' = "left"
      BY <1>2, <2>3, TerminateFaults DEF Leave, SetLeaved
    <3>3. QED
      BY <2>1, <3>1, <3>2 DEF WaitInv
  <2>4. CASE LeaveDisconnect
    <3>1. /\ UNCHANGED <<joined, caller, outcome, beat, posted, link, leaved>>
          /\ link = "closed" /\ stopped'
      BY <1>2, <2>4, TerminateFaults, Zenon DEF LeaveDisconnect
    <3>2. QED
      BY <2>1, <3>1 DEF WaitInv
  <2>5. CASE ~CallerStep /\ ~Leave /\ ~LeaveDisconnect
    BY <1>2, <2>1, <2>5, OthersBusy, BusyWaits
  <2>6. QED
    BY <2>2, <2>3, <2>4, <2>5
<1>3. CASE fault' # NoFault
  BY <1>3 DEF WaitInv
<1>4. QED
  BY <1>1, <1>2, <1>3

LEMMA WaitInvAlways == Spec => []WaitInv
BY WaitInit, WaitInvStep, SessionInvAlways, PTL DEF Spec

\* Every wait is served (WaitsAreServed), in every session and whatever the server
\* sends: Connect waits for an io thread that can still settle the connection, Listen
\* for a heartbeat that will speak, io_context.run() for a stop() that is due.
THEOREM WaitsEnd == Spec => []WaitsAreServed
BY WaitsImplied, WaitInvAlways, SessionInvAlways, PTL

----------------------------------------------------------------------------
(* The end of the session.                                                 *)

InUse == {"new", "attached", "connected", "joining", "waiting", "listening"}

\* How main() comes to destroy the session, and what the heartbeat then does.  Unless
\* Join was refused or gave up, no WELCOME can establish the session any more: it has
\* been established, or Connect has failed and it is closed.
EndInv ==
  /\ caller \in InUse => outcome = "none"
  /\ caller = "listening" => joined.is = "id"
  /\ caller \notin InUse \cup {"over"}
       => outcome \in {"left", "timeout", "network", "abort", "unanswered"}
  /\ outcome \in {"left", "timeout", "protocol", "network"}
       => joined.is = "id" \/ state = "closed"
  /\ Gone => beat \in {"off", "done"} \/ outcome \in {"unanswered", "abort"}

LEMMA EndInit == Init => EndInv
BY DEF Init, EndInv, InUse, Gone

\* joined_ is set once.
LEMMA JoinedStays ==
  ASSUME Next
  PROVE  joined' = joined \/ joined.is = "unset"
<1> USE DEF object, promises, main, signals, client, server, network
<1>1. \A v, n : SetJoined(v, n) => joined' = joined \/ joined.is = "unset"
  BY DEF SetJoined
<1>2. \A m : SendMessage(m) \/ NetworkFailure(m) => joined' = joined \/ joined.is = "unset"
  BY <1>1 DEF SendMessage, NetworkFailure
<1>3. CASE CallerStep
  BY <1>3 DEF CallerStep, OnAttach, ConnectReturns, JoinEnsureState, JoinDispatch,
     JoinReturns, JoinTimesOut, ListenReturns, Catch, Uncaught, OnDetach, HandlerReset,
     Release, Destroy
<1>4. CASE \/ JoinLambda \/ PingLambda \/ Transmit \/ ProcessCallMessage
           \/ AnswerJoin \/ ProcessAbortMessage
  BY <1>1, <1>2, <1>4 DEF JoinLambda, PingLambda, Transmit, ProcessCallMessage, AnswerJoin,
     ProcessAbortMessage
<1>5. CASE \/ ConnectSettles \/ TakeLambda \/ FailLeaved \/ LambdaReturns
           \/ LambdaDestroys \/ RecvMessage \/ NoHandler \/ OnMessage
           \/ ProcessWelcomeMessage \/ StartHeartbeat \/ KeepId
           \/ ProcessPongMessage \/ OnOtherMessage \/ LeaveDisconnect \/ UseDestroyed
           \/ Leave
  BY <1>5 DEF ConnectSettles, TakeLambda, FailLeaved, LambdaReturns, LambdaDestroys,
     RecvMessage, NoHandler, OnMessage, ProcessWelcomeMessage, WelcomeIf, StartHeartbeat,
     KeepId, ProcessPongMessage, OnOtherMessage, LeaveDisconnect, UseDestroyed, Leave
<1>6. CASE \/ BeatStep \/ BeatWakesSpuriously \/ ServerStep \/ LinkClosed
           \/ UNCHANGED vars
  BY <1>6 DEF BeatStep, BeatPing, PongTimesOut, BeatExpires, BeatVerdict,
     BeatWakesSpuriously, ServerStep, AnswerHello, AnswerPing, TakeReply, IssueCall,
     SendOutOfTurn, LinkCloses, LinkClosed, vars
<1>7. QED
  BY <1>3, <1>4, <1>5, <1>6 DEF Next, Running, Ended, IoStep, HandlerStep

\* Only Join and ProcessWelcomeMessage move state_ on.
LEMMA ClosedStays ==
  ASSUME TypeOK, Next, ~JoinEnsureState, state = "closed"
  PROVE  state' = "closed"
<1>1. CASE WelcomeStep
  BY <1>1 DEF WelcomeStep, ProcessWelcomeMessage, WelcomeIf, StartHeartbeat, KeepId,
     AnswerJoin, object
<1>2. CASE ~WelcomeStep
  BY <1>2, OthersKeepSession DEF SameSession
<1>3. QED
  BY <1>1, <1>2

\* Only the calling thread goes on in main().
LEMMA MainWaits ==
  ASSUME Next, ~CallerStep
  PROVE  UNCHANGED <<caller, outcome>>
<1> USE DEF object, promises, main, signals, client, server, network
<1>1. CASE \/ ConnectSettles \/ TakeLambda \/ JoinLambda \/ PingLambda \/ Transmit
           \/ FailLeaved \/ LambdaReturns \/ LambdaDestroys \/ RecvMessage \/ NoHandler
           \/ OnMessage \/ LeaveDisconnect \/ UseDestroyed \/ Leave
  BY <1>1 DEF ConnectSettles, TakeLambda, JoinLambda, PingLambda, Transmit, FailLeaved,
     LambdaReturns, LambdaDestroys, RecvMessage, NoHandler, OnMessage, LeaveDisconnect,
     UseDestroyed, Leave
<1>2. CASE HandlerStep
  BY <1>2 DEF HandlerStep, ProcessWelcomeMessage, WelcomeIf, StartHeartbeat, KeepId,
     AnswerJoin, ProcessAbortMessage, ProcessPongMessage, ProcessCallMessage, OnOtherMessage
<1>3. CASE \/ BeatStep \/ BeatWakesSpuriously \/ ServerStep \/ LinkClosed
           \/ UNCHANGED vars
  BY <1>3 DEF BeatStep, BeatPing, PongTimesOut, BeatExpires, BeatVerdict,
     BeatWakesSpuriously, ServerStep, AnswerHello, AnswerPing, TakeReply, IssueCall,
     SendOutOfTurn, LinkCloses, LinkClosed, vars
<1>4. QED
  BY <1>1, <1>2, <1>3 DEF Next, Running, Ended, IoStep

\* Lambdas own the session until it is destroyed.
LEMMA LambdasOwn ==
  ASSUME TypeOK, caller = "destroyed",
         TakeLambda \/ JoinLambda \/ PingLambda \/ (Transmit /\ LambdaRuns)
           \/ FailLeaved \/ LambdaReturns
  PROVE  LambdaRuns' \/ io' = Destroying
<1> USE Types DEF LambdaRuns, Lambdas
<1>1. CASE TakeLambda
  <2>1. io' \in LambdaMessages
    BY <1>1, Queues DEF TakeLambda, TypeOK
  <2>2. QED
    BY <2>1 DEF LambdaMessages
<1>2. ASSUME LambdaRuns, NEW m, m.type \in {"HELLO", "PING"},
             NetworkFailure(m) \/ SendMessage(m)
      PROVE  LambdaRuns'
  BY <1>2 DEF NetworkFailure, SendMessage
<1>3. CASE JoinLambda \/ PingLambda
  BY <1>2, <1>3 DEF JoinLambda, PingLambda
<1>4. CASE Transmit /\ LambdaRuns
  <2>1. io.type \in {"HELLO", "PING"}
    BY <1>4 DEF Transmit, ClientTypes
  <2>2. CASE NetworkFailure(io)
    BY <1>2, <1>4, <2>1, <2>2
  <2>3. CASE io' \in {io, Returning}
    BY <1>4, <2>3
  <2>4. QED
    BY <1>4, <2>2, <2>3 DEF Transmit
<1>5. CASE FailLeaved \/ LambdaReturns
  BY <1>5 DEF FailLeaved, LambdaReturns
<1>6. QED
  BY <1>1, <1>3, <1>4, <1>5

\* What the io thread, the heartbeat and the server do once main() has left.
LEMMA GoneQuietly ==
  ASSUME SessionInv, EndInv, fault = NoFault, caller = "destroyed", Next, ~CallerStep, Gone'
  PROVE  beat' \in {"off", "done"} \/ outcome \in {"unanswered", "abort"}
<1> USE DEF object, promises, main, signals, client, server, network
<1>1. CASE \/ TakeLambda \/ JoinLambda \/ PingLambda \/ (Transmit /\ LambdaRuns)
           \/ FailLeaved \/ LambdaReturns
  BY <1>1, LambdasOwn DEF Gone, SessionInv
<1>2. CASE LambdaDestroys
  BY <1>2 DEF LambdaDestroys
<1>3. CASE StartHeartbeat
  <2>1. joined.is # "id" /\ state = "established"
    BY <1>3 DEF StartHeartbeat, SessionInv, InWelcome, Welcoming
  <2>2. QED
    BY <2>1 DEF EndInv, InUse
<1>4. CASE \/ Transmit /\ ~LambdaRuns
           \/ ProcessWelcomeMessage \/ KeepId \/ AnswerJoin \/ ProcessAbortMessage
           \/ ProcessPongMessage \/ ProcessCallMessage \/ OnOtherMessage
  <2>1. Gone
    BY <1>4, Types DEF Gone, LambdaRuns, Lambdas, Transmit, ProcessWelcomeMessage,
       WelcomeIf, KeepId, AnswerJoin, ProcessAbortMessage, ProcessPongMessage,
       ProcessCallMessage, OnOtherMessage, ClientTypes
  <2>2. beat' = beat
    BY <1>4 DEF Transmit, ProcessWelcomeMessage, WelcomeIf, KeepId, AnswerJoin,
       ProcessAbortMessage, ProcessPongMessage, ProcessCallMessage, OnOtherMessage
  <2>3. QED
    BY <2>1, <2>2 DEF EndInv
<1>5. CASE \/ ConnectSettles \/ RecvMessage \/ NoHandler \/ OnMessage \/ LeaveDisconnect
           \/ Leave
  <2>1. Gone
    BY <1>5, Types DEF Gone, LambdaRuns, Lambdas, ConnectSettles, RecvMessage, NoHandler,
       OnMessage, LeaveDisconnect, Leave
  <2>2. beat' = beat
    BY <1>5 DEF ConnectSettles, RecvMessage, NoHandler, OnMessage, LeaveDisconnect, Leave
  <2>3. QED
    BY <2>1, <2>2 DEF EndInv
<1>6. CASE BeatStep \/ BeatWakesSpuriously
  <2>1. beat \notin {"off", "done"} /\ UNCHANGED <<io, caller>>
    BY <1>6 DEF BeatStep, BeatPing, PongTimesOut, BeatExpires, BeatVerdict,
       BeatWakesSpuriously
  <2>2. QED
    BY <2>1 DEF EndInv, Gone, LambdaRuns
<1>7. CASE ServerStep \/ LinkClosed \/ UseDestroyed \/ UNCHANGED vars
  <2>1. UNCHANGED <<io, caller, beat>>
    BY <1>7 DEF ServerStep, AnswerHello, AnswerPing, TakeReply, IssueCall, SendOutOfTurn,
       LinkCloses, LinkClosed, UseDestroyed, vars
  <2>2. QED
    BY <2>1 DEF EndInv, Gone, LambdaRuns
<1>8. QED
  BY <1>1, <1>2, <1>3, <1>4, <1>5, <1>6, <1>7
     DEF Next, Running, Ended, IoStep, HandlerStep

LEMMA EndInvStep ==
  ASSUME SessionInv, EndInv, [Next]_vars
  PROVE  EndInv'
<1>1. CASE UNCHANGED vars
  BY <1>1 DEF vars, object, promises, main, EndInv, Gone, LambdaRuns
<1>2. CASE Next /\ ~UNCHANGED vars
  <2>1. fault = NoFault
    BY <1>2 DEF Next, Running, Ended
  <2>2. joined.is = "id" => joined'.is = "id"
    BY <1>2, JoinedStays
  <2>3. CASE CallerStep
    <3> USE DEF object, promises, main, signals, client, server, network, Goto
    <3>1. UNCHANGED <<io, beat>>
      BY <2>3 DEF CallerStep, OnAttach, ConnectReturns, JoinEnsureState, JoinDispatch,
         JoinReturns, JoinTimesOut, ListenReturns, Catch, Uncaught, OnDetach,
         HandlerReset, Release, Destroy
    <3>2. Gone' => Gone \/ beat' \in {"off", "done"}
      BY <2>3, <3>1 DEF CallerStep, OnAttach, ConnectReturns, JoinEnsureState,
         JoinDispatch, JoinReturns, JoinTimesOut, ListenReturns, Catch, Uncaught,
         OnDetach, HandlerReset, Release, Destroy, Gone, LambdaRuns
    <3>3. Gone => UNCHANGED <<caller, outcome>>
      BY <2>3 DEF CallerStep, OnAttach, ConnectReturns, JoinEnsureState,
         JoinDispatch, JoinReturns, JoinTimesOut, ListenReturns, Catch, Uncaught,
         OnDetach, HandlerReset, Release, Destroy, Gone
    <3>4. CASE \/ OnAttach \/ JoinEnsureState \/ JoinDispatch \/ JoinTimesOut
               \/ HandlerReset \/ Release \/ Destroy
      BY <2>2, <3>1, <3>2, <3>3, <3>4 DEF OnAttach, JoinEnsureState, JoinDispatch,
         JoinTimesOut, HandlerReset, Release, Destroy, EndInv, InUse
    <3>5. CASE ConnectReturns
      <4>1. state = "closed"
        BY <3>5 DEF ConnectReturns, SessionInv, BeforeJoin
      <4>2. QED
        BY <2>2, <3>1, <3>2, <3>3, <3>5, <4>1 DEF ConnectReturns, EndInv, InUse
    <3>6. CASE JoinReturns
      <4>1. joined.is \in Results
        BY Records DEF SessionInv, TypeOK
      <4>2. QED
        BY <2>2, <3>1, <3>2, <3>3, <3>6, <4>1 DEF JoinReturns, EndInv, InUse, Results
    <3>7. CASE ListenReturns
      BY <2>2, <3>1, <3>2, <3>3, <3>7 DEF ListenReturns, EndInv, InUse
    <3>8. CASE Catch
      <4>1. /\ UNCHANGED <<joined, state, outcome>> /\ caller = "over" /\ caller' = "caught"
            /\ outcome \in {"abort", "unanswered", "timeout", "network"}
        BY <3>8, Zenon DEF Catch
      <4>2. QED
        BY <3>1, <3>2, <4>1 DEF EndInv, InUse, Gone
    <3>9. CASE OnDetach
      <4>1. /\ UNCHANGED <<joined, state, outcome>> /\ caller' = "detaching"
            /\ outcome = "left" \/ caller = "caught"
        BY <3>9 DEF OnDetach
      <4>2. QED
        BY <3>1, <3>2, <4>1 DEF EndInv, InUse, Gone
    <3>10. CASE Uncaught
      <4>1. UNCHANGED <<joined, state, outcome, caller>>
        BY <3>10 DEF Uncaught
      <4>2. QED
        BY <3>1, <3>2, <4>1 DEF EndInv
    <3>11. QED
      BY <2>3, <3>4, <3>5, <3>6, <3>7, <3>8, <3>9, <3>10 DEF CallerStep
  <2>4. CASE ~CallerStep
    <3>1. UNCHANGED <<caller, outcome>>
      BY <1>2, <2>4, MainWaits
    <3>2. state = "closed" => state' = "closed"
      BY <1>2, <2>4, ClosedStays DEF SessionInv, CallerStep
    <3>3. Gone' => beat' \in {"off", "done"} \/ outcome \in {"unanswered", "abort"}
      BY <1>2, <2>1, <2>4, <3>1, GoneQuietly DEF Gone
    <3>4. QED
      BY <2>2, <3>1, <3>2, <3>3 DEF EndInv
  <2>5. QED
    BY <2>3, <2>4
<1>3. QED
  BY <1>1, <1>2

\* Once the session is destroyed no heartbeat is left, unless Join was refused or
\* gave up.
LEMMA EndInvAlways == Spec => []EndInv
BY EndInit, EndInvStep, SessionInvAlways, PTL DEF Spec

----------------------------------------------------------------------------
(* The answer to Join.                                                     *)

Unasked == ~HelloPosted /\ ~HelloAtIo /\ ~HelloSent /\ ~Admitted /\ ~Aborted

\* HELLO or its answer is in one place, and there once; there is none before Join has
\* posted it, nor once joined_ is set.  Unlike Hellos of an undisturbed session, this
\* does not say that Join still waits, or that there is a connection.
AskInv ==
  /\ One(posted, "JOIN") /\ One(wire, "HELLO")
  /\ One(inbox, "WELCOME") /\ One(inbox, "ABORT")
  /\ HelloPosted => ~HelloAtIo /\ ~HelloSent /\ ~Admitted /\ ~Aborted
  /\ HelloAtIo => ~HelloSent /\ ~Admitted /\ ~Aborted
  /\ HelloSent => ~Admitted /\ ~Aborted
  /\ Admitted => ~Aborted
  /\ Early => Unasked /\ joined.is = "unset"
  /\ joined.is # "unset" => Unasked

LEMMA AskInit == Init => AskInv
BY Types DEF Init, AskInv, Unasked, HelloPosted, HelloAtIo, WelcomeAtIo, HelloSent, Admitted,
   Aborted, Has, One, Welcoming

\* The places that AskInv counts are those of Asking.
LEMMA AskImplied == AskInv => JoinAnsweredOnce
<1> SUFFICES ASSUME AskInv PROVE JoinAnsweredOnce
  OBVIOUS
<1>1. ASSUME NEW x \in Asking, NEW y \in Asking
      PROVE  x = y
  BY <1>1 DEF Asking, At, AskInv, One, Has, HelloPosted, HelloAtIo, WelcomeAtIo, HelloSent,
     Admitted, Aborted
<1>2. Unasked => Asking = {}
  BY DEF Asking, At, Unasked, Has, HelloPosted, HelloAtIo, WelcomeAtIo, HelloSent, Admitted,
     Aborted
<1>3. QED
  BY <1>1, <1>2 DEF JoinAnsweredOnce, AskInv

\* A step that puts neither HELLO nor an answer anywhere, and does not set joined_.
AskCalm ==
  /\ Keeps(posted, posted', "JOIN") /\ Keeps(wire, wire', "HELLO")
  /\ Keeps(inbox, inbox', "WELCOME") /\ Keeps(inbox, inbox', "ABORT")
  /\ HelloAtIo' => HelloAtIo
  /\ joined' = joined
  /\ Early' => Early

LEMMA AskStays ==
  ASSUME AskInv, AskCalm
  PROVE  AskInv'
BY DEF AskInv, AskCalm, Keeps, Unasked, HelloPosted, HelloAtIo, HelloSent, Admitted, Aborted

\* Once HELLO or its answer is taken from where it is, nothing is left of it.
LEMMA AskEnds ==
  ASSUME AskInv, ~Early, ~Unasked,
         Keeps(posted, posted', "JOIN"), Keeps(wire, wire', "HELLO"),
         Keeps(inbox, inbox', "WELCOME"), Keeps(inbox, inbox', "ABORT"),
         ~HelloAtIo', ~Early',
         \/ HelloPosted /\ ~Has(posted', "JOIN")
         \/ HelloAtIo
         \/ HelloSent /\ ~Has(wire', "HELLO")
         \/ Admitted /\ ~Has(inbox', "WELCOME")
         \/ Aborted /\ ~Has(inbox', "ABORT")
  PROVE  AskInv' /\ Unasked' /\ joined.is = "unset"
BY DEF AskInv, Keeps, Unasked, HelloPosted, HelloAtIo, HelloSent, Admitted, Aborted

\* HELLO or its answer is taken from where it is to the io thread.
LEMMA AskMoves ==
  ASSUME AskInv, joined' = joined, caller' = caller,
         Keeps(posted, posted', "JOIN"), Keeps(wire, wire', "HELLO"),
         Keeps(inbox, inbox', "WELCOME"), Keeps(inbox, inbox', "ABORT"),
         \/ HelloPosted /\ ~Has(posted', "JOIN")
         \/ Admitted /\ ~Has(inbox', "WELCOME")
         \/ Aborted /\ ~Has(inbox', "ABORT")
  PROVE  AskInv'
BY DEF AskInv, Keeps, Unasked, Early, HelloPosted, HelloSent, Admitted, Aborted

\* What the io thread does that is not to ask to join.
LEMMA AsksNot ==
  /\ \A x \in {Idle, Failing, Returning, Destroying, Leaving, Parsing} :
       x.type \notin {"JOIN", "HELLO", "ABORT", "WELCOME"} \cup Welcoming
  /\ \A t \in {"BEAT", "PING", "RESULT", "ERROR", "FORBIDDEN", "IGNORED", "EMPTY",
             "MALFORMED", "PONG"} \cup CallKinds :
       t \notin {"JOIN", "HELLO", "ABORT", "WELCOME"} \cup Welcoming
BY Types DEF Welcoming, CallKinds

\* A message other than HELLO does not touch joined_.
LEMMA SendsNoHello ==
  ASSUME NEW m, m.type \in {"PING", "RESULT", "ERROR"}, ~HelloAtIo,
         SendMessage(m) \/ NetworkFailure(m)
  PROVE  ~HelloAtIo' /\ joined' = joined
<1>1. CASE NetworkFailure(m)
  BY <1>1, AsksNot DEF NetworkFailure, HelloAtIo, WelcomeAtIo
<1>2. CASE SendMessage(m) /\ ~NetworkFailure(m)
  BY <1>2, AsksNot DEF SendMessage, HelloAtIo, WelcomeAtIo
<1>3. QED
  BY <1>1, <1>2

\* The steps of the calling thread but JoinDispatch, and of the heartbeat.
LEMMA CallerAsksNot ==
  ASSUME TypeOK, (CallerStep /\ ~JoinDispatch) \/ BeatStep \/ BeatWakesSpuriously
  PROVE  AskCalm
<1> USE DEF object, promises, main, signals, client, server, network, Goto
<1>1. CASE CallerStep /\ ~JoinDispatch
  <2>1. UNCHANGED <<io, posted, wire, inbox, joined>> /\ (Early' => Early)
    BY <1>1 DEF CallerStep, OnAttach, ConnectReturns, JoinEnsureState, JoinReturns,
       JoinTimesOut, ListenReturns, Catch, Uncaught, OnDetach, HandlerReset, Release,
       Destroy, Early
  <2>2. QED
    BY <2>1, Untouched DEF AskCalm, HelloAtIo, WelcomeAtIo
<1>2. CASE BeatStep \/ BeatWakesSpuriously
  <2>1. UNCHANGED <<io, wire, inbox, joined, caller>>
    BY <1>2 DEF BeatStep, BeatPing, PongTimesOut, BeatExpires, BeatVerdict,
       BeatWakesSpuriously
  <2>2. posted' = posted \/ posted' = Append(posted, Msg("BEAT", 0))
    BY <1>2 DEF BeatStep, BeatPing, PongTimesOut, BeatExpires, BeatVerdict,
       BeatWakesSpuriously
  <2>3. Msg("BEAT", 0) \in LambdaMessages /\ Msg("BEAT", 0).type # "JOIN"
    BY Messages DEF Lambdas, Msg
  <2>4. Keeps(posted, posted', "JOIN")
    BY <2>2, <2>3, Keeping DEF TypeOK
  <2>5. QED
    BY <2>1, <2>4, Untouched DEF AskCalm, HelloAtIo, WelcomeAtIo, Early
<1>3. QED
  BY <1>1, <1>2

\* The steps of the io thread that have to do neither with HELLO nor with an answer,
\* and those that keep an answer where it is.
LEMMA IoAsksNot ==
  ASSUME TypeOK, IoStep \/ Leave, ~TakeLambda, ~JoinLambda, ~(Transmit /\ HelloAtIo),
         ~OnMessage, ~AnswerJoin, ~ProcessAbortMessage
  PROVE  AskCalm
<1> USE DEF object, promises, main, signals, client, server, network
<1>1. CASE PingLambda
  <2>1. SendMessage(Msg("PING", 0)) /\ UNCHANGED <<posted, wire, inbox, caller>>
    BY <1>1 DEF PingLambda
  <2>2. ~HelloAtIo
    BY <1>1, AsksNot DEF PingLambda, HelloAtIo, WelcomeAtIo
  <2>3. ~HelloAtIo' /\ joined' = joined
    BY <2>1, <2>2, Types, SendsNoHello
  <2>4. QED
    BY <2>1, <2>3, Untouched DEF AskCalm, Early
<1>2. CASE Transmit
  <2>1. /\ io \in ClientMessages /\ io.type \in {"PING", "RESULT", "ERROR"} /\ ~HelloAtIo
        /\ UNCHANGED <<posted, inbox, caller>>
    BY <1>2, IoMessages DEF Transmit, TypeOK, HelloAtIo, ClientTypes
  <2>2. wire' = wire \/ wire' = Append(wire, io)
    BY <1>2 DEF Transmit
  <2>3. Keeps(wire, wire', "HELLO")
    BY <2>1, <2>2, Keeping DEF TypeOK
  <2>4. ~HelloAtIo' /\ joined' = joined
    <3>1. CASE NetworkFailure(io)
      BY <2>1, <3>1, SendsNoHello
    <3>2. CASE io' \in {Idle, Returning} /\ joined' = joined
      BY <3>2, AsksNot DEF HelloAtIo, WelcomeAtIo
    <3>3. CASE UNCHANGED <<io, joined>>
      BY <2>1, <3>3 DEF HelloAtIo, WelcomeAtIo
    <3>4. QED
      BY <1>2, <3>1, <3>2, <3>3 DEF Transmit
  <2>5. QED
    BY <2>1, <2>3, <2>4, Untouched DEF AskCalm, Early
<1>3. CASE ProcessCallMessage
  <2>1. UNCHANGED <<posted, wire, inbox, caller>>
    BY <1>3 DEF ProcessCallMessage
  <2>2. ~HelloAtIo
    BY <1>3, AsksNot DEF ProcessCallMessage, HelloAtIo, WelcomeAtIo, CallKinds
  <2>3. ~HelloAtIo' /\ joined' = joined
    <3>1. CASE \E t \in {"RESULT", "ERROR"} : \E n : SendMessage(Msg(t, n))
      BY <2>2, <3>1, Types, SendsNoHello
    <3>2. CASE UNCHANGED <<io, joined>>
      BY <2>2, <3>2 DEF HelloAtIo, WelcomeAtIo
    <3>3. QED
      BY <1>3, <3>1, <3>2 DEF ProcessCallMessage
  <2>4. QED
    BY <2>1, <2>3, Untouched DEF AskCalm, Early
<1>4. CASE ProcessWelcomeMessage \/ StartHeartbeat \/ KeepId
  <2>1. UNCHANGED <<posted, wire, inbox, caller, joined>> /\ HelloAtIo
    BY <1>4 DEF ProcessWelcomeMessage, WelcomeIf, StartHeartbeat, KeepId, HelloAtIo,
       WelcomeAtIo, Welcoming
  <2>2. QED
    BY <2>1, Untouched DEF AskCalm, Early
<1>5. CASE \/ ConnectSettles \/ FailLeaved \/ LambdaReturns \/ LambdaDestroys
           \/ RecvMessage \/ NoHandler \/ ProcessPongMessage \/ OnOtherMessage
           \/ LeaveDisconnect \/ UseDestroyed \/ Leave
  <2>1. /\ UNCHANGED <<posted, wire, inbox, caller, joined>>
        /\ io' = io \/ io' \in {Idle, Returning, Destroying, Parsing, Leaving}
    BY <1>5 DEF ConnectSettles, FailLeaved, LambdaReturns, LambdaDestroys, RecvMessage,
       NoHandler, ProcessPongMessage, OnOtherMessage, LeaveDisconnect, UseDestroyed, Leave
  <2>2. QED
    BY <2>1, Untouched, AsksNot DEF AskCalm, Early, HelloAtIo, WelcomeAtIo
<1>6. QED
  BY <1>1, <1>2, <1>3, <1>4, <1>5 DEF IoStep, HandlerStep

\* The steps of the server and the network but AnswerHello.
LEMMA ServerAsksNot ==
  ASSUME TypeOK, ServerStep \/ LinkClosed, ~AnswerHello, SessionConstants,
         {"WELCOME", "ABORT"} \cap Unsolicited = {}
  PROVE  AskCalm
<1> USE DEF object, promises, main, signals, client, server, network
<1>1. UNCHANGED <<posted, io, joined, caller>>
  BY DEF ServerStep, AnswerPing, TakeReply, IssueCall, SendOutOfTurn, LinkCloses, LinkClosed
<1>2. wire' = wire \/ (wire # <<>> /\ wire' = Tail(wire))
  BY DEF ServerStep, AnswerPing, TakeReply, IssueCall, SendOutOfTurn, LinkCloses,
     LinkClosed, TakeWire
<1>3. \/ inbox' = inbox
      \/ \E t \in ServerTypes \ {"WELCOME", "ABORT"}, n \in Nat :
           inbox' = Append(inbox, Msg(t, n))
  <2>1. CASE AnswerPing \/ TakeReply \/ LinkCloses \/ LinkClosed
    BY <2>1 DEF AnswerPing, TakeReply, LinkCloses, LinkClosed, Send, ServerTypes, RogueKinds
  <2>2. CASE IssueCall
    <3>1. PICK t \in CallTypes : inbox' = Append(inbox, Msg(t, issued + 1))
      BY <2>2 DEF IssueCall, Send
    <3>2. t \in ServerTypes \ {"WELCOME", "ABORT"} /\ issued + 1 \in Nat
      BY DEF SessionConstants, ServerTypes, CallKinds, TypeOK
    <3>3. QED
      BY <3>1, <3>2
  <2>3. CASE SendOutOfTurn
    BY <2>3 DEF SendOutOfTurn, Send, SessionConstants, ServerTypes, RogueKinds
  <2>4. QED
    BY <2>1, <2>2, <2>3 DEF ServerStep
<1>4. Keeps(inbox, inbox', "WELCOME") /\ Keeps(inbox, inbox', "ABORT")
  <2>1. ASSUME NEW t \in ServerTypes \ {"WELCOME", "ABORT"}, NEW n \in Nat,
               inbox' = Append(inbox, Msg(t, n))
        PROVE  Keeps(inbox, inbox', "WELCOME") /\ Keeps(inbox, inbox', "ABORT")
    <3>1. Msg(t, n) \in ServerMessages /\ Msg(t, n).type \notin {"WELCOME", "ABORT"}
      BY Messages DEF Msg
    <3>2. QED
      BY <2>1, <3>1, Keeping DEF TypeOK
  <2>2. QED
    BY <1>3, <2>1, Untouched
<1>5. QED
  BY <1>1, <1>2, <1>4, Untouched DEF AskCalm, HelloAtIo, WelcomeAtIo, Early

\* Join posts HELLO, once.
LEMMA HelloIsPosted ==
  ASSUME TypeOK, AskInv, JoinDispatch
  PROVE  AskInv'
<1> USE DEF object, promises, main, signals, client, server, network, Goto
<1>1. /\ UNCHANGED <<io, wire, inbox, joined>> /\ Early /\ ~Early'
      /\ posted' = Append(posted, Msg("JOIN", 0))
  BY DEF JoinDispatch, Early
<1>2. Unasked /\ joined.is = "unset"
  BY <1>1 DEF AskInv
<1>3. One(posted', "JOIN")
  BY <1>1, <1>2, AddsTo, Messages DEF TypeOK, AskInv, Unasked, HelloPosted, Lambdas
<1>4. QED
  BY <1>1, <1>2, <1>3 DEF AskInv, Unasked, HelloPosted, HelloAtIo, WelcomeAtIo, HelloSent,
     Admitted, Aborted

\* The io thread takes Join's lambda, or another.
LEMMA HelloIsTaken ==
  ASSUME TypeOK, AskInv, TakeLambda
  PROVE  AskInv'
<1> USE DEF object, promises, main, signals, client, server, network
<1>1. /\ posted # <<>> /\ posted' = Tail(posted) /\ io' = Head(posted)
      /\ UNCHANGED <<wire, inbox, caller, joined>> /\ ~HelloAtIo
  BY AsksNot DEF TakeLambda, HelloAtIo, WelcomeAtIo
<1>2. CASE Head(posted).type = "JOIN"
  <2>1. HelloPosted /\ ~Has(posted', "JOIN")
    BY <1>1, <1>2, TakesFrom DEF TypeOK, AskInv, HelloPosted
  <2>2. QED
    BY <1>1, <2>1, Untouched, AskMoves
<1>3. CASE Head(posted).type # "JOIN"
  <2>1. io'.type = "BEAT"
    <3>1. io' \in LambdaMessages
      BY <1>1, Queues DEF TypeOK
    <3>2. QED
      BY <1>1, <1>3, <3>1 DEF LambdaMessages, Lambdas
  <2>2. AskCalm
    BY <1>1, <2>1, Untouched, AsksNot DEF AskCalm, HelloAtIo, WelcomeAtIo, Early
  <2>3. QED
    BY <2>2, AskStays
<1>4. QED
  BY <1>2, <1>3

\* Join is told that something has failed, or that it is refused or admitted.
LEMMA JoinIsTold ==
  ASSUME TypeOK, AskInv, HelloAtIo, ~HelloAtIo', UNCHANGED <<posted, wire, inbox, caller>>
  PROVE  AskInv'
<1>1. ~Unasked /\ ~Early /\ ~Early'
  BY DEF AskInv, Unasked, Early
<1>2. QED
  BY <1>1, Untouched, AskEnds

\* The lambda asks for HELLO to be sent, or has nothing more to do with it.
LEMMA HelloIsMade ==
  ASSUME TypeOK, AskInv, JoinLambda
  PROVE  AskInv'
<1> USE DEF object, promises, main, signals, client, server, network
<1>1. UNCHANGED <<posted, wire, inbox, caller>> /\ HelloAtIo
  BY DEF JoinLambda, HelloAtIo
<1>2. CASE io' = Returning
  <2>1. ~HelloAtIo'
    BY <1>2, AsksNot DEF HelloAtIo, WelcomeAtIo
  <2>2. QED
    BY <1>1, <2>1, JoinIsTold
<1>3. CASE joined' = joined
  BY <1>1, <1>3, Untouched, AskStays DEF AskCalm, Early
<1>4. QED
  BY <1>2, <1>3, Types DEF JoinLambda, SendMessage, NetworkFailure

\* HELLO goes out, or the connection refuses it and Join is told.
LEMMA HelloIsSent ==
  ASSUME TypeOK, AskInv, Transmit, HelloAtIo
  PROVE  AskInv'
<1> USE DEF object, promises, main, signals, client, server, network
<1>1. UNCHANGED <<posted, inbox, caller>>
  BY DEF Transmit
<1>2. ~HelloPosted /\ ~HelloSent /\ ~Admitted /\ ~Aborted /\ ~Early /\ joined.is = "unset"
  BY DEF AskInv, Unasked
<1>3. io.type = "HELLO" /\ io \in ClientMessages
  BY IoMessages DEF Transmit, TypeOK, HelloAtIo, WelcomeAtIo, ClientTypes, Welcoming
<1>4. CASE UNCHANGED <<joined, io, wire>>
  BY <1>1, <1>4, Untouched, AskStays DEF AskCalm, Early
<1>5. CASE wire' = Append(wire, io) /\ io' = Returning /\ joined' = joined
  <2>1. ~HelloAtIo'
    BY <1>5, AsksNot DEF HelloAtIo, WelcomeAtIo
  <2>2. One(wire', "HELLO")
    BY <1>2, <1>3, <1>5, AddsTo DEF TypeOK, AskInv, HelloSent
  <2>3. QED
    BY <1>1, <1>2, <1>5, <2>1, <2>2 DEF AskInv, Unasked, HelloPosted, HelloSent, Admitted,
       Aborted, Early
<1>6. CASE NetworkFailure(io) /\ wire' = wire
  <2>1. ~HelloAtIo'
    BY <1>3, <1>6, AsksNot DEF NetworkFailure, HelloAtIo, WelcomeAtIo
  <2>2. QED
    BY <1>1, <1>6, <2>1, JoinIsTold
<1>7. QED
  BY <1>3, <1>4, <1>5, <1>6 DEF Transmit, LambdaRuns

\* OnMessage takes the answer, or another message.
LEMMA AnswerIsTaken ==
  ASSUME TypeOK, AskInv, OnMessage
  PROVE  AskInv'
<1> USE DEF object, promises, main, signals, client, server, network
<1>1. /\ inbox # <<>> /\ inbox' = Tail(inbox) /\ io' = Head(inbox)
      /\ UNCHANGED <<posted, wire, caller, joined>> /\ ~HelloAtIo
  BY AsksNot DEF OnMessage, HelloAtIo, WelcomeAtIo
<1>2. CASE Head(inbox).type \in {"WELCOME", "ABORT"}
  <2>1. \/ Admitted /\ ~Has(inbox', "WELCOME")
        \/ Aborted /\ ~Has(inbox', "ABORT")
    BY <1>1, <1>2, TakesFrom DEF TypeOK, AskInv, Admitted, Aborted
  <2>2. QED
    BY <1>1, <2>1, Untouched, AskMoves
<1>3. CASE Head(inbox).type \notin {"WELCOME", "ABORT"}
  <2>1. io'.type \in ServerTypes \ {"WELCOME", "ABORT"}
    <3>1. io' \in ServerMessages
      BY <1>1, Queues DEF TypeOK
    <3>2. QED
      BY <1>1, <1>3, <3>1 DEF ServerMessages
  <2>2. AskCalm
    BY <1>1, <2>1, Untouched, AsksNot DEF AskCalm, HelloAtIo, WelcomeAtIo, Early,
       ServerTypes, RogueKinds
  <2>3. QED
    BY <2>2, AskStays
<1>4. QED
  BY <1>2, <1>3

\* The answer is passed on to Join, and nothing is left of it.
LEMMA AnswerIsGiven ==
  ASSUME TypeOK, AskInv, AnswerJoin \/ ProcessAbortMessage
  PROVE  AskInv'
<1> USE DEF object, promises, main, signals, client, server, network
<1>1. UNCHANGED <<posted, wire, inbox, caller>> /\ HelloAtIo /\ ~HelloAtIo'
  BY AsksNot DEF AnswerJoin, ProcessAbortMessage, HelloAtIo, WelcomeAtIo, Welcoming
<1>2. QED
  BY <1>1, JoinIsTold

\* The server answers HELLO, or stays silent.
LEMMA HelloIsAnswered ==
  ASSUME TypeOK, AskInv, AnswerHello, SessionConstants
  PROVE  AskInv'
<1> USE DEF object, promises, main, signals, client, server, network
<1>1. /\ wire # <<>> /\ wire' = Tail(wire) /\ Head(wire).type = "HELLO"
      /\ UNCHANGED <<posted, io, joined, caller>>
  BY DEF AnswerHello, TakeWire
<1>2. HelloSent /\ ~Has(wire', "HELLO") /\ One(wire', "HELLO")
  BY <1>1, TakesFrom DEF TypeOK, AskInv, HelloSent
<1>3. ~HelloPosted /\ ~HelloAtIo /\ ~Admitted /\ ~Aborted /\ ~Early /\ joined.is = "unset"
  BY <1>2 DEF AskInv, Unasked
<1>4. PICK t \in {"WELCOME", "ABORT"}, n \in Nat :
        inbox' = inbox \/ inbox' = Append(inbox, Msg(t, n))
  BY DEF AnswerHello, Send, SessionConstants
<1> DEFINE m == Msg(t, n)
<1>5. m \in ServerMessages /\ m.type = t
  BY Messages DEF Msg, ServerTypes, RogueKinds
<1>6. inbox' = inbox \/ inbox' = Append(inbox, m)
  BY <1>4
<1> HIDE DEF m
<1>7. /\ One(inbox', "WELCOME") /\ One(inbox', "ABORT")
      /\ ~Has(inbox', "WELCOME") \/ ~Has(inbox', "ABORT")
  <2>1. /\ inbox \in Seq(ServerMessages)
        /\ ~Has(inbox, "WELCOME") /\ ~Has(inbox, "ABORT")
        /\ One(inbox, "WELCOME") /\ One(inbox, "ABORT")
    BY <1>3 DEF TypeOK, AskInv, Admitted, Aborted
  <2>2. CASE inbox' = inbox
    BY <2>1, <2>2
  <2>3. CASE inbox' = Append(inbox, m)
    BY <1>5, <2>1, <2>3, AddsTo
  <2>4. QED
    BY <1>6, <2>2, <2>3
<1>8. QED
  BY <1>1, <1>2, <1>3, <1>7 DEF AskInv, Unasked, HelloPosted, HelloAtIo, WelcomeAtIo,
     HelloSent, Admitted, Aborted, Early

LEMMA AskInvStep ==
  ASSUME TypeOK, AskInv, [Next]_vars, SessionConstants,
         {"WELCOME", "ABORT"} \cap Unsolicited = {}
  PROVE  AskInv'
<1>1. CASE UNCHANGED vars
  BY <1>1 DEF vars, object, promises, main, signals, server, network, AskInv, Unasked,
     HelloPosted, HelloAtIo, WelcomeAtIo, HelloSent, Admitted, Aborted, Early
<1>2. CASE Next /\ ~UNCHANGED vars
  <2>1. \/ CallerStep \/ IoStep \/ Leave \/ BeatStep \/ BeatWakesSpuriously
        \/ ServerStep \/ LinkClosed
    BY <1>2 DEF Next, Running, Ended
  <2>2. QED
    BY <2>1, HelloIsPosted, HelloIsTaken, HelloIsMade, HelloIsSent, AnswerIsTaken,
       AnswerIsGiven, HelloIsAnswered, CallerAsksNot, IoAsksNot, ServerAsksNot, AskStays
<1>3. QED
  BY <1>1, <1>2 DEF Next, Running, Ended

\* Join is answered once (JoinAnsweredOnce) whatever disturbs the session, as long as
\* the server sends WELCOME and ABORT only in answer to HELLO: Join may give up, the
\* connection may close and main() may detach while HELLO or its answer is under way,
\* and joined_ is not set twice.
THEOREM JoinIsAnsweredOnce ==
  ASSUME {"WELCOME", "ABORT"} \cap Unsolicited = {}
  PROVE  Spec => []JoinAnsweredOnce
<1>1. ASSUME TypeOK, AskInv, [Next]_vars
      PROVE  AskInv'
  BY <1>1, AskInvStep, SessionConstants
<1>2. QED
  BY <1>1, AskInit, AskImplied, TypeCorrect, PTL DEF Spec

----------------------------------------------------------------------------
(* Calls and replies.                                                      *)

\* The ids of the calls and replies in a queue, and that they rise.
IdsOf(q)  == {q[i].id : i \in {k \in DOMAIN q : Due(q[k])}}
Rising(q) == \A i, j \in DOMAIN q : Due(q[i]) /\ Due(q[j]) /\ i < j => q[i].id < q[j].id
Ahead(A, B) == \A a \in A, b \in B : a < b

\* The call or reply that the io thread is working on.
AtHand == IF Due(io) THEN {io.id} ELSE {}

\* What Tail leaves of a queue.
LEMMA DueTaken ==
  ASSUME NEW S, NEW q \in Seq(S), q # <<>>
  PROVE  /\ Rising(q) => Rising(Tail(q))
         /\ ~Due(Head(q)) => IdsOf(Tail(q)) = IdsOf(q)
         /\ Due(Head(q)) => IdsOf(q) = {Head(q).id} \cup IdsOf(Tail(q))
         /\ Rising(q) /\ Due(Head(q)) => Ahead({Head(q).id}, IdsOf(Tail(q)))
<1>1. Len(q) \in Nat /\ Len(q) # 0 /\ DOMAIN q = 1 .. Len(q) /\ Head(q) = q[1]
  OBVIOUS
<1>2. /\ DOMAIN Tail(q) = 1 .. Len(q) - 1
      /\ \A i \in DOMAIN Tail(q) : Tail(q)[i] = q[i + 1] /\ i + 1 \in DOMAIN q
  BY <1>1
<1>3. \A i \in DOMAIN q : i = 1 \/ (i - 1 \in DOMAIN Tail(q) /\ Tail(q)[i - 1] = q[i])
  BY <1>1, <1>2
<1>4. 1 \in DOMAIN q
  BY <1>1
<1>5. ASSUME Rising(q) PROVE Rising(Tail(q))
  <2>1. ASSUME NEW i \in DOMAIN Tail(q), NEW j \in DOMAIN Tail(q),
               Due(Tail(q)[i]), Due(Tail(q)[j]), i < j
        PROVE  Tail(q)[i].id < Tail(q)[j].id
    <3>1. i + 1 \in DOMAIN q /\ j + 1 \in DOMAIN q /\ i + 1 < j + 1
      BY <1>1, <1>2, <2>1
    <3>2. Due(q[i + 1]) /\ Due(q[j + 1])
      BY <1>2, <2>1
    <3>3. q[i + 1].id < q[j + 1].id
      BY <1>5, <3>1, <3>2 DEF Rising
    <3>4. QED
      BY <1>2, <3>3
  <2>2. QED
    BY <2>1 DEF Rising
<1>6. IdsOf(Tail(q)) \subseteq IdsOf(q)
  BY <1>2 DEF IdsOf
<1>7. ASSUME NEW n \in IdsOf(q)
      PROVE  n \in IdsOf(Tail(q)) \/ (Due(Head(q)) /\ n = Head(q).id)
  <2>1. PICK i \in DOMAIN q : Due(q[i]) /\ n = q[i].id
    BY DEF IdsOf
  <2>2. CASE i = 1
    BY <1>1, <2>1, <2>2
  <2>3. CASE i - 1 \in DOMAIN Tail(q) /\ Tail(q)[i - 1] = q[i]
    BY <2>1, <2>3 DEF IdsOf
  <2>4. QED
    BY <1>3, <2>2, <2>3
<1>8. (~Due(Head(q)) => IdsOf(q) \subseteq IdsOf(Tail(q)))
      /\ IdsOf(q) \subseteq {Head(q).id} \cup IdsOf(Tail(q))
  BY <1>7
<1>9. Due(Head(q)) => Head(q).id \in IdsOf(q)
  BY <1>1, <1>4 DEF IdsOf
<1>10. ASSUME Rising(q), Due(Head(q)), NEW n \in IdsOf(Tail(q))
       PROVE  Head(q).id < n
  <2>1. PICK i \in DOMAIN Tail(q) : Due(Tail(q)[i]) /\ n = Tail(q)[i].id
    BY DEF IdsOf
  <2>2. i + 1 \in DOMAIN q /\ 1 < i + 1 /\ Due(q[i + 1]) /\ n = q[i + 1].id
    BY <1>1, <1>2, <2>1
  <2>3. QED
    BY <1>1, <1>4, <1>10, <2>2 DEF Rising
<1>11. QED
  BY <1>5, <1>6, <1>8, <1>9, <1>10 DEF Ahead

\* What Append adds to a queue.
LEMMA DueAdded ==
  ASSUME NEW S, NEW q \in Seq(S), NEW m \in S
  PROVE  /\ ~Due(m) => IdsOf(Append(q, m)) = IdsOf(q)
         /\ Due(m) => IdsOf(Append(q, m)) = IdsOf(q) \cup {m.id}
         /\ Rising(q) /\ (Due(m) => Ahead(IdsOf(q), {m.id})) => Rising(Append(q, m))
<1>1. /\ Len(q) \in Nat /\ DOMAIN q = 1 .. Len(q)
      /\ DOMAIN Append(q, m) = 1 .. Len(q) + 1
      /\ \A i \in DOMAIN q : Append(q, m)[i] = q[i]
      /\ Append(q, m)[Len(q) + 1] = m
  OBVIOUS
<1>2. \A i \in DOMAIN Append(q, m) : i \in DOMAIN q \/ i = Len(q) + 1
  BY <1>1
<1>3. DOMAIN q \subseteq DOMAIN Append(q, m) /\ Len(q) + 1 \in DOMAIN Append(q, m)
  BY <1>1
<1>4. ASSUME NEW n PROVE n \in IdsOf(Append(q, m)) <=> n \in IdsOf(q) \/ (Due(m) /\ n = m.id)
  BY <1>1, <1>2, <1>3 DEF IdsOf
<1>5. ASSUME Rising(q), Due(m) => Ahead(IdsOf(q), {m.id}),
             NEW i \in DOMAIN Append(q, m), NEW j \in DOMAIN Append(q, m),
             Due(Append(q, m)[i]), Due(Append(q, m)[j]), i < j
      PROVE  Append(q, m)[i].id < Append(q, m)[j].id
  <2>1. i \in DOMAIN q
    BY <1>1, <1>5
  <2>2. CASE j \in DOMAIN q
    BY <1>1, <1>5, <2>1, <2>2 DEF Rising
  <2>3. CASE j = Len(q) + 1
    <3>1. Due(m) /\ q[i].id \in IdsOf(q)
      BY <1>1, <1>5, <2>1, <2>3 DEF IdsOf
    <3>2. QED
      BY <1>1, <1>5, <2>1, <2>3, <3>1 DEF Ahead
  <2>4. QED
    BY <1>2, <2>2, <2>3
<1>6. QED
  BY <1>4, <1>5 DEF Rising

\* The calls and replies of a queue are left as they were.
SameDue(q, r) == IdsOf(r) = IdsOf(q) /\ (Rising(q) => Rising(r))

LEMMA DueKept ==
  ASSUME NEW S, NEW q \in Seq(S)
  PROVE  /\ SameDue(q, q)
         /\ q # <<>> /\ ~Due(Head(q)) => SameDue(q, Tail(q))
         /\ \A m \in S : ~Due(m) => SameDue(q, Append(q, m))
<1>1. SameDue(q, q)
  BY DEF SameDue
<1>2. q # <<>> /\ ~Due(Head(q)) => SameDue(q, Tail(q))
  BY DueTaken DEF SameDue
<1>3. ASSUME NEW m \in S, ~Due(m) PROVE SameDue(q, Append(q, m))
  BY <1>3, DueAdded DEF SameDue
<1>4. QED
  BY <1>1, <1>2, <1>3

\* What is neither a call nor a reply.
LEMMA NotDue ==
  /\ \A x \in {Idle, Failing, Returning, Destroying, Leaving, Parsing} : ~Due(x)
  /\ \A m : m.type \in {"HELLO", "PING"} \cup Lambdas \cup Welcoming \cup RogueKinds
          => ~Due(m)
BY Types DEF Due, RogueKinds, CallKinds, Lambdas, Welcoming

\* While the process lives and the connection is up, or is not made yet, the calls not
\* yet answered and their replies follow one another from the wire over the io thread
\* to the inbox, and none is missing.
Connectable == fault = NoFault /\ link \in {"none", "open"}

Ordered ==
  /\ Rising(wire) /\ Rising(inbox)
  /\ Ahead(IdsOf(wire), AtHand) /\ Ahead(IdsOf(wire), IdsOf(inbox))
  /\ Ahead(AtHand, IdsOf(inbox))
  /\ IdsOf(wire) \cup AtHand \cup IdsOf(inbox) = answered + 1 .. issued
  /\ answered <= issued

OrderInv == Connectable => Ordered

LEMMA OrderInit == Init => OrderInv
<1> SUFFICES ASSUME Init PROVE Ordered
  BY DEF OrderInv
<1>1. IdsOf(wire) = {} /\ IdsOf(inbox) = {} /\ Rising(wire) /\ Rising(inbox)
  BY DEF Init, IdsOf, Rising
<1>2. AtHand = {} /\ answered = 0 /\ issued = 0
  BY NotDue DEF Init, AtHand
<1>3. QED
  BY <1>1, <1>2 DEF Ordered, Ahead

\* A connection that is lost stays so, and so does the process.
LEMMA ConnectableBefore ==
  ASSUME [Next]_vars, Connectable'
  PROVE  Connectable
<1> USE DEF object, promises, main, signals, client, server, network
<1>1. link \in {"none", "open"}
  <2>1. CASE ConnectSettles \/ LinkCloses \/ LinkClosed
    BY <2>1 DEF ConnectSettles, LinkCloses, LinkClosed, Connectable
  <2>2. CASE CallerStep \/ BeatStep \/ BeatWakesSpuriously \/ UNCHANGED vars
    BY <2>2 DEF CallerStep, OnAttach, ConnectReturns, JoinEnsureState, JoinDispatch,
       JoinReturns, JoinTimesOut, ListenReturns, Catch, Uncaught, OnDetach, HandlerReset,
       Release, Destroy, BeatStep, BeatPing, PongTimesOut, BeatExpires, BeatVerdict,
       BeatWakesSpuriously, vars, Connectable
  <2>3. CASE (IoStep /\ ~HandlerStep /\ ~ConnectSettles) \/ Leave
    BY <2>3 DEF IoStep, TakeLambda, JoinLambda, PingLambda, Transmit, FailLeaved,
       LambdaReturns, LambdaDestroys, RecvMessage, NoHandler, OnMessage, LeaveDisconnect,
       UseDestroyed, Leave, Connectable
  <2>4. CASE HandlerStep
    BY <2>4 DEF HandlerStep, ProcessWelcomeMessage, WelcomeIf, StartHeartbeat, KeepId,
       AnswerJoin, ProcessAbortMessage, ProcessPongMessage, ProcessCallMessage,
       OnOtherMessage, Connectable
  <2>5. CASE ServerStep /\ ~LinkCloses
    BY <2>5 DEF ServerStep, AnswerHello, AnswerPing, TakeReply, IssueCall, SendOutOfTurn,
       Connectable
  <2>6. QED
    BY <2>1, <2>2, <2>3, <2>4, <2>5 DEF Next, Running, Ended
<1>2. fault = NoFault
  BY DEF Connectable, Next, Running, Ended, vars
<1>3. QED
  BY <1>1, <1>2 DEF Connectable

\* A step that has to do neither with a call nor with a reply.
OrderCalm ==
  /\ SameDue(wire, wire') /\ SameDue(inbox, inbox')
  /\ AtHand' = AtHand
  /\ UNCHANGED <<answered, issued>>

LEMMA OrderStays ==
  ASSUME Ordered, OrderCalm
  PROVE  Ordered'
BY DEF Ordered, OrderCalm, SameDue

\* The steps of the calling thread, of the heartbeat and of the connection.
LEMMA CallerOrder ==
  ASSUME TypeOK, \/ CallerStep \/ BeatStep \/ BeatWakesSpuriously \/ LinkCloses
                 \/ LinkClosed \/ ConnectSettles \/ NoHandler \/ UseDestroyed
                 \/ UNCHANGED vars
  PROVE  OrderCalm
<1> USE DEF object, promises, main, signals, client, server, network
<1>1. UNCHANGED <<io, wire, inbox, answered, issued>>
  <2>1. CASE CallerStep
    BY <2>1 DEF CallerStep, OnAttach, ConnectReturns, JoinEnsureState, JoinDispatch,
       JoinReturns, JoinTimesOut, ListenReturns, Catch, Uncaught, OnDetach,
       HandlerReset, Release, Destroy
  <2>2. CASE \/ BeatStep \/ BeatWakesSpuriously \/ LinkCloses \/ LinkClosed
             \/ ConnectSettles \/ NoHandler \/ UseDestroyed \/ UNCHANGED vars
    BY <2>2 DEF BeatStep, BeatPing, PongTimesOut, BeatExpires, BeatVerdict,
       BeatWakesSpuriously, LinkCloses, LinkClosed, ConnectSettles, NoHandler,
       UseDestroyed, vars
  <2>3. QED
    BY <2>1, <2>2
<1>2. SameDue(wire, wire) /\ SameDue(inbox, inbox)
  BY DueKept DEF TypeOK
<1>3. QED
  BY <1>1, <1>2 DEF OrderCalm, AtHand

\* The steps of the io thread.
LEMMA IoOrder ==
  ASSUME TypeOK, IoStep \/ Leave, ~OnMessage, ~ProcessCallMessage, ~(Transmit /\ Due(io)),
         ~ConnectSettles, ~NoHandler, ~UseDestroyed
  PROVE  OrderCalm
<1> USE DEF object, promises, main, signals, client, server, network
<1>1. SameDue(wire, wire) /\ SameDue(inbox, inbox)
  BY DueKept DEF TypeOK
<1>2. ASSUME UNCHANGED <<wire, inbox, answered, issued>>,
             io' = io \/ (~Due(io) /\ ~Due(io'))
      PROVE  OrderCalm
  BY <1>1, <1>2 DEF OrderCalm, AtHand
<1>3. CASE TakeLambda
  <2>1. UNCHANGED <<wire, inbox, answered, issued>> /\ io = Idle
    BY <1>3 DEF TakeLambda
  <2>2. io' \in LambdaMessages
    BY <1>3, Queues DEF TakeLambda, TypeOK
  <2>3. ~Due(io) /\ ~Due(io')
    BY <2>1, <2>2, NotDue DEF LambdaMessages
  <2>4. QED
    BY <1>2, <2>1, <2>3
<1>4. CASE JoinLambda \/ PingLambda
  <2>1. UNCHANGED <<wire, inbox, answered, issued>> /\ ~Due(io)
    BY <1>4, NotDue DEF JoinLambda, PingLambda, Lambdas
  <2>2. io' \in {io, Failing, Returning, Msg("HELLO", 0), Msg("PING", 0)}
    <3>1. ASSUME NEW m, SendMessage(m), m.type \in {"HELLO", "PING"}
          PROVE  io' \in {io, Failing, Returning, m}
      BY <3>1 DEF SendMessage, NetworkFailure
    <3>2. Msg("HELLO", 0).type = "HELLO" /\ Msg("PING", 0).type = "PING"
      BY Types
    <3>3. QED
      BY <1>4, <2>1, <3>1, <3>2 DEF JoinLambda, PingLambda
  <2>3. io' = io \/ ~Due(io')
    BY <2>2, NotDue, Types
  <2>4. QED
    BY <1>2, <2>1, <2>3
<1>5. CASE Transmit
  <2>1. /\ UNCHANGED <<inbox, answered, issued>> /\ io \in ClientMessages /\ ~Due(io)
        /\ wire' = wire \/ wire' = Append(wire, io)
    BY <1>5, IoMessages DEF Transmit, TypeOK
  <2>2. SameDue(wire, wire')
    BY <1>1, <2>1, DueKept DEF TypeOK
  <2>3. io' \in {io, Idle, Failing, Returning}
    BY <1>5 DEF Transmit, NetworkFailure
  <2>4. QED
    BY <1>1, <2>1, <2>2, <2>3, NotDue DEF OrderCalm, AtHand
<1>6. CASE \/ ProcessWelcomeMessage \/ StartHeartbeat \/ KeepId \/ AnswerJoin
           \/ ProcessAbortMessage \/ ProcessPongMessage \/ OnOtherMessage
  <2>1. UNCHANGED <<wire, inbox, answered, issued>>
    BY <1>6 DEF ProcessWelcomeMessage, WelcomeIf, StartHeartbeat, KeepId, AnswerJoin,
       ProcessAbortMessage, ProcessPongMessage, OnOtherMessage
  <2>2. io.type \in RogueKinds \cup Welcoming
    BY <1>6 DEF ProcessWelcomeMessage, WelcomeIf, StartHeartbeat, KeepId, AnswerJoin,
       ProcessAbortMessage, ProcessPongMessage, OnOtherMessage, RogueKinds, Welcoming
  <2>3. io' = io \/ io' = Idle \/ io'.type \in Welcoming
    BY <1>6, Types DEF ProcessWelcomeMessage, WelcomeIf, StartHeartbeat, KeepId, AnswerJoin,
       ProcessAbortMessage, ProcessPongMessage, OnOtherMessage, Welcoming
  <2>4. QED
    BY <1>2, <2>1, <2>2, <2>3, NotDue
<1>7. CASE \/ FailLeaved \/ LambdaReturns \/ LambdaDestroys \/ RecvMessage
           \/ LeaveDisconnect \/ Leave
  <2>1. UNCHANGED <<wire, inbox, answered, issued>>
    BY <1>7 DEF FailLeaved, LambdaReturns, LambdaDestroys, RecvMessage, LeaveDisconnect, Leave
  <2>2. /\ io \in {Idle, Failing, Returning, Destroying, Leaving}
        /\ io' \in {Idle, Returning, Destroying, Parsing, Leaving}
    BY <1>7 DEF FailLeaved, LambdaReturns, LambdaDestroys, RecvMessage, LeaveDisconnect, Leave
  <2>3. QED
    BY <1>2, <2>1, <2>2, NotDue
<1>8. QED
  BY <1>3, <1>4, <1>5, <1>6, <1>7 DEF IoStep, HandlerStep

\* The steps of the server.
LEMMA ServerOrder ==
  ASSUME TypeOK, AnswerHello \/ AnswerPing \/ SendOutOfTurn, SessionConstants
  PROVE  OrderCalm
<1> USE DEF object, promises, main, signals, client, server, network
<1>1. UNCHANGED <<io, answered, issued>>
  BY DEF AnswerHello, AnswerPing, SendOutOfTurn
<1>2. \/ wire' = wire
      \/ wire # <<>> /\ wire' = Tail(wire) /\ Head(wire).type \in {"HELLO", "PING"}
  BY DEF AnswerHello, AnswerPing, SendOutOfTurn, TakeWire
<1>3. SameDue(wire, wire')
  BY <1>2, DueKept, NotDue DEF TypeOK
<1>4. inbox' = inbox \/ \E t \in RogueKinds, n \in Nat : inbox' = Append(inbox, Msg(t, n))
  BY DEF AnswerHello, AnswerPing, SendOutOfTurn, Send, SessionConstants, RogueKinds
<1>5. ASSUME NEW t \in RogueKinds, NEW n \in Nat, inbox' = Append(inbox, Msg(t, n))
      PROVE  SameDue(inbox, inbox')
  <2>1. Msg(t, n) \in ServerMessages /\ ~Due(Msg(t, n))
    BY Messages, NotDue, Types DEF ServerTypes
  <2>2. QED
    BY <1>5, <2>1, DueKept DEF TypeOK
<1>6. SameDue(inbox, inbox')
  BY <1>4, <1>5, DueKept DEF TypeOK
<1>7. QED
  BY <1>1, <1>3, <1>6 DEF OrderCalm, AtHand

\* The ids of calls and replies are numbers.
LEMMA DueIds ==
  ASSUME TypeOK
  PROVE  IdsOf(wire) \subseteq Nat /\ AtHand \subseteq Nat /\ IdsOf(inbox) \subseteq Nat
<1>1. \A i \in DOMAIN wire : wire[i].id \in Nat
  BY Messages DEF TypeOK
<1>2. \A i \in DOMAIN inbox : inbox[i].id \in Nat
  BY Messages DEF TypeOK
<1>3. io.id \in Nat
  BY IoMessages DEF TypeOK
<1>4. QED
  BY <1>1, <1>2, <1>3 DEF IdsOf, AtHand

\* The server takes the reply to the oldest call that has none yet.
LEMMA ReplyTaken ==
  ASSUME TypeOK, Ordered, TakeReply
  PROVE  Ordered'
<1> USE DEF object, promises, main, signals, client, server, network
<1> DEFINE h == Head(wire).id
           W == IdsOf(wire)
           R == IdsOf(Tail(wire))
           B == IdsOf(inbox)
<1>1. /\ wire # <<>> /\ wire' = Tail(wire) /\ Head(wire).type \in {"RESULT", "ERROR"}
      /\ answered' = answered + 1 /\ UNCHANGED <<io, inbox, issued>>
  BY DEF TakeReply, TakeWire
<1>2. Due(Head(wire))
  BY <1>1 DEF Due
<1>3. Rising(Tail(wire)) /\ W = {h} \cup R /\ Ahead({h}, R)
  BY <1>1, <1>2, DueTaken DEF TypeOK, Ordered
<1>4. W \subseteq Nat /\ AtHand \subseteq Nat /\ B \subseteq Nat
  BY DueIds
<1>5. W \cup AtHand \cup B = answered + 1 .. issued /\ answered \in Nat /\ issued \in Nat
  BY DEF Ordered, TypeOK
<1>6. \A n \in R \cup AtHand \cup B : h < n
  BY <1>3 DEF Ordered, Ahead
<1> HIDE DEF h, W, R, B
<1>7. h \in answered + 1 .. issued
  BY <1>3, <1>5
<1>8. h = answered + 1
  <2>1. answered + 1 \in {h} \cup R \cup AtHand \cup B
    BY <1>3, <1>5, <1>7
  <2>2. answered + 1 # h => h < answered + 1
    BY <1>6, <2>1
  <2>3. QED
    BY <1>5, <1>7, <2>2
<1>9. R \cup AtHand \cup B = (answered + 1) + 1 .. issued
  <2>1. ASSUME NEW n \in R \cup AtHand \cup B
        PROVE  n \in (answered + 1) + 1 .. issued
    <3>1. h < n /\ n \in answered + 1 .. issued
      BY <1>3, <1>5, <1>6
    <3>2. QED
      BY <1>5, <1>8, <3>1
  <2>2. ASSUME NEW n \in (answered + 1) + 1 .. issued
        PROVE  n \in R \cup AtHand \cup B
    <3>1. n \in answered + 1 .. issued /\ n # h
      BY <1>5, <1>8
    <3>2. QED
      BY <1>3, <1>5, <3>1
  <2>3. QED
    BY <2>1, <2>2
<1>10. answered + 1 <= issued
  BY <1>5, <1>7
<1>11. /\ Ahead(R, AtHand) /\ Ahead(R, B) /\ Ahead(AtHand, B)
  BY <1>3 DEF Ordered, Ahead, W, B
<1>12. AtHand' = AtHand
  BY <1>1 DEF AtHand
<1>13. QED
  BY <1>1, <1>3, <1>9, <1>10, <1>11, <1>12 DEF Ordered, R, B

\* The server issues a call.
LEMMA CallIssued ==
  ASSUME TypeOK, Ordered, IssueCall, SessionConstants
  PROVE  Ordered'
<1> USE DEF object, promises, main, signals, client, server, network
<1>1. PICK t \in CallTypes : inbox' = Append(inbox, Msg(t, issued + 1))
  BY DEF IssueCall, Send
<1> DEFINE m == Msg(t, issued + 1)
           B == IdsOf(inbox)
<1>2. UNCHANGED <<io, wire, answered>> /\ issued' = issued + 1
  BY DEF IssueCall
<1>3. issued \in Nat /\ answered \in Nat /\ inbox \in Seq(ServerMessages)
  BY DEF TypeOK
<1>4. m \in ServerMessages /\ Due(m) /\ m.id = issued + 1
  BY <1>3, Messages, Types DEF SessionConstants, ServerTypes, Due
<1>5. inbox' = Append(inbox, m)
  BY <1>1
<1> HIDE DEF m
<1>6. /\ IdsOf(wire) \cup AtHand \cup B = answered + 1 .. issued /\ answered <= issued
      /\ Ahead(IdsOf(wire), AtHand) /\ Ahead(IdsOf(wire), B) /\ Ahead(AtHand, B)
      /\ Rising(wire) /\ Rising(inbox)
  BY DEF Ordered
<1>7. \A n \in IdsOf(wire) \cup AtHand \cup B : n < issued + 1
  BY <1>3, <1>6
<1>8. IdsOf(inbox') = B \cup {issued + 1} /\ Rising(inbox')
  <2>1. Ahead(B, {m.id})
    BY <1>4, <1>7 DEF Ahead
  <2>2. QED
    BY <1>3, <1>4, <1>5, <1>6, <2>1, DueAdded
<1> HIDE DEF B
<1>9. /\ Ahead(IdsOf(wire), B \cup {issued + 1}) /\ Ahead(AtHand, B \cup {issued + 1})
  BY <1>6, <1>7 DEF Ahead
<1>10. IdsOf(wire) \cup AtHand \cup (B \cup {issued + 1}) = answered + 1 .. issued + 1
  <2>1. answered + 1 .. issued + 1 = (answered + 1 .. issued) \cup {issued + 1}
    BY <1>3, <1>6
  <2>2. QED
    BY <1>6, <2>1
<1>11. AtHand' = AtHand /\ answered <= issued + 1
  BY <1>2, <1>3, <1>6 DEF AtHand
<1>12. QED
  BY <1>2, <1>6, <1>8, <1>9, <1>10, <1>11 DEF Ordered

\* OnMessage takes a call, or another message.
LEMMA CallTaken ==
  ASSUME TypeOK, Ordered, OnMessage
  PROVE  Ordered'
<1> USE DEF object, promises, main, signals, client, server, network
<1>1. /\ inbox # <<>> /\ inbox' = Tail(inbox) /\ io = Parsing /\ io' = Head(inbox)
      /\ UNCHANGED <<wire, answered, issued>>
  BY DEF OnMessage
<1>2. AtHand = {}
  BY <1>1, NotDue DEF AtHand
<1>3. CASE ~Due(Head(inbox))
  <2>1. SameDue(inbox, inbox') /\ SameDue(wire, wire')
    BY <1>1, <1>3, DueKept DEF TypeOK
  <2>2. AtHand' = AtHand
    BY <1>1, <1>2, <1>3 DEF AtHand
  <2>3. QED
    BY <1>1, <2>1, <2>2, OrderStays DEF OrderCalm
<1>4. CASE Due(Head(inbox))
  <2> DEFINE h == Head(inbox).id
             R == IdsOf(Tail(inbox))
  <2>1. AtHand' = {h}
    BY <1>1, <1>4 DEF AtHand
  <2>2. Rising(Tail(inbox)) /\ IdsOf(inbox) = {h} \cup R /\ Ahead({h}, R)
    BY <1>1, <1>4, DueTaken DEF TypeOK, Ordered
  <2>3. /\ Ahead(IdsOf(wire), {h}) /\ Ahead(IdsOf(wire), R)
        /\ IdsOf(wire) \cup {h} \cup R = answered + 1 .. issued
        /\ answered <= issued /\ Rising(wire)
    BY <1>2, <2>2 DEF Ordered, Ahead
  <2>4. QED
    BY <1>1, <2>1, <2>2, <2>3 DEF Ordered
<1>5. QED
  BY <1>3, <1>4

\* The io thread has run the operation, and works on the reply.
LEMMA CallRun ==
  ASSUME TypeOK, Ordered, ProcessCallMessage, fault' = NoFault
  PROVE  Ordered'
<1> USE DEF object, promises, main, signals, client, server, network
<1>1. ~Terminate("io", "operation")
  BY TerminateFaults
<1>2. PICK r \in {"RESULT", "ERROR"} : SendMessage(Msg(r, io.id))
  BY <1>1 DEF ProcessCallMessage
<1>3. io' = Msg(r, io.id)
  <2>1. ~NetworkFailure(Msg(r, io.id)) /\ ~Terminate("io", "NoSessionError")
    BY TerminateFaults, Types DEF NetworkFailure
  <2>2. QED
    BY <1>2, <2>1 DEF SendMessage
<1>4. Due(io) /\ UNCHANGED <<wire, inbox, answered, issued>>
  BY DEF ProcessCallMessage, Due, CallKinds
<1>5. AtHand' = AtHand
  BY <1>3, <1>4, Types DEF AtHand, Due
<1>6. SameDue(wire, wire) /\ SameDue(inbox, inbox)
  BY DueKept DEF TypeOK
<1>7. QED
  BY <1>4, <1>5, <1>6, OrderStays DEF OrderCalm

\* The reply goes out.
LEMMA ReplySent ==
  ASSUME TypeOK, Ordered, Transmit, Due(io), fault' = NoFault
  PROVE  Ordered'
<1> USE DEF object, promises, main, signals, client, server, network
<1>1. UNCHANGED <<inbox, answered, issued>> /\ io \in ClientMessages
  BY IoMessages DEF Transmit, TypeOK
<1>2. io.type \in {"RESULT", "ERROR"}
  BY <1>1 DEF Due, ClientMessages, ClientTypes, CallKinds
<1>3. wire' = Append(wire, io) /\ io' = Idle
  <2>1. ~NetworkFailure(io) /\ ~Terminate("io", "null transport")
    BY <1>2, TerminateFaults DEF NetworkFailure
  <2>2. QED
    BY <1>2, <2>1 DEF Transmit, LambdaRuns, Lambdas
<1>4. AtHand = {io.id} /\ AtHand' = {}
  BY <1>3, NotDue DEF AtHand
<1>5. IdsOf(wire') = IdsOf(wire) \cup {io.id} /\ Rising(wire')
  BY <1>1, <1>3, <1>4, DueAdded DEF TypeOK, Ordered
<1>6. /\ Ahead(IdsOf(wire) \cup {io.id}, IdsOf(inbox))
      /\ IdsOf(wire) \cup {io.id} \cup IdsOf(inbox) = answered + 1 .. issued
      /\ answered <= issued /\ Rising(inbox)
  BY <1>4 DEF Ordered, Ahead
<1>7. QED
  BY <1>1, <1>4, <1>5, <1>6 DEF Ordered, Ahead

LEMMA OrderInvStep ==
  ASSUME TypeOK, OrderInv, [Next]_vars, SessionConstants
  PROVE  OrderInv'
<1> SUFFICES ASSUME Connectable' PROVE Ordered'
  BY DEF OrderInv
<1>1. Ordered /\ fault' = NoFault
  BY ConnectableBefore DEF OrderInv, Connectable
<1>2. CASE UNCHANGED vars
  BY <1>1, <1>2, CallerOrder, OrderStays
<1>3. CASE Next /\ ~UNCHANGED vars
  <2>1. \/ CallerStep \/ IoStep \/ Leave \/ BeatStep \/ BeatWakesSpuriously
        \/ ServerStep \/ LinkClosed
    BY <1>3 DEF Next, Running, Ended
  <2>2. QED
    BY <1>1, <2>1, ReplyTaken, CallIssued, CallTaken, CallRun, ReplySent, CallerOrder,
       IoOrder, ServerOrder, OrderStays DEF ServerStep
<1>4. QED
  BY <1>2, <1>3

\* What two queues have, one behind the other.
LEMMA DueJoined ==
  ASSUME NEW S, NEW T, NEW q \in Seq(S), NEW r \in Seq(T)
  PROVE  /\ IdsOf(q \o r) = IdsOf(q) \cup IdsOf(r)
         /\ Rising(q) /\ Rising(r) /\ Ahead(IdsOf(q), IdsOf(r)) => Rising(q \o r)
<1>1. /\ Len(q) \in Nat /\ DOMAIN q = 1 .. Len(q)
      /\ Len(r) \in Nat /\ DOMAIN r = 1 .. Len(r)
      /\ DOMAIN (q \o r) = 1 .. Len(q) + Len(r)
  OBVIOUS
<1>2. /\ \A i \in DOMAIN q : i \in DOMAIN (q \o r) /\ (q \o r)[i] = q[i]
      /\ \A i \in DOMAIN r : /\ i + Len(q) \in DOMAIN (q \o r)
                             /\ (q \o r)[i + Len(q)] = r[i]
  BY <1>1
<1>3. \A i \in DOMAIN (q \o r) : \/ i \in DOMAIN q
                                 \/ i - Len(q) \in DOMAIN r /\ i = (i - Len(q)) + Len(q)
  BY <1>1
<1>4. \A i \in DOMAIN (q \o r) :
        \/ i \in DOMAIN q /\ (q \o r)[i] = q[i]
        \/ i - Len(q) \in DOMAIN r /\ (q \o r)[i] = r[i - Len(q)]
  BY <1>2, <1>3
<1>5. ASSUME NEW n \in IdsOf(q \o r) PROVE n \in IdsOf(q) \cup IdsOf(r)
  BY <1>4 DEF IdsOf
<1>6. ASSUME NEW n \in IdsOf(q) \cup IdsOf(r) PROVE n \in IdsOf(q \o r)
  BY <1>2 DEF IdsOf
<1>7. ASSUME Rising(q), Rising(r), Ahead(IdsOf(q), IdsOf(r)),
             NEW i \in DOMAIN (q \o r), NEW j \in DOMAIN (q \o r),
             Due((q \o r)[i]), Due((q \o r)[j]), i < j
      PROVE  (q \o r)[i].id < (q \o r)[j].id
  <2>1. CASE i \in DOMAIN q /\ j \in DOMAIN q
    BY <1>2, <1>7, <2>1 DEF Rising
  <2>2. CASE i \in DOMAIN q /\ j \notin DOMAIN q
    <3>1. j - Len(q) \in DOMAIN r /\ (q \o r)[j] = r[j - Len(q)]
      BY <1>4, <2>2
    <3>2. (q \o r)[i].id \in IdsOf(q) /\ (q \o r)[j].id \in IdsOf(r)
      BY <1>2, <1>7, <2>2, <3>1 DEF IdsOf
    <3>3. QED
      BY <1>7, <3>2 DEF Ahead
  <2>3. CASE i \notin DOMAIN q
    <3>1. j \notin DOMAIN q
      BY <1>1, <1>7, <2>3
    <3>2. /\ i - Len(q) \in DOMAIN r /\ (q \o r)[i] = r[i - Len(q)]
          /\ j - Len(q) \in DOMAIN r /\ (q \o r)[j] = r[j - Len(q)]
      BY <1>4, <2>3, <3>1
    <3>3. i - Len(q) < j - Len(q)
      BY <1>1, <1>7
    <3>4. QED
      BY <1>7, <3>2, <3>3 DEF Rising
  <2>4. QED
    BY <2>1, <2>2, <2>3
<1>8. QED
  BY <1>5, <1>6, <1>7 DEF Rising

\* The same of two queues with a message in between.
LEMMA DueAround ==
  ASSUME NEW S, NEW T, NEW q \in Seq(S), NEW m \in S, NEW r \in Seq(T),
         Rising(q), Rising(r), NEW M, M = IF Due(m) THEN {m.id} ELSE {},
         Ahead(IdsOf(q), M), Ahead(IdsOf(q), IdsOf(r)), Ahead(M, IdsOf(r))
  PROVE  /\ IdsOf(Append(q, m) \o r) = IdsOf(q) \cup M \cup IdsOf(r)
         /\ Rising(Append(q, m) \o r)
<1> DEFINE a == Append(q, m)
<1>1. a \in Seq(S)
  OBVIOUS
<1>2. IdsOf(a) = IdsOf(q) \cup M
  <2>1. CASE Due(m)
    BY <2>1, DueAdded
  <2>2. CASE ~Due(m)
    <3>1. M = {} /\ IdsOf(a) = IdsOf(q)
      BY <2>2, DueAdded
    <3>2. QED
      BY <3>1
  <2>3. QED
    BY <2>1, <2>2
<1>3. Rising(a)
  <2>1. Due(m) => Ahead(IdsOf(q), {m.id})
    OBVIOUS
  <2>2. QED
    BY <2>1, DueAdded
<1> HIDE DEF a
<1>4. Ahead(IdsOf(a), IdsOf(r))
  BY <1>2 DEF Ahead
<1>5. IdsOf(a \o r) = IdsOf(a) \cup IdsOf(r)
  BY <1>1, DueJoined
<1>6. Rising(a \o r)
  BY <1>1, <1>3, <1>4, DueJoined
<1>7. QED
  BY <1>2, <1>5, <1>6 DEF a

\* The invariant says of the three places what RepliesInOrder says of the path.
LEMMA OrderImplied ==
  ASSUME TypeOK, OrderInv
  PROVE  RepliesInOrder
<1> SUFFICES ASSUME fault = NoFault, link = "open"
             PROVE  Rising(Path) /\ IdsOf(Path) = answered + 1 .. issued
  BY DEF RepliesInOrder, Rising, IdsOf
<1>1. Ordered
  BY DEF OrderInv, Connectable
<1>2. wire \in Seq(IoStates) /\ io \in IoStates /\ inbox \in Seq(ServerMessages)
  BY DEF TypeOK, IoStates
<1>3. Path = Append(wire, io) \o inbox
  BY <1>2 DEF Path
<1>4. AtHand = IF Due(io) THEN {io.id} ELSE {}
  BY DEF AtHand
<1>5. /\ IdsOf(Append(wire, io) \o inbox) = IdsOf(wire) \cup AtHand \cup IdsOf(inbox)
      /\ Rising(Append(wire, io) \o inbox)
  BY <1>1, <1>2, <1>4, DueAround DEF Ordered
<1>6. QED
  BY <1>1, <1>3, <1>5 DEF Ordered

\* Each call gets one reply, and replies arrive in the order of the calls
\* (RepliesInOrder), for any number of calls, whatever else the server sends and whether
\* or not the heartbeat, Join or Leave disturbs the session.
THEOREM CallsAreAnswered == Spec => []RepliesInOrder
<1>1. ASSUME TypeOK, OrderInv, [Next]_vars
      PROVE  OrderInv'
  BY <1>1, OrderInvStep, SessionConstants
<1>2. TypeOK /\ OrderInv => RepliesInOrder
  BY OrderImplied
<1>3. QED
  BY <1>1, <1>2, OrderInit, TypeCorrect, PTL DEF Spec

=============================================================================
