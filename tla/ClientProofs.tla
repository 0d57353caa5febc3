----------------------------- MODULE ClientProofs -----------------------------
(***************************************************************************)
(* Proofs about Client: what is shown of Session and of WebSocketTransport *)
(* holds of the program that composes them, and the program ends quietly.  *)
(***************************************************************************)
EXTENDS Client, TLAPS

\* While main() uses the session it is in no call of the transport, and Connect
\* has returned.
MainInv ==
  caller \in {"connected", "joining", "waiting", "listening", "over", "caught"}
    => user = "ready" /\ connected # "unset"

\* Which thread has ended before which object is destroyed.
QuietInv ==
  /\ thread # "running" => callback = "idle" /\ io = S!Idle
  /\ user = "gone" => thread = "joined" /\ caller = "destroyed"

\* A connection that is not open yet, or has failed, was never open.
OpenInv ==
  /\ conn \in {"none", "connecting"} => ~open
  /\ callback = "failing" => ~open

ClientInv == MainInv /\ QuietInv /\ OpenInv

LEMMA InvInit == Init => ClientInv
BY DEF Init, T!Init, ClientInv, MainInv, QuietInv, OpenInv

LEMMA InvStutter ==
  ASSUME ClientInv, UNCHANGED vars
  PROVE  ClientInv'
<1>1. /\ caller' = caller /\ user' = user /\ connected' = connected /\ beat' = beat
      /\ thread' = thread /\ callback' = callback /\ io' = io /\ conn' = conn
      /\ open' = open
  BY DEF vars, session, transport
<1>2. QED
  BY <1>1, Zenon DEF ClientInv, MainInv, QuietInv, OpenInv

\* The steps of the program, apart.
LEMMA Steps ==
  ASSUME Next
  PROVE  \/ Attach \/ Connect \/ ConnectReturns \/ UseSession \/ Detach \/ HandlerReset
         \/ DestroySession \/ DestroyTransport
         \/ OnClientSettles \/ OnClientFailDone \/ OnClientClose \/ OnClientMessage
         \/ OnMessage \/ HandleMessage \/ RunLambda \/ LeaveDisconnect
         \/ ThreadExits \/ BeatStep \/ ServerStep \/ Leave \/ PeerCloses
         \/ UNCHANGED vars
BY DEF Next, Running, Ended, MainStep, IoStep

LEMMA InvStep ==
  ASSUME ClientInv, [Next]_vars
  PROVE  ClientInv'
<1> USE DEF ClientInv, MainInv, QuietInv, OpenInv, session, transport, T!flags, T!run,
        T!IoIdle, S!object, S!promises, S!main, S!signals, S!client, S!network,
        S!server, S!Goto
<1>1. CASE Attach
  BY <1>1 DEF Attach, T!Attach, S!OnAttach
<1>2. CASE Connect
  BY <1>2 DEF Connect, T!Connect
<1>3. CASE ConnectReturns
  BY <1>3 DEF ConnectReturns, T!ConnectReturns, S!ConnectReturns
<1>4. CASE UseSession
  BY <1>4 DEF UseSession, S!JoinEnsureState, S!JoinDispatch, S!JoinReturns,
     S!JoinTimesOut, S!ListenReturns, S!Catch, S!Uncaught
<1>5. CASE Detach
  BY <1>5 DEF Detach, T!Detach, S!OnDetach
<1>6. CASE HandlerReset
  BY <1>6 DEF HandlerReset, T!HandlerReset, S!HandlerReset
<1>7. CASE DestroySession
  BY <1>7 DEF DestroySession, S!Release, S!Destroy
<1>8. CASE DestroyTransport
  <2>1. /\ caller = "destroyed" /\ UNCHANGED <<caller, beat, io>>
        /\ UNCHANGED <<connected, conn, callback, open>>
    BY <1>8 DEF DestroyTransport, T!Destroy, T!DestroyJoins
  <2>2. /\ thread' = thread \/ (thread' = "joined" /\ thread = "exited")
        /\ user' = "gone" => thread' = "joined"
    <3>1. CASE T!Destroy
      <4>1. user = "ready" /\ thread' = thread
        BY <3>1 DEF T!Destroy
      <4>2. thread = "joined" \/ user' = "destroying" \/ user' = user
        BY <3>1 DEF T!Destroy
      <4>3. QED
        BY <4>1, <4>2
    <3>2. CASE T!DestroyJoins
      BY <3>2 DEF T!DestroyJoins
    <3>3. QED
      BY <1>8, <3>1, <3>2 DEF DestroyTransport
  <2>3. OpenInv'
    BY <2>1, Zenon
  <2>4. QED
    BY <2>1, <2>2, <2>3
<1>9. CASE OnClientSettles
  BY <1>9 DEF OnClientSettles, T!OnClientOpen, T!OnClientFail, S!ConnectSettles
<1>10. CASE OnClientFailDone
  BY <1>10 DEF OnClientFailDone, T!OnClientFailDone
<1>11. CASE OnClientClose
  BY <1>11 DEF OnClientClose, T!OnClientClose, S!LinkClosed
<1>12. CASE OnClientMessage
  BY <1>12 DEF OnClientMessage, T!OnClientMessage, S!RecvMessage
<1>13. CASE OnMessage
  BY <1>13 DEF OnMessage, T!RecvMessage, T!Terminate, S!NoHandler, S!HasHandler, S!OnMessage
<1>14. CASE HandleMessage \/ RunLambda
  <2>1. UNCHANGED transport /\ caller' = caller
    BY <1>14 DEF HandleMessage, RunLambda, S!HandlerStep, S!ProcessWelcomeMessage,
       S!WelcomeIf, S!StartHeartbeat, S!KeepId, S!AnswerJoin, S!ProcessAbortMessage,
       S!ProcessPongMessage, S!ProcessCallMessage, S!OnOtherMessage, S!Transmit,
       S!UseDestroyed, S!TakeLambda, S!JoinLambda, S!PingLambda, S!FailLeaved,
       S!LambdaReturns, S!LambdaDestroys
  <2>2. io' = io \/ io # S!Idle \/ thread = "running"
    <3>1. S!Idle.type = "IDLE"
      BY DEF S!Idle, S!Msg
    <3>2. CASE S!HandlerStep
      BY <3>1, <3>2 DEF S!HandlerStep, S!ProcessWelcomeMessage, S!WelcomeIf,
         S!StartHeartbeat, S!KeepId, S!AnswerJoin, S!ProcessAbortMessage,
         S!ProcessPongMessage, S!ProcessCallMessage, S!OnOtherMessage
    <3>3. CASE S!Transmit
      BY <3>1, <3>3 DEF S!Transmit, S!ClientTypes
    <3>4. CASE S!UseDestroyed
      BY <3>4 DEF S!UseDestroyed
    <3>5. QED
      BY <1>14, <3>2, <3>3, <3>4 DEF HandleMessage, RunLambda
  <2>3. QED
    BY <2>1, <2>2
<1>15. CASE LeaveDisconnect
  BY <1>15 DEF LeaveDisconnect, T!LeaveDisconnect, T!Terminate, S!LeaveDisconnect
<1>16. CASE ThreadExits
  BY <1>16 DEF ThreadExits, T!ThreadExits
<1>17. CASE BeatStep
  BY <1>17 DEF BeatStep, S!BeatStep, S!BeatPing, S!PongTimesOut, S!BeatExpires,
     S!BeatVerdict, S!BeatWakesSpuriously
<1>18. CASE ServerStep
  BY <1>18 DEF ServerStep, S!AnswerHello, S!AnswerPing, S!TakeReply, S!IssueCall,
     S!SendOutOfTurn
<1>19. CASE Leave
  BY <1>19 DEF Leave, T!Leave, S!Leave
<1>20. CASE PeerCloses
  BY <1>20 DEF PeerCloses, T!PeerCloses, S!LinkCloses
<1>21. CASE UNCHANGED vars
  BY <1>21, InvStutter
<1>22. QED
  BY Steps, <1>1, <1>2, <1>3, <1>4, <1>5, <1>6, <1>7, <1>8, <1>9, <1>10, <1>11,
     <1>12, <1>13, <1>14, <1>15, <1>16, <1>17, <1>18, <1>19, <1>20, <1>21

LEMMA InvAlways == Spec => []ClientInv
BY InvInit, InvStep, PTL DEF Spec

\* main() and the session call the transport only as WebSocketTransport lets its
\* user do: what is proved of that module holds of the program.
THEOREM ClientIsTransport == Spec => ImplementsTransport
<1>1. Init => T!Init
  BY DEF Init
<1>2. ASSUME ClientInv, [Next]_vars
      PROVE  [T!Next]_(T!vars)
  <2> USE DEF T!Next, T!UserCall, T!UserGoesOn, T!IoStep
  <2>1. CASE Running
    <3>1. crash = "none"
      BY <2>1 DEF Running, Alive
    <3>2. CASE \/ Attach \/ Connect \/ ConnectReturns \/ Detach \/ HandlerReset
               \/ DestroyTransport
      BY <3>1, <3>2 DEF Attach, Connect, ConnectReturns, Detach, HandlerReset,
         DestroyTransport
    <3>3. CASE \/ OnClientSettles \/ OnClientFailDone \/ OnClientClose
               \/ OnClientMessage \/ OnMessage \/ LeaveDisconnect \/ ThreadExits
               \/ Leave \/ PeerCloses
      BY <3>1, <3>3 DEF OnClientSettles, OnClientFailDone, OnClientClose,
         OnClientMessage, OnMessage, LeaveDisconnect, ThreadExits, Leave, PeerCloses
    <3>4. CASE UseSession /\ S!Catch
      <4>1. user = "ready" /\ connected # "unset" /\ stopped' = TRUE
        BY <1>2, <3>4 DEF ClientInv, MainInv, S!Catch, S!Goto
      <4>2. UNCHANGED <<T!flags, handler, thread, perpetual, conn, user, callback, crash>>
        BY <3>4 DEF UseSession, transport, T!flags
      <4>3. CASE ~stopped
        BY <3>1, <4>1, <4>2, <4>3 DEF T!Stop
      <4>4. CASE stopped
        BY <4>1, <4>2, <4>4 DEF T!vars, T!run
      <4>5. QED
        BY <4>3, <4>4
    <3>5. CASE \/ UseSession /\ ~S!Catch
               \/ DestroySession \/ HandleMessage \/ RunLambda \/ BeatStep
               \/ ServerStep
      <4>1. UNCHANGED transport
        BY <3>5 DEF UseSession, DestroySession, HandleMessage, RunLambda, BeatStep, ServerStep
      <4>2. stopped' = stopped
        <5> USE DEF S!signals, S!client
        <5>1. CASE UseSession /\ ~S!Catch
          BY <5>1 DEF UseSession, S!JoinEnsureState, S!JoinDispatch, S!JoinReturns,
             S!JoinTimesOut, S!ListenReturns, S!Uncaught
        <5>2. CASE DestroySession
          BY <5>2 DEF DestroySession, S!Release, S!Destroy
        <5>3. CASE HandleMessage \/ RunLambda
          BY <5>3 DEF HandleMessage, RunLambda, S!HandlerStep, S!ProcessWelcomeMessage,
             S!WelcomeIf, S!StartHeartbeat, S!KeepId, S!AnswerJoin, S!ProcessAbortMessage,
             S!ProcessPongMessage, S!ProcessCallMessage, S!OnOtherMessage, S!Transmit,
             S!UseDestroyed, S!TakeLambda, S!JoinLambda, S!PingLambda, S!FailLeaved,
             S!LambdaReturns, S!LambdaDestroys
        <5>4. CASE BeatStep
          BY <5>4 DEF BeatStep, S!BeatStep, S!BeatPing, S!PongTimesOut, S!BeatExpires,
             S!BeatVerdict, S!BeatWakesSpuriously
        <5>5. CASE ServerStep
          BY <5>5 DEF ServerStep, S!AnswerHello, S!AnswerPing, S!TakeReply, S!IssueCall,
             S!SendOutOfTurn
        <5>6. QED
          BY <3>5, <5>1, <5>2, <5>3, <5>4, <5>5
      <4>3. QED
        BY <4>1, <4>2 DEF transport, T!vars, T!flags, T!run
    <3>6. QED
      BY <2>1, <3>2, <3>3, <3>4, <3>5 DEF Running, MainStep, IoStep
  <2>2. CASE UNCHANGED vars
    BY <2>2 DEF vars, transport, T!vars, T!flags, T!run
  <2>3. QED
    BY <1>2, <2>1, <2>2 DEF Next, Ended
<1>3. QED
  BY <1>1, <1>2, InvAlways, PTL DEF Spec, ImplementsTransport, T!Spec

\* The transport's own steps do not change the link that the session sees.
LEMMA LinkKept ==
  ASSUME ClientInv,
         Connect \/ OnClientFailDone \/ DestroyTransport \/ ThreadExits
  PROVE  UNCHANGED <<T!link, stopped>>
<1> USE DEF T!link, T!IsConnected, T!flags, T!run
<1>1. CASE Connect
  BY <1>1 DEF Connect, T!Connect
<1>2. CASE OnClientFailDone
  BY <1>2 DEF OnClientFailDone, T!OnClientFailDone, ClientInv, OpenInv
<1>3. CASE DestroyTransport
  <2>1. UNCHANGED <<open, done, connected, conn, stopped>>
    <3>1. CASE T!Destroy
      BY <3>1 DEF T!Destroy
    <3>2. CASE T!DestroyJoins
      BY <3>2 DEF T!DestroyJoins
    <3>3. QED
      BY <1>3, <3>1, <3>2 DEF DestroyTransport
  <2>2. QED
    BY <2>1, Zenon
<1>4. CASE ThreadExits
  BY <1>4 DEF ThreadExits, T!ThreadExits
<1>5. QED
  BY <1>1, <1>2, <1>3, <1>4

\* The program does to the session what Session lets main() and a transport do:
\* what is proved of that module holds of the program.
THEOREM ClientIsSession == Spec => ImplementsSession
<1>1. Init => S!Init
  BY DEF Init, T!Init, S!Init, T!link
<1>2. ASSUME ClientInv, [Next]_vars
      PROVE  [S!Next]_(S!vars)
  <2>1. CASE Running
    <3>1. fault = S!NoFault
      BY <2>1 DEF Running, Alive
    <3>2. CASE \/ Attach \/ ConnectReturns \/ UseSession \/ Detach \/ HandlerReset
               \/ DestroySession
      BY <3>1, <3>2 DEF Attach, ConnectReturns, UseSession, Detach, HandlerReset,
         DestroySession, S!Next, S!Running, S!CallerStep
    <3>3. CASE \/ OnClientSettles \/ OnClientClose \/ OnClientMessage \/ OnMessage
               \/ HandleMessage \/ RunLambda \/ LeaveDisconnect \/ Leave
      BY <3>1, <3>3 DEF OnClientSettles, OnClientClose, OnClientMessage, OnMessage,
         HandleMessage, RunLambda, LeaveDisconnect, Leave, S!Next, S!Running, S!IoStep
    <3>4. CASE BeatStep \/ ServerStep \/ PeerCloses
      BY <3>1, <3>4 DEF BeatStep, ServerStep, PeerCloses, S!Next, S!Running, S!ServerStep
    <3>5. CASE Connect \/ OnClientFailDone \/ DestroyTransport \/ ThreadExits
      <4>1. UNCHANGED session
        BY <3>5 DEF Connect, OnClientFailDone, DestroyTransport, ThreadExits
      <4>2. UNCHANGED <<T!link, stopped>>
        BY <1>2, <3>5, LinkKept
      <4>3. QED
        BY <4>1, <4>2 DEF session, S!vars, S!object, S!promises, S!main, S!network,
           S!server, S!signals
    <3>6. QED
      BY <2>1, <3>2, <3>3, <3>4, <3>5 DEF Running, MainStep, IoStep
  <2>2. CASE UNCHANGED vars
    BY <2>2 DEF vars, session, transport, S!vars, S!object, S!promises, S!main,
       S!network, S!server, S!signals, T!link, T!IsConnected
  <2>3. QED
    BY <1>2, <2>1, <2>2 DEF Next, Ended
<1>3. QED
  BY <1>1, <1>2, InvAlways, PTL DEF Spec, ImplementsSession, S!Spec

----------------------------------------------------------------------------
(* What is proved of the parts, about the program.  AS and AT are the parts *)
(* once more, together with the theorems about them.                       *)

AS == INSTANCE AnswerProofs WITH link <- T!link

AT == INSTANCE TransportProofs
        WITH OtherWork <- TRUE, io <- callback, fault <- crash

\* Both instances of Session take the same steps: their definitions are the same text.
LEMMA SameSessionSteps ==
  /\ S!Init <=> AS!Init
  /\ [S!Next]_(S!vars) <=> [AS!Next]_(AS!vars)
BY DEF
     S!CallKinds, S!RogueKinds, S!object, S!promises, S!main, S!signals, S!client,
     S!server, S!network, S!vars, S!Msg, S!ClientTypes, S!Lambdas, S!ServerTypes,
     S!Idle, S!Failing, S!Returning, S!Destroying, S!Leaving, S!Parsing, S!Welcoming,
     S!NoFault, S!Terminate, S!SetPong, S!SetLeaved, S!SetJoined, S!LambdaRuns,
     S!NoOwner, S!Gone, S!UseDestroyed, S!IsConnected, S!NetworkFailure,
     S!SendMessage, S!Transmit, S!FailLeaved, S!TakeLambda, S!JoinLambda,
     S!PingLambda, S!LambdaReturns, S!LambdaDestroys, S!HasHandler, S!RecvMessage,
     S!NoHandler, S!OnMessage, S!WelcomeIf, S!ProcessWelcomeMessage,
     S!StartHeartbeat, S!KeepId, S!AnswerJoin, S!ProcessAbortMessage,
     S!ProcessPongMessage, S!ProcessCallMessage, S!OnOtherMessage, S!Leave,
     S!LeaveDisconnect, S!Goto, S!OnAttach, S!ConnectSettles, S!ConnectReturns,
     S!JoinEnsureState, S!JoinDispatch, S!JoinReturns, S!JoinTimesOut,
     S!ListenReturns, S!Catch, S!Uncaught, S!OnDetach, S!HandlerReset, S!Release,
     S!Destroy, S!BeatPing, S!BeatWakesSpuriously, S!PongTimesOut, S!BeatExpires,
     S!BeatVerdict, S!TakeWire, S!Send, S!AnswerHello, S!AnswerPing, S!TakeReply,
     S!IssueCall, S!SendOutOfTurn, S!LinkCloses, S!LinkClosed, S!Init, S!CallerStep,
     S!HandlerStep, S!IoStep, S!BeatStep, S!ServerStep, S!Running, S!Ended, S!Next,
     AS!CallKinds, AS!RogueKinds, AS!object, AS!promises, AS!main, AS!signals,
     AS!client, AS!server, AS!network, AS!vars, AS!Msg, AS!ClientTypes, AS!Lambdas,
     AS!ServerTypes, AS!Idle, AS!Failing, AS!Returning, AS!Destroying, AS!Leaving,
     AS!Parsing, AS!Welcoming, AS!NoFault, AS!Terminate, AS!SetPong, AS!SetLeaved,
     AS!SetJoined, AS!LambdaRuns, AS!NoOwner, AS!Gone, AS!UseDestroyed,
     AS!IsConnected, AS!NetworkFailure, AS!SendMessage, AS!Transmit, AS!FailLeaved,
     AS!TakeLambda, AS!JoinLambda, AS!PingLambda, AS!LambdaReturns,
     AS!LambdaDestroys, AS!HasHandler, AS!RecvMessage, AS!NoHandler, AS!OnMessage,
     AS!WelcomeIf, AS!ProcessWelcomeMessage, AS!StartHeartbeat, AS!KeepId,
     AS!AnswerJoin, AS!ProcessAbortMessage, AS!ProcessPongMessage,
     AS!ProcessCallMessage, AS!OnOtherMessage, AS!Leave, AS!LeaveDisconnect, AS!Goto,
     AS!OnAttach, AS!ConnectSettles, AS!ConnectReturns, AS!JoinEnsureState,
     AS!JoinDispatch, AS!JoinReturns, AS!JoinTimesOut, AS!ListenReturns, AS!Catch,
     AS!Uncaught, AS!OnDetach, AS!HandlerReset, AS!Release, AS!Destroy, AS!BeatPing,
     AS!BeatWakesSpuriously, AS!PongTimesOut, AS!BeatExpires, AS!BeatVerdict,
     AS!TakeWire, AS!Send, AS!AnswerHello, AS!AnswerPing, AS!TakeReply, AS!IssueCall,
     AS!SendOutOfTurn, AS!LinkCloses, AS!LinkClosed, AS!Init, AS!CallerStep,
     AS!HandlerStep, AS!IoStep, AS!BeatStep, AS!ServerStep, AS!Running, AS!Ended,
     AS!Next

LEMMA SameSession == S!Spec <=> AS!Spec
BY SameSessionSteps, PTL DEF S!Spec, AS!Spec

\* So do the two of WebSocketTransport.
LEMMA SameTransportSteps ==
  /\ T!Init <=> AT!Init
  /\ [T!Next]_(T!vars) <=> [AT!Next]_(AT!vars)
BY DEF
     T!flags, T!run, T!vars, T!Terminate, T!Attach, T!Connect, T!ConnectReturns,
     T!Disconnect, T!StopClientJoins, T!Detach, T!HandlerReset, T!Stop, T!Destroy,
     T!DestroyJoins, T!IoIdle, T!OnClientOpen, T!OnClientFail, T!OnClientFailDone,
     T!OnClientClose, T!OnClientMessage, T!RecvMessage, T!Leave, T!LeaveDisconnect,
     T!ThreadExits, T!PeerCloses, T!Init, T!UserCall, T!UserGoesOn, T!IoStep, T!Next,
     AT!flags, AT!run, AT!vars, AT!Terminate, AT!Attach, AT!Connect,
     AT!ConnectReturns, AT!Disconnect, AT!StopClientJoins, AT!Detach,
     AT!HandlerReset, AT!Stop, AT!Destroy, AT!DestroyJoins, AT!IoIdle,
     AT!OnClientOpen, AT!OnClientFail, AT!OnClientFailDone, AT!OnClientClose,
     AT!OnClientMessage, AT!RecvMessage, AT!Leave, AT!LeaveDisconnect,
     AT!ThreadExits, AT!PeerCloses, AT!Init, AT!UserCall, AT!UserGoesOn, AT!IoStep,
     AT!Next

LEMMA SameTransport == T!Spec <=> AT!Spec
BY SameTransportSteps, PTL DEF T!Spec, AT!Spec

\* When main() has returned the io thread is joined, in no callback and in no handler,
\* and the heartbeat has ended, unless Join was refused or gave up.
THEOREM ExitsQuietly ==
  ASSUME S!SessionConstants
  PROVE  Spec => []ExitIsQuiet
<1>1. AS!SessionConstants
  BY DEF S!SessionConstants, AS!SessionConstants, S!CallKinds, AS!CallKinds,
     S!RogueKinds, AS!RogueKinds
<1>2. AS!Spec => []AS!EndInv
  BY <1>1, AS!EndInvAlways
<1>3. ASSUME ClientInv, AS!EndInv
      PROVE  ExitIsQuiet
  <2> SUFFICES ASSUME user = "gone" PROVE ExitIsQuiet
    BY DEF ExitIsQuiet
  <2>1. /\ caller = "destroyed" /\ thread = "joined" /\ callback = "idle" /\ io = S!Idle
    BY <1>3 DEF ClientInv, QuietInv
  <2>2. io.type = "IDLE" /\ AS!Destroying.type = "DESTROYING"
    BY <2>1 DEF S!Idle, S!Msg, AS!Destroying, AS!Msg
  <2>3. AS!Gone
    BY <2>1, <2>2 DEF AS!Gone, AS!LambdaRuns, AS!Lambdas
  <2>4. QED
    BY <1>3, <2>1, <2>3 DEF AS!EndInv, ExitIsQuiet
<1>4. QED
  BY <1>2, <1>3, InvAlways, ClientIsSession, SameSession, PTL DEF ImplementsSession

\* In the program, whatever the server sends: Join's answer, the id and the heartbeat
\* agree, and every CALL gets its one reply in its turn, although the steps of main()
\* and of websocketpp now pass through the transport.
THEOREM ProgramKeepsSession ==
  ASSUME S!SessionConstants
  PROVE  Spec => [](S!SessionAgreesWithJoin /\ S!RepliesInOrder)
<1>1. AS!SessionConstants
  BY DEF S!SessionConstants, AS!SessionConstants, S!CallKinds, AS!CallKinds,
     S!RogueKinds, AS!RogueKinds
<1>2. AS!Spec => []AS!SessionAgreesWithJoin
  BY <1>1, AS!SessionAgrees
<1>3. AS!Spec => []AS!RepliesInOrder
  BY <1>1, AS!CallsAreAnswered
<1>4. AS!SessionAgreesWithJoin /\ AS!RepliesInOrder
        => S!SessionAgreesWithJoin /\ S!RepliesInOrder
  BY DEF
     S!CallKinds, S!Welcoming, S!NoFault, S!SessionAgreesWithJoin, S!Path, S!Due,
     S!RepliesInOrder, AS!CallKinds, AS!Welcoming, AS!NoFault,
     AS!SessionAgreesWithJoin, AS!Path, AS!Due, AS!RepliesInOrder
<1>5. QED
  BY <1>2, <1>3, <1>4, ClientIsSession, SameSession, PTL DEF ImplementsSession

\* In the program every thread that waits is waited for by one that will release it:
\* main() in Connect, in Listen, in io_context.run() and in the transport's destructor.
THEOREM ProgramWaitsEnd ==
  ASSUME S!SessionConstants
  PROVE  Spec => [](S!WaitsAreServed /\ T!WaitsAreServed)
<1>1. AS!SessionConstants
  BY DEF S!SessionConstants, AS!SessionConstants, S!CallKinds, AS!CallKinds,
     S!RogueKinds, AS!RogueKinds
<1>2. AT!TransportConstants
  BY DEF AT!TransportConstants
<1>3. AS!Spec => []AS!WaitsAreServed
  BY <1>1, AS!WaitsEnd
<1>4. AT!Spec => []AT!WaitsAreServed
  BY <1>2, AT!WaitsEnd
<1>5. AS!WaitsAreServed /\ AT!WaitsAreServed => S!WaitsAreServed /\ T!WaitsAreServed
  BY DEF
     S!Msg, S!Idle, S!Leaving, S!NoFault, S!WaitsAreServed, AS!Msg, AS!Idle,
     AS!Leaving, AS!NoFault, AS!WaitsAreServed,
     T!WaitsAreServed, AT!WaitsAreServed
<1>6. QED
  BY <1>3, <1>4, <1>5, ClientIsSession, ClientIsTransport, SameSession, SameTransport,
     PTL DEF ImplementsSession, ImplementsTransport

\* With a server that follows the protocol no exception leaves a thread of an
\* undisturbed program, its rounds stay apart, and Join is answered once.
THEOREM ProgramIsHealthy ==
  ASSUME S!SessionConstants, S!Compliant
  PROVE  Spec => [](S!HealthyNoFault /\ S!RoundsDoNotOverlap /\ S!JoinAnsweredOnce)
<1>1. AS!SessionConstants
  BY DEF S!SessionConstants, AS!SessionConstants, S!CallKinds, AS!CallKinds,
     S!RogueKinds, AS!RogueKinds
<1>2. AS!Compliant /\ "PONG" \notin Unsolicited
      /\ {"WELCOME", "ABORT"} \cap Unsolicited = {}
  BY DEF S!Compliant, AS!Compliant
<1>3. AS!Spec => []AS!HealthyNoFault
  BY <1>1, <1>2, AS!HealthyRuns
<1>4. AS!Spec => []AS!RoundsDoNotOverlap
  BY <1>1, <1>2, AS!RoundsAreApart
<1>5. AS!Spec => []AS!JoinAnsweredOnce
  BY <1>1, <1>2, AS!JoinIsAnsweredOnce
<1>6. AS!HealthyNoFault /\ AS!RoundsDoNotOverlap /\ AS!JoinAnsweredOnce
        => S!HealthyNoFault /\ S!RoundsDoNotOverlap /\ S!JoinAnsweredOnce
  BY DEF
     S!Welcoming, S!At, S!NoFault, S!InFlight, S!RoundsDoNotOverlap, S!Disturbed,
     S!HealthyNoFault, S!Asking, S!JoinAnsweredOnce, AS!Welcoming, AS!At, AS!NoFault,
     AS!InFlight, AS!RoundsDoNotOverlap, AS!Disturbed, AS!HealthyNoFault, AS!Asking,
     AS!JoinAnsweredOnce
<1>7. QED
  BY <1>3, <1>4, <1>5, <1>6, ClientIsSession, SameSession, PTL DEF ImplementsSession

=============================================================================
