--------------------------- MODULE TransportProofs ---------------------------
(***************************************************************************)
(* Proofs about WebSocketTransport, whether the io_context has other work   *)
(* or not.                                                                 *)
(***************************************************************************)
EXTENDS WebSocketTransport, TLAPS

\* The sets that type the io thread and the errors.
LEMMA Sets ==
  /\ \A c \in {"idle", "failing", "delivering", "leaving"} : c \in Callbacks
  /\ \A e \in {"none", "close refused", "not joinable", "joinable destroyed"} :
       e \in Faults
  /\ \A e \in {"null handler", "null transport", "already disconnected",
              "thread joins itself"} : e \in Faults
BY DEF Callbacks, Faults

\* open_, done_ and connected_ say how far the connection has come.
FlagsFollowConnection ==
  /\ conn \in {"none", "connecting"} => ~open /\ ~done /\ connected = "unset"
  /\ conn = "open" => open /\ ~done /\ connected = "set"
  /\ conn = "closing" => ~done /\ connected = "set"
  /\ conn = "closed" => done /\ connected = "set"
  /\ conn = "failed" => ~open /\ connected = "failed"

\* What the two threads may be doing in a state of the connection.
ThreadsFollowConnection ==
  /\ io = "failing" => conn = "failed"
  /\ user = "stopping" => conn \in {"closing", "closed"}
  /\ thread # "running" => io = "idle"
  /\ user = "gone" => thread = "joined"

\* The inductive invariant.
TransportInv == TypeOK /\ FlagsFollowConnection /\ ThreadsFollowConnection

LEMMA InvInit == Init => TransportInv
BY Sets DEF Init, TransportInv, TypeOK, FlagsFollowConnection, ThreadsFollowConnection

LEMMA InvStutter ==
  ASSUME TransportInv, UNCHANGED vars
  PROVE  TransportInv'
<1>1. /\ open' = open /\ done' = done /\ handler' = handler
      /\ perpetual' = perpetual /\ stopped' = stopped
      /\ connected' = connected /\ thread' = thread /\ conn' = conn
      /\ user' = user /\ io' = io /\ fault' = fault
  BY DEF vars, flags, run
<1>2. TypeOK'
  <2>1. /\ open' \in BOOLEAN /\ done' \in BOOLEAN /\ handler' \in BOOLEAN
        /\ perpetual' \in BOOLEAN /\ stopped' \in BOOLEAN
    BY <1>1, Zenon DEF TransportInv, TypeOK
  <2>2. QED
    BY <1>1, <2>1 DEF TransportInv, TypeOK
<1>3. FlagsFollowConnection'
  BY <1>1, Zenon DEF TransportInv, FlagsFollowConnection
<1>4. ThreadsFollowConnection'
  BY <1>1, Zenon DEF TransportInv, ThreadsFollowConnection
<1>5. QED
  BY <1>2, <1>3, <1>4 DEF TransportInv

LEMMA InvStep ==
  ASSUME TransportInv, [Next]_vars
  PROVE  TransportInv'
<1> USE Sets DEF TransportInv, TypeOK, FlagsFollowConnection,
        ThreadsFollowConnection, flags, run, Terminate, IoIdle
<1>1. CASE Attach
  BY <1>1 DEF Attach
<1>2. CASE Connect
  BY <1>2 DEF Connect
<1>3. CASE ConnectReturns
  BY <1>3 DEF ConnectReturns
<1>4. CASE Disconnect
  BY <1>4 DEF Disconnect
<1>5. CASE StopClientJoins
  BY <1>5 DEF StopClientJoins
<1>6. CASE Detach
  BY <1>6 DEF Detach
<1>7. CASE HandlerReset
  BY <1>7 DEF HandlerReset
<1>8. CASE Stop
  BY <1>8 DEF Stop
<1>9. CASE Destroy
  BY <1>9 DEF Destroy
<1>10. CASE DestroyJoins
  BY <1>10 DEF DestroyJoins
<1>11. CASE OnClientOpen
  BY <1>11 DEF OnClientOpen
<1>12. CASE OnClientFail
  BY <1>12 DEF OnClientFail
<1>13. CASE OnClientFailDone
  BY <1>13 DEF OnClientFailDone
<1>14. CASE OnClientClose
  BY <1>14 DEF OnClientClose
<1>15. CASE OnClientMessage
  BY <1>15 DEF OnClientMessage
<1>16. CASE RecvMessage
  <2>1. TypeOK'
    BY <1>16 DEF RecvMessage
  <2>2. FlagsFollowConnection'
    BY <1>16 DEF RecvMessage
  <2>3. ThreadsFollowConnection'
    BY <1>16 DEF RecvMessage
  <2>4. QED
    BY <2>1, <2>2, <2>3
<1>17. CASE Leave
  BY <1>17 DEF Leave
<1>18. CASE ThreadExits
  BY <1>18 DEF ThreadExits
<1>19. CASE PeerCloses
  BY <1>19 DEF PeerCloses
<1>20. CASE LeaveDisconnect
  <2>1. TypeOK'
    BY <1>20 DEF LeaveDisconnect, Faults
  <2>2. FlagsFollowConnection'
    BY <1>20 DEF LeaveDisconnect
  <2>3. ThreadsFollowConnection'
    BY <1>20 DEF LeaveDisconnect
  <2>4. QED
    BY <2>1, <2>2, <2>3
<1>21. CASE UNCHANGED vars
  BY <1>21, InvStutter
<1>22. QED
  BY <1>1, <1>2, <1>3, <1>4, <1>5, <1>6, <1>7, <1>8, <1>9, <1>10, <1>11,
     <1>12, <1>13, <1>14, <1>15, <1>16, <1>17, <1>18, <1>19, <1>20, <1>21
  DEF Next, UserCall, UserGoesOn, IoStep

LEMMA InvAlways == Spec => []TransportInv
BY InvInit, InvStep, PTL DEF Spec

\* Every variable of the transport has its type.
THEOREM TypeCorrect == Spec => []TypeOK
BY InvAlways, PTL DEF TransportInv

\* No callback can run on a transport whose destructor has returned.
THEOREM DestructorIsSafe == Spec => []GoneIsQuiet
<1>1. TransportInv => GoneIsQuiet
  BY DEF TransportInv, ThreadsFollowConnection, GoneIsQuiet
<1>2. QED
  BY <1>1, InvAlways, PTL

\* IsConnected says what websocketpp would say, between any two steps of the user
\* and of the io thread.
THEOREM ConnectedAgrees == Spec => []ConnectedIsOpen
<1>1. TransportInv => ConnectedIsOpen
  BY DEF TransportInv, TypeOK, FlagsFollowConnection, ConnectedIsOpen, IsConnected
<1>2. QED
  BY <1>1, InvAlways, PTL

\* The transport is a Link: no interleaving reopens a connection that has ended, or
\* ends one that was never open.
THEOREM TransportIsLink == Spec => ImplementsLink
<1>1. Init => L!Init
  BY DEF Init, L!Init, link
<1>2. ASSUME TransportInv, TransportInv', [Next]_vars
      PROVE  [L!Next]_link
  <2> USE DEF TransportInv, TypeOK, FlagsFollowConnection, ThreadsFollowConnection,
          link, IsConnected, flags, run, Terminate, IoIdle
  <2>1. CASE OnClientOpen
    BY <1>2, <2>1 DEF OnClientOpen, L!Next, L!Opens
  <2>2. CASE OnClientFail
    BY <1>2, <2>2 DEF OnClientFail, L!Next, L!Fails
  <2>3. CASE OnClientFailDone
    BY <1>2, <2>3 DEF OnClientFailDone
  <2>4. CASE OnClientClose
    BY <1>2, <2>4 DEF OnClientClose, L!Next, L!Closed
  <2>5. CASE PeerCloses
    BY <1>2, <2>5 DEF PeerCloses, L!Next, L!Closing
  <2>6. CASE Disconnect
    BY <1>2, <2>6 DEF Disconnect, L!Next, L!Closing
  <2>7. CASE StopClientJoins
    BY <1>2, <2>7 DEF StopClientJoins, L!Next, L!Closed
  <2>8. CASE Connect
    BY <1>2, <2>8 DEF Connect
  <2>9. CASE UNCHANGED <<flags, conn>>
    BY <2>9
  <2>10. QED
    BY <1>2, <2>1, <2>2, <2>3, <2>4, <2>5, <2>6, <2>7, <2>8, <2>9
    DEF Next, UserCall, UserGoesOn, IoStep, Attach, ConnectReturns, Detach,
        HandlerReset, Stop, Destroy, DestroyJoins, OnClientMessage, RecvMessage,
        Leave, LeaveDisconnect, ThreadExits, vars
<1>3. QED
  BY <1>1, <1>2, InvAlways, PTL DEF Spec, ImplementsLink, L!Spec

----------------------------------------------------------------------------
(* Waiting.                                                                *)

\* Until connected_ is settled nothing stops the io_context or ends its thread; what a
\* waiting user has told the io thread is not taken back.
UserWaits ==
  /\ user = "connecting" => conn # "none"
  /\ connected = "unset" => ~stopped /\ thread = "running"
  /\ user = "stopping" => ~perpetual
  /\ user = "destroying" => stopped

LEMMA WaitsInit == Init => UserWaits
BY DEF Init, UserWaits

LEMMA WaitsStep ==
  ASSUME TransportInv, UserWaits, [Next]_vars
  PROVE  UserWaits'
<1> USE DEF UserWaits, flags, run
<1>1. CASE Attach \/ HandlerReset \/ Detach \/ ConnectReturns \/ StopClientJoins
  <2>1. UNCHANGED <<conn, connected, stopped, perpetual>>
    BY <1>1 DEF Attach, HandlerReset, Detach, ConnectReturns, StopClientJoins
  <2>2. user' \in {user, "ready", "detaching"}
    BY <1>1 DEF Attach, HandlerReset, Detach, ConnectReturns, StopClientJoins
  <2>3. thread' = thread \/ connected # "unset"
    BY <1>1 DEF Attach, HandlerReset, Detach, ConnectReturns, StopClientJoins
  <2>4. QED
    BY <2>1, <2>2, <2>3
<1>2. CASE Connect
  BY <1>2 DEF Connect
<1>3. CASE Disconnect
  BY <1>3, Zenon DEF Disconnect
<1>4. CASE Stop
  BY <1>4 DEF Stop
<1>5. CASE Destroy
  BY <1>5 DEF Destroy
<1>6. CASE DestroyJoins
  BY <1>6 DEF DestroyJoins
<1>7. CASE ThreadExits
  <2>1. connected # "unset"
    BY <1>7 DEF ThreadExits, TransportInv, FlagsFollowConnection
  <2>2. UNCHANGED <<conn, connected, stopped, perpetual, user>>
    BY <1>7 DEF ThreadExits
  <2>3. QED
    BY <2>1, <2>2
<1>8. CASE LeaveDisconnect
  <2>1. UNCHANGED <<conn, connected, thread, perpetual, user>>
    BY <1>8 DEF LeaveDisconnect
  <2>2. stopped' = stopped \/ (stopped' /\ connected # "unset")
    BY <1>8 DEF LeaveDisconnect, TransportInv, TypeOK, FlagsFollowConnection
  <2>3. QED
    BY <2>1, <2>2
<1>9. CASE \/ OnClientOpen \/ OnClientFail \/ OnClientFailDone \/ OnClientClose
           \/ RecvMessage \/ OnClientMessage \/ Leave \/ PeerCloses
  <2>1. UNCHANGED <<thread, perpetual, stopped, user>> /\ (conn' = "none" => conn = "none")
    BY <1>9 DEF OnClientOpen, OnClientFail, OnClientFailDone, OnClientClose, RecvMessage,
       OnClientMessage, Leave, PeerCloses
  <2>2. connected' = "unset" => connected = "unset"
    BY <1>9 DEF OnClientOpen, OnClientFail, OnClientFailDone, OnClientClose, RecvMessage,
       OnClientMessage, Leave, PeerCloses
  <2>3. QED
    BY <2>1, <2>2
<1>10. CASE UNCHANGED vars
  BY <1>10 DEF vars
<1>11. QED
  BY <1>1, <1>2, <1>3, <1>4, <1>5, <1>6, <1>7, <1>8, <1>9, <1>10
  DEF Next, UserCall, UserGoesOn, IoStep

\* Each wait of the user is served (WaitsAreServed), whether the io_context has other
\* work or not: Connect by a thread that runs and is not stopped, Disconnect and the
\* destructor by one that has been told to end.
THEOREM WaitsEnd == Spec => []WaitsAreServed
<1>1. TransportInv /\ UserWaits => WaitsAreServed
  BY DEF TransportInv, TypeOK, FlagsFollowConnection, ThreadsFollowConnection, UserWaits,
     WaitsAreServed
<1>2. QED
  BY <1>1, WaitsInit, WaitsStep, InvAlways, PTL DEF Spec

=============================================================================
