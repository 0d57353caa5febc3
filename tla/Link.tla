-------------------------------- MODULE Link ---------------------------------
(***************************************************************************)
(* What a Transport (include/barbarossa/transport.hpp) promises to the code *)
(* above it: a connection is opened at most once, ends at most once, and    *)
(* passes through "closing", in which it still counts as connected but     *)
(* refuses to send.                                                        *)
(***************************************************************************)
VARIABLE link

Init == link = "none"

Opens   == link = "none"    /\ link' = "open"
Fails   == link = "none"    /\ link' = "failed"
Closing == link = "open"    /\ link' = "closing"
Closed  == link = "closing" /\ link' = "closed"

Next == Opens \/ Fails \/ Closing \/ Closed

Spec == Init /\ [][Next]_link
=============================================================================
