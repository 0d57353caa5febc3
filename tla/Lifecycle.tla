------------------------------ MODULE Lifecycle ------------------------------
(***************************************************************************)
(* What a Session promises to the program that uses it, as the session flow *)
(* of include/barbarossa/session.ipp (lines 10-25) tells it, without threads, *)
(* messages or a transport.  Join is answered once, by an id or an error.    *)
(* Before it is answered by an id the session is established, its heartbeat  *)
(* begins, and it is given the id; an error comes only to a session that is  *)
(* not established.  Listen is answered once; a heartbeat that has ended does *)
(* not begin again.  The process may end at any moment.                      *)
(***************************************************************************)
CONSTANT Ids   \* the ids of sessions

VARIABLES
  phase,    \* "closed", "establishing", "established", or "lost"
  id,       \* the id of the session, 0 if it has none
  answer,   \* Join's: "unset", "id" or an error
  verdict,  \* Listen's: "unset" or a reason
  beat      \* the heartbeat: "off", "on" or "done"

vars == <<phase, id, answer, verdict, beat>>

Init ==
  /\ phase = "closed" /\ id = 0
  /\ answer = "unset" /\ verdict = "unset"
  /\ beat = "off"

Join ==
  /\ phase = "closed"
  /\ phase' = "establishing"
  /\ UNCHANGED <<id, answer, verdict, beat>>

Establish ==
  /\ phase = "establishing"
  /\ phase' = "established"
  /\ UNCHANGED <<id, answer, verdict, beat>>

Begin ==
  /\ phase = "established" /\ beat = "off"
  /\ beat' = "on"
  /\ UNCHANGED <<phase, id, answer, verdict>>

Name ==
  /\ beat # "off" /\ id = 0 /\ answer # "id"
  /\ id' \in Ids
  /\ UNCHANGED <<phase, answer, verdict, beat>>

Admit ==
  /\ beat # "off" /\ answer = "unset"
  /\ answer' = "id"
  /\ UNCHANGED <<phase, id, verdict, beat>>

\* An ABORT may come before Join.
Refuse ==
  /\ phase \in {"closed", "establishing"} /\ answer = "unset"
  /\ answer' \notin {"unset", "id"}
  /\ UNCHANGED <<phase, id, verdict, beat>>

Settle ==
  /\ phase # "lost" /\ verdict = "unset"
  /\ verdict' # "unset"
  /\ beat' \in {beat, IF beat = "on" THEN "done" ELSE beat}
  /\ UNCHANGED <<phase, id, answer>>

\* The heartbeat ends without a reason: a spurious wake-up.
Quit ==
  /\ beat = "on"
  /\ beat' = "done"
  /\ UNCHANGED <<phase, id, answer, verdict>>

Lose ==
  /\ phase' = "lost" /\ id' = 0 /\ answer' = "unset" /\ verdict' = "unset"
  /\ beat' = "off"

Next ==
  \/ Join \/ Establish \/ Begin \/ Name \/ Admit \/ Refuse \/ Settle \/ Quit \/ Lose

Spec == Init /\ [][Next]_vars
=============================================================================
