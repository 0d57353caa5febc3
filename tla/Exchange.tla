------------------------------- MODULE Exchange -------------------------------
(***************************************************************************)
(* One message, written by a class of protocol.hpp or by Session, possibly  *)
(* cut short on its way, and read by a class of protocol.hpp (typed) and by *)
(* Session::OnMessage (seen); or the details of a WELCOME as an object of   *)
(* their own.                                                              *)
(***************************************************************************)
EXTENDS Protocol

VARIABLES
  sent,   \* the message as an object of its class
  writer, \* who wrote it: "class", "Session" or "details"
  array,  \* its JSON array, or the JSON object of the details
  whole,  \* is it as it was written?
  typed,  \* what from_json of its class makes of it
  seen    \* what OnMessage makes of it

vars == <<sent, writer, array, whole, typed, seen>>

Nothing == [branch |-> "none", number |-> 0]

Messages ==
  {HelloMessage(r, d) : r \in Strings, d \in Details}
  \cup {WelcomeMessage(n, d) : n \in Int32, d \in Details}
  \cup {AbortMessage(r, d) : r \in Strings, d \in Details}
  \cup {PingMessage(d) : d \in Details}
  \cup {PongMessage(d) : d \in Details}
  \cup {ErrorMessage(t, n, e, d) :
          t \in MessageTypes, n \in Int32, e \in Strings, d \in Details}

\* The extreme values of a time, and 0.
Times == {-Half, 0, Half - 1}

AllDetails ==
  {WelcomeDetails(<<session, ping, pong, topic>>) :
     session \in Times, ping \in Times, pong \in Times, topic \in Strings}

Init ==
  /\ \/ /\ writer = "class"
        /\ sent \in Messages
        /\ array = Encode(sent)
     \/ /\ writer = "Session"
        /\ \/ \E r \in Strings : sent = HelloMessage(r, EmptyObject)
                                 /\ array = SessionHello(r)
           \/ sent = PingMessage(EmptyObject) /\ array = SessionPing
           \/ \E n \in Int32, e \in Strings :
                /\ sent = ErrorMessage(TypeOf["CALL"], n, e, EmptyObject)
                /\ array = SessionError(n, e)
     \/ /\ writer = "details"
        /\ sent \in AllDetails
        /\ array = EncodeDetails(sent.fields)
  /\ whole = TRUE
  /\ typed = Undefined
  /\ seen = Nothing

\* A peer that does not use these classes leaves out the last fields.
Cut ==
  /\ seen = Nothing
  /\ writer # "details" /\ array # <<>>
  /\ array' = SubSeq(array, 1, Len(array) - 1)
  /\ whole' = FALSE
  /\ UNCHANGED <<sent, writer, typed, seen>>

ReadDetails ==
  /\ seen = Nothing
  /\ writer = "details"
  /\ typed' = DecodeDetails(array)
  /\ seen' = [branch |-> "details", number |-> 0]
  /\ UNCHANGED <<sent, writer, array, whole>>

Read ==
  /\ seen = Nothing
  /\ writer # "details"
  /\ typed' = Decode(sent.kind, array)
  /\ seen' = OnMessage(array)
  /\ UNCHANGED <<sent, writer, array, whole>>

Next == Cut \/ ReadDetails \/ Read

Spec == Init /\ [][Next]_vars

----------------------------------------------------------------------------
(* Properties.                                                             *)

\* What from_json reads is what to_json wrote, for every class and for the ERROR
\* and PING that Session writes, except that null details become an empty object.
\* Session's HELLO has one field less than the class reads.
Normal(m) ==
  [m EXCEPT !.fields = [i \in DOMAIN m.fields |->
     IF m.fields[i] = Null THEN EmptyObject ELSE m.fields[i]]]

RoundTrip ==
  seen # Nothing /\ whole /\ ~(writer = "Session" /\ sent.kind = "HELLO")
    => typed = Value(Normal(sent))

\* Session takes a WELCOME and an ABORT for what they are, however details are
\* left out, and it reads the id that was written, of which it keeps the bits.
\* An id that is not 0 is not read as 0, which Session takes for "no session".
SessionReadsAnswers ==
  seen # Nothing /\ sent.kind \in {"WELCOME", "ABORT"} /\ Len(array) >= 2 =>
    /\ sent.kind = "WELCOME" =>
         /\ seen.branch = "WELCOME"
         /\ ToInt32(seen.number) = sent.fields[1]
         /\ seen.number = 0 <=> sent.fields[1] = 0
    /\ sent.kind = "ABORT" => seen.branch = "ABORT"
=============================================================================
