------------------------------- MODULE Protocol -------------------------------
(***************************************************************************)
(* The messages of the control channel as JSON arrays.  Two parts of the    *)
(* code write and read them:                                               *)
(*                                                                         *)
(*   protocol.hpp   a class per message with to_json and from_json; it does *)
(*                  not check the length of an array                       *)
(*   message.ipp    untyped fields with checked access, which Session uses: *)
(*                  OnMessage dispatches on field 0                        *)
(*                                                                         *)
(* A JSON value is an integer, or an element of Strings or Objects, or Null. *)
(* Reading a field of an array yields a value, "throws", or "undefined" when *)
(* the code reads past the end of the array without checking its length: any *)
(* value may come of it, also the right one, or the end of the process.      *)
(***************************************************************************)
EXTENDS Integers, Sequences

CONSTANTS
  Strings,     \* JSON strings
  Objects,     \* JSON objects
  EmptyObject, \* {}
  Null,        \* null
  Half         \* half the range of a 32-bit integer: 2^31 in the code

ASSUME ProtocolConstants ==
  /\ EmptyObject \in Objects
  /\ Null \notin Objects \cup Strings \cup Int
  /\ Strings \cap Objects = {}
  /\ (Strings \cup Objects) \cap Int = {}
  /\ Half \in Nat /\ Half > 21  \* message types fit

Details == Objects \cup {Null}
Json    == Int \cup Strings \cup Details

Throws    == [is |-> "throws"]
Undefined == [is |-> "undefined"]
Value(v)  == [is |-> "value", of |-> v]

----------------------------------------------------------------------------
(* Numbers.  json::get<T> of an integer is a static_cast.                  *)

\* Fault: the sign bit is lost.
ToUInt31(n) == n % Half

ToUInt32(n) == n % (2 * Half)
ToInt32(n)  == ((n + Half) % (2 * Half)) - Half

Int32 == -Half .. Half - 1

----------------------------------------------------------------------------
(* protocol.hpp: one constructor per class; the fields are in the order in  *)
(* which to_json pushes them.                                              *)

Message(kind, fields) == [kind |-> kind, fields |-> fields]

HelloMessage(realm, details)   == Message("HELLO", <<realm, details>>)
WelcomeMessage(id, details)    == Message("WELCOME", <<id, details>>)
AbortMessage(reason, details)  == Message("ABORT", <<reason, details>>)
PingMessage(details)           == Message("PING", <<details>>)
PongMessage(details)           == Message("PONG", <<details>>)
ErrorMessage(type, id, error, details) ==
  Message("ERROR", <<type, id, error, details>>)

\* enum MessageTypes.
TypeOf == [HELLO |-> 1, WELCOME |-> 2, ABORT |-> 3, PING |-> 4, PONG |-> 5,
           ERROR |-> 9, CALL |-> 10, RESULT |-> 11, PUBLISH |-> 20,
           PUBLISHED |-> 21]

MessageTypes == {TypeOf[k] : k \in DOMAIN TypeOf}

\* The type that to_json pushes: PongMessage's pushes kMessageTypePing.
Tag(kind) == IF kind = "PONG" THEN TypeOf["PING"] ELSE TypeOf[kind]

Encode(m) == <<Tag(m.kind)>> \o m.fields

\* The type of each member that from_json assigns.
Layout == [HELLO   |-> <<"string", "details">>,
           WELCOME |-> <<"int32", "details">>,
           ABORT   |-> <<"string", "details">>,
           PING    |-> <<"details">>,
           PONG    |-> <<"details">>,
           ERROR   |-> <<"int32", "int32", "string", "details">>]

\* Fault: null details stay null.
AsGiven(type, v) ==
  IF type \in {"int32", "uint32"} => v \in Int THEN Value(v) ELSE Throws

\* The conversion of a JSON value to a member of a type.
As(type, v) ==
  CASE type = "int32"   -> IF v \in Int THEN Value(ToInt32(v)) ELSE Throws
    [] type = "uint32"  -> IF v \in Int THEN Value(ToUInt32(v)) ELSE Throws
    [] type = "string"  -> IF v \in Strings THEN Value(v) ELSE Throws
    [] type = "details" -> Value(IF v = Null THEN EmptyObject ELSE v)
    [] OTHER            -> Value(v)

\* from_json of a class: the first member that cannot be read decides.  No length
\* is checked: a member that the array lacks is undefined, not an error.
Decode(kind, j) ==
  LET layout == Layout[kind]
      bad    == {i \in DOMAIN layout :
                   i + 1 \notin DOMAIN j \/ As(layout[i], j[i + 1]) = Throws}
  IN  IF bad = {}
      THEN Value(Message(kind, [i \in DOMAIN layout |-> As(layout[i], j[i + 1]).of]))
      ELSE IF \E i \in bad : /\ i + 1 \notin DOMAIN j
                             /\ \A k \in bad : i <= k
           THEN Undefined ELSE Throws

----------------------------------------------------------------------------
(* protocol_details.hpp: WelcomeDetails is the tuple of its four members, and a *)
(* JSON object with a key for each.                                        *)

DetailKeys  == <<"session_timeout", "ping_interval", "pong_max_wait_time", "events_topic">>
DetailTypes == <<"int32", "int32", "int32", "string">>

EncodeDetails(d) ==
  [key \in {DetailKeys[i] : i \in 1 .. 4} |-> d[CHOOSE i \in 1 .. 4 : DetailKeys[i] = key]]

\* json::at() of one key.
DetailAt(j, i) ==
  IF DetailKeys[i] \in DOMAIN j THEN As(DetailTypes[i], j[DetailKeys[i]]) ELSE Throws

WelcomeDetails(members) == Message("DETAILS", members)

DecodeDetails(j) ==
  IF \E i \in 1 .. 4 : DetailAt(j, i) = Throws THEN Throws
  ELSE Value(WelcomeDetails([i \in 1 .. 4 |-> DetailAt(j, i).of]))

----------------------------------------------------------------------------
(* message.ipp and Session: checked fields.                                *)

\* Message::Field<T>(index), with the index counted from 0.
Field(j, index, type) ==
  IF index + 1 \in DOMAIN j THEN As(type, j[index + 1]) ELSE Throws

\* Session::OnMessage: the branch that is taken, and the number it reads.
OnMessage(j) ==
  LET type == Field(j, 0, "int32").of
      Branch(b, n) == [branch |-> b, number |-> n]
      Malformed == Branch("MALFORMED", 0)
  IN  CASE Len(j) < 1 -> Branch("EMPTY", 0)
        [] Len(j) >= 1 /\ Field(j, 0, "int32") = Throws -> Malformed
        [] OTHER ->
             CASE type \in {TypeOf[k] : k \in {"HELLO", "PING", "RESULT"}} ->
                    Branch("FORBIDDEN", 0)
               [] type = TypeOf["WELCOME"] ->
                    IF Field(j, 1, "uint32") = Throws THEN Malformed
                    ELSE Branch("WELCOME", Field(j, 1, "uint32").of)
               [] type = TypeOf["ABORT"] ->
                    IF Field(j, 1, "string") = Throws THEN Malformed
                    ELSE Branch("ABORT", 0)
               [] type = TypeOf["PONG"] -> Branch("PONG", 0)
               [] type = TypeOf["CALL"] ->
                    IF Throws \in {Field(j, 1, "int32"), Field(j, 2, "string"),
                                   Field(j, 3, "json")}
                    THEN Malformed
                    ELSE Branch("CALL", Field(j, 1, "int32").of)
               [] OTHER -> Branch("IGNORED", 0)

\* What Session sends: Join, HearbeatController, ProcessCallMessage.
SessionHello(realm)         == <<TypeOf["HELLO"], realm>>
SessionPing                 == <<TypeOf["PING"], EmptyObject>>
SessionResult(id, result)   == <<TypeOf["RESULT"], id, result>>
SessionError(id, text)      == <<TypeOf["ERROR"], TypeOf["CALL"], id, text, EmptyObject>>
=============================================================================
