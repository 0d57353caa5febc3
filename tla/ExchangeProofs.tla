---------------------------- MODULE ExchangeProofs ---------------------------
(***************************************************************************)
(* Proofs about Exchange, for any strings, objects and width of integers.  *)
(***************************************************************************)
EXTENDS Exchange, SequenceTheorems, TLAPS

\* Division with remainder, for numbers up to one modulus away.
LEMMA Remainder ==
  ASSUME NEW m \in Nat, m > 0, NEW a \in Int
  PROVE  /\ a \in 0 .. m - 1 => a % m = a
         /\ a \in -m .. -1 => a % m = a + m
         /\ a \in m .. 2 * m - 1 => a % m = a - m
<1>1. a \in 0 .. m - 1 => a % m = a
  BY SMTT(20)
<1>2. a \in -m .. -1 => a % m = a + m
  BY SMTT(20)
<1>3. a \in m .. 2 * m - 1 => a % m = a - m
  BY SMTT(20)
<1>4. QED
  BY <1>1, <1>2, <1>3

\* Numbers of 32 bits survive both readers.
LEMMA Widths ==
  /\ \A n \in Int32 : n \in Int /\ ToInt32(n) = n /\ ToInt32(ToUInt32(n)) = n
                     /\ (ToUInt32(n) = 0 <=> n = 0)
<1> SUFFICES ASSUME NEW n \in Int32
             PROVE  n \in Int /\ ToInt32(n) = n /\ ToInt32(ToUInt32(n)) = n
                     /\ (ToUInt32(n) = 0 <=> n = 0)
  OBVIOUS
<1>1. Half \in Nat /\ Half > 21 /\ n \in Int /\ n >= -Half /\ n < Half
  BY ProtocolConstants DEF Int32
<1> DEFINE m == 2 * Half
<1>2. m \in Nat /\ m > 0
  BY <1>1
<1>3. ToInt32(n) = n
  <2>1. n + Half \in 0 .. m - 1 /\ n + Half \in Int
    BY <1>1
  <2> HIDE DEF m
  <2>2. (n + Half) % m = n + Half
    BY <1>2, <2>1, Remainder
  <2>3. QED
    BY <1>1, <2>2 DEF ToInt32, m
<1>4. CASE n >= 0
  <2>1. n \in 0 .. m - 1
    BY <1>1, <1>4
  <2> HIDE DEF m
  <2>2. n % m = n
    BY <1>1, <1>2, <2>1, Remainder
  <2>3. QED
    BY <1>1, <1>3, <2>2 DEF ToUInt32, m
<1>5. CASE n < 0
  <2>1. n \in -m .. -1
    BY <1>1, <1>5
  <2>2. n + m + Half \in m .. 2 * m - 1 /\ n + m + Half \in Int
    BY <1>1, <1>5
  <2> HIDE DEF m
  <2>3. n % m = n + m
    BY <1>1, <1>2, <2>1, Remainder
  <2>4. (n + m + Half) % m = n + Half
    BY <1>1, <1>2, <2>2, Remainder
  <2>5. ToUInt32(n) = n + m
    BY <2>3 DEF ToUInt32, m
  <2>6. ToInt32(n + m) = n
    BY <1>1, <2>4 DEF ToInt32, m
  <2>7. n + m # 0
    BY <1>1 DEF m
  <2>8. QED
    BY <1>1, <1>3, <1>5, <2>5, <2>6, <2>7
<1>6. QED
  BY <1>1, <1>4, <1>5

----------------------------------------------------------------------------
(* Values and messages.                                                    *)

\* The three outcomes of reading a field differ.
LEMMA Kinds ==
  /\ Throws.is = "throws" /\ Undefined.is = "undefined"
  /\ \A v : Value(v).is = "value" /\ Value(v).of = v /\ Value(v) # Throws
BY DEF Throws, Undefined, Value

\* The conversion of a value that has the type of its member.
LEMMA Conversions ==
  /\ \A v \in Int32  : As("int32", v) = Value(v)
  /\ \A v \in Strings : As("string", v) = Value(v)
  /\ \A v \in Details : As("details", v) = Value(IF v = Null THEN EmptyObject ELSE v)
  /\ \A v \in Int32 : As("uint32", v) = Value(ToUInt32(v))
BY Widths DEF As

\* The members that a class has, and what they may be.
Members == [string |-> Strings, int32 |-> Int32, details |-> Details]

\* Message types are numbers of 32 bits.
LEMMA TagsFit ==
  /\ \A k \in DOMAIN Layout : Tag(k) \in Int32
  /\ \A t \in MessageTypes : t \in Int32
BY ProtocolConstants DEF Layout, Tag, TypeOf, MessageTypes, Int32

\* A message has a kind of Layout, and its members have the types of the layout.
LEMMA MessageShape ==
  ASSUME NEW m \in Messages
  PROVE  /\ m = [kind |-> m.kind, fields |-> m.fields]
         /\ m.kind \in DOMAIN Layout
         /\ Len(m.fields) \in Nat \ {0} /\ m.fields \in Seq(Json)
         /\ DOMAIN m.fields = 1 .. Len(m.fields)
         /\ DOMAIN Layout[m.kind] = 1 .. Len(m.fields)
         /\ \A i \in 1 .. Len(m.fields) :
              /\ Layout[m.kind][i] \in DOMAIN Members
              /\ m.fields[i] \in Members[Layout[m.kind][i]]
<1> USE DEF Message, Layout, Members, Json
<1>1. \A n \in Int32 : n \in Int
  BY Widths
<1>2. CASE \E r \in Strings, d \in Details : m = HelloMessage(r, d)
  BY <1>2 DEF HelloMessage
<1>3. CASE \E n \in Int32, d \in Details : m = WelcomeMessage(n, d)
  BY <1>1, <1>3 DEF WelcomeMessage
<1>4. CASE \E r \in Strings, d \in Details : m = AbortMessage(r, d)
  BY <1>4 DEF AbortMessage
<1>5. CASE \E d \in Details : m = PingMessage(d)
  BY <1>5 DEF PingMessage
<1>6. CASE \E d \in Details : m = PongMessage(d)
  BY <1>6 DEF PongMessage
<1>7. CASE \E t \in MessageTypes, n \in Int32, e \in Strings, d \in Details :
             m = ErrorMessage(t, n, e, d)
  BY <1>1, <1>7, TagsFit DEF ErrorMessage
<1>8. QED
  BY <1>2, <1>3, <1>4, <1>5, <1>6, <1>7 DEF Messages

\* Each member is read back, and null details become an empty object.
LEMMA MemberRead ==
  ASSUME NEW m \in Messages, NEW i \in 1 .. Len(m.fields)
  PROVE  As(Layout[m.kind][i], m.fields[i])
           = Value(IF m.fields[i] = Null THEN EmptyObject ELSE m.fields[i])
<1>1. Layout[m.kind][i] \in {"string", "int32", "details"}
      /\ m.fields[i] \in Members[Layout[m.kind][i]]
  BY MessageShape DEF Members
<1>2. \A v \in Int32 \cup Strings : v # Null
  BY ProtocolConstants, Widths
<1>3. CASE Layout[m.kind][i] = "string"
  BY <1>1, <1>2, <1>3, Conversions DEF Members
<1>4. CASE Layout[m.kind][i] = "int32"
  BY <1>1, <1>2, <1>4, Conversions DEF Members
<1>5. CASE Layout[m.kind][i] = "details"
  BY <1>1, <1>5, Conversions DEF Members
<1>6. QED
  BY <1>1, <1>3, <1>4, <1>5

\* The array of a message.
LEMMA Encoded ==
  ASSUME NEW m \in Messages
  PROVE  /\ Encode(m) \in Seq(Json)
         /\ Len(Encode(m)) = Len(m.fields) + 1
         /\ Encode(m)[1] = Tag(m.kind)
         /\ \A i \in 1 .. Len(m.fields) : Encode(m)[i + 1] = m.fields[i]
<1>1. m.fields \in Seq(Json) /\ Tag(m.kind) \in Json
  BY MessageShape, TagsFit, Widths DEF Json
<1>2. QED
  BY <1>1 DEF Encode

----------------------------------------------------------------------------
(* Reading an array.                                                       *)

\* a is what is left of b.
Prefix(a, b) ==
  /\ a \in Seq(Json) /\ Len(a) <= Len(b)
  /\ \A i \in 1 .. Len(a) : a[i] = b[i]

\* The record that Normal makes of a message.
LEMMA NormalShape ==
  ASSUME NEW m, m = [kind |-> m.kind, fields |-> m.fields]
  PROVE  Normal(m) = Message(m.kind, [i \in DOMAIN m.fields |->
           IF m.fields[i] = Null THEN EmptyObject ELSE m.fields[i]])
<1>1. \A k, g, f : [[kind |-> k, fields |-> g] EXCEPT !.fields = f]
                     = [kind |-> k, fields |-> f]
  OBVIOUS
<1>2. \A f : [m EXCEPT !.fields = f] = [kind |-> m.kind, fields |-> f]
  BY <1>1
<1>3. QED
  BY <1>2 DEF Normal, Message

\* A whole array is read as the message that was written.
LEMMA DecodesWhole ==
  ASSUME NEW m \in Messages, NEW j, Prefix(j, Encode(m)), Len(j) = Len(Encode(m))
  PROVE  Decode(m.kind, j) = Value(Normal(m))
<1> DEFINE layout == Layout[m.kind]
           n      == Len(m.fields)
           bad    == {i \in DOMAIN layout :
                       i + 1 \notin DOMAIN j \/ As(layout[i], j[i + 1]) = Throws}
<1>1. n \in Nat /\ DOMAIN layout = 1 .. n /\ DOMAIN m.fields = 1 .. n
  BY MessageShape
<1>2. DOMAIN j = 1 .. n + 1
  BY Encoded DEF Prefix
<1>3. ASSUME NEW i \in 1 .. n
      PROVE  /\ i + 1 \in DOMAIN j
             /\ As(layout[i], j[i + 1])
                  = Value(IF m.fields[i] = Null THEN EmptyObject ELSE m.fields[i])
  <2>1. i + 1 \in DOMAIN j
    BY <1>1, <1>2
  <2>2. j[i + 1] = m.fields[i]
    BY <1>1, <1>2, <2>1, Encoded DEF Prefix
  <2>3. QED
    BY <2>1, <2>2, MemberRead
<1>4. bad = {}
  BY <1>1, <1>3, Kinds
<1>5. [i \in DOMAIN layout |-> As(layout[i], j[i + 1]).of]
        = [i \in DOMAIN m.fields |->
             IF m.fields[i] = Null THEN EmptyObject ELSE m.fields[i]]
  BY <1>1, <1>3, Kinds
<1>6. Decode(m.kind, j)
        = Value(Message(m.kind, [i \in DOMAIN layout |-> As(layout[i], j[i + 1]).of]))
  BY <1>4 DEF Decode
<1>7. QED
  BY <1>5, <1>6, MessageShape, NormalShape

----------------------------------------------------------------------------
(* Reading details.                                                        *)

\* The object of the details with the keys ks.
Holds(j, d, ks) ==
  /\ ks \subseteq 1 .. 4
  /\ DOMAIN j = {DetailKeys[i] : i \in ks}
  /\ \A i \in ks : j[DetailKeys[i]] = d[i]

\* The keys of the details differ.
LEMMA KeysDiffer ==
  \A i, k \in 1 .. 4 : DetailKeys[i] = DetailKeys[k] => i = k
BY DEF DetailKeys

\* Details have four members, none of them null, which are read as they are.
LEMMA DetailsShape ==
  ASSUME NEW m \in AllDetails
  PROVE  /\ m = [kind |-> "DETAILS", fields |-> m.fields]
         /\ DOMAIN m.fields = 1 .. 4
         /\ \A i \in 1 .. 4 : m.fields[i] # Null /\ As(DetailTypes[i], m.fields[i])
                                                      = Value(m.fields[i])
<1>1. PICK session \in Times, ping \in Times, pong \in Times, topic \in Strings :
        m = WelcomeDetails(<<session, ping, pong, topic>>)
  BY DEF AllDetails
<1>2. /\ session \in Int32 /\ ping \in Int32 /\ pong \in Int32
      /\ \A v \in Int32 \cup Strings : v # Null
  BY ProtocolConstants, Widths DEF Int32, Times
<1>3. /\ m.kind = "DETAILS" /\ m.fields = <<session, ping, pong, topic>>
      /\ m = [kind |-> "DETAILS", fields |-> m.fields]
  BY <1>1 DEF WelcomeDetails, Message
<1>4. /\ DetailTypes[1] = "int32" /\ DetailTypes[2] = "int32"
      /\ DetailTypes[3] = "int32" /\ DetailTypes[4] = "string"
  BY DEF DetailTypes
<1>5. \A i \in 1 .. 4 : m.fields[i] # Null /\ As(DetailTypes[i], m.fields[i])
                                                = Value(m.fields[i])
  BY <1>2, <1>3, <1>4, Conversions
<1>6. QED
  BY <1>3, <1>5

\* to_json writes all keys.
LEMMA DetailsEncoded ==
  ASSUME NEW d
  PROVE  Holds(EncodeDetails(d), d, 1 .. 4)
<1>1. \A i \in 1 .. 4 : (CHOOSE k \in 1 .. 4 : DetailKeys[k] = DetailKeys[i]) = i
  BY KeysDiffer
<1>2. QED
  BY <1>1 DEF Holds, EncodeDetails

\* The details are read as they were written, and only when no key is missing.
LEMMA DetailsDecoded ==
  ASSUME NEW m \in AllDetails, NEW j, NEW ks, Holds(j, m.fields, ks)
  PROVE  /\ ks = 1 .. 4 => DecodeDetails(j) = Value(Normal(m))
         /\ ks # 1 .. 4 => DecodeDetails(j) = Throws
<1>1. ASSUME NEW i \in 1 .. 4
      PROVE  DetailAt(j, i) = IF i \in ks THEN Value(m.fields[i]) ELSE Throws
  <2>1. CASE i \in ks
    <3>1. DetailKeys[i] \in DOMAIN j /\ j[DetailKeys[i]] = m.fields[i]
      BY <2>1 DEF Holds
    <3>2. QED
      BY <2>1, <3>1, DetailsShape DEF DetailAt
  <2>2. CASE i \notin ks
    <3>1. DetailKeys[i] \notin DOMAIN j
      BY <2>2, KeysDiffer DEF Holds
    <3>2. QED
      BY <2>2, <3>1 DEF DetailAt
  <2>3. QED
    BY <2>1, <2>2
<1>2. ASSUME ks = 1 .. 4 PROVE DecodeDetails(j) = Value(Normal(m))
  <2>1. \A i \in 1 .. 4 : DetailAt(j, i) # Throws /\ DetailAt(j, i).of = m.fields[i]
    BY <1>1, <1>2, Kinds
  <2>2. DecodeDetails(j) = Value(WelcomeDetails([i \in 1 .. 4 |-> DetailAt(j, i).of]))
    BY <2>1 DEF DecodeDetails
  <2>3. [i \in 1 .. 4 |-> DetailAt(j, i).of]
          = [i \in DOMAIN m.fields |->
               IF m.fields[i] = Null THEN EmptyObject ELSE m.fields[i]]
    BY <2>1, DetailsShape
  <2>4. Normal(m) = Message(m.kind, [i \in DOMAIN m.fields |->
           IF m.fields[i] = Null THEN EmptyObject ELSE m.fields[i]])
    BY DetailsShape, NormalShape
  <2>5. m.kind = "DETAILS"
    BY DetailsShape
  <2>6. QED
    BY <2>2, <2>3, <2>4, <2>5 DEF WelcomeDetails
<1>3. ASSUME ks # 1 .. 4 PROVE DecodeDetails(j) = Throws
  <2>1. PICK i \in 1 .. 4 : i \notin ks
    BY <1>3 DEF Holds
  <2>2. QED
    BY <1>1, <2>1 DEF DecodeDetails
<1>4. QED
  BY <1>2, <1>3

----------------------------------------------------------------------------
(* Session.                                                                *)

\* Session takes a WELCOME and an ABORT with two fields or more for what they are.
LEMMA AnswersTaken ==
  ASSUME NEW m \in Messages, NEW j, Prefix(j, Encode(m)), Len(j) >= 2
  PROVE  /\ m.kind = "WELCOME" =>
              /\ m.fields[1] \in Int32
              /\ OnMessage(j) = [branch |-> "WELCOME", number |-> ToUInt32(m.fields[1])]
         /\ m.kind = "ABORT" => OnMessage(j).branch = "ABORT"
<1>1. /\ DOMAIN j = 1 .. Len(j) /\ Len(j) \in Nat
      /\ j[1] = Tag(m.kind) /\ j[2] = m.fields[1] /\ Len(m.fields) \in Nat \ {0}
  <2>1. /\ Len(m.fields) \in Nat \ {0} /\ 1 \in 1 .. Len(m.fields)
        /\ Encode(m)[1] = Tag(m.kind) /\ Encode(m)[1 + 1] = m.fields[1]
    BY Encoded, MessageShape
  <2>2. /\ DOMAIN j = 1 .. Len(j) /\ Len(j) \in Nat
        /\ 1 \in 1 .. Len(j) /\ 2 \in 1 .. Len(j)
    BY DEF Prefix
  <2>3. j[1] = Encode(m)[1] /\ j[2] = Encode(m)[2]
    BY <2>2 DEF Prefix
  <2>4. QED
    BY <2>1, <2>2, <2>3
<1>2. Tag(m.kind) \in Int32
  BY MessageShape, TagsFit
<1>3. Field(j, 0, "int32") = Value(Tag(m.kind))
  BY <1>1, <1>2, Conversions DEF Field
<1>4. ~(Len(j) < 1) /\ Field(j, 0, "int32") # Throws /\ Field(j, 0, "int32").of = Tag(m.kind)
  BY <1>1, <1>3, Kinds
<1>5. 1 \in 1 .. Len(m.fields)
  BY <1>1
<1>6. CASE m.kind = "WELCOME"
  <2>1. Tag(m.kind) = 2
    BY <1>6 DEF Tag, TypeOf
  <2>2. m.fields[1] \in Int32
    <3>1. Layout[m.kind][1] = "int32"
      BY <1>6 DEF Layout
    <3>2. m.fields[1] \in Members[Layout[m.kind][1]]
      BY <1>5, MessageShape
    <3>3. QED
      BY <3>1, <3>2 DEF Members
  <2>3. Field(j, 1, "uint32") = Value(ToUInt32(m.fields[1]))
    BY <1>1, <2>2, Conversions DEF Field
  <2>4. Field(j, 1, "uint32") # Throws /\ Field(j, 1, "uint32").of = ToUInt32(m.fields[1])
    BY <2>3, Kinds
  <2>5. OnMessage(j) = [branch |-> "WELCOME", number |-> ToUInt32(m.fields[1])]
    BY <1>4, <2>1, <2>4 DEF OnMessage, TypeOf
  <2>6. QED
    BY <1>6, <2>2, <2>5
<1>7. CASE m.kind = "ABORT"
  <2>1. Tag(m.kind) = 3
    BY <1>7 DEF Tag, TypeOf
  <2>2. m.fields[1] \in Strings
    <3>1. Layout[m.kind][1] = "string"
      BY <1>7 DEF Layout
    <3>2. m.fields[1] \in Members[Layout[m.kind][1]]
      BY <1>5, MessageShape
    <3>3. QED
      BY <3>1, <3>2 DEF Members
  <2>3. Field(j, 1, "string") # Throws
    BY <1>1, <2>2, Conversions, Kinds DEF Field
  <2>4. OnMessage(j).branch = "ABORT"
    BY <1>4, <2>1, <2>3 DEF OnMessage, TypeOf
  <2>5. QED
    BY <1>7, <2>4
<1>8. QED
  BY <1>6, <1>7

----------------------------------------------------------------------------
(* The exchange.                                                           *)

\* Before it is read an array is what is left of the array of sent; Session's HELLO
\* lacks a field from the start.
ArrayInv ==
  /\ sent \in Messages
  /\ Prefix(array, Encode(sent))
  /\ whole => \/ Len(array) = Len(Encode(sent))
              \/ writer = "Session" /\ sent.kind = "HELLO"
  /\ ~whole => Len(array) < Len(Encode(sent))
  /\ seen # Nothing => typed = Decode(sent.kind, array) /\ seen = OnMessage(array)

\* The same of the details and their keys.
DetailsInv ==
  /\ sent \in AllDetails
  /\ \E ks : Holds(array, sent.fields, ks) /\ (whole <=> ks = 1 .. 4)
  /\ seen # Nothing => typed = DecodeDetails(array)

ExchangeInv ==
  /\ writer \in {"class", "Session", "details"}
  /\ IF writer = "details" THEN DetailsInv ELSE ArrayInv

\* What Session writes is what the classes write, but for the length of HELLO.
LEMMA SessionWrites ==
  /\ \A r \in Strings : /\ HelloMessage(r, EmptyObject) \in Messages
                        /\ Prefix(SessionHello(r), Encode(HelloMessage(r, EmptyObject)))
                        /\ HelloMessage(r, EmptyObject).kind = "HELLO"
  /\ PingMessage(EmptyObject) \in Messages
  /\ SessionPing = Encode(PingMessage(EmptyObject))
  /\ \A n \in Int32, e \in Strings :
       LET m == ErrorMessage(TypeOf["CALL"], n, e, EmptyObject)
       IN  m \in Messages /\ SessionError(n, e) = Encode(m)
<1>1. EmptyObject \in Details
  BY ProtocolConstants DEF Details
<1>2. ASSUME NEW r \in Strings
      PROVE  /\ HelloMessage(r, EmptyObject) \in Messages
             /\ Prefix(SessionHello(r), Encode(HelloMessage(r, EmptyObject)))
             /\ HelloMessage(r, EmptyObject).kind = "HELLO"
  <2>1. HelloMessage(r, EmptyObject) \in Messages
    BY <1>1 DEF Messages
  <2> DEFINE e == Encode(HelloMessage(r, EmptyObject))
  <2>2. /\ HelloMessage(r, EmptyObject).kind = "HELLO"
        /\ HelloMessage(r, EmptyObject).fields = <<r, EmptyObject>>
    BY DEF HelloMessage, Message
  <2>3. Tag("HELLO") = 1
    BY DEF Tag, TypeOf
  <2>4. Len(e) = 3 /\ e[1] = 1 /\ e[2] = r
    <3> DEFINE m == HelloMessage(r, EmptyObject)
    <3>1. m \in Messages /\ Len(m.fields) = 2 /\ m.fields[1] = r /\ Tag(m.kind) = 1
      BY <2>1, <2>2, <2>3
    <3> HIDE DEF m
    <3>2. Len(Encode(m)) = 2 + 1 /\ Encode(m)[1] = 1
      BY <3>1, Encoded
    <3>3. 1 \in 1 .. Len(m.fields)
      BY <3>1
    <3>4. Encode(m)[1 + 1] = r
      BY <3>1, <3>3, Encoded
    <3>5. QED
      BY <3>2, <3>4 DEF m
  <2>5. SessionHello(r) = <<1, r>>
    BY DEF SessionHello, TypeOf
  <2>6. SessionHello(r) \in Seq(Json) /\ Len(SessionHello(r)) = 2
    BY <2>5 DEF Json
  <2> HIDE DEF e
  <2>7. \A i \in 1 .. 2 : SessionHello(r)[i] = e[i]
    BY <2>4, <2>5
  <2>8. Prefix(SessionHello(r), e)
    BY <2>4, <2>6, <2>7 DEF Prefix
  <2>9. QED
    BY <2>1, <2>2, <2>8 DEF e
<1>3. PingMessage(EmptyObject) \in Messages
  BY <1>1 DEF Messages
<1>4. SessionPing = Encode(PingMessage(EmptyObject))
  BY DEF SessionPing, PingMessage, Message, Encode, Tag, TypeOf
<1>5. ASSUME NEW n \in Int32, NEW e \in Strings
      PROVE  LET m == ErrorMessage(TypeOf["CALL"], n, e, EmptyObject)
             IN  m \in Messages /\ SessionError(n, e) = Encode(m)
  <2>1. TypeOf["CALL"] \in MessageTypes
    BY DEF MessageTypes, TypeOf
  <2>2. ErrorMessage(TypeOf["CALL"], n, e, EmptyObject) \in Messages
    BY <1>1, <2>1 DEF Messages
  <2>3. SessionError(n, e) = Encode(ErrorMessage(TypeOf["CALL"], n, e, EmptyObject))
    BY DEF SessionError, ErrorMessage, Message, Encode, Tag, TypeOf
  <2>4. QED
    BY <2>2, <2>3
<1>6. QED
  BY <1>2, <1>3, <1>4, <1>5

\* The inductive invariant, initially and in each step.
LEMMA ExchangeInit == Init => ExchangeInv
<1> SUFFICES ASSUME Init PROVE ExchangeInv
  OBVIOUS
<1>1. whole = TRUE /\ seen = Nothing
  BY DEF Init
<1>2. ASSUME sent \in Messages, array = Encode(sent), writer # "details"
      PROVE  ArrayInv
  BY <1>1, <1>2, Encoded DEF ArrayInv, Prefix
<1>3. CASE writer = "class" /\ sent \in Messages /\ array = Encode(sent)
  BY <1>2, <1>3 DEF ExchangeInv
<1>4. CASE writer = "Session"
  <2>1. CASE \E r \in Strings : sent = HelloMessage(r, EmptyObject)
                                 /\ array = SessionHello(r)
    <3>1. sent \in Messages /\ Prefix(array, Encode(sent)) /\ sent.kind = "HELLO"
      BY <2>1, SessionWrites
    <3>2. QED
      BY <1>1, <1>4, <3>1 DEF ArrayInv, ExchangeInv
  <2>2. CASE sent = PingMessage(EmptyObject) /\ array = SessionPing
    BY <1>2, <1>4, <2>2, SessionWrites DEF ExchangeInv
  <2>3. CASE \E n \in Int32, e \in Strings :
               /\ sent = ErrorMessage(TypeOf["CALL"], n, e, EmptyObject)
               /\ array = SessionError(n, e)
    BY <1>2, <1>4, <2>3, SessionWrites DEF ExchangeInv
  <2>4. QED
    BY <1>4, <2>1, <2>2, <2>3 DEF Init
<1>5. CASE writer = "details" /\ sent \in AllDetails /\ array = EncodeDetails(sent.fields)
  BY <1>1, <1>5, DetailsEncoded DEF ExchangeInv, DetailsInv
<1>6. QED
  BY <1>3, <1>4, <1>5 DEF Init

\* An array without its last element.
LEMMA Shortened ==
  ASSUME NEW S, NEW q \in Seq(S), q # <<>>
  PROVE  LET r == SubSeq(q, 1, Len(q) - 1)
         IN  /\ r \in Seq(S) /\ Len(r) = Len(q) - 1
             /\ \A i \in 1 .. Len(r) : r[i] = q[i] /\ i \in 1 .. Len(q)
<1> DEFINE n == Len(q) - 1
           r == SubSeq(q, 1, n)
<1>1. n \in Nat /\ Len(q) = n + 1 /\ \A i \in 1 .. n + 1 : q[i] \in S
  OBVIOUS
<1> HIDE DEF n
<1>2. /\ r \in Seq(S)
      /\ Len(r) = IF 1 <= n THEN n - 1 + 1 ELSE 0
      /\ \A i \in 1 .. n - 1 + 1 : r[i] = q[1 + i - 1]
  <2>1. \A i \in 1 .. n : q[i] \in S
    BY <1>1
  <2>2. n \in Int /\ 1 \in Int
    BY <1>1
  <2>3. QED
    BY <2>1, <2>2, SubSeqProperties
<1> HIDE DEF r
<1>3. Len(r) = n
  BY <1>1, <1>2
<1>4. \A i \in 1 .. n : i \in 1 .. n - 1 + 1 /\ 1 + i - 1 = i /\ i \in 1 .. Len(q)
  BY <1>1
<1>5. r \in Seq(S) /\ Len(r) = n /\ \A i \in 1 .. n : r[i] = q[i] /\ i \in 1 .. Len(q)
  BY <1>2, <1>3, <1>4
<1>6. QED
  BY <1>5 DEF r, n

LEMMA CutStep ==
  ASSUME ExchangeInv, Cut
  PROVE  ExchangeInv'
<1>1. /\ writer' = writer /\ sent' = sent /\ whole' = FALSE /\ seen' = Nothing
      /\ array # <<>> /\ array' = SubSeq(array, 1, Len(array) - 1)
      /\ writer \in {"class", "Session"} /\ ArrayInv
  BY DEF Cut, ExchangeInv
<1>2. array \in Seq(Json) /\ Len(array) <= Len(Encode(sent)) /\ Len(array) \in Nat \ {0}
  BY <1>1 DEF ArrayInv, Prefix
<1>3. /\ array' \in Seq(Json) /\ Len(array') = Len(array) - 1
      /\ \A i \in 1 .. Len(array') : array'[i] = array[i] /\ i \in 1 .. Len(array)
  BY <1>1, <1>2, Shortened
<1>4. Len(Encode(sent)) \in Nat
  BY <1>1, Encoded DEF ArrayInv
<1>5. Prefix(array', Encode(sent)) /\ Len(array') < Len(Encode(sent))
  BY <1>1, <1>2, <1>3, <1>4 DEF ArrayInv, Prefix
<1>6. ArrayInv'
  BY <1>1, <1>5 DEF ArrayInv
<1>7. QED
  BY <1>1, <1>6 DEF ExchangeInv

LEMMA ReadStep ==
  ASSUME ExchangeInv, Read \/ ReadDetails
  PROVE  ExchangeInv'
BY DEF ExchangeInv, Read, ReadDetails, ArrayInv, DetailsInv

LEMMA ExchangeAlways == Spec => []ExchangeInv
<1>1. ASSUME ExchangeInv, UNCHANGED vars PROVE ExchangeInv'
  BY <1>1 DEF vars, ExchangeInv, ArrayInv, DetailsInv
<1>2. ASSUME ExchangeInv, [Next]_vars PROVE ExchangeInv'
  BY <1>1, <1>2, CutStep, ReadStep DEF Next
<1>3. QED
  BY <1>2, ExchangeInit, PTL DEF Spec

\* What a class or Session writes a class reads as it was (RoundTrip), for any strings,
\* any objects and integers of any width.
THEOREM WholeIsRead == Spec => []RoundTrip
<1>1. ASSUME ExchangeInv PROVE RoundTrip
  <2>1. CASE writer = "details"
    BY <1>1, <2>1, DetailsDecoded DEF ExchangeInv, DetailsInv, RoundTrip
  <2>2. CASE writer # "details"
    BY <1>1, <2>2, DecodesWhole DEF ExchangeInv, ArrayInv, RoundTrip
  <2>3. QED
    BY <2>1, <2>2
<1>2. QED
  BY <1>1, ExchangeAlways, PTL

\* Session takes WELCOME and ABORT for what they are and reads the id that was
\* written, whatever the width of integers (SessionReadsAnswers).
THEOREM AnswersAreRead == Spec => []SessionReadsAnswers
<1>1. ASSUME ExchangeInv PROVE SessionReadsAnswers
  <2>1. CASE writer = "details"
    BY <1>1, <2>1, DetailsShape DEF ExchangeInv, DetailsInv, SessionReadsAnswers
  <2>2. CASE writer # "details"
    <3>1. SUFFICES ASSUME seen # Nothing, Len(array) >= 2
                   PROVE  /\ sent.kind = "WELCOME" =>
                               /\ seen.branch = "WELCOME"
                               /\ ToInt32(seen.number) = sent.fields[1]
                               /\ seen.number = 0 <=> sent.fields[1] = 0
                          /\ sent.kind = "ABORT" => seen.branch = "ABORT"
      BY DEF SessionReadsAnswers
    <3>2. /\ sent \in Messages /\ Prefix(array, Encode(sent)) /\ seen = OnMessage(array)
      BY <1>1, <2>2, <3>1 DEF ExchangeInv, ArrayInv
    <3>3. CASE sent.kind = "WELCOME"
      <4>1. /\ sent.fields[1] \in Int32
            /\ seen = [branch |-> "WELCOME", number |-> ToUInt32(sent.fields[1])]
        BY <3>1, <3>2, <3>3, AnswersTaken
      <4>2. seen.branch = "WELCOME" /\ seen.number = ToUInt32(sent.fields[1])
        BY <4>1
      <4>3. QED
        BY <3>3, <4>1, <4>2, Widths
    <3>4. CASE sent.kind = "ABORT"
      BY <3>1, <3>2, <3>4, AnswersTaken
    <3>5. QED
      BY <3>3, <3>4
  <2>3. QED
    BY <2>1, <2>2
<1>2. QED
  BY <1>1, ExchangeAlways, PTL
=============================================================================
