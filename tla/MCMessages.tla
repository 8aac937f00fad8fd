----------------------------- MODULE MCMessages -----------------------------
(***************************************************************************)
(* Values of the messages of both versions of the API, for TLC: of each     *)
(* message those that differ from its zero value in one field, and one that *)
(* differs in all.                                                         *)
(***************************************************************************)
EXTENDS ProtobufCodec

V1 == INSTANCE ProtobufV1
V1beta1 == INSTANCE ProtobufV1beta1

CodecOf(api) == IF api = "v1" THEN V1!Codec ELSE V1beta1!Codec

Long == [i \in 1 .. 130 |-> 120]

\* Depth bounds the messages inside of messages.
RECURSIVE ValuesOf(_, _, _), FullOf(_, _, _)

FieldValues(c, type, depth) ==
  LET values == ValuesOf(c, type[2], depth)
      full == FullOf(c, type[2], depth)
  IN CASE type[1] = "one" -> values
       [] type[1] = "opt" -> {<<>>} \cup {<<v>> : v \in values}
       [] type[1] = "rep" -> {<<>>} \cup {<<v>> : v \in values} \cup {<<v, full>> : v \in values}
       [] OTHER -> {<<>>} \cup {[k \in {<<98>>} |-> v] : v \in values}
                     \cup {[k \in {<<>>, <<98>>, <<98, 97>>, <<97>>} |-> full]}

ValuesOf(c, t, depth) ==
  CASE t = "bool" -> BOOLEAN
    [] t = "int" -> {0, 1, 127, 128, 300, 2^IntBits \div 4, -1, -200}
    [] t = "double" -> {Zero(c, t), <<0, 0, 0, 0, 0, 0, 240, 191>>}
    [] t \in Bytes -> {<<>>, <<97>>, Long}
    [] OTHER -> {Zero(c, t), FullOf(c, t, depth)}

FullOf(c, t, depth) ==
  CASE t = "bool" -> TRUE
    [] t = "int" -> 300
    [] t = "double" -> <<1, 2, 3, 4, 5, 6, 7, 8>>
    [] t \in Bytes -> <<97, 98>>
    [] OTHER ->
         [f \in DOMAIN c.struct[t] |->
            LET type == c.struct[t][f]
                scalar == type[2] \notin DOMAIN c.struct
            IN IF depth = 0 /\ ~ scalar THEN IF type[1] = "one" THEN Zero(c, type[2]) ELSE <<>>
               ELSE LET v == FullOf(c, type[2], depth - 1)
                    IN CASE type[1] = "one" -> v
                         [] type[1] = "map" -> [k \in {<<97>>} |-> v]
                         [] OTHER -> <<v>>]

ValuesOfField(c, m, f) ==
  {[Zero(c, m) EXCEPT ![f] = v] : v \in FieldValues(c, c.struct[m][f], 0)}

\* The messages of an API, with each of their fields.
Messages(api) ==
  LET c == CodecOf(api)
  IN UNION {{<<api, m, f>> : f \in DOMAIN c.struct[m]} : m \in DOMAIN c.struct}

\* Fields that a later version may add: a number, bytes, a double, a float and a
\* group with a field inside.
Unknown ==
  {<<248, 127, 5>>, <<250, 127, 1, 97>>, <<249, 127, 1, 2, 3, 4, 5, 6, 7, 8>>, <<253, 127, 1, 2, 3, 4>>,
   <<251, 127, 250, 127, 1, 97, 252, 127>>}

\* A reader that does not know a field.
Without(c, m, f) ==
  [c EXCEPT !.unmarshal[m] = [g \in DOMAIN c.unmarshal[m] \ {f} |-> c.unmarshal[m][g]]]

\* What is written is as long as computed, and is read as what it was; by a reader
\* that does not know a field, as what it was in all other fields; and with
\* fields unknown to the reader before or after it.
FaithfulMessage(message) ==
  LET c == CodecOf(message[1])  m == message[2]  f == message[3]
      BytesOf(v) == Marshal(c, m, v)
      ReadAs(codec, b, v) == b # Panic /\ Unmarshal(codec, m, b) = [err |-> "", v |-> v]
      all == FullOf(c, m, 0)
      first == f = CHOOSE g \in DOMAIN c.struct[m] : TRUE
  IN /\ \A v \in ValuesOfField(c, m, f) \cup {all} \cup IF first THEN {FullOf(c, m, 1)} ELSE {} :
          ReadAs(c, BytesOf(v), v)
     /\ ReadAs(Without(c, m, f), BytesOf(all), [all EXCEPT ![f] = Zero(c, m)[f]])
     /\ first => \A u \in Unknown : ReadAs(c, u \o BytesOf(all), all) /\ ReadAs(c, BytesOf(all) \o u, all)

=============================================================================
