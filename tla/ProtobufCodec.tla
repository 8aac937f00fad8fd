---------------------------- MODULE ProtobufCodec ----------------------------
(***************************************************************************)
(* How the API types are written to bytes and read back (the functions that *)
(* the generated.pb.go of both versions share).  A codec c gives, of each  *)
(* message, the fields of its struct and what its Marshal, Size and        *)
(* Unmarshal make of them:                                                 *)
(*   [struct, marshal, order, size, unmarshal].                            *)
(* A string is a sequence of bytes, a []byte an optional one; a double is  *)
(* its eight bytes; a message of another package is its own encoding.      *)
(***************************************************************************)
EXTENDS Integers, Sequences, SequencesExt

\* Fields: a value, a pointer, a slice, a map with strings as keys.
One(t) == <<"one", t>>
Opt(t) == <<"opt", t>>
Rep(t) == <<"rep", t>>
MapTo(t) == <<"map", t>>

\* Keys: the number of a field and how its value is laid out.
Varint(n) == 8 * n
Fixed64(n) == 8 * n + 1
Delimited(n) == 8 * n + 2

Bytes == {"string", "bytes", "external"}

RECURSIVE Zero(_, _)
Zero(c, t) ==
  CASE t = "bool" -> FALSE
    [] t = "int" -> 0
    [] t = "double" -> <<0, 0, 0, 0, 0, 0, 0, 0>>
    [] t \in Bytes -> <<>>
    [] OTHER -> [f \in DOMAIN c.struct[t] |->
                   IF c.struct[t][f][1] = "one" THEN Zero(c, c.struct[t][f][2]) ELSE <<>>]

-----------------------------------------------------------------------------
(* Numbers, seven bits a byte.  Those here have 28 bits; a negative one is *)
(* extended to 64 by its sign.                                             *)

IntBits == 28

RECURSIVE EncodeVarint(_)
EncodeVarint(v) ==
  IF v \in 0 .. 127 THEN <<v>> ELSE <<128 + (v % 128)>> \o EncodeVarint(v \div 128)

EncodeInt(v) ==
  IF v >= 0 THEN EncodeVarint(v)
  ELSE [i \in 1 .. 10 |-> IF i = 10 THEN 1
                          ELSE IF i > 4 THEN 255 ELSE 128 + ((v \div 128^(i - 1)) % 128)]

RECURSIVE Sov(_)
Sov(v) == IF v < 0 THEN 10 ELSE IF v < 128 THEN 1 ELSE 1 + Sov(v \div 128)

-----------------------------------------------------------------------------
(* Writing.                                                                *)

\* The fields of a message in the order of their bytes.
RECURSIVE InOrder(_)
InOrder(keys) ==
  IF DOMAIN keys = {} THEN <<>>
  ELSE LET f == CHOOSE x \in DOMAIN keys : \A y \in DOMAIN keys : keys[x] <= keys[y]
       IN <<f>> \o InOrder([g \in DOMAIN keys \ {f} |-> keys[g]])

\* Keys of maps are written in their order, which is that of their bytes.
RECURSIVE Precedes(_, _)
Precedes(s, t) ==
  IF s = <<>> \/ t = <<>> THEN t # <<>>
  ELSE s[1] < t[1] \/ (s[1] = t[1] /\ Precedes(Tail(s), Tail(t)))

RECURSIVE KeysInOrder(_)
KeysInOrder(K) ==
  IF K = {} THEN <<>>
  ELSE LET first == CHOOSE k \in K : \A l \in K \ {k} : Precedes(k, l)
       IN <<first>> \o KeysInOrder(K \ {first})

\* The values of a field that are written, one after the other.
Occurrences(kind, v) ==
  CASE kind = "one" -> <<v>>
    [] kind = "map" -> LET keys == KeysInOrder(DOMAIN v)
                       IN [i \in DOMAIN keys |-> <<keys[i], v[keys[i]]>>]
    [] OTHER -> v

Prefixed(b) == EncodeVarint(Len(b)) \o b

RECURSIVE Written(_, _, _)

WrittenValue(c, t, v) ==
  CASE t = "bool" -> <<IF v THEN 1 ELSE 0>>
    [] t = "int" -> EncodeInt(v)
    [] t = "double" -> v
    [] t \in Bytes -> Prefixed(v)
    [] OTHER -> Prefixed(Written(c, t, v))

WrittenEntry(c, t, entry) ==
  Prefixed( EncodeVarint(Delimited(1)) \o Prefixed(entry[1])
              \o EncodeVarint(Delimited(2)) \o WrittenValue(c, t, entry[2]) )

WrittenField(c, key, type, v) ==
  LET values == Occurrences(type[1], v)
  IN FlattenSeq([ i \in DOMAIN values |->
       EncodeVarint(key) \o IF type[1] = "map" THEN WrittenEntry(c, type[2], values[i])
                            ELSE WrittenValue(c, type[2], values[i]) ])

\* MarshalToSizedBuffer, which writes from the last field to the first.
Written(c, m, v) ==
  LET fields == c.order[m]
  IN FlattenSeq([i \in DOMAIN fields |->
       WrittenField(c, c.marshal[m][fields[i]], c.struct[m][fields[i]], v[fields[i]])])

RECURSIVE Size(_, _, _), Sum(_)

Sum(q) == IF q = <<>> THEN 0 ELSE Head(q) + Sum(Tail(q))

SizePrefixed(l) == l + Sov(l)

SizeValue(c, t, v) ==
  CASE t = "bool" -> 1
    [] t = "int" -> Sov(v)
    [] t = "double" -> 8
    [] t \in Bytes -> SizePrefixed(Len(v))
    [] OTHER -> SizePrefixed(Size(c, t, v))

\* As if the length of an entry of a map took no room.
SizeEntryUnprefixed(c, t, entry) ==
  1 + SizePrefixed(Len(entry[1])) + 1 + SizeValue(c, t, entry[2])

SizeEntry(c, t, entry) ==
  SizePrefixed(1 + SizePrefixed(Len(entry[1])) + 1 + SizeValue(c, t, entry[2]))

SizeField(c, tagSize, type, v) ==
  LET values == Occurrences(type[1], v)
  IN Sum([ i \in DOMAIN values |->
       tagSize + IF type[1] = "map" THEN SizeEntry(c, type[2], values[i])
                 ELSE SizeValue(c, type[2], values[i]) ])

Size(c, m, v) ==
  LET fields == c.order[m]
  IN Sum([ i \in DOMAIN fields |->
       SizeField(c, c.size[m][fields[i]], c.struct[m][fields[i]], v[fields[i]]) ])

\* The buffer has the size computed beforehand and is filled from its end; what
\* is returned are its first bytes.
Panic == <<-1>>

Marshal(c, m, v) ==
  LET written == Written(c, m, v)
      size == Size(c, m, v)
  IN IF Len(written) > size THEN Panic
     ELSE SubSeq([i \in 1 .. size - Len(written) |-> 0] \o written, 1, Len(written))

-----------------------------------------------------------------------------
(* Reading.  A result is a value and where the next one begins, or an error. *)

Ok(v, i) == [err |-> "", v |-> v, i |-> i]
Err(e) == [err |-> e]

Then(r, F(_)) == IF r.err # "" THEN r ELSE F(r)

RECURSIVE Bits(_, _, _)
Bits(b, i, j) == IF i > j THEN 0 ELSE (b[i] % 128) + 128 * Bits(b, i + 1, j)

ReadVarint(b, i) ==
  LET last == IF i + 9 < Len(b) THEN i + 9 ELSE Len(b)
      ends == {j \in i .. last : b[j] < 128}
      j == CHOOSE x \in ends : \A y \in ends : x <= y
      low == Bits(b, i, IF j < i + 3 THEN j ELSE i + 3)
  IN CASE ends # {} -> Ok(IF j = i + 9 /\ b[j] % 2 = 1 THEN low - 2^IntBits ELSE low, j + 1)
       [] ends = {} /\ i + 9 <= Len(b) -> Err("IntOverflow")
       [] OTHER -> Err("UnexpectedEOF")

ReadFixed(b, i, n) ==
  IF i + n - 1 > Len(b) THEN Err("UnexpectedEOF") ELSE Ok(SubSeq(b, i, i + n - 1), i + n)

ReadDelimited(b, i) ==
  Then(ReadVarint(b, i), LAMBDA n :
    IF n.v < 0 THEN Err("InvalidLength") ELSE ReadFixed(b, n.i, n.v))

\* skipGenerated: a field whose number is unknown, and groups with all they hold.
RECURSIVE Skip(_, _, _)
Skip(b, i, depth) ==
  Then(ReadVarint(b, i), LAMBDA key :
    LET type == key.v % 8
        inside == CASE type = 3 -> depth + 1 [] type = 4 -> depth - 1 [] OTHER -> depth
        length == ReadVarint(b, key.i)
        after == CASE type = 0 -> length
                   [] type = 1 -> Ok(<<>>, key.i + 8)
                   [] type = 2 -> Then(length, LAMBDA n :
                        IF n.v < 0 THEN Err("InvalidLength") ELSE Ok(<<>>, n.i + n.v))
                   [] type \in {3, 4} -> Ok(<<>>, key.i)
                   [] type = 5 -> Ok(<<>>, key.i + 4)
                   [] OTHER -> Err("IllegalWireType")
    IN IF inside < 0 THEN Err("UnexpectedEndOfGroup")
       ELSE Then(after, LAMBDA r : IF inside = 0 THEN r ELSE Skip(b, r.i, inside)))

RECURSIVE Read(_, _, _, _, _), ReadEntry(_, _, _, _, _)

\* A value that is read into another: fields of messages are merged.
ReadInto(c, t, old, b, i) ==
  CASE t = "bool" -> Then(ReadVarint(b, i), LAMBDA r : Ok(r.v # 0, r.i))
    [] t = "int" -> ReadVarint(b, i)
    [] t = "double" -> ReadFixed(b, i, 8)
    [] t \in {"string", "bytes"} -> ReadDelimited(b, i)
    [] t = "external" -> Then(ReadDelimited(b, i), LAMBDA r : Ok(old \o r.v, r.i))
    [] OTHER -> Then(ReadDelimited(b, i), LAMBDA r :
                  Then(Read(c, t, old, r.v, 1), LAMBDA x : Ok(x.v, r.i)))

\* The entry of a map, up to post; numbers are read without regard to post.
ReadEntry(c, t, entry, b, at) ==
  LET i == at[1] post == at[2]
  IN IF i >= post THEN Ok(entry, post)
     ELSE Then(ReadVarint(b, i), LAMBDA key :
       CASE key.v \div 8 = 1 -> Then(ReadDelimited(b, key.i), LAMBDA r :
              ReadEntry(c, t, <<r.v, entry[2]>>, b, <<r.i, post>>))
         [] key.v \div 8 = 2 -> Then(ReadInto(c, t, Zero(c, t), b, key.i), LAMBDA r :
              ReadEntry(c, t, <<entry[1], r.v>>, b, <<r.i, post>>))
         [] OTHER -> Then(Skip(b, i, 0), LAMBDA r :
              IF r.i > post THEN Err("UnexpectedEOF") ELSE ReadEntry(c, t, entry, b, <<r.i, post>>)))

ReadField(c, type, old, b, i) ==
  LET t == type[2]
  IN CASE type[1] = "one" -> ReadInto(c, t, old, b, i)
       [] type[1] = "opt" ->
            Then(ReadInto(c, t, IF old = <<>> THEN Zero(c, t) ELSE old[1], b, i),
                 LAMBDA r : Ok(<<r.v>>, r.i))
       [] type[1] = "rep" ->
            Then(ReadInto(c, t, Zero(c, t), b, i), LAMBDA r : Ok(Append(old, r.v), r.i))
       [] OTHER ->
            Then(ReadVarint(b, i), LAMBDA n :
              IF n.v < 0 THEN Err("InvalidLength")
              ELSE IF n.i + n.v - 1 > Len(b) THEN Err("UnexpectedEOF")
              ELSE Then(ReadEntry(c, t, <<(<<>>), Zero(c, t)>>, b, <<n.i, n.i + n.v>>), LAMBDA r :
                Ok([k \in (DOMAIN old) \cup {r.v[1]} |-> IF k = r.v[1] THEN r.v[2] ELSE old[k]], r.i)))

\* The loop of Unmarshal.
Read(c, m, v, b, i) ==
  IF i > Len(b) THEN IF i = Len(b) + 1 THEN Ok(v, i) ELSE Err("UnexpectedEOF")
  ELSE Then(ReadVarint(b, i), LAMBDA key :
    LET number == key.v \div 8
        keys == c.unmarshal[m]
        fields == {f \in DOMAIN keys : keys[f] \div 8 = number}
    IN CASE key.v % 8 = 4 -> Err("EndGroup")
         [] key.v % 8 # 4 /\ number <= 0 -> Err("IllegalTag")
         [] key.v % 8 # 4 /\ number > 0 /\ fields = {} ->
              Then(Skip(b, i, 0), LAMBDA r :
                IF r.i > Len(b) + 1 THEN Err("UnexpectedEOF") ELSE Read(c, m, v, b, r.i))
         [] OTHER -> LET f == CHOOSE x \in fields : TRUE
                     IN IF keys[f] # key.v THEN Err("WrongWireType")
                        ELSE Then(ReadField(c, c.struct[m][f], v[f], b, key.i), LAMBDA r :
                               Read(c, m, [v EXCEPT ![f] = r.v], b, r.i)))

Unmarshal(c, m, b) ==
  Then(Read(c, m, Zero(c, m), b, 1), LAMBDA r : [err |-> "", v |-> r.v])

=============================================================================
