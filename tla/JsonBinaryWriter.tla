-------------------------- MODULE JsonBinaryWriter --------------------------
(***************************************************************************)
(* nlohmann's binary_writer: to_cbor(), to_msgpack(), to_ubjson(),          *)
(* to_bjdata() and to_bson() as functions from a value to bytes.  o is what *)
(* the writer is called with: format and, for UBJSON and BJData, count and *)
(* type, which choose the optimized containers.                            *)
(*                                                                         *)
(* Left out: counts that need more than four bytes.                        *)
(*                                                                         *)
(* Definitions whose names end in Wrong are slips that the properties must *)
(* notice; nothing uses them.                                              *)
(***************************************************************************)
EXTENDS JsonBinaryReader

RECURSIVE WriteCbor(_), WriteMsgpack(_), WriteUbjson(_, _, _), BsonSize(_), WriteBson(_)

\* All that F makes of the elements of an array, or of the members of an object in order.
Elements(v, F(_)) == FlattenSeq([i \in DOMAIN v.value |-> F(v.value[i])])
Members(v, F(_, _)) ==
  LET keys == SortedKeys(v.value) IN FlattenSeq([i \in DOMAIN keys |-> F(keys[i], v.value[keys[i]])])
Count(v) == IF IsObject(v) THEN Cardinality(DOMAIN v.value) ELSE Len(v.value)

-----------------------------------------------------------------------------
(* CBOR and MessagePack.                                                    *)

\* The fewest of some numbers of bytes that hold x.
Width(x, widths, Fits(_, _)) == CHOOSE w \in widths : Fits(x, w) /\ \A u \in widths : Fits(x, u) => w <= u
Exponent2(w) == CASE w = 1 -> 0 [] w = 2 -> 1 [] w = 4 -> 2 [] w = 8 -> 3

\* The first byte and the number that goes with it.
CborHead(major, x) ==
  LET w == Width(x, {1, 2, 4, 8}, FitsUnsigned) IN
  IF w = 1 /\ x[8] < 24 THEN <<32 * major + x[8]>>
  ELSE <<32 * major + 24 + Exponent2(w)>> \o LastBytes(x, w)

\* write_compact_float(): a float if nothing is lost.
CompactFloat(prefix, x) == IF IsFloat(x) THEN <<prefix>> \o FloatOf(x) ELSE <<prefix + 1>> \o x

WriteCborFloat(x) == IF IsNan(x) THEN <<249, 126, 0>>
                     ELSE IF IsInf(x) THEN <<249, 124 + 128 * SignOf(x), 0>>
                     ELSE CompactFloat(250, x)
WriteCborString(bytes) == CborHead(3, WordOf(Len(bytes))) \o bytes
WriteCborArray(v) == CborHead(4, WordOf(Count(v))) \o Elements(v, WriteCbor)
WriteCborBinary(v) ==
  LET w == Width(v.subtype, {1, 2, 4, 8}, FitsUnsigned) IN
  (IF v.subtype = NoSubtype THEN <<>> ELSE <<216 + Exponent2(w)>> \o LastBytes(v.subtype, w))
  \o CborHead(2, WordOf(Len(v.value))) \o v.value
WriteCborObject(v) ==
  CborHead(5, WordOf(Count(v))) \o Members(v, LAMBDA k, w : WriteCborString(k) \o WriteCbor(w))

WriteCbor(v) ==
  CASE v.type = "null" -> <<246>>
    [] v.type = "boolean" -> IF v.value THEN <<245>> ELSE <<244>>
    [] v.type = "integer" /\ IsNegative(v.value) -> CborHead(1, Complement(v.value))
    [] v.type = "integer" /\ ~IsNegative(v.value) -> CborHead(0, v.value)
    [] v.type = "unsigned" -> CborHead(0, v.value)
    [] v.type = "float" -> WriteCborFloat(v.value)
    [] v.type = "string" -> WriteCborString(v.value)
    [] v.type = "binary" -> WriteCborBinary(v)
    [] v.type = "array" -> WriteCborArray(v)
    [] v.type = "object" -> WriteCborObject(v)

\* A count in the first byte if it is below limit, else after the byte for so many bytes of it.
MsgpackCount(n, limit, short, long) ==
  IF n < limit THEN <<short + n>>
  ELSE LET w == Width(WordOf(n), DOMAIN long, FitsUnsigned) IN <<long[w]>> \o LastBytes(WordOf(n), w)

\* Binary of one of five lengths with a subtype needs no count.
FixedLength == {1, 2, 4, 8, 16}
MsgpackBinaryHead(v) ==
  LET n == Len(v.value) IN
  IF v.subtype = NoSubtype THEN MsgpackCount(n, 0, 0, (1 :> 196) @@ (2 :> 197) @@ (4 :> 198))
  ELSE (IF n \in FixedLength THEN <<212 + (IF n = 16 THEN 4 ELSE Exponent2(n))>>
        ELSE MsgpackCount(n, 0, 0, (1 :> 199) @@ (2 :> 200) @@ (4 :> 201)))
       \o LastBytes(v.subtype, 1)

WriteMsgpackInteger(v) ==
  LET negative == v.type = "integer" /\ IsNegative(v.value)
      w == IF negative THEN Width(v.value, {1, 2, 4, 8}, FitsSigned) ELSE Width(v.value, {1, 2, 4, 8}, FitsUnsigned)
  IN IF w = 1 /\ (IF negative THEN v.value[8] >= 224 ELSE v.value[8] < 128) THEN <<v.value[8]>>
     ELSE <<(IF negative THEN 208 ELSE 204) + Exponent2(w)>> \o LastBytes(v.value, w)
WriteMsgpackString(bytes) ==
  MsgpackCount(Len(bytes), 32, 160, (1 :> 217) @@ (2 :> 218) @@ (4 :> 219)) \o bytes
WriteMsgpackArray(v) ==
  MsgpackCount(Count(v), 16, 144, (2 :> 220) @@ (4 :> 221)) \o Elements(v, WriteMsgpack)
WriteMsgpackObject(v) ==
  MsgpackCount(Count(v), 16, 128, (2 :> 222) @@ (4 :> 223))
  \o Members(v, LAMBDA k, w : WriteMsgpackString(k) \o WriteMsgpack(w))

WriteMsgpack(v) ==
  CASE v.type = "null" -> <<192>>
    [] v.type = "boolean" -> IF v.value THEN <<195>> ELSE <<194>>
    [] v.type \in {"integer", "unsigned"} -> WriteMsgpackInteger(v)
    [] v.type = "float" -> CompactFloat(202, v.value)
    [] v.type = "string" -> WriteMsgpackString(v.value)
    [] v.type = "binary" -> MsgpackBinaryHead(v) \o v.value
    [] v.type = "array" -> WriteMsgpackArray(v)
    [] v.type = "object" -> WriteMsgpackObject(v)

-----------------------------------------------------------------------------
(* UBJSON and BJData.                                                       *)

Ordered(o, bytes) == IF o.format = "bjdata" THEN Reverse(bytes) ELSE bytes

\* The marker of an integer: 127 is an int8, 128 an uint8, and so on; H if it fits nowhere.
Marker(o, v) ==
  LET FitsInt(w) == FitsSigned(v.value, w) /\ (v.type = "unsigned" => ~IsNegative(v.value))
      FitsUint(w) == FitsUnsigned(v.value, w) /\ (v.type = "integer" => ~IsNegative(v.value))
  IN IF FitsInt(1) THEN 105
     ELSE IF FitsUint(1) THEN 85
     ELSE IF FitsInt(2) THEN 73
     ELSE IF o.format = "bjdata" /\ FitsUint(2) THEN 117
     ELSE IF FitsInt(4) THEN 108
     ELSE IF o.format = "bjdata" /\ FitsUint(4) THEN 109
     ELSE IF FitsInt(8) THEN 76
     ELSE IF o.format = "bjdata" THEN 77 ELSE 72
MarkerWidth == (105 :> 1) @@ (85 :> 1) @@ (73 :> 2) @@ (117 :> 2) @@ (108 :> 4) @@ (109 :> 4) @@ (76 :> 8) @@ (77 :> 8)

\* write_number_with_ubjson_prefix() without the prefix.
UbjsonPlain(o, v) == Ordered(o, LastBytes(v.value, MarkerWidth[Marker(o, v)]))
UbjsonCount(o, n) == LET v == Unsigned(WordOf(n)) IN <<Marker(o, v)>> \o UbjsonPlain(o, v)
UbjsonNumber(o, v) ==
  IF Marker(o, v) = 72 THEN UbjsonCount(o, Len(DigitsOf(v.value))) \o DigitsOf(v.value) ELSE UbjsonPlain(o, v)

\* ubjson_prefix().
Prefix(o, v) == CASE v.type = "null" -> 90
                  [] v.type = "boolean" -> IF v.value THEN 84 ELSE 70
                  [] v.type \in {"integer", "unsigned"} -> Marker(o, v)
                  [] v.type = "float" -> 68
                  [] v.type = "string" -> 83
                  [] v.type \in {"array", "binary"} -> 91
                  [] v.type = "object" -> 123

\* That the types BJData does not allow are left out of it is forgotten.
OneTypeWrong(o, v) ==
  LET prefixes == {Prefix(o, v.value[k]) : k \in DOMAIN v.value} IN
  IF o.type /\ Cardinality(prefixes) = 1 THEN prefixes ELSE {}

\* The one prefix of all that is in a container, if it may be left out there.
OneType(o, v) ==
  LET prefixes == {Prefix(o, v.value[k]) : k \in DOMAIN v.value} IN
  IF o.type /\ Cardinality(prefixes) = 1 /\ ~(o.format = "bjdata" /\ prefixes \subseteq NotOptimized)
  THEN prefixes ELSE {}
TypeHead(type) == FlattenSeq([i \in 1..Cardinality(type) |-> <<36>> \o SetToSeq(type)])
CountHead(o, n) == IF o.count THEN <<35>> \o UbjsonCount(o, n) ELSE <<>>
Closed(o, bracket) == IF o.count THEN <<>> ELSE <<bracket>>

\* write_bjdata_ndarray(): whether an object is written as an array with dimensions: if its
\* type is known and its data are as many as its dimensions say.
NdarrayKeys == {ArraySize, ArrayType, ArrayData}
IsNdarray(v) ==
  LET size == v.value[ArraySize]
      n == IF size.value = <<>> THEN 0 ELSE Product([d \in DOMAIN size.value |-> Small(size.value[d].value)])
  IN /\ DOMAIN v.value = NdarrayKeys
     /\ v.value[ArrayType].value \in {<<t>> : t \in BjdTypes}
     /\ Len(v.value[ArrayData].value) = n

NdarrayNumber(type, v) ==
  Reverse(CASE type \in DOMAIN MarkerWidth -> LastBytes(v.value, MarkerWidth[type])
            [] type = 67 -> LastBytes(v.value, 1)
            [] type = 100 -> FloatOf(v.value)
            [] type = 68 -> v.value)

WriteNdarray(o, v) ==
  LET type == v.value[ArrayType].value[1] IN
  <<91, 36, type, 35>> \o WriteUbjson(o, v.value[ArraySize], TRUE)
  \o Elements(v.value[ArrayData], LAMBDA w : NdarrayNumber(type, w))

\* Elements of one type have no prefix of their own.
Inner(o, v, w) == WriteUbjson(o, w, OneType(o, v) = {})

WriteUbjsonArray(o, v) ==
  TypeHead(OneType(o, v)) \o CountHead(o, Count(v)) \o Elements(v, LAMBDA w : Inner(o, v, w)) \o Closed(o, 93)

WriteUbjsonBinary(o, v) ==
  (IF o.type /\ v.value # <<>> THEN <<36, 85>> ELSE <<>>) \o CountHead(o, Len(v.value))
  \o Elements(v, LAMBDA b : IF o.type THEN <<b>> ELSE <<85, b>>) \o Closed(o, 93)

WriteUbjsonObject(o, v) ==
  TypeHead(OneType(o, v)) \o CountHead(o, Count(v))
  \o Members(v, LAMBDA k, w : UbjsonCount(o, Len(k)) \o k \o Inner(o, v, w)) \o Closed(o, 125)

\* write_ubjson(); prefix: whether it is written.
WriteUbjson(o, v, prefix) ==
  LET ndarray == v.type = "object" /\ o.format = "bjdata" /\ IsNdarray(v) IN
  (IF prefix /\ ~ndarray THEN <<Prefix(o, v)>> ELSE <<>>)
  \o CASE v.type \in {"null", "boolean"} -> <<>>
       [] v.type \in {"integer", "unsigned"} -> UbjsonNumber(o, v)
       [] v.type = "float" -> Ordered(o, v.value)
       [] v.type = "string" -> UbjsonCount(o, Len(v.value)) \o v.value
       [] v.type = "array" -> WriteUbjsonArray(o, v)
       [] v.type = "binary" -> WriteUbjsonBinary(o, v)
       [] v.type = "object" -> IF ndarray THEN WriteNdarray(o, v) ELSE WriteUbjsonObject(o, v)

-----------------------------------------------------------------------------
(* BSON.                                                                    *)

\* std::to_string() of the index of an element.
IndexKey(i) == DigitsOf(WordOf(i - 1))
Little(n) == Reverse(LastBytes(WordOf(n), 4))

IsInt32(v) == FitsSigned(v.value, 4) /\ (v.type = "unsigned" => ~IsNegative(v.value))

\* calc_bson_entry_header_size().
BsonHeaderSize(key) == 1 + Len(key) + 1

\* calc_bson_element_size() without the header, and calc_bson_object_size() and
\* calc_bson_array_size(): what is written in front of documents before they are.
BsonSize(v) ==
  CASE v.type = "null" -> 0
    [] v.type = "boolean" -> 1
    [] v.type = "float" -> 8
    [] v.type \in {"integer", "unsigned"} -> IF IsInt32(v) THEN 4 ELSE 8
    [] v.type \in {"string", "binary"} -> 4 + Len(v.value) + 1
    [] v.type = "array" ->
         4 + FoldLeft(LAMBDA n, i : n + BsonHeaderSize(IndexKey(i)) + BsonSize(v.value[i]),
                      0, [i \in DOMAIN v.value |-> i]) + 1
    [] v.type = "object" ->
         4 + FoldLeft(LAMBDA n, k : n + BsonHeaderSize(k) + BsonSize(v.value[k]), 0, SortedKeys(v.value)) + 1

BsonType(v) == CASE v.type = "float" -> 1
                 [] v.type = "string" -> 2
                 [] v.type = "object" -> 3
                 [] v.type = "array" -> 4
                 [] v.type = "binary" -> 5
                 [] v.type = "boolean" -> 8
                 [] v.type = "null" -> 10
                 [] v.type \in {"integer", "unsigned"} -> IF IsInt32(v) THEN 16 ELSE 18

\* write_bson_element().
BsonElement(key, v) == <<BsonType(v)>> \o key \o <<0>> \o WriteBson(v)

WriteBson(v) ==
  CASE v.type = "null" -> <<>>
    [] v.type = "boolean" -> IF v.value THEN <<1>> ELSE <<0>>
    [] v.type = "float" -> Reverse(v.value)
    [] v.type \in {"integer", "unsigned"} -> Reverse(LastBytes(v.value, BsonSize(v)))
    [] v.type = "string" -> Little(Len(v.value) + 1) \o v.value \o <<0>>
    [] v.type = "binary" ->
         Little(Len(v.value)) \o (IF v.subtype = NoSubtype THEN <<0>> ELSE LastBytes(v.subtype, 1)) \o v.value
    [] v.type = "array" ->
         Little(BsonSize(v))
         \o FlattenSeq([i \in DOMAIN v.value |-> BsonElement(IndexKey(i), v.value[i])]) \o <<0>>
    [] v.type = "object" -> Little(BsonSize(v)) \o Members(v, BsonElement) \o <<0>>

\* What to_bson() throws for below its top level: a key with a zero byte, an integer too large.
RECURSIVE BsonThrows(_)
BsonThrows(v) ==
  CASE v.type = "unsigned" -> IsNegative(v.value)
    [] v.type = "array" -> \E i \in DOMAIN v.value : BsonThrows(v.value[i])
    [] v.type = "object" -> \E k \in DOMAIN v.value : 0 \in ToSet(k) \/ BsonThrows(v.value[k])
    [] OTHER -> FALSE

-----------------------------------------------------------------------------

\* Whether to_cbor() and so on return at all, and what.
Writable(o, v) == o.format = "bson" => IsObject(v) /\ ~BsonThrows(v)
WriteAll(o, v) == CASE o.format = "cbor" -> WriteCbor(v)
                    [] o.format = "msgpack" -> WriteMsgpack(v)
                    [] o.format \in {"ubjson", "bjdata"} -> WriteUbjson(o, v, TRUE)
                    [] o.format = "bson" -> WriteBson(v)
=============================================================================
