-------------------------- MODULE JsonBinaryReader --------------------------
(***************************************************************************)
(* nlohmann's binary_reader: from_cbor(), from_msgpack(), from_ubjson(),    *)
(* from_bjdata() and from_bson() as functions of the bytes.  c is what the *)
(* reader was constructed and called with: format and, for CBOR, tags, the *)
(* tag handler.  s are the bytes and i is where the next one is; a result  *)
(* holds what was read and where the rest begins, or an error: "eof" when  *)
(* more bytes may still make sense of what there is, else "bad".           *)
(*                                                                         *)
(* Left out: what a SAX consumer other than the one that builds values may *)
(* do; counts above 2^30, which are refused here.  A float from the digits *)
(* of a high-precision number is its digits.                               *)
(***************************************************************************)
EXTENDS JsonValues, JsonNumbers, JsonGrammar

Done(v, i) == [error |-> "", value |-> v, at |-> i]
Error(e) == [error |-> e, value |-> Null, at |-> 0]
Eof == Error("eof")
Bad == Error("bad")

\* An error ends everything; else F goes on with what was read.
Then(r, F(_, _)) == Bind(r, LAMBDA x : IF x.error # "" THEN x ELSE F(x.value, x.at))

NoByte == -1
ByteAt(s, i) == IF i <= Len(s) THEN s[i] ELSE NoByte

Unsigned(x) == [type |-> "unsigned", value |-> x]
Signed(x) == [type |-> "integer", value |-> x]
Float(x) == [type |-> "float", value |-> x]
Binary(bytes, subtype) == [type |-> "binary", value |-> bytes, subtype |-> subtype]
NoSubtype == <<>>

\* get_string() and get_binary(): a count and the bytes; size_t(-1) is no count.
AllOnes == [i \in 1..8 |-> 255]
Taken(s, i, n) == IF n > Len(s) - i + 1 THEN Eof ELSE Done(SubSeq(s, i, i + n - 1), i + n)

\* get_number() of some bytes: BSON and BJData are little endian.
IsLittle(c) == c.format \in {"bson", "bjdata"}
TakenNumber(c, s, i, width) ==
  Then(Taken(s, i, width), LAMBDA bytes, j : Done(IF IsLittle(c) THEN Reverse(bytes) ELSE bytes, j))

ReadUnsigned(c, s, i, width) ==
  Then(TakenNumber(c, s, i, width), LAMBDA bytes, j : Done(Unsigned(ZeroExtended(bytes)), j))
ReadSigned(c, s, i, width) ==
  Then(TakenNumber(c, s, i, width), LAMBDA bytes, j : Done(Signed(SignExtended(bytes)), j))
ReadFloat(c, s, i, width) ==
  Then(TakenNumber(c, s, i, width), LAMBDA bytes, j :
    Done(Float(CASE width = 2 -> DoubleOfHalf(bytes)
                 [] width = 4 -> DoubleOfFloat(bytes)
                 [] width = 8 -> DoubleOf(bytes)), j))

\* A length of some bytes and so many bytes.
TakenCounted(c, s, i, width) ==
  Then(TakenNumber(c, s, i, width), LAMBDA n, j : Taken(s, j, Small(ZeroExtended(n))))

RECURSIVE ReadValue(_, _, _), ReadElements(_, _, _, _, _), ReadMembers(_, _, _, _, _),
          Prefixed(_, _, _, _), CborChunks(_, _, _, _), CborChunkList(_, _, _, _),
          CborElements(_, _, _, _), CborMembers(_, _, _, _),
          UbjsonSize(_, _, _, _, _), UbjsonSizeType(_, _, _, _), UbjsonDimensions(_, _, _, _, _),
          UbjsonElements(_, _, _, _), UbjsonMembers(_, _, _, _),
          BsonElements(_, _, _, _), BsonMembers(_, _, _, _)

\* So many values, each with a first byte of its own or of one type.
Of(n) == [n |-> n, type |-> 0]

ArrayOf(r) == Then(r, LAMBDA elements, i : Done(Array(elements), i))
ObjectOf(r) == Then(r, LAMBDA members, i : Done(Object(members), i))

\* One value, with what follows it.
Appended(r, before, F(_, _)) == Then(r, LAMBDA v, i : F(Append(before, v), i))
Added(key, r, before, F(_, _)) == Then(r, LAMBDA v, i : F((key :> v) @@ before, i))

-----------------------------------------------------------------------------
(* CBOR.                                                                    *)

\* The number after a first byte p: in its lower five bits or in the bytes that follow.
CborNumber(c, s, i, p) ==
  IF p % 32 < 24 THEN Done(WordOf(p % 32), i)
  ELSE Then(TakenNumber(c, s, i, 2 ^ ((p % 32) - 24)), LAMBDA bytes, j : Done(ZeroExtended(bytes), j))
HasNumber(p) == p % 32 < 28
Indefinite(p) == p % 32 = 31

\* get_cbor_string() and get_cbor_binary(): bytes of a major type, at once or in chunks.
CborChunks(s, i, p, major) ==
  CASE p = NoByte -> Eof
    [] p \div 32 = major /\ HasNumber(p) ->
         Then(CborNumber([format |-> "cbor"], s, i, p), LAMBDA n, j : Taken(s, j, Small(n)))
    [] p \div 32 = major /\ Indefinite(p) -> CborChunkList(s, i, major, <<>>)
    [] OTHER -> Bad

CborChunkList(s, i, major, before) ==
  IF ByteAt(s, i) = 255 THEN Done(before, i + 1)
  ELSE Then(CborChunks(s, i + 1, ByteAt(s, i), major),
            LAMBDA chunk, j : CborChunkList(s, j, major, before \o chunk))

\* get_cbor_array() and get_cbor_object() of an indefinite length.
CborElements(c, s, i, before) ==
  IF ByteAt(s, i) = 255 THEN Done(before, i + 1)
  ELSE Appended(Prefixed(c, s, i + 1, ByteAt(s, i)), before, LAMBDA all, j : CborElements(c, s, j, all))

CborMembers(c, s, i, before) ==
  IF ByteAt(s, i) = 255 THEN Done(before, i + 1)
  ELSE Then(CborChunks(s, i + 1, ByteAt(s, i), 3), LAMBDA key, j :
         Added(key, ReadValue(c, s, j), before, LAMBDA all, k : CborMembers(c, s, k, all)))

\* A length of all ones is size_t(-1), which means an indefinite one.
CborArray(c, s, i, n) == ArrayOf(IF n = AllOnes THEN CborElements(c, s, i, <<>>)
                                 ELSE ReadElements(c, s, i, Of(Small(n)), <<>>))
CborObject(c, s, i, n) == ObjectOf(IF n = AllOnes THEN CborMembers(c, s, i, NoMembers)
                                   ELSE ReadMembers(c, s, i, Of(Small(n)), NoMembers))

\* A tag: refused, or skipped, or taken for the subtype of the binary that has to follow.
CborTag(c, s, i, p) ==
  LET tag == IF p \in 216..219 THEN CborNumber(c, s, i, p) ELSE Done(NoSubtype, i) IN
  CASE c.tags = "error" -> Bad
    [] c.tags = "ignore" \/ p \in 198..212 -> Then(tag, LAMBDA subtype, j : ReadValue(c, s, j))
    [] c.tags = "store" /\ p \in 216..219 ->
         Then(tag, LAMBDA subtype, j :
           Then(CborChunks(s, j + 1, ByteAt(s, j), 2), LAMBDA bytes, k : Done(Binary(bytes, subtype), k)))

CborInteger(c, s, i, p) ==
  Then(CborNumber(c, s, i, p), LAMBDA n, j : Done(IF p \div 32 = 0 THEN Unsigned(n) ELSE Signed(Complement(n)), j))

CborText(c, s, i, p) ==
  Then(CborChunks(s, i, p, p \div 32),
       LAMBDA bytes, j : Done(IF p \div 32 = 2 THEN Binary(bytes, NoSubtype) ELSE String(bytes), j))

CborContainer(c, s, i, p) ==
  Then(IF Indefinite(p) THEN Done(AllOnes, i) ELSE CborNumber(c, s, i, p),
       LAMBDA n, j : IF p \div 32 = 4 THEN CborArray(c, s, j, n) ELSE CborObject(c, s, j, n))

\* parse_cbor_internal() after its first byte p.
Cbor(c, s, i, p) ==
  LET major == p \div 32 IN
  CASE major \in {0, 1} /\ HasNumber(p) -> CborInteger(c, s, i, p)
    [] major \in {2, 3} /\ (HasNumber(p) \/ Indefinite(p)) -> CborText(c, s, i, p)
    [] major \in {4, 5} /\ (HasNumber(p) \/ Indefinite(p)) -> CborContainer(c, s, i, p)
    [] p \in (198..212) \cup (216..219) -> CborTag(c, s, i, p)
    [] p \in {244, 245} -> Done(Boolean(p = 245), i)
    [] p = 246 -> Done(Null, i)
    [] p \in 249..251 -> ReadFloat(c, s, i, 2 ^ (p - 248))
    [] OTHER -> Bad

-----------------------------------------------------------------------------
(* MessagePack.                                                             *)

MsgpackString(c, s, i, p) ==
  CASE p = NoByte -> Eof
    [] p \in 160..191 -> Taken(s, i, p % 32)
    [] p \in 217..219 -> TakenCounted(c, s, i, 2 ^ (p - 217))
    [] OTHER -> Bad

\* A subtype is a signed byte that is taken for an unsigned one.
MsgpackBinary(c, s, i, p) ==
  LET Extended(n, j) ==
        Then(Taken(s, j, 1), LAMBDA subtype, k :
          Then(Taken(s, k, n), LAMBDA bytes, l : Done(Binary(bytes, ZeroExtended(subtype)), l)))
  IN CASE p \in 196..198 -> Then(TakenCounted(c, s, i, 2 ^ (p - 196)),
                                 LAMBDA bytes, j : Done(Binary(bytes, NoSubtype), j))
       [] p \in 199..201 -> Then(TakenNumber(c, s, i, 2 ^ (p - 199)),
                                 LAMBDA n, j : Extended(Small(ZeroExtended(n)), j))
       [] p \in 212..216 -> Extended(2 ^ (p - 212), i)

MsgpackElements(c, s, i, n) == ArrayOf(ReadElements(c, s, i, Of(n), <<>>))
MsgpackMembers(c, s, i, n) == ObjectOf(ReadMembers(c, s, i, Of(n), NoMembers))

\* What is in the first byte itself: an integer or a count.
MsgpackFixed(c, s, i, p) ==
  CASE p \in 0..127 -> Done(Unsigned(WordOf(p)), i)
    [] p \in 128..143 -> MsgpackMembers(c, s, i, p % 16)
    [] p \in 144..159 -> MsgpackElements(c, s, i, p % 16)
    [] p \in 224..255 -> Done(Signed(SignExtended(<<p>>)), i)

MsgpackNumber(c, s, i, p) ==
  CASE p \in {202, 203} -> ReadFloat(c, s, i, 2 ^ (p - 200))
    [] p \in 204..207 -> ReadUnsigned(c, s, i, 2 ^ (p - 204))
    [] p \in 208..211 -> ReadSigned(c, s, i, 2 ^ (p - 208))

MsgpackCounted(c, s, i, p) ==
  Then(TakenNumber(c, s, i, IF p \in {220, 222} THEN 2 ELSE 4), LAMBDA n, j :
    IF p \in {220, 221} THEN MsgpackElements(c, s, j, Small(ZeroExtended(n)))
    ELSE MsgpackMembers(c, s, j, Small(ZeroExtended(n))))

\* parse_msgpack_internal() after its first byte p.
Msgpack(c, s, i, p) ==
  CASE p \in (0..159) \cup (224..255) -> MsgpackFixed(c, s, i, p)
    [] p \in (160..191) \cup (217..219) ->
         Then(MsgpackString(c, s, i, p), LAMBDA bytes, j : Done(String(bytes), j))
    [] p = 192 -> Done(Null, i)
    [] p \in {194, 195} -> Done(Boolean(p = 195), i)
    [] p \in (196..201) \cup (212..216) -> MsgpackBinary(c, s, i, p)
    [] p \in 202..211 -> MsgpackNumber(c, s, i, p)
    [] p \in 220..223 -> MsgpackCounted(c, s, i, p)
    [] OTHER -> Bad

-----------------------------------------------------------------------------
(* UBJSON and BJData.                                                       *)

\* The markers of integers and how many bytes follow.
SignedWidth == (105 :> 1) @@ (73 :> 2) @@ (108 :> 4) @@ (76 :> 8)
UnsignedWidth(c) ==
  (85 :> 1) @@ IF c.format = "bjdata" THEN (117 :> 2) @@ (109 :> 4) @@ (77 :> 8) ELSE <<>>
FloatWidth(c) == (100 :> 4) @@ (68 :> 8) @@ IF c.format = "bjdata" THEN (104 :> 2) ELSE <<>>

\* get_ignore_noop(): where the next byte is that is no N.
SkipNoop(s, i) == CHOOSE j \in i..(Len(s) + 1) : /\ ByteAt(s, j) # 78
                                                /\ \A k \in i..(j - 1) : s[k] = 78

\* get_ubjson_string() after the marker p of its length: a negative length is none at all.
UbjsonString(c, s, i, p) ==
  CASE p = NoByte -> Eof
    [] p \in DOMAIN UnsignedWidth(c) -> TakenCounted(c, s, i, UnsignedWidth(c)[p])
    [] p \in DOMAIN SignedWidth ->
         Then(ReadSigned(c, s, i, SignedWidth[p]), LAMBDA n, j :
           Taken(s, j, IF IsNegative(n.value) THEN 0 ELSE Small(n.value)))
    [] OTHER -> Bad

Size(n) == [n |-> n, dimensions |-> <<>>]
Unknown == -1

\* The product of the dimensions, or Huge.
Product(dimensions) == FoldLeft(LAMBDA n, d : IF n > Huge \div d THEN Huge ELSE n * d, 1, dimensions)

\* What the dimensions d mean, with which k - 1 bytes were read: an array of one row is a plain one.
SizeOf(d, k) ==
  IF Len(d) = 1 \/ (Len(d) = 2 /\ d[1] = 1) THEN Done(Size(Last(d)), k)
  ELSE IF d = <<>> \/ 0 \in ToSet(d) THEN Done(Size(0), k)
  ELSE IF Product(d) = Huge THEN Bad
  ELSE Done([n |-> Product(d), dimensions |-> d], k)

\* get_ubjson_size_value() after the marker p: a count or, in BJData but not within another,
\* the dimensions of an array.  A vector is a plain count.
UbjsonSize(c, s, i, p, inside) ==
  CASE p = NoByte -> Eof
    [] p \in DOMAIN UnsignedWidth(c) ->
         Then(ReadUnsigned(c, s, i, UnsignedWidth(c)[p]), LAMBDA n, j : Done(Size(Small(n.value)), j))
    [] p \in DOMAIN SignedWidth ->
         Then(ReadSigned(c, s, i, SignedWidth[p]), LAMBDA n, j :
           IF IsNegative(n.value) THEN Bad ELSE Done(Size(Small(n.value)), j))
    [] p = 91 /\ c.format = "bjdata" /\ ~inside ->
         Then(UbjsonSizeType(c, s, i, TRUE), LAMBDA t, j :
           Then(IF t.type = 78 /\ t.n # Unknown THEN Done(<<>>, j) ELSE UbjsonDimensions(c, s, j, t, <<>>),
                SizeOf))
    [] OTHER -> Bad

\* get_ubjson_ndarray_size(): as many as t says, or up to a closing bracket.  Without a count the
\* marker of a dimension was read, but a 0 is taken for no marker yet, and the next one is read.
UbjsonDimensions(c, s, i, t, before) ==
  LET marker == IF t.n = Unknown /\ ByteAt(s, i - 1) # 0 THEN i - 1 ELSE SkipNoop(s, i)
      Onward(after) == IF t.n = Unknown THEN SkipNoop(s, after) + 1 ELSE after
      Dimension == IF t.n # Unknown /\ t.type # 0 THEN UbjsonSize(c, s, i, t.type, TRUE)
                   ELSE UbjsonSize(c, s, marker + 1, ByteAt(s, marker), TRUE)
  IN IF Len(before) = t.n \/ (t.n = Unknown /\ ByteAt(s, i - 1) = 93) THEN Done(before, i)
     ELSE Then(Dimension, LAMBDA d, j : UbjsonDimensions(c, s, Onward(j), t, Append(before, d.n)))

\* Types that BJData has no optimized arrays of.
NotOptimized == {70, 72, 78, 83, 84, 90, 91, 123}

\* get_ubjson_size_type(): the type and count of an optimized container.  If it is none,
\* the byte after its bracket was read.
UbjsonSizeType(c, s, i, inside) ==
  LET first == SkipNoop(s, i)
      type == ByteAt(s, first + 1)
      hash == SkipNoop(s, first + 2)
      Sized(after) == LET m == SkipNoop(s, after) IN UbjsonSize(c, s, m + 1, ByteAt(s, m), FALSE)
  IN CASE ByteAt(s, first) = 36 ->
            IF c.format = "bjdata" /\ type \in NotOptimized THEN Bad
            ELSE IF type = NoByte \/ ByteAt(s, hash) = NoByte THEN Eof
            ELSE IF ByteAt(s, hash) # 35 THEN Bad
            ELSE Then(Sized(hash + 1), LAMBDA size, j :
                   IF size.dimensions # <<>> /\ inside THEN Bad
                   ELSE Done([n |-> size.n, type |-> type, dimensions |-> size.dimensions], j))
       [] ByteAt(s, first) = 35 ->
            Then(Sized(first + 1), LAMBDA size, j :
              IF size.dimensions # <<>> THEN Bad
              ELSE Done([n |-> size.n, type |-> 0, dimensions |-> <<>>], j))
       [] OTHER -> Done([n |-> Unknown, type |-> 0, dimensions |-> <<>>], first + 1)

\* Values and members up to a closing bracket; the byte before i was read.
UbjsonElements(c, s, i, before) ==
  IF ByteAt(s, i - 1) = 93 THEN Done(before, i)
  ELSE Appended(Prefixed(c, s, i, ByteAt(s, i - 1)), before,
                LAMBDA all, j : UbjsonElements(c, s, SkipNoop(s, j) + 1, all))

UbjsonMembers(c, s, i, before) ==
  IF ByteAt(s, i - 1) = 125 THEN Done(before, i)
  ELSE Then(UbjsonString(c, s, i, ByteAt(s, i - 1)), LAMBDA key, j :
         Added(key, ReadValue(c, s, j), before,
               LAMBDA all, k : UbjsonMembers(c, s, SkipNoop(s, k) + 1, all)))

\* The keys of an array with dimensions, and the names of its types: strings of one byte here.
ArraySize == <<1>>
ArrayType == <<2>>
ArrayData == <<3>>
BjdTypes == {67, 68, 73, 76, 77, 85, 100, 105, 108, 109, 117}

\* get_ubjson_array().
UbjsonArray(c, s, i) ==
  Then(UbjsonSizeType(c, s, i, FALSE), LAMBDA t, j :
    CASE t.dimensions # <<>> ->
           IF t.type \notin BjdTypes THEN Bad
           ELSE Then(ReadElements(c, s, j, [t EXCEPT !.type = IF @ = 67 THEN 85 ELSE @], <<>>), LAMBDA data, k :
                  Done(Object((ArraySize :> Array([d \in DOMAIN t.dimensions |-> Unsigned(WordOf(t.dimensions[d]))]))
                              @@ (ArrayType :> String(<<t.type>>)) @@ (ArrayData :> Array(data))), k))
      [] t.dimensions = <<>> /\ t.n = Unknown -> ArrayOf(UbjsonElements(c, s, j, <<>>))
      [] t.dimensions = <<>> /\ t.n # Unknown ->
           IF t.type = 78 THEN Done(Array(<<>>), j) ELSE ArrayOf(ReadElements(c, s, j, t, <<>>)))

\* get_ubjson_object().
UbjsonObject(c, s, i) ==
  Then(UbjsonSizeType(c, s, i, FALSE), LAMBDA t, j :
    CASE t.dimensions # <<>> -> Bad
      [] t.dimensions = <<>> /\ t.n = Unknown -> ObjectOf(UbjsonMembers(c, s, j, NoMembers))
      [] t.dimensions = <<>> /\ t.n # Unknown -> ObjectOf(ReadMembers(c, s, j, t, NoMembers)))

\* get_ubjson_high_precision_number(): the digits are given to the lexer, which skips a byte
\* order mark and blanks and ends at a zero byte.
Unblanked(s) ==
  LET solid == {i \in DOMAIN s : s[i] \notin Blank} IN
  SelectSeq([i \in DOMAIN s |-> IF \E j, k \in solid : j <= i /\ i <= k THEN s[i] ELSE NoByte],
            LAMBDA b : b # NoByte)
HighPrecision(bytes) ==
  LET ended == SelectInSeq(bytes, LAMBDA b : b = 0)
      chars == IF ended = 0 THEN bytes ELSE SubSeq(bytes, 1, ended - 1)
      digits == Unblanked(IF IsPrefix(<<239, 187, 191>>, chars) THEN SubSeq(chars, 4, Len(chars)) ELSE chars)
      negative == digits # <<>> /\ digits[1] = 45
      word == WordOfDigits(IF negative THEN Tail(digits) ELSE digits)
  IN IF ~IsNumber(digits) THEN Bad
     ELSE IF ~Integral(digits) \/ Len(word) > 8 THEN Done([type |-> "decimal", value |-> digits], 0)
     ELSE IF ~negative THEN Done(Unsigned(word), 0)
     ELSE IF IsNegative(word) /\ word # MinInteger THEN Done([type |-> "decimal", value |-> digits], 0)
     ELSE Done(Signed(Negated(word)), 0)

UbjsonNumeric(c, s, i, p) ==
  CASE p \in DOMAIN UnsignedWidth(c) -> ReadUnsigned(c, s, i, UnsignedWidth(c)[p])
    [] p \in DOMAIN SignedWidth -> ReadSigned(c, s, i, SignedWidth[p])
    [] p \in DOMAIN FloatWidth(c) -> ReadFloat(c, s, i, FloatWidth(c)[p])

\* get_ubjson_value() after its first byte p.
Ubjson(c, s, i, p) ==
  CASE p \in {84, 70} -> Done(Boolean(p = 84), i)
    [] p = 90 -> Done(Null, i)
    [] p \in DOMAIN UnsignedWidth(c) \cup DOMAIN SignedWidth \cup DOMAIN FloatWidth(c) -> UbjsonNumeric(c, s, i, p)
    [] p = 72 -> LET m == SkipNoop(s, i) IN
                 Then(UbjsonSize(c, s, m + 1, ByteAt(s, m), TRUE), LAMBDA size, j :
                   Then(Taken(s, j, size.n), LAMBDA bytes, k :
                     Then(HighPrecision(bytes), LAMBDA v, l : Done(v, k))))
    [] p = 67 -> Then(Taken(s, i, 1), LAMBDA byte, j : IF byte[1] > 127 THEN Bad ELSE Done(String(byte), j))
    [] p = 83 -> Then(UbjsonString(c, s, i + 1, ByteAt(s, i)), LAMBDA bytes, j : Done(String(bytes), j))
    [] p = 91 -> UbjsonArray(c, s, i)
    [] p = 123 -> UbjsonObject(c, s, i)
    [] OTHER -> Bad

-----------------------------------------------------------------------------
(* BSON.                                                                    *)

\* get_bson_cstr().
BsonKey(s, i) ==
  LET ends == {j \in i..Len(s) : s[j] = 0} IN
  IF ends = {} THEN Eof ELSE LET j == CHOOSE j \in ends : \A k \in ends : j <= k IN Done(SubSeq(s, i, j - 1), j + 1)

\* parse_bson_internal() and parse_bson_array(): the size is not looked at.
BsonObject(c, s, i) == ObjectOf(Then(Taken(s, i, 4), LAMBDA size, j : BsonMembers(c, s, j, NoMembers)))
BsonArray(c, s, i) == ArrayOf(Then(Taken(s, i, 4), LAMBDA size, j : BsonElements(c, s, j, <<>>)))

\* get_bson_string(): what ends it may be any byte.
BsonString(c, s, i) ==
  Then(ReadSigned(c, s, i, 4), LAMBDA n, j :
    IF IsNegative(n.value) \/ n.value = WordOf(0) THEN Bad
    ELSE Then(Taken(s, j, Small(n.value) - 1), LAMBDA bytes, k :
           Then(Taken(s, k, 1), LAMBDA end, l : Done(String(bytes), l))))

BsonBinary(c, s, i) ==
  Then(ReadSigned(c, s, i, 4), LAMBDA n, j :
    IF IsNegative(n.value) THEN Bad
    ELSE Then(Taken(s, j, 1), LAMBDA subtype, k :
           Then(Taken(s, k, Small(n.value)), LAMBDA bytes, l : Done(Binary(bytes, ZeroExtended(subtype)), l))))

\* parse_bson_element_internal(), with the type p.
Bson(c, s, i, p) ==
  CASE p = 1 -> ReadFloat(c, s, i, 8)
    [] p = 2 -> BsonString(c, s, i)
    [] p = 3 -> BsonObject(c, s, i)
    [] p = 4 -> BsonArray(c, s, i)
    [] p = 5 -> BsonBinary(c, s, i)
    [] p = 8 -> Then(Taken(s, i, 1), LAMBDA byte, j : Done(Boolean(byte # <<0>>), j))
    [] p = 10 -> Done(Null, i)
    [] p = 16 -> ReadSigned(c, s, i, 4)
    [] p = 18 -> ReadSigned(c, s, i, 8)
    [] OTHER -> Bad

\* parse_bson_element_list(): the keys of an array are not looked at.
BsonMembers(c, s, i, before) ==
  CASE ByteAt(s, i) = NoByte -> Eof
    [] ByteAt(s, i) = 0 -> Done(before, i + 1)
    [] OTHER -> Then(BsonKey(s, i + 1), LAMBDA key, j :
                  Added(key, Prefixed(c, s, j, s[i]), before, LAMBDA all, k : BsonMembers(c, s, k, all)))
BsonElements(c, s, i, before) ==
  CASE ByteAt(s, i) = NoByte -> Eof
    [] ByteAt(s, i) = 0 -> Done(before, i + 1)
    [] OTHER -> Then(BsonKey(s, i + 1), LAMBDA key, j :
                  Appended(Prefixed(c, s, j, s[i]), before, LAMBDA all, k : BsonElements(c, s, k, all)))

-----------------------------------------------------------------------------

\* A value whose first byte was read, or whose type is known.
Prefixed(c, s, i, p) ==
  CASE p = NoByte -> Eof
    [] p # NoByte /\ c.format = "cbor" -> Cbor(c, s, i, p)
    [] p # NoByte /\ c.format = "msgpack" -> Msgpack(c, s, i, p)
    [] p # NoByte /\ c.format \in {"ubjson", "bjdata"} -> Ubjson(c, s, i, p)
    [] p # NoByte /\ c.format = "bson" -> Bson(c, s, i, p)

SkipsNoop(c) == c.format \in {"ubjson", "bjdata"}

ReadValue(c, s, i) ==
  LET first == IF SkipsNoop(c) THEN SkipNoop(s, i) ELSE i IN
  IF c.format = "bson" THEN BsonObject(c, s, i) ELSE Prefixed(c, s, first + 1, ByteAt(s, first))

ReadKey(c, s, i) ==
  CASE c.format = "cbor" -> CborChunks(s, i + 1, ByteAt(s, i), 3)
    [] c.format = "msgpack" -> MsgpackString(c, s, i + 1, ByteAt(s, i))
    [] SkipsNoop(c) -> UbjsonString(c, s, i + 1, ByteAt(s, i))

\* So many elements or members.
Typed(c, s, i, t) == IF t.type = 0 THEN ReadValue(c, s, i) ELSE Prefixed(c, s, i, t.type)
ReadElements(c, s, i, t, before) ==
  IF t.n = Huge THEN Bad
  ELSE IF Len(before) = t.n THEN Done(before, i)
  ELSE Appended(Typed(c, s, i, t), before, LAMBDA all, j : ReadElements(c, s, j, t, all))

ReadMembers(c, s, i, t, before) ==
  IF t.n = Huge THEN Bad
  ELSE IF t.n = 0 THEN Done(before, i)
  ELSE Then(ReadKey(c, s, i), LAMBDA key, j :
         Added(key, Typed(c, s, j, t), before, LAMBDA all, k : ReadMembers(c, s, k, [t EXCEPT !.n = @ - 1], all)))

\* sax_parse(), which is strict: the value has to be all there is.
ReadAll(c, s) ==
  Then(ReadValue(c, s, 1), LAMBDA v, i :
    LET end == IF SkipsNoop(c) THEN SkipNoop(s, i) ELSE i IN
    IF end > Len(s) THEN Done(v, end) ELSE Bad)
=============================================================================
