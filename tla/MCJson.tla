------------------------------- MODULE MCJson -------------------------------
(***************************************************************************)
(* The units of nlohmann's json for TLC, one at a time: unit says which,   *)
(* and the others stay where they begin.                                   *)
(***************************************************************************)
EXTENDS JsonDumpProps, JsonBinaryProps, JsonDocumentProps

VARIABLE unit

-----------------------------------------------------------------------------
(* The lexer: kinds of input, each with the bytes that matter to one part.  *)

Input(b, c, n, t, k) == [bytes |-> b, comments |-> c, length |-> n, tokens |-> t, chars |-> k]
\* Strings, a byte of each class of UTF-8; escapes; numbers; blanks and comments; the byte order
\* mark and a literal.
MCInputs ==
  {Input({34, 31, 65, 128, 143, 144, 159, 160, 191, 193, 194, 224, 225, 237, 239, 240, 241, 244, 245},
         FALSE, 8, 1, 2),
   Input({34, 92, 117, 100, 56, 99, 48, 110}, FALSE, 15, 1, 1),
   Input({48, 49, 45, 43, 46, 101, 32, 44}, FALSE, 6, 2, 5),
   Input({10, 13, 47, 42, 0, 91, 49}, TRUE, 6, 2, 2),
   Input({239, 187, 191, 110, 117, 108, 91}, FALSE, 7, 2, 0)}

-----------------------------------------------------------------------------
(* The parser: what the callback rejects.                                   *)

MCRejections ==
  {{}, {Event("object_start")}, {Event("object_end")},
   {Event("array_start"), Scalar("true")}, {Event("array_end"), [type |-> "key", value |-> 1]}}

-----------------------------------------------------------------------------
(* The serializer: the numbers around each change of the count of digits.   *)

Powers == {10 ^ k : k \in 0..9}
MCIntegers == (-1100..1100) \cup {s * (p + d) : s \in {-1, 1}, p \in Powers, d \in {-1, 0, 1}}
              \cup {2147483647, -2147483647}

-----------------------------------------------------------------------------
(* The binary formats.                                                      *)

Source(f, t, begin, bytes, length) ==
  [reader |-> [format |-> f, tags |-> t], begin |-> begin, bytes |-> bytes, length |-> length]

\* For every format bytes of which there are all kinds of values; then the ones that need more
\* bytes: indefinite strings, optimized containers, numbers in digits, arrays of BJData, documents.
MCSources ==
  {Source("cbor", t, <<>>, {0, 24, 56, 65, 95, 97, 127, 129, 159, 161, 191, 198, 216, 245, 249, 255}, 3) : t \in {"error", "ignore", "store"}}
  \cup
  {Source("cbor", "store", <<>>, {95, 65, 159, 161, 191, 97, 127, 246, 255}, 5),
   Source("msgpack", "error", <<>>,
          {0, 129, 145, 161, 192, 196, 199, 204, 212, 217, 220, 255}, 4),
   Source("ubjson", "error", <<>>, {91, 93, 123, 125, 35, 36, 105, 85, 78, 84, 83, 67, 1}, 4),
   Source("ubjson", "error", <<91>>, {91, 93, 35, 36, 105, 78, 84, 1}, 6),
   Source("ubjson", "error", <<72, 105>>, {1, 2, 3, 45, 48, 49, 46}, 6),
   Source("ubjson", "error", <<123, 105, 1, 65>>, {84, 105, 1, 65, 125, 36, 35, 85}, 9),
   Source("bjdata", "error", <<91, 36, 85, 35, 91>>, {1, 2, 93, 78, 85}, 12),
   Source("bjdata", "error", <<91, 36, 85, 35, 91>>, {1, 93, 36, 35, 85}, 11),
   Source("bjdata", "error", <<91, 36, 85, 35, 91>>, {0, 1, 93, 78, 85}, 11),
   Source("bson", "error", <<0, 0, 0, 0>>, {0, 1, 2}, 12),
   Source("bson", "error", <<0, 0, 0, 0>>, {0, 1, 5}, 12),
   Source("bson", "error", <<0, 0, 0, 0, 3, 65, 0, 0, 0, 0, 0>>, {0, 10, 8, 65, 1}, 16),
   Source("bson", "error", <<0, 0, 0, 0>>, {0, 10, 8}, 11),
   Source("bson", "error", <<0, 0, 0, 0, 4, 65, 0, 0, 0, 0, 0>>, {0, 10, 8, 65, 1}, 16)}

MCWriters ==
  {[format |-> f, count |-> FALSE, type |-> FALSE] : f \in {"cbor", "msgpack", "ubjson", "bjdata", "bson"}}
  \cup {[format |-> f, count |-> TRUE, type |-> t] : f \in {"ubjson", "bjdata"}, t \in BOOLEAN}

\* Words around every bound of a width, and floats that are halves, floats and neither.
Bit(n) == [i \in 1..8 |-> IF i = 8 - (n \div 8) THEN 2 ^ (n % 8) ELSE 0]
Up(x) == Negated(Complement(x))
Down(x) == Complement(Negated(x))
Around(x) == {Down(x), x, Up(x)}
Naturals0 == {WordOf(n) : n \in {0, 1, 23, 24, 25, 31, 32}} \cup {AllOnes}
             \cup UNION {Around(Bit(n)) : n \in {7, 8, 15, 16, 31, 32, 63}}
Negatives == {Negated(WordOf(n)) : n \in {1, 24, 25, 31, 32, 33}} \cup {MinInteger, Up(MinInteger)}
             \cup UNION {Around(Negated(Bit(n))) : n \in {7, 8, 15, 16, 31, 32}}
FloatBytes ==
  {DoubleOfHalf(<<a, b>>) : a \in {0, 128, 60, 124, 252, 123, 1}, b \in {0, 1, 255}}
  \cup {DoubleOfFloat(<<a, b, 0, 1>>) : a \in {0, 127, 128}, b \in {0, 1, 127, 128}}
  \cup {<<63, 240, 0, 0, 0, 0, 0, 1>>, <<127, 239, 255, 255, 255, 255, 255, 255>>,
        <<0, 0, 0, 0, 0, 0, 0, 1>>, <<71, 239, 255, 255, 224, 0, 0, 1>>, NotANumber}

Copies(n, v) == [i \in 1..n |-> v]
Leaves == {Unsigned(x) : x \in Naturals0} \cup {Float(x) : x \in FloatBytes}
          \cup {Signed(x) : x \in Negatives \cup {WordOf(1), WordOf(128)}}
          \cup {Null, Boolean(TRUE), Boolean(FALSE)}
          \cup {String(Copies(n, 78)) : n \in {0, 1, 23, 24, 31, 32}}
          \cup {Binary(Copies(n, 90), s) : n \in {0, 3, 4, 16, 17}, s \in {NoSubtype, WordOf(0), WordOf(200)}}
Containers ==
  {Array(Copies(n, v)) : n \in {0, 1, 15, 16},
                         v \in {Null, Boolean(TRUE), Unsigned(WordOf(200)), String(<<65>>), Array(<<>>)}}
  \cup {Array(Copies(24, Null)), Object([k \in {<<1, i>> : i \in 1..24} |-> Null])}
  \cup {Object([k \in {<<1, i>> : i \in 1..n} |-> v]) : n \in {0, 1, 15, 16}, v \in {Null, Object(NoMembers)}}
  \cup {Object(<<65>> :> v) : v \in Leaves}
  \cup {Array(<<v, v>>) : v \in Leaves}
Nested ==
  {Array(<<Unsigned(WordOf(1)), Unsigned(WordOf(255)), Null>>),
   Object((<<65>> :> Array(Copies(12, Object(<<66>> :> Array(<<>>))))) @@ (<<>> :> String(<<0>>))),
   Array(<<Array(<<Null>>), Array(<<Boolean(TRUE)>>)>>), Object(<<0>> :> Null)}
MCSamples == Leaves \cup Containers \cup Nested \cup {String(Copies(n, 65)) : n \in {127, 128, 255, 256}}

-----------------------------------------------------------------------------
(* Documents.                                                               *)

KeyA == <<97>>
KeyB == <<126, 49>> \* "~1"
One == <<49>>
Three(type) == [type |-> type, value |-> 3]

MCTexts == {<<>>, <<97>>, <<47>>, <<47, 126>>, <<47, 126, 50>>}
           \cup {TextOf(<<t>>) : t \in {KeyA, KeyB, Dash, ZeroToken, One, <<48, 49>>, <<49, 51>>,
                                        <<49, 52>>, <<49, 97>>, <<43, 49>>}}
           \cup {TextOf(<<t, u>>) : t \in {KeyA, ZeroToken, Dash}, u \in {KeyB, Dash, ZeroToken, One}}
MCPointers == {TextOf(<<Dash>>), TextOf(<<KeyA, KeyB>>), <<47, 48, 49>>}
MCValues == {Null, Three("unsigned"), Array(<<>>), Object(NoMembers),
             Object(KeyA :> Object(KeyB :> Array(<<>>)))}

\* The operations; the last ones have something missing.
Op(name, path, more) == Object([op |-> String(name), path |-> String(path)] @@ more)
Origins == {TextOf(t) : t \in {<<>>, <<KeyA>>, <<ZeroToken>>, <<KeyA, ZeroToken>>}}
Places == Origins \cup {TextOf(<<t>>) : t \in {Dash, One}}
MCOperations ==
  {Op("remove", p, <<>>) : p \in Places}
  \cup {Op(o, p, [value |-> v]) : o \in {"add", "replace", "test"}, p \in Places,
                                  v \in {Three("unsigned"), Array(<<>>)}}
  \cup {Op(o, p, [from |-> String(f)]) : o \in {"move", "copy"}, p \in Places, f \in Origins}
  \cup {Op(o, <<>>, <<>>) : o \in {"add", "replace", "copy", "test", "other"}}
  \cup {Op("test", <<47, 48, 49>>, [value |-> Null]), Op("add", <<97>>, [value |-> Null]),
        Object([op |-> String("add"), path |-> Null]), Object([op |-> Null]), Null}

MCTargets ==
  MCValues
  \cup {Object(KeyA :> Null), Three("integer"), Three("float"), [type |-> "integer", value |-> -5], [type |-> "unsigned", value |-> 15],
        String(KeyA), Boolean(FALSE), Array(<<Null>>),
        Array(<<Three("unsigned"), Three("float"), Array(<<>>)>>),
        Array(<<Array(<<Three("unsigned")>>), Object(KeyA :> Three("unsigned"))>>),
        Object(KeyB :> Three("unsigned")),
        Object((KeyA :> Array(<<Null, Null, Null>>)) @@ (KeyB :> Object(KeyA :> Three("unsigned")))),
        Object((<<>> :> Null) @@ (Dash :> Three("unsigned"))
               @@ (ZeroToken :> Array(<<Object(<<47>> :> Null)>>)))}

-----------------------------------------------------------------------------
(* One unit at a time; what the others could begin with is not told apart.  *)

Some(S) == CHOOSE x \in S : TRUE

Init ==
  /\ unit \in {"lexer", "parser", "serializer", "binary", "document"}
  /\ InitLexer /\ InitParser /\ InitDump /\ InitBinary /\ InitDocument
  /\ unit # "lexer" => input = Some(MCInputs)
  /\ unit # "document" => ~ndebug
  /\ unit # "parser" => reject = {}
  /\ unit # "serializer" => error_handler = "strict" /\ ~ensure_ascii
  /\ IF unit = "binary" THEN stage = "read" => source = Some(MCSources)
     ELSE stage = "reading" /\ source = Some(MCSources)

Next ==
  \/ unit = "lexer" /\ NextLexer /\ UNCHANGED <<parser, dumper, binary, edited>>
  \/ unit = "parser" /\ NextParser /\ UNCHANGED <<lexer, dumper, binary, edited>>
  \/ unit = "serializer" /\ NextDump /\ UNCHANGED <<lexer, parser, binary, edited>>
  \/ unit = "binary" /\ NextBinary /\ UNCHANGED <<lexer, parser, dumper, edited>>
  \/ unit = "document" /\ NextDocument /\ UNCHANGED <<lexer, parser, dumper, binary>>

vars == <<unit, lexer, parser, dumper, binary, edited>>

Spec == Init /\ [][Next /\ UNCHANGED unit]_vars
=============================================================================
