--------------------------- MODULE JsonDumpProps ---------------------------
(***************************************************************************)
(* What the serializer writes is read as what it was given: strings and    *)
(* integers by the grammar of the lexer, values by the one of the parser.  *)
(***************************************************************************)
EXTENDS JsonDump, JsonLexerProps, JsonParserProps

\* u is the beginning of some character, or one.
BeginsCharacter(u) ==
  \E n \in 0..3 : \E e \in [1..n -> {128, 191}] : WellFormed(u \o e)

\* The characters of a string, each with the bytes it takes; a sequence of bytes that begins
\* a character but goes on as none does is one <<>>, and so is a byte that begins none.
RECURSIVE Characters(_)
Characters(s) ==
  IF s = <<>> THEN <<>>
  ELSE LET Part(n) == SubSeq(s, 1, n)
           whole == {n \in 1..4 : n <= Len(s) /\ WellFormed(Part(n))}
           begun == {n \in 1..4 : n <= Len(s) /\ BeginsCharacter(Part(n))}
           n == IF begun = {} THEN 1 ELSE CHOOSE k \in begun : \A j \in begun : j <= k
       IN IF whole # {}
          THEN LET k == CHOOSE k \in whole : TRUE IN <<Part(k)>> \o Characters(SubSeq(s, k + 1, Len(s)))
          ELSE << <<>> >> \o Characters(SubSeq(s, n + 1, Len(s)))

\* The string with what is no character left out or replaced by U+FFFD.
Repaired(s) ==
  LET characters == Characters(s) IN
  FlattenSeq([i \in DOMAIN characters |->
    IF characters[i] # <<>> THEN characters[i]
    ELSE IF error_handler = "replace" THEN <<239, 191, 189>> ELSE <<>>])

\* What dump_escaped() writes is one JSON string that stands for what was given, with what is
\* no UTF-8 repaired as the error handler says, in ASCII if that was asked for: whenever the
\* buffer is flushed and wherever a character is broken off.  It throws exactly for what is
\* no UTF-8, and never writes past the buffer.
StringsSurvive ==
  /\ dump = "done" => Meanings[written] = {Repaired(given)}
  /\ dump = "done" /\ ensure_ascii => \A i \in DOMAIN written : written[i] \in 32..126
  /\ dump = "done" /\ error_handler = "strict" => Repaired(given) = given
  /\ dump = "thrown" => error_handler = "strict" /\ <<>> \in ToSet(Characters(given))
  /\ Len(string_buffer) + 13 <= BufferSize + (IF ensure_ascii THEN 0 ELSE undumped_chars)

\* An integer is written as the one number that it is, without a leading zero or a gap, however
\* many digits were counted before any of them was known.
IntegersExact == dump = "number" =>
  LET digits == IF number < 0 THEN Tail(written) ELSE written IN
  /\ IsNumber(written) /\ Integral(written)
  /\ (written[1] = 45) = (number < 0)
  /\ FoldLeft(LAMBDA n, d : 10 * n + d - 48, 0, digits) = (IF number < 0 THEN -number ELSE number)

\* A binary value, which a JSON text has none of, and the value its text means.
Blob == [type |-> "binary", value |-> <<7, 255>>, subtype |-> 3]
BlobText == Object((BytesKey :> Array(<<Scalar(7), Scalar(255)>>)) @@ (SubtypeKey :> Scalar(3)))

\* How many containers are open before the i-th token.
Open(s, i) == Cardinality({j \in 1..(i - 1) : s[j].type \in {"begin_array", "begin_object"}})
              - Cardinality({j \in 1..(i - 1) : s[j].type \in {"end_array", "end_object"}})

\* What dump() writes of a value is a text that means this value, with and without line breaks,
\* and after a line break as many steps of indentation come as containers are open then.
DumpFaithful == at = "accepted" => \A pretty \in BOOLEAN :
  \A v \in {Result, Array(<<Result, Blob>>)} :
  LET s == Dump(v, pretty, 2, 0)
      solid == SelectSeq(s, LAMBDA t : t.type # "line")
  IN /\ IsValue(solid)
     /\ Meant(solid, {}) = <<IF v = Result THEN v ELSE Array(<<Result, BlobText>>)>>
     /\ ~pretty => solid = s
     /\ \A i \in DOMAIN s : s[i].type = "line" =>
          s[i].indent = 2 * (Open(s, i) - IF s[i + 1].type \in {"end_array", "end_object"} THEN 1 ELSE 0)

\* What the serializer writes of a string, an integer or a value is read as the same again.
WrittenIsRead == StringsSurvive /\ IntegersExact /\ DumpFaithful
=============================================================================
