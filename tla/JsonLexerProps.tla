--------------------------- MODULE JsonLexerProps ---------------------------
(***************************************************************************)
(* What a JSON text is made of, stated without the lexer's machine, and     *)
(* that the lexer agrees.                                                  *)
(***************************************************************************)
EXTENDS JsonLexer, FiniteSets

Slice(t) == SubSeq(text, t.from, t.to)
Within(s) == SubSeq(s, 2, Len(s) - 1)

\* The number that bytes of UTF-8 spell, if they are bytes of UTF-8 at all.
Spelt(u) ==
  IF Len(u) = 1 THEN u[1]
  ELSE IF Len(u) = 2 THEN (u[1] - 192) * 64 + u[2] - 128
  ELSE IF Len(u) = 3 THEN ((u[1] - 224) * 64 + u[2] - 128) * 64 + u[3] - 128
  ELSE IF Len(u) = 4 THEN (((u[1] - 240) * 64 + u[2] - 128) * 64 + u[3] - 128) * 64 + u[4] - 128
  ELSE -1

ScalarValue(c) == 0 <= c /\ c <= 1114111 /\ ~(55296 <= c /\ c <= 57343)

\* u is the shortest way to spell a character.
WellFormed(u) == ScalarValue(Spelt(u)) /\ Utf8(Spelt(u)) = u

IsUnit(u) == /\ Len(u) = 6 /\ u[1] = Backslash /\ u[2] = 117
             /\ \A i \in 3..6 : u[i] \in HexDigit
CodeUnit(u) == ((Hex(u[3]) * 16 + Hex(u[4])) * 16 + Hex(u[5])) * 16 + Hex(u[6])

\* The code point of two escapes of UTF-16, if they are a pair of surrogates.
IsPair(u) == /\ Len(u) = 12 /\ IsUnit(SubSeq(u, 1, 6)) /\ IsUnit(SubSeq(u, 7, 12))
             /\ 55296 <= CodeUnit(SubSeq(u, 1, 6)) /\ CodeUnit(SubSeq(u, 1, 6)) <= 56319
             /\ 56320 <= CodeUnit(SubSeq(u, 7, 12)) /\ CodeUnit(SubSeq(u, 7, 12)) <= 57343
Paired(u) == 65536 + 1024 * (CodeUnit(SubSeq(u, 1, 6)) - 55296) + CodeUnit(SubSeq(u, 7, 12)) - 56320

\* What one character of a string may stand for.
Denoted(u) ==
  IF Len(u) <= 4 /\ WellFormed(u) /\ u[1] >= 32 /\ u[1] \notin {Quote, Backslash} THEN {u}
  ELSE IF Len(u) = 2 /\ u[1] = Backslash /\ u[2] \in DOMAIN Escape THEN {<<Escape[u[2]]>>}
  ELSE IF IsUnit(u) /\ ScalarValue(CodeUnit(u)) THEN {Utf8(CodeUnit(u))}
  ELSE IF IsPair(u) THEN {Utf8(Paired(u))}
  ELSE {}

\* What the text between two quotes may stand for: nothing, when it is no string.
Meanings[s \in Seq(Int)] ==
  IF s = <<>> THEN {<<>>}
  ELSE UNION { { c \o m : c \in Denoted(SubSeq(s, 1, n)), m \in Meanings[SubSeq(s, n + 1, Len(s))] } :
               n \in {k \in {1, 2, 3, 4, 6, 12} : k <= Len(s) /\ Denoted(SubSeq(s, 1, k)) # {}} }

\* Some number begins with s.
BeginsNumber(s) == IsNumber(s) \/ IsNumber(Append(s, Zero))

Word == [literal_true |-> <<116, 114, 117, 101>>, literal_false |-> <<102, 97, 108, 115, 101>>,
         literal_null |-> <<110, 117, 108, 108>>]

Numbers == {"value_unsigned", "value_integer", "value_float"}

\* s is well-formed UTF-8 between quotes, with escapes, and buffer is what it stands for.
StringExact(s, buffer) == /\ Len(s) > 1 /\ s[1] = Quote /\ s[Len(s)] = Quote
                          /\ Meanings[Within(s)] = {buffer}

\* s is a number of the grammar, with all that belongs to it before the byte next; an
\* integer is taken for a float only when it is large.
NumberExact(s, t, next) == /\ IsNumber(s) /\ t.buffer = s
                           /\ ~BeginsNumber(Append(s, next))
                           /\ Integral(s) /\ t.type = "value_float" => Len(s) > 1

TokensExact == \A t \in ToSet(tokens) :
  /\ t.type = "value_string" => StringExact(Slice(t), t.buffer)
  /\ t.type \in Numbers => NumberExact(Slice(t), t, text[t.to + 1])
  /\ t.type \in DOMAIN Word => Slice(t) = Word[t.type]

\* How a string that was broken off might go on: the end of a character or an escape.
Endings == (UNION {[1..n -> {128, 191}] : n \in 0..3}) \cup (UNION {[1..n -> {48}] : n \in 1..4})
           \cup {<<110>>, <<117, 48, 48, 48, 48>>}
           \cup {SubSeq(<<48, 48, 48, 48, 92, 117, 100, 99, 48, 48>>, i, 10) : i \in 1..10}

\* s, read from byte number from on, is the beginning of no string, no number, no literal,
\* no comment and no byte order mark.
BeginsNothing(s, from, comments) ==
  CASE s[1] = Quote -> \A e \in Endings : Meanings[Tail(s) \o e] = {}
    [] s[1] \in Digit \cup {45} -> ~BeginsNumber(s)
    [] s[1] \in DOMAIN Literal -> ~\E w \in DOMAIN Word : IsPrefix(s, Word[w])
    [] s[1] = 47 /\ comments ->
         IF s[2] = 42 THEN Last(s) \in {EOF, 0} /\ ~\E k \in 4..Len(s) : s[k - 1] = 42 /\ s[k] = 47
         ELSE Len(s) = 2 /\ s[2] # 47
    [] s[1] = 239 /\ from = 1 -> ~IsPrefix(s, <<239, 187, 191>>)
    [] OTHER -> Len(s) = 1 /\ s[1] \notin DOMAIN Structural

\* Nothing is refused too soon: what was read when the lexer gives up begins nothing.
Refused == \A t \in ToSet(tokens) : t.type = "parse_error" => BeginsNothing(Slice(t), t.from, input.comments)

\* s from i to j is one blank, or one comment: // to the end of the line, or /* to the first */.
IsGap(s, i, j) ==
  \/ i = j /\ s[i] \in Blank
  \/ j > i + 1 /\ s[i] = 47 /\ s[i + 1] = 47 /\ {k \in (i + 2)..j : s[k] \in {Lf, 13, EOF, 0}} = {j}
  \/ j > i + 2 /\ s[i] = 47 /\ s[i + 1] = 42 /\ {k \in (i + 3)..j : s[k - 1] = 42 /\ s[k] = 47} = {j}

\* s from i to j can be cut into blanks and comments.
Skipped(s, i, j) ==
  \E cuts \in SUBSET (i..(j + 1)) :
     /\ {i, j + 1} \subseteq cuts
     /\ \A c \in cuts \ {j + 1} : \E d \in cuts : IsGap(s, c, d - 1)

\* Where what stands in text s before the i-th of the tokens ts begins: behind the token
\* before, or behind the byte order mark.
Behind(s, ts, i) == IF i > 1 THEN ts[i - 1].to + 1
                    ELSE IF ts[1].from > 3 /\ SubSeq(s, 1, 3) = <<239, 187, 191>> THEN 4
                    ELSE 1

\* Between two tokens there is nothing but blanks and comments, and a byte order mark
\* before the first: nothing is skipped or read twice when a byte is put back.
GapsBlank == \A i \in DOMAIN tokens :
  LET from == Behind(text, tokens, i) IN
  from <= tokens[i].from /\ Skipped(text, from, tokens[i].from - 1)

\* position_t tells how much was read and on which line, also after bytes were put back.
\* The column is right but for a line feed that was put back, which leaves it at 0.
PositionExact ==
  LET n == IF next_unget THEN Len(text) - 1 ELSE Len(text)
      column == position.chars_read_current_line
  IN /\ position.chars_read_total = n
     /\ position.lines_read = Cardinality({i \in 1..n : text[i] = Lf})
     /\ \/ /\ column <= n
           /\ column < n => text[n - column] = Lf
           /\ \A i \in (n - column + 1)..n : text[i] # Lf
        \/ next_unget /\ text[Len(text)] = Lf

\* A text is taken apart as the grammar does it: every token is one of the grammar with its
\* meaning, and a text is refused at the first byte that none can have there.
WholeTokens == TokensExact /\ Refused

\* Every byte is read once, also the ones that were put back: what lies between tokens is
\* blank, and the position is that of the bytes that were read.
NothingSkipped == GapsBlank /\ PositionExact
=============================================================================
