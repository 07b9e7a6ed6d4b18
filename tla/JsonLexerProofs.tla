-------------------------- MODULE JsonLexerProofs --------------------------
(***************************************************************************)
(* Proofs about the lexer of the JSON library, for texts of any length and *)
(* any kinds of input.                                                     *)
(***************************************************************************)
EXTENDS JsonTextProofs

-----------------------------------------------------------------------------
(* The bytes: get() and unget().                                            *)

\* What get() may return.
Returned == (-1)..255

\* How many bytes are read and not put back.
Consumed == IF next_unget THEN Len(text) - 1 ELSE Len(text)

TextOK == /\ input \in Inputs
          /\ text \in Seq(Returned)
          /\ next_unget \in BOOLEAN
          /\ next_unget => text # <<>>

\* The text that was read before stays.
Longer == /\ Len(text) <= Len(text')
          /\ \A i \in 1..Len(text) : text'[i] = text[i]

\* What get() returns is a byte or the end.
LEMMA WhatComes ==
  ASSUME TextOK, NEW b \in Char
  PROVE  b \in Returned
  <1>1. input.bytes \subseteq 0..255
    BY LexerAssumption DEF TextOK
  <1>2. CASE next_unget
    <2>1. text # <<>> /\ b = text[Len(text)]
      BY <1>2 DEF TextOK, Char, Last
    <2> QED
      BY <2>1 DEF TextOK
  <1>3. CASE ~next_unget
    <2>1. b \in {EOF, Quote} \cup input.bytes
      BY <1>3, Zenon DEF Char, Incoming
    <2> QED
      BY <1>1, <2>1 DEF EOF, Quote, Returned
  <1> QED
    BY <1>2, <1>3 DEF TextOK

\* What get() does to the text.
LEMMA Got ==
  ASSUME TextOK, NEW b, Get(b)
  PROVE  /\ b \in Returned
         /\ text' \in Seq(Returned) /\ text' # <<>> /\ input' \in Inputs
         /\ Longer /\ Len(text') = Consumed + 1 /\ text'[Len(text')] = b
  <1>1. b \in Returned
    BY WhatComes DEF Get
  <1>2. CASE next_unget
    BY <1>1, <1>2 DEF Get, TextOK, Char, Last, Longer, Consumed
  <1>3. CASE ~next_unget
    BY <1>1, <1>3 DEF Get, TextOK, Longer, Consumed
  <1> QED
    BY <1>1, <1>2, <1>3 DEF TextOK

\* get() reads one byte more.
LEMMA Taken ==
  ASSUME TextOK, NEW b, Take(b)
  PROVE  /\ b \in Returned /\ TextOK' /\ Longer /\ ~next_unget' /\ text' # <<>>
         /\ Consumed' = Consumed + 1 /\ Len(text') = Consumed + 1 /\ text'[Consumed + 1] = b
  <1>1. Get(b) /\ next_unget' = FALSE
    BY DEF Take
  <1> QED
    BY <1>1, Got DEF TextOK, Consumed

\* With unget() it is as if it had not been read.
LEMMA PutAside ==
  ASSUME TextOK, NEW b, PutBack(b)
  PROVE  /\ b \in Returned /\ TextOK' /\ Longer /\ next_unget' /\ text' # <<>>
         /\ Consumed' = Consumed /\ Len(text') = Consumed + 1 /\ text'[Consumed + 1] = b
  <1>1. Get(b) /\ next_unget' = TRUE
    BY DEF PutBack
  <1> QED
    BY <1>1, Got DEF TextOK, Consumed

\* Every step is one get(), some with unget().
LEMMA OneByte ==
  ASSUME NextLexer
  PROVE  \E b : Take(b) \/ PutBack(b)
  BY DEF NextLexer, SkipBom, SkipWhitespace, Comment, ScanComment, CommentStar, Scan, ScanLiteral,
         ScanString, NextByteInRange, ScanEscape, GetCodepoint, ScanLow, ScanNumber

-----------------------------------------------------------------------------
(* The position.                                                            *)

PositionOK == position \in [chars_read_total : Nat, chars_read_current_line : Nat, lines_read : Nat]

Breaks == {i \in 1..Consumed : text[i] = Lf}

\* The column, but for a line feed that was put back.
ColumnExact == LET column == position.chars_read_current_line IN
  \/ /\ column <= Consumed
     /\ column < Consumed => text[Consumed - column] = Lf
     /\ \A i \in (Consumed - column + 1)..Consumed : text[i] # Lf
  \/ next_unget /\ text[Len(text)] = Lf

Located == /\ PositionOK
           /\ position.chars_read_total = Consumed
           /\ position.lines_read = Cardinality(Breaks)
           /\ ColumnExact

\* The invariant on the position implies what the run checks.
LEMMA LocatedExact ==
  ASSUME Located
  PROVE  PositionExact
  BY DEF Located, PositionExact, ColumnExact, Breaks, Consumed

\* get() keeps the position right.
LEMMA TakenLocated ==
  ASSUME TextOK, Located, NEW b, Take(b)
  PROVE  Located'
  <1> DEFINE n == Consumed
  <1>1. /\ n \in Nat /\ Consumed' = n + 1 /\ text'[n + 1] = b /\ ~next_unget'
        /\ \A i \in 1..n : text'[i] = text[i]
    BY Taken DEF Longer, Consumed, TextOK
  <1>2. position' = Forward(position, b)
    BY DEF Take
  <1>3. /\ PositionOK' /\ position'.chars_read_total = n + 1
        /\ b = Lf => /\ position'.chars_read_current_line = 0
                     /\ position'.lines_read = position.lines_read + 1
        /\ b # Lf => /\ position'.chars_read_current_line = position.chars_read_current_line + 1
                     /\ position'.lines_read = position.lines_read
    BY <1>2 DEF Located, PositionOK, Forward
  <1>4. position'.lines_read = Cardinality(Breaks')
    <2>1. IsFiniteSet(Breaks) /\ n + 1 \notin Breaks
      <3>1. IsFiniteSet(1..n)
        BY <1>1, FS_Interval
      <3> QED
        BY <1>1, <3>1, FS_Subset DEF Breaks
    <2>2. CASE b = Lf
      <3>1. Breaks' = Breaks \cup {n + 1}
        BY <1>1, <2>2 DEF Breaks
      <3>2. Cardinality(Breaks') = Cardinality(Breaks) + 1
        BY <2>1, <3>1, FS_AddElement
      <3> QED
        BY <1>3, <2>2, <3>2 DEF Located
    <2>3. CASE b # Lf
      <3>1. Breaks' = Breaks
        BY <1>1, <2>3 DEF Breaks
      <3> QED
        BY <1>3, <2>3, <3>1 DEF Located
    <2> QED
      BY <2>2, <2>3
  <1>5. ColumnExact'
    <2> DEFINE column == position.chars_read_current_line
    <2>1. column \in Nat
      BY DEF Located, PositionOK
    <2>2. CASE b = Lf
      BY <1>1, <1>3, <2>2 DEF ColumnExact
    <2>3. CASE b # Lf
      <3>1. next_unget => text[Len(text)] = b
        BY DEF Take, Get, Char, Last
      <3>2. /\ column <= n
            /\ column < n => text[n - column] = Lf
            /\ \A i \in (n - column + 1)..n : text[i] # Lf
        BY <2>3, <3>1 DEF Located, ColumnExact
      <3>3. /\ column + 1 <= n + 1 /\ (n + 1) - (column + 1) = n - column
            /\ \A i \in (n - column + 1)..(n + 1) : text'[i] # Lf
        BY <1>1, <2>1, <2>3, <3>2
      <3>4. column < n => text'[n - column] = Lf
        BY <1>1, <2>1, <3>2
      <3>5. position'.chars_read_current_line = column + 1
        BY <1>3, <2>3
      <3> HIDE DEF n, column
      <3> QED
        BY <1>1, <2>1, <3>3, <3>4, <3>5 DEF ColumnExact
    <2> QED
      BY <2>2, <2>3
  <1> QED
    BY <1>1, <1>3, <1>4, <1>5 DEF Located

\* unget() takes the position back to what it was, but for the column before a line feed.
LEMMA PutAsideLocated ==
  ASSUME TextOK, Located, NEW b, PutBack(b)
  PROVE  Located'
  <1> DEFINE n == Consumed
  <1>1. /\ n \in Nat /\ Consumed' = n /\ next_unget' /\ Len(text') = n + 1 /\ text'[n + 1] = b
        /\ \A i \in 1..n : text'[i] = text[i]
    BY PutAside DEF Longer, Consumed, TextOK
  <1>2. position' = Back(Forward(position, b))
    BY DEF PutBack
  <1>3. /\ PositionOK' /\ position'.chars_read_total = n
        /\ position'.lines_read = position.lines_read
        /\ b # Lf => position'.chars_read_current_line = position.chars_read_current_line
    BY <1>2 DEF Located, PositionOK, Forward, Back
  <1>4. Breaks' = Breaks
    BY <1>1 DEF Breaks
  <1>5. ColumnExact'
    <2> DEFINE column == position.chars_read_current_line
    <2>1. CASE b = Lf
      BY <1>1, <2>1 DEF ColumnExact
    <2>2. CASE b # Lf
      <3>1. next_unget => text[Len(text)] = b
        BY DEF PutBack, Get, Char, Last
      <3>2. /\ column <= n
            /\ column < n => text[n - column] = Lf
            /\ \A i \in (n - column + 1)..n : text[i] # Lf
        BY <2>2, <3>1 DEF Located, ColumnExact
      <3>3. column \in Nat /\ position'.chars_read_current_line = column
        BY <1>3, <2>2 DEF Located, PositionOK
      <3>4. /\ column < n => text'[n - column] = Lf
            /\ \A i \in (n - column + 1)..n : text'[i] # Lf
        BY <1>1, <3>2, <3>3
      <3> HIDE DEF n, column
      <3> QED
        BY <1>1, <3>2, <3>3, <3>4 DEF ColumnExact
    <2> QED
      BY <2>1, <2>2
  <1> QED
    BY <1>1, <1>3, <1>4, <1>5 DEF Located

-----------------------------------------------------------------------------
(* What stands between tokens.                                              *)

InComment == {"comment", "line", "block", "star"}
InString == {"string", "tail", "escape", "hex", "low"}
InToken == {"literal"} \cup InString \cup InNumber
Points == {"bom", "bom2", "blank", "done"} \cup InComment \cup InToken

Bom == /\ Len(text) > 2
       /\ text[1] = 239 /\ text[2] = 187 /\ text[3] = 191

\* Where what stands before the next token begins.
Begin == IF tokens # <<>> THEN tokens[Len(tokens)].to + 1
         ELSE IF Bom THEN 4
         ELSE 1

\* How much of the byte order mark is still expected.
TwoAhead == expected = <<{187}, {191}>>
OneAhead == expected = <<{191}>>

\* Before anything is read; within the byte order mark; after it.
BomOK == /\ pc = "bom" => text = <<>> /\ tokens = <<>> /\ start = 1 /\ ~next_unget
         /\ pc = "bom2" => /\ text # <<>> /\ text[1] = 239 /\ tokens = <<>> /\ start = 1 /\ ~next_unget
                           /\ \/ Len(text) = 1 /\ TwoAhead
                              \/ Len(text) = 2 /\ text[2] = 187 /\ OneAhead
         /\ pc \notin {"bom", "bom2", "done"} => /\ text # <<>>
                                                 /\ text[1] = 239 => Bom /\ Consumed > 2

\* All that was read is blank, or a token or comment has begun where start says.
GapOK == /\ pc = "blank" => Begin <= Consumed + 1 /\ Skipped(text, Begin, Consumed)
         /\ pc \in InComment \cup InToken =>
              /\ Begin <= start /\ start <= Consumed
              /\ Skipped(text, Begin, start - 1)
         /\ pc \in InToken \cup {"comment", "line", "star"} => ~next_unget

\* The comment at hand has not come to its end.
CommentOK ==
  /\ pc \in InComment => text[start] = 47
  /\ pc = "comment" => start = Consumed
  /\ pc = "line" => /\ start < Consumed /\ text[start + 1] = 47
                    /\ \A k \in (start + 2)..Consumed : text[k] \notin {Lf, 13, EOF, 0}
  /\ pc \in {"block", "star"} => /\ start < Consumed /\ text[start + 1] = 42
                                 /\ \A k \in (start + 3)..Consumed : ~(text[k - 1] = 42 /\ text[k] = 47)
  /\ pc = "star" => start + 1 < Consumed /\ text[Consumed] = 42
  /\ pc = "block" /\ start + 1 < Consumed /\ text[Consumed] = 42 => next_unget /\ text[Len(text)] # 47

\* The tokens lie within the text.
TokensOK == /\ \E S : tokens \in Seq(S)
            /\ \A i \in 1..Len(tokens) : /\ tokens[i].from \in Nat \ {0} /\ tokens[i].to \in Nat
                                         /\ tokens[i].from <= Len(text) /\ tokens[i].to <= Consumed

Gaps == pc \in Points /\ start \in Nat \ {0} /\ BomOK /\ GapOK /\ CommentOK /\ TokensOK /\ GapsBlank

\* What was skipped stays so when more is read.
LEMMA StillSkipped ==
  ASSUME NEW s, NEW t, NEW i \in Nat \ {0}, NEW j \in Int, Skipped(s, i, j),
         \A k \in 1..j : t[k] = s[k]
  PROVE  Skipped(t, i, j)
  <1>1. PICK cuts \in SUBSET (i..(j + 1)) :
           /\ {i, j + 1} \subseteq cuts
           /\ \A c \in cuts \ {j + 1} : \E d \in cuts : IsGap(s, c, d - 1)
    BY DEF Skipped
  <1>2. ASSUME NEW c \in cuts, NEW d \in cuts, IsGap(s, c, d - 1)
        PROVE  IsGap(t, c, d - 1)
    <2> DEFINE e == d - 1
    <2>1. c \in Nat \ {0} /\ e \in Int /\ e <= j
      OBVIOUS
    <2> HIDE DEF e
    <2>2. IsGap(s, c, e)
      BY <1>2 DEF e
    <2>3. \A k \in c..e : t[k] = s[k]
      BY <2>1
    <2>4. IsGap(t, c, e)
      <3>1. CASE c = e /\ s[c] \in Blank
        BY <2>1, <2>3, <3>1 DEF IsGap
      <3>2. CASE /\ e > c + 1 /\ s[c] = 47 /\ s[c + 1] = 47
                 /\ {k \in (c + 2)..e : s[k] \in {Lf, 13, EOF, 0}} = {e}
        <4>1. t[c] = 47 /\ t[c + 1] = 47
          BY <2>1, <2>3, <3>2
        <4>2. \A k \in (c + 2)..e : t[k] = s[k]
          BY <2>1, <2>3
        <4>3. {k \in (c + 2)..e : t[k] \in {Lf, 13, EOF, 0}} = {k \in (c + 2)..e : s[k] \in {Lf, 13, EOF, 0}}
          BY <4>2
        <4> QED
          BY <3>2, <4>1, <4>3 DEF IsGap
      <3>3. CASE /\ e > c + 2 /\ s[c] = 47 /\ s[c + 1] = 42
                 /\ {k \in (c + 3)..e : s[k - 1] = 42 /\ s[k] = 47} = {e}
        <4>1. t[c] = 47 /\ t[c + 1] = 42
          BY <2>1, <2>3, <3>3
        <4>2. \A k \in (c + 3)..e : t[k] = s[k] /\ t[k - 1] = s[k - 1]
          BY <2>1, <2>3
        <4>3. {k \in (c + 3)..e : t[k - 1] = 42 /\ t[k] = 47} = {k \in (c + 3)..e : s[k - 1] = 42 /\ s[k] = 47}
          BY <4>2
        <4> QED
          BY <3>3, <4>1, <4>3 DEF IsGap
      <3> QED
        BY <2>2, <3>1, <3>2, <3>3 DEF IsGap
    <2> QED
      BY <2>4 DEF e
  <1> QED
    BY <1>1, <1>2 DEF Skipped

\* An empty gap is blank.
LEMMA NoneSkipped ==
  ASSUME NEW s, NEW i \in Nat
  PROVE  Skipped(s, i, i - 1)
  <1>1. {i} \in SUBSET (i..((i - 1) + 1)) /\ {i, (i - 1) + 1} \subseteq {i} /\ {i} \ {(i - 1) + 1} = {}
    OBVIOUS
  <1> QED
    BY <1>1 DEF Skipped

\* So is the one behind the last byte.
LEMMA NoneAhead ==
  ASSUME NEW s, NEW m \in Nat
  PROVE  Skipped(s, m + 1, m)
  <1>1. (m + 1) - 1 = m /\ m + 1 \in Nat
    OBVIOUS
  <1>2. Skipped(s, m + 1, (m + 1) - 1)
    BY <1>1, NoneSkipped
  <1> QED
    BY <1>1, <1>2

\* One blank or comment more.
LEMMA SkippedMore ==
  ASSUME NEW s, NEW i \in Nat \ {0}, NEW j \in Nat, NEW m \in Nat, i <= j + 1, j < m,
         Skipped(s, i, j), IsGap(s, j + 1, m)
  PROVE  Skipped(s, i, m)
  <1>1. PICK cuts \in SUBSET (i..(j + 1)) :
           /\ {i, j + 1} \subseteq cuts
           /\ \A c \in cuts \ {j + 1} : \E d \in cuts : IsGap(s, c, d - 1)
    BY DEF Skipped
  <1> DEFINE more == cuts \cup {m + 1}
  <1>2. more \in SUBSET (i..(m + 1)) /\ {i, m + 1} \subseteq more
    BY <1>1
  <1>3. \A c \in more \ {m + 1} : \E d \in more : IsGap(s, c, d - 1)
    <2> TAKE c \in more \ {m + 1}
    <2>1. CASE c = j + 1
      <3>1. (m + 1) - 1 = m
        OBVIOUS
      <3>2. IsGap(s, c, (m + 1) - 1)
        BY <2>1, <3>1
      <3> QED
        BY <3>2
    <2>2. CASE c # j + 1
      BY <1>1, <2>2
    <2> QED
      BY <2>1, <2>2
  <1> HIDE DEF more
  <1> QED
    BY <1>2, <1>3 DEF Skipped

\* The byte order mark, byte by byte.
LEMMA FirstThree ==
  ASSUME NEW s \in Seq(Returned), Len(s) > 2
  PROVE  SubSeq(s, 1, 3) = <<239, 187, 191>> <=> s[1] = 239 /\ s[2] = 187 /\ s[3] = 191
  <1>1. SubSeq(s, 1, 3) = [i \in 1..3 |-> s[i]]
    OBVIOUS
  <1>2. <<239, 187, 191>> = [i \in 1..3 |-> IF i = 1 THEN 239 ELSE IF i = 2 THEN 187 ELSE 191]
    OBVIOUS
  <1>3. ASSUME SubSeq(s, 1, 3) = <<239, 187, 191>>
        PROVE  s[1] = 239 /\ s[2] = 187 /\ s[3] = 191
    <2> DEFINE u == SubSeq(s, 1, 3)
    <2>1. u[1] = s[1] /\ u[2] = s[2] /\ u[3] = s[3]
      BY <1>1
    <2> HIDE DEF u
    <2>2. u = <<239, 187, 191>>
      BY <1>3 DEF u
    <2> QED
      BY <2>1, <2>2
  <1>4. ASSUME s[1] = 239, s[2] = 187, s[3] = 191
        PROVE  [i \in 1..3 |-> s[i]] = [i \in 1..3 |-> IF i = 1 THEN 239 ELSE IF i = 2 THEN 187 ELSE 191]
    BY <1>4
  <1> QED
    BY <1>1, <1>2, <1>3, <1>4

\* What was there before stays when more is read.
LEMMA GapsStay ==
  ASSUME TextOK, Gaps, TextOK', Longer, NEW i \in 1..Len(tokens), i \in 1..Len(tokens'), \A k \in 1..i : tokens'[k] = tokens[k]
  PROVE  Behind(text', tokens', i) <= tokens'[i].from /\ Skipped(text', Behind(text', tokens', i), tokens'[i].from - 1)
  <1>1. PICK S : tokens \in Seq(S)
    BY DEF Gaps, TokensOK
  <1>2. /\ tokens[i].from \in Nat \ {0} /\ tokens[i].from <= Len(text)
        /\ Behind(text, tokens, i) <= tokens[i].from /\ Skipped(text, Behind(text, tokens, i), tokens[i].from - 1)
        /\ i > 1 => tokens[i - 1].to \in Nat
    BY <1>1 DEF Gaps, TokensOK, GapsBlank
  <1>3. Behind(text', tokens', i) = Behind(text, tokens, i)
    <2>1. CASE i > 1
      BY <2>1 DEF Behind
    <2>2. CASE i = 1 /\ tokens[1].from > 3
      <3>1. Len(text) > 2 /\ Len(text') > 2 /\ text'[1] = text[1] /\ text'[2] = text[2] /\ text'[3] = text[3]
        BY <1>2, <2>2 DEF TextOK, Longer
      <3>2. SubSeq(text', 1, 3) = <<239, 187, 191>> <=> SubSeq(text, 1, 3) = <<239, 187, 191>>
        BY <3>1, FirstThree DEF TextOK
      <3>3. tokens'[1] = tokens[1] /\ ~(i > 1)
        BY <2>2
      <3> QED
        BY <3>2, <3>3, Zenon DEF Behind
    <2>3. CASE i = 1 /\ ~(tokens[1].from > 3)
      BY <2>3 DEF Behind
    <2> QED
      BY <2>1, <2>2, <2>3
  <1>4. Behind(text, tokens, i) \in Nat \ {0}
    BY <1>2 DEF Behind
  <1>5. \A k \in 1..(tokens[i].from - 1) : text'[k] = text[k]
    BY <1>2 DEF TextOK, Longer
  <1>6. Skipped(text', Behind(text, tokens, i), tokens[i].from - 1)
    <2>1. tokens[i].from - 1 \in Int
      BY <1>2
    <2> QED
      BY <1>2, <1>4, <1>5, <2>1, StillSkipped
  <1> QED
    BY <1>2, <1>3, <1>6

\* A step that returns no token.
LEMMA Onward ==
  ASSUME TextOK, Gaps, TextOK', Longer, Consumed <= Consumed', tokens' = tokens
  PROVE  TokensOK' /\ GapsBlank'
  <1>1. PICK S : tokens \in Seq(S)
    BY DEF Gaps, TokensOK
  <1>2. TokensOK'
    <2>1. \A i \in 1..Len(tokens) : /\ tokens[i].from \in Nat \ {0} /\ tokens[i].to \in Nat
                                    /\ tokens[i].from <= Len(text') /\ tokens[i].to <= Consumed'
      BY DEF Gaps, TokensOK, Longer, TextOK, Consumed
    <2> QED
      BY <1>1, <2>1 DEF TokensOK
  <1>3. GapsBlank'
    <2> SUFFICES ASSUME NEW i \in DOMAIN tokens
                 PROVE  Behind(text', tokens', i) <= tokens'[i].from /\ Skipped(text', Behind(text', tokens', i), tokens'[i].from - 1)
      BY DEF GapsBlank
    <2>1. i \in 1..Len(tokens)
      BY <1>1
    <2> QED
      BY <2>1, GapsStay
  <1> QED
    BY <1>2, <1>3

\* A step that returns token t.
LEMMA Returns ==
  ASSUME TextOK, Gaps, TextOK', Longer, Consumed <= Consumed', NEW t, tokens' = Append(tokens, t),
         t.from \in Nat \ {0}, t.from <= Len(text'), t.to = Consumed',
         Behind(text', tokens', Len(tokens) + 1) <= t.from, Skipped(text', Behind(text', tokens', Len(tokens) + 1), t.from - 1)
  PROVE  TokensOK' /\ GapsBlank' /\ Begin' = Consumed' + 1
  <1>1. PICK S : tokens \in Seq(S)
    BY DEF Gaps, TokensOK
  <1> DEFINE n == Len(tokens)
  <1>2. /\ n \in Nat /\ tokens' \in Seq(S \cup {t}) /\ Len(tokens') = n + 1 /\ tokens'[n + 1] = t
        /\ \A i \in 1..n : tokens'[i] = tokens[i]
        /\ tokens' # <<>>
    <2>1. tokens \in Seq(S \cup {t})
      BY <1>1
    <2> QED
      BY <2>1
  <1>3. TokensOK'
    <2>1. \A i \in 1..Len(tokens) : /\ tokens[i].from \in Nat \ {0} /\ tokens[i].to \in Nat
                                    /\ tokens[i].from <= Len(text') /\ tokens[i].to <= Consumed'
      BY DEF Gaps, TokensOK, Longer, TextOK, Consumed
    <2>2. Consumed' \in Nat
      BY DEF TextOK, Consumed
    <2>3. \A i \in 1..Len(tokens') : /\ tokens'[i].from \in Nat \ {0} /\ tokens'[i].to \in Nat
                                    /\ tokens'[i].from <= Len(text') /\ tokens'[i].to <= Consumed'
      BY <1>2, <2>1, <2>2
    <2> QED
      BY <1>2, <2>3 DEF TokensOK
  <1>4. GapsBlank'
    <2> SUFFICES ASSUME NEW i \in 1..(n + 1)
                 PROVE  Behind(text', tokens', i) <= tokens'[i].from /\ Skipped(text', Behind(text', tokens', i), tokens'[i].from - 1)
      BY <1>2 DEF GapsBlank
    <2>1. CASE i = n + 1
      BY <1>2, <2>1
    <2>2. CASE i # n + 1
      <3>1. i \in 1..Len(tokens) /\ i \in 1..Len(tokens') /\ \A k \in 1..i : tokens'[k] = tokens[k]
        BY <1>2, <2>2
      <3> QED
        BY <3>1, GapsStay
    <2> QED
      BY <2>1, <2>2
  <1>5. Begin' = Consumed' + 1
    BY <1>2 DEF Begin
  <1> QED
    BY <1>3, <1>4, <1>5

\* Behind the byte order mark, where the gap begins does not change any more.
Marked == /\ text # <<>>
          /\ text[1] = 239 => Bom /\ Consumed > 2

\* Once it is known whether there is a byte order mark, that does not change.
LEMMA StaysMarked ==
  ASSUME TextOK, TextOK', Longer, Consumed <= Consumed', Marked
  PROVE  Marked' /\ Bom' = Bom
  BY DEF TextOK, Longer, Marked, Bom, Consumed

\* What stands before the next token begins where it did, also when more is read.
LEMMA SameBegin ==
  ASSUME TextOK, Gaps, TextOK', Longer, Consumed <= Consumed', Marked
  PROVE  /\ Begin \in Nat \ {0}
         /\ tokens' = tokens => Begin' = Begin
         /\ \A t : tokens' = Append(tokens, t) /\ t.from \in Nat /\ Begin <= t.from
                  => Behind(text', tokens', Len(tokens) + 1) = Begin
  <1>1. PICK S : tokens \in Seq(S)
    BY DEF Gaps, TokensOK
  <1>2. Marked' /\ Bom' = Bom
    BY StaysMarked
  <1>3. Begin \in Nat \ {0}
    BY <1>1 DEF Begin, Gaps, TokensOK
  <1>4. tokens' = tokens => Begin' = Begin
    BY <1>2 DEF Begin
  <1>5. ASSUME NEW t, tokens' = Append(tokens, t), t.from \in Nat, Begin <= t.from
        PROVE  Behind(text', tokens', Len(tokens) + 1) = Begin
    <2> DEFINE n == Len(tokens)
    <2>1. /\ n \in Nat /\ tokens'[n + 1] = t /\ \A i \in 1..n : tokens'[i] = tokens[i]
      <3>1. tokens \in Seq(S \cup {t})
        BY <1>1
      <3> QED
        BY <1>5, <3>1
    <2>2. CASE n > 0
      <3>1. tokens # <<>> /\ n \in 1..n /\ (n + 1) - 1 = n
        BY <1>1, <2>1, <2>2
      <3> QED
        BY <2>1, <2>2, <3>1 DEF Behind, Begin
    <2>3. CASE n = 0
      <3>1. tokens = <<>> /\ tokens'[1] = t
        BY <1>1, <2>1, <2>3
      <3>2. CASE Bom
        <4>1. SubSeq(text', 1, 3) = <<239, 187, 191>>
          BY <1>2, <3>2, FirstThree DEF Bom, TextOK
        <4> QED
          BY <1>5, <2>3, <3>1, <3>2, <4>1 DEF Behind, Begin
      <3>3. CASE ~Bom
        <4>1. text'[1] # 239
          BY <1>2, <3>3 DEF Marked
        <4>3. SubSeq(text', 1, 3) # <<239, 187, 191>>
          <5> DEFINE u == SubSeq(text', 1, 3)
          <5>1. Len(text') > 0 /\ text' \in Seq(Returned)
            BY <1>2 DEF Marked, TextOK
          <5>2. u[1] = text'[1]
            BY <5>1
          <5> HIDE DEF u
          <5>3. u # <<239, 187, 191>>
            BY <4>1, <5>2
          <5> QED
            BY <5>3 DEF u
        <4>4. Begin = 1 /\ Len(tokens) + 1 = 1
          BY <2>3, <3>1, <3>3 DEF Begin
        <4>5. ~(1 > 1)
          OBVIOUS
        <4>6. Behind(text', tokens', 1) = 1
          BY <4>3, <4>5, Zenon DEF Behind
        <4> QED
          BY <4>4, <4>6
      <3> QED
        BY <3>2, <3>3
    <2> QED
      BY <2>1, <2>2, <2>3
  <1> QED
    BY <1>3, <1>4, <1>5

\* A step of a token or comment leaves in place what stands before it.
LEMMA Amid ==
  ASSUME TextOK, Gaps, NEW b, Take(b) \/ PutBack(b), pc \in InToken \cup InComment, start' = start
  PROVE  /\ Marked' /\ TextOK' /\ Longer /\ Consumed <= Consumed' /\ start <= Consumed'
         /\ tokens' = tokens => /\ TokensOK' /\ GapsBlank' /\ Begin' = Begin
                                /\ Begin <= start /\ Skipped(text', Begin, start - 1)
         /\ \A t : tokens' = Append(tokens, t) /\ t.from = start /\ t.to = Consumed' =>
              TokensOK' /\ GapsBlank' /\ Begin' = Consumed' + 1
  <1>1. TextOK' /\ Longer /\ Consumed <= Consumed' /\ Consumed \in Nat
    BY Taken, PutAside DEF TextOK, Consumed
  <1>2. Marked
    <2>1. pc \notin {"bom", "bom2", "done"}
      BY DEF InToken, InComment, InString, InNumber
    <2>2. BomOK
      BY DEF Gaps
    <2>3. text # <<>> /\ (text[1] = 239 => Bom /\ Consumed > 2)
      BY <2>1, <2>2 DEF BomOK
    <2> QED
      BY <2>3, Zenon DEF Marked
  <1>3. Marked'
    BY <1>1, <1>2, StaysMarked
  <1>4. Begin <= start /\ start <= Consumed /\ Skipped(text, Begin, start - 1) /\ start \in Nat \ {0}
    BY DEF Gaps, GapOK
  <1>5. Begin \in Nat \ {0}
    BY <1>1, <1>2, SameBegin
  <1>6. Skipped(text', Begin, start - 1)
    <2>1. \A k \in 1..(start - 1) : text'[k] = text[k]
      BY <1>1, <1>4 DEF TextOK, Longer, Consumed
    <2>2. start - 1 \in Int
      BY <1>4
    <2> QED
      BY <1>4, <1>5, <2>1, <2>2, StillSkipped
  <1>7. tokens' = tokens => TokensOK' /\ GapsBlank' /\ Begin' = Begin
    BY <1>1, <1>2, Onward, SameBegin
  <1>8. ASSUME NEW t, tokens' = Append(tokens, t), t.from = start, t.to = Consumed'
        PROVE  TokensOK' /\ GapsBlank' /\ Begin' = Consumed' + 1
    <2>1. Behind(text', tokens', Len(tokens) + 1) = Begin
      BY <1>1, <1>2, <1>4, <1>8, SameBegin
    <2>2. t.from \in Nat \ {0} /\ t.from <= Len(text')
      BY <1>1, <1>4, <1>8 DEF Consumed, TextOK
    <2> QED
      BY <1>1, <1>4, <1>6, <1>8, <2>1, <2>2, Returns
  <1>9. start <= Consumed'
    BY <1>1, <1>4 DEF TextOK, Consumed
  <1> QED
    BY <1>1, <1>3, <1>4, <1>6, <1>7, <1>8, <1>9

\* scan() returns what was read since start.
Ends == /\ pc' \in {"blank", "done"}
        /\ \E t : tokens' = Append(tokens, t) /\ t.from = start /\ t.to = Consumed'

\* A step of a token.
LEMMA TokenGaps ==
  ASSUME TextOK, Gaps, NEW b, Take(b) \/ PutBack(b), pc \in InToken, start' = start,
         (tokens' = tokens /\ pc' \in InToken /\ Take(b)) \/ Ends
  PROVE  Gaps'
  <1>1. /\ Marked' /\ TextOK' /\ Longer /\ Consumed <= Consumed' /\ start <= Consumed'
        /\ start \in Nat \ {0}
    BY Amid DEF Gaps
  <1>2. CASE tokens' = tokens /\ pc' \in InToken /\ Take(b)
    <2>1. /\ TokensOK' /\ GapsBlank' /\ Begin' = Begin
          /\ Begin <= start /\ Skipped(text', Begin, start - 1)
      BY <1>2, Amid
    <2>2. ~next_unget'
      BY <1>2, Taken
    <2>3. BomOK'
      BY <1>1, <1>2 DEF BomOK, Marked, Points, InToken, InComment, InString, InNumber
    <2>4. GapOK'
      BY <1>1, <1>2, <2>1, <2>2 DEF GapOK, Points, InToken, InComment, InString, InNumber
    <2>5. CommentOK'
      BY <1>2 DEF CommentOK, Points, InToken, InComment, InString, InNumber
    <2>6. pc' \in Points /\ start' \in Nat \ {0}
      BY <1>1, <1>2 DEF Points, InToken, InComment, InString, InNumber
    <2> QED
      BY <2>1, <2>3, <2>4, <2>5, <2>6 DEF Gaps
  <1>3. CASE Ends
    <2>1. TokensOK' /\ GapsBlank' /\ Begin' = Consumed' + 1
      BY <1>3, Amid DEF Ends
    <2>8. pc' \in {"blank", "done"}
      BY <1>3 DEF Ends
    <2>2. Consumed' \in Nat
      BY <1>1 DEF TextOK, Consumed
    <2>3. Skipped(text', Consumed' + 1, Consumed')
      BY <2>2, NoneAhead
    <2>4. BomOK'
      BY <1>1, <2>8 DEF BomOK, Marked, Points, InToken, InComment, InString, InNumber
    <2>5. GapOK'
      <3>0. \A m \in Nat : \A x : x = m + 1 => x <= m + 1
        OBVIOUS
      <3>1. Begin' <= Consumed' + 1
        BY <2>1, <2>2, <3>0, Zenon
      <3>2. Skipped(text', Begin', Consumed')
        BY <2>1, <2>3
      <3> QED
        BY <2>8, <3>1, <3>2 DEF GapOK, Points, InToken, InComment, InString, InNumber
    <2>6. CommentOK'
      BY <2>8 DEF CommentOK, Points, InToken, InComment, InString, InNumber
    <2>7. pc' \in Points /\ start' \in Nat \ {0}
      BY <1>1, <2>8 DEF Points, InToken, InComment, InString, InNumber
    <2> QED
      BY <2>1, <2>4, <2>5, <2>6, <2>7 DEF Gaps
  <1> QED
    BY <1>2, <1>3

\* What scan() returns goes up to the last byte that was read.
LEMMA Finished ==
  ASSUME NEW type, NEW last, NEW value, Return(type, last, value)
  PROVE  /\ pc' \in {"blank", "done"} /\ start' = start
         /\ UNCHANGED <<token_buffer, expected, codepoint>>
         /\ \E t : /\ tokens' = Append(tokens, t) /\ t.from = start /\ t.to = last
                   /\ t.type = type /\ t.buffer = token_buffer /\ t.value = value
  BY DEF Return, Finish

\* A refusal ends a token at the last byte read.
LEMMA Failed ==
  ASSUME TextOK, NEW b, Take(b), Fail
  PROVE  Ends /\ start' = start
  <1>1. Len(text') = Consumed'
    BY Taken
  <1> QED
    BY <1>1, Finished DEF Fail, Ends

\* Where scan_number() goes on to.
LEMMA MovesOn == \A m \in Moves : m.to \in InNumber
  BY DEF Moves, WholeMoves, FractionMoves, ExponentMoves, Jump, InNumber

\* The steps of a token.
Inside == ScanLiteral \/ ScanString \/ NextByteInRange \/ ScanEscape \/ GetCodepoint \/ ScanLow \/ ScanNumber

\* A step within a token goes on with it or ends it, where the text ends that is not put back.
LEMMA InsideStep ==
  ASSUME TextOK, Gaps, Inside
  PROVE  /\ pc \in InToken
         /\ \E b : /\ Take(b) \/ PutBack(b)
                   /\ start' = start
                   /\ (tokens' = tokens /\ pc' \in InToken /\ Take(b)) \/ Ends
  <1> USE DEF InToken, InString
  <1>1. CASE ScanLiteral
    <2>1. PICK b : /\ pc = "literal" /\ Take(b)
                   /\ Expect(b, Return(LiteralType[text[start]], Len(text'), 0))
      BY <1>1 DEF ScanLiteral
    <2>2. \/ Fail
          \/ UNCHANGED <<pc, tokens, start>>
          \/ Return(LiteralType[text[start]], Len(text'), 0)
      BY <2>1 DEF Expect
    <2>3. Len(text') = Consumed'
      BY <2>1, Taken
    <2> QED
      BY <2>1, <2>2, <2>3, Failed, Finished DEF Ends
  <1>2. CASE ScanString
    <2>1. PICK b : /\ pc = "string" /\ Take(b)
                   /\ \/ Return("value_string", Len(text'), 0)
                      \/ Goto("escape")
                      \/ Fail
                      \/ pc' \in {"string", "tail"} /\ UNCHANGED <<tokens, start>>
      BY <1>2 DEF ScanString, Add
    <2>2. Len(text') = Consumed'
      BY <2>1, Taken
    <2> QED
      BY <2>1, <2>2, Failed, Finished DEF Ends, Goto
  <1>3. CASE NextByteInRange
    <2>1. PICK b : /\ pc = "tail" /\ Take(b)
                   /\ \/ Fail
                      \/ pc' \in {"string", "tail"} /\ UNCHANGED <<tokens, start>>
      BY <1>3 DEF NextByteInRange, Add
    <2> QED
      BY <2>1, Failed
  <1>4. CASE ScanEscape
    <2>1. PICK b : /\ pc = "escape" /\ Take(b)
                   /\ \/ Fail
                      \/ pc' \in {"string", "hex"} /\ UNCHANGED <<tokens, start>>
      BY <1>4 DEF ScanEscape, Add
    <2> QED
      BY <2>1, Failed
  <1>5. CASE GetCodepoint
    <2>1. PICK b : /\ pc = "hex" /\ Take(b)
                   /\ \/ UNCHANGED <<pc, tokens, start>>
                      \/ Expect(b, Codepoint(Last(codepoint) * 16 + Hex(b)))
      BY <1>5 DEF GetCodepoint
    <2>2. \/ Fail
          \/ UNCHANGED <<pc, tokens, start>>
          \/ Codepoint(Last(codepoint) * 16 + Hex(b))
      BY <2>1 DEF Expect
    <2>3. ASSUME NEW c, Codepoint(c)
          PROVE  Fail \/ (pc' \in {"string", "low"} /\ UNCHANGED <<tokens, start>>)
      BY <2>3 DEF Codepoint, Add
    <2> QED
      BY <2>1, <2>2, <2>3, Failed
  <1>6. CASE ScanLow
    <2>1. PICK b : /\ pc = "low" /\ Take(b)
                   /\ \/ Fail
                      \/ UNCHANGED <<pc, tokens, start>>
                      \/ pc' = "hex" /\ UNCHANGED <<tokens, start>>
      BY <1>6 DEF ScanLow, Expect
    <2> QED
      BY <2>1, Failed
  <1>7. CASE ScanNumber
    <2>1. pc \in InNumber
      BY <1>7 DEF ScanNumber
    <2>2. PICK b : \/ \E m \in Moves : Take(b) /\ Add(<<b>>, m.to)
                   \/ PutBack(b) /\ Return(NumberType(token_buffer), Len(text), NumberValue(token_buffer))
                   \/ Take(b) /\ Fail
      BY <1>7 DEF ScanNumber
    <2>3. CASE \E m \in Moves : Take(b) /\ Add(<<b>>, m.to)
      BY <2>1, <2>3, MovesOn DEF Add
    <2>4. CASE PutBack(b) /\ Return(NumberType(token_buffer), Len(text), NumberValue(token_buffer))
      <3>1. ~next_unget
        BY <2>1 DEF Gaps, GapOK
      <3>2. Len(text) = Consumed'
        BY <2>4, <3>1, PutAside DEF Consumed
      <3> QED
        BY <2>1, <2>4, <3>2, Finished DEF Ends
    <2>5. CASE Take(b) /\ Fail
      BY <2>1, <2>5, Failed
    <2> QED
      BY <2>2, <2>3, <2>4, <2>5
  <1> QED
    BY <1>1, <1>2, <1>3, <1>4, <1>5, <1>6, <1>7 DEF Inside

\* Within a token the gaps stay as they are.
LEMMA InsideGaps ==
  ASSUME TextOK, Gaps, Inside
  PROVE  Gaps'
  BY InsideStep, TokenGaps

\* Within the byte order mark nothing else has begun.
LEMMA AtMark ==
  ASSUME pc' = "bom2", start' = 1
  PROVE  GapOK' /\ CommentOK' /\ pc' \in Points /\ start' \in Nat \ {0}
  <1>1. pc' \notin InComment \cup InToken /\ pc' \notin InToken \cup {"comment", "line", "star"}
    BY DEF InToken, InComment, InString, InNumber
  <1>2. pc' # "blank" /\ pc' \notin {"block", "star"} /\ pc' \notin InComment
    BY DEF InComment
  <1>3. GapOK'
    BY <1>1, <1>2, Zenon DEF GapOK
  <1>4. CommentOK'
    <2>1. pc' # "comment" /\ pc' # "line" /\ pc' # "star"
      OBVIOUS
    <2> QED
      BY <1>2, <2>1, Zenon DEF CommentOK
  <1>5. pc' \in Points
    BY DEF Points
  <1>6. 1 \in Nat \ {0}
    OBVIOUS
  <1>7. start' \in Nat \ {0}
    BY <1>6, Zenon
  <1> QED
    BY <1>3, <1>4, <1>5, <1>7, Zenon

\* A byte of the byte order mark that is the right one.
LEMMA MarkStep ==
  ASSUME NEW b, Expect(b, Goto("blank")), ~Fail, NEW c, Head(expected) = {c}
  PROVE  b = c /\ UNCHANGED <<tokens, start>>
         /\ \/ Len(expected) > 1 /\ expected' = Tail(expected) /\ UNCHANGED pc
            \/ Len(expected) = 1 /\ pc' = "blank"
  BY DEF Expect, Goto

\* Nothing is skipped but the byte order mark.
LEMMA BomGaps ==
  ASSUME TextOK, Gaps, SkipBom
  PROVE  Gaps'
  <1>1. CASE pc = "bom"
    <2>1. text = <<>> /\ tokens = <<>> /\ start = 1 /\ ~next_unget /\ Consumed = 0
      BY <1>1 DEF Gaps, BomOK, Consumed
    <2>2. /\ \/ Take(239) /\ pc' = "bom2" /\ TwoAhead'
             \/ \E b \in Char \ {239} : PutBack(b) /\ pc' = "blank"
          /\ UNCHANGED <<tokens, start>>
      BY <1>1 DEF SkipBom, TwoAhead
    <2>3. CASE Take(239) /\ pc' = "bom2" /\ TwoAhead'
      <3>1. TextOK' /\ Longer /\ Consumed' = 1 /\ Len(text') = 1 /\ text'[1] = 239 /\ ~next_unget' /\ text' # <<>>
        <4>1. Take(239)
          BY <2>3
        <4>2. \A x : x = 0 => x + 1 = 1
          OBVIOUS
        <4>3. Consumed + 1 = 1
          BY <2>1, <4>2, Zenon
        <4>4. /\ TextOK' /\ Longer /\ ~next_unget' /\ text' # <<>>
              /\ Consumed' = Consumed + 1 /\ Len(text') = Consumed + 1 /\ text'[Consumed + 1] = 239
          BY <4>1, Taken, ZenonT(60)
        <4> QED
          BY <4>3, <4>4, Zenon
      <3>2. Consumed <= Consumed'
        BY <2>1, <3>1
      <3>3. TokensOK' /\ GapsBlank'
        BY <2>2, <3>1, <3>2, Onward
      <3>4. BomOK'
        BY <2>1, <2>2, <2>3, <3>1 DEF BomOK
      <3>5. pc' = "bom2" /\ start' = 1
        BY <2>1, <2>2, <2>3, Zenon
      <3>6. GapOK' /\ CommentOK' /\ pc' \in Points /\ start' \in Nat \ {0}
        BY <3>5, AtMark
      <3> QED
        BY <3>3, <3>4, <3>6 DEF Gaps
    <2>4. CASE \E b \in Char \ {239} : PutBack(b) /\ pc' = "blank"
      <3>1. /\ TextOK' /\ Longer /\ Consumed' = 0 /\ Len(text') = 1 /\ text'[1] # 239 /\ text' # <<>>
            /\ pc' = "blank"
        BY <2>1, <2>4, PutAside
      <3>2. Consumed <= Consumed'
        BY <2>1, <3>1
      <3>3. TokensOK' /\ GapsBlank'
        BY <2>2, <3>1, <3>2, Onward
      <3>4. Begin' = 1
        BY <2>1, <2>2, <3>1 DEF Begin, Bom
      <3>5. Skipped(text', 1, 0)
        <4>1. Skipped(text', 0 + 1, 0)
          BY NoneAhead
        <4> QED
          BY <4>1
      <3>6. BomOK' /\ GapOK' /\ CommentOK' /\ pc' \in Points /\ start' \in Nat \ {0}
        BY <2>1, <2>2, <3>1, <3>4, <3>5 DEF BomOK, GapOK, CommentOK, Points, InToken, InComment, InString, InNumber
      <3> QED
        BY <3>3, <3>6 DEF Gaps
    <2> QED
      BY <2>2, <2>3, <2>4
  <1>2. CASE pc = "bom2"
    <2>1. /\ text # <<>> /\ text[1] = 239 /\ tokens = <<>> /\ start = 1 /\ ~next_unget
          /\ \/ Len(text) = 1 /\ TwoAhead
             \/ Len(text) = 2 /\ text[2] = 187 /\ OneAhead
      BY <1>2 DEF Gaps, BomOK
    <2>2. PICK b : Take(b) /\ Expect(b, Goto("blank"))
      BY <1>2 DEF SkipBom
    <2>3. /\ TextOK' /\ Longer /\ ~next_unget' /\ text' # <<>> /\ Consumed = Len(text) /\ Consumed <= Consumed'
          /\ Consumed' = Len(text) + 1 /\ Len(text') = Len(text) + 1 /\ text'[Len(text) + 1] = b
          /\ text'[1] = 239 /\ (Len(text) = 2 => text'[2] = 187)
      BY <2>1, <2>2, Taken DEF Consumed, TextOK, Longer
    <2>4. CASE Fail
      <3>1. PICK t : tokens' = Append(tokens, t) /\ t.from = 1 /\ t.to = Consumed'
        BY <2>1, <2>2, <2>4, Failed DEF Ends
      <3>2. Behind(text', tokens', 1) = 1
        <4>1. tokens'[1] = t
          BY <2>1, <3>1
        <4>2. ~(1 > 1) /\ ~(t.from > 3)
          BY <3>1
        <4> QED
          BY <4>1, <4>2, Zenon DEF Behind
      <3>3. Len(tokens) + 1 = 1
        BY <2>1
      <3>4. Skipped(text', 1, 1 - 1)
        BY NoneSkipped
      <3>5. t.from \in Nat \ {0} /\ t.from <= Len(text') /\ 1 <= t.from
        BY <2>1, <2>3, <3>1 DEF TextOK
      <3>6. TokensOK' /\ GapsBlank' /\ Begin' = Consumed' + 1
        BY <2>3, <3>1, <3>2, <3>3, <3>4, <3>5, Returns
      <3>7. Ends /\ start' = start
        BY <2>2, <2>4, Failed
      <3>8. pc' \in {"blank", "done"}
        BY <3>7 DEF Ends
      <3>9. pc' = "done"
        BY <2>4 DEF Fail, Return, Finish
      <3>10. BomOK' /\ GapOK' /\ CommentOK' /\ pc' \in Points /\ start' \in Nat \ {0}
        BY <2>1, <3>7, <3>9 DEF BomOK, GapOK, CommentOK, Points, InToken, InComment, InString, InNumber
      <3> QED
        BY <3>6, <3>10 DEF Gaps
    <2>5. CASE ~Fail
      <3>1. \/ b = 187 /\ Len(text) = 1 /\ OneAhead' /\ UNCHANGED <<pc, tokens, start>>
            \/ b = 191 /\ Len(text) = 2 /\ pc' = "blank" /\ UNCHANGED <<tokens, start>>
        <4>1. CASE Len(text) = 1 /\ TwoAhead
          <5>1. Head(expected) = {187} /\ Len(expected) = 2 /\ Tail(expected) = <<{191}>>
            BY <4>1 DEF TwoAhead
          <5> QED
            <6>1. Len(expected) > 1 /\ ~(Len(expected) = 1)
              BY <5>1
            <6>2. /\ b = 187 /\ UNCHANGED <<tokens, start>>
                  /\ expected' = Tail(expected) /\ UNCHANGED pc
              BY <2>2, <2>5, <5>1, <6>1, MarkStep, ZenonT(60)
            <6>3. OneAhead'
              BY <5>1, <6>2, Zenon DEF OneAhead
            <6> QED
              BY <4>1, <6>2, <6>3, Zenon
        <4>2. CASE Len(text) = 2 /\ OneAhead
          <5>1. Head(expected) = {191} /\ Len(expected) = 1
            BY <4>2 DEF OneAhead
          <5> QED
            BY <2>2, <2>5, <4>2, <5>1 DEF Expect, Goto
        <4> QED
          BY <2>1, <4>1, <4>2
      <3>2. TokensOK' /\ GapsBlank'
        BY <2>3, <3>1, Onward
      <3>3. CASE b = 187 /\ Len(text) = 1 /\ OneAhead' /\ UNCHANGED <<pc, tokens, start>>
        <4>1. pc' = "bom2" /\ start' = 1 /\ tokens' = <<>>
          BY <1>2, <2>1, <3>3, Zenon
        <4>2. Len(text') = 2 /\ text'[2] = 187
          BY <2>3, <3>3
        <4>3. BomOK'
          <5>1. OneAhead' /\ text' # <<>> /\ text'[1] = 239 /\ ~next_unget'
            BY <2>3, <3>3
          <5>2. pc' # "bom" /\ pc' \in {"bom", "bom2", "done"}
            BY <4>1
          <5> QED
            BY <4>1, <4>2, <5>1, <5>2, Zenon DEF BomOK
        <4>4. GapOK' /\ CommentOK' /\ pc' \in Points /\ start' \in Nat \ {0}
          BY <4>1, AtMark
        <4> QED
          BY <3>2, <4>3, <4>4 DEF Gaps
      <3>4. CASE b = 191 /\ Len(text) = 2 /\ pc' = "blank" /\ UNCHANGED <<tokens, start>>
        <4>1. Bom' /\ Begin' = 4 /\ Consumed' = 3
          BY <2>1, <2>3, <3>4 DEF Bom, Begin
        <4>2. Skipped(text', 4, 3)
          <5>1. Skipped(text', 3 + 1, 3)
            BY NoneAhead
          <5> QED
            BY <5>1
        <4>3. BomOK' /\ GapOK' /\ CommentOK' /\ pc' \in Points /\ start' \in Nat \ {0}
          BY <2>1, <2>3, <3>4, <4>1, <4>2 DEF BomOK, GapOK, CommentOK, Points, InToken, InComment, InString, InNumber
        <4> QED
          BY <3>2, <4>3 DEF Gaps
      <3> QED
        BY <3>1, <3>3, <3>4
    <2> QED
      BY <2>4, <2>5
  <1> QED
    BY <1>1, <1>2 DEF SkipBom

\* At blank, where a gap ends.
LEMMA AtBlank ==
  ASSUME TextOK, Gaps, NEW b, Take(b), pc = "blank"
  PROVE  /\ TextOK' /\ Longer /\ Consumed \in Nat /\ Consumed' = Consumed + 1 /\ Consumed <= Consumed'
         /\ ~next_unget' /\ Len(text') = Consumed + 1 /\ text'[Consumed + 1] = b
         /\ Marked /\ Marked'
         /\ Begin \in Nat \ {0} /\ Begin <= Consumed + 1 /\ Skipped(text', Begin, Consumed)
         /\ tokens' = tokens => Begin' = Begin /\ TokensOK' /\ GapsBlank'
  <1>1. /\ TextOK' /\ Longer /\ Consumed' = Consumed + 1 /\ ~next_unget'
        /\ Len(text') = Consumed + 1 /\ text'[Consumed + 1] = b
    BY Taken
  <1>2. Consumed \in Nat /\ Consumed <= Len(text)
    BY DEF TextOK, Consumed
  <1>3. Consumed <= Consumed'
    BY <1>1, <1>2
  <1>4. Marked
    <2>1. pc \notin {"bom", "bom2", "done"}
      OBVIOUS
    <2>2. BomOK
      BY DEF Gaps
    <2>3. text # <<>> /\ (text[1] = 239 => Bom /\ Consumed > 2)
      BY <2>1, <2>2 DEF BomOK
    <2> QED
      BY <2>3, Zenon DEF Marked
  <1>5. Marked'
    BY <1>1, <1>3, <1>4, StaysMarked
  <1>6. Begin \in Nat \ {0} /\ (tokens' = tokens => Begin' = Begin)
    BY <1>1, <1>3, <1>4, SameBegin
  <1>7. Begin <= Consumed + 1 /\ Skipped(text, Begin, Consumed)
    BY DEF Gaps, GapOK
  <1>8. Skipped(text', Begin, Consumed)
    <2>1. \A k \in 1..Consumed : text'[k] = text[k]
      BY <1>1, <1>2 DEF Longer, TextOK
    <2> QED
      BY <1>2, <1>6, <1>7, <2>1, StillSkipped
  <1>9. tokens' = tokens => TokensOK' /\ GapsBlank'
    BY <1>1, <1>3, Onward
  <1> QED
    BY <1>1, <1>2, <1>3, <1>4, <1>5, <1>6, <1>7, <1>8, <1>9

\* A blank makes a gap longer.
LEMMA WhitespaceGaps ==
  ASSUME TextOK, Gaps, SkipWhitespace
  PROVE  Gaps'
  <1>1. PICK b \in Blank : Take(b)
    BY DEF SkipWhitespace
  <1>2. pc = "blank" /\ pc' = "blank" /\ UNCHANGED <<tokens, start>>
    BY DEF SkipWhitespace, Goto
  <1> DEFINE n == Consumed
  <1>3. /\ TextOK' /\ n \in Nat /\ Consumed' = n + 1 /\ text'[n + 1] = b /\ Marked'
        /\ Begin \in Nat \ {0} /\ Begin <= n + 1 /\ Skipped(text', Begin, n)
        /\ Begin' = Begin /\ TokensOK' /\ GapsBlank'
    BY <1>1, <1>2, AtBlank
  <1> HIDE DEF n
  <1>4. Skipped(text', Begin, n + 1)
    <2>1. IsGap(text', n + 1, n + 1)
      BY <1>3 DEF IsGap
    <2>2. n + 1 \in Nat /\ n < n + 1
      BY <1>3
    <2> QED
      BY <1>3, <2>1, <2>2, SkippedMore
  <1>5. Begin' <= Consumed' + 1 /\ Skipped(text', Begin', Consumed')
    BY <1>3, <1>4
  <1>6. BomOK' /\ GapOK' /\ CommentOK' /\ pc' \in Points /\ start' \in Nat \ {0}
    BY <1>2, <1>3, <1>5 DEF BomOK, GapOK, CommentOK, Gaps, Points, Marked, InToken, InComment, InString, InNumber
  <1> QED
    BY <1>3, <1>6 DEF Gaps

\* A slash may begin a comment.
LEMMA CommentGaps ==
  ASSUME TextOK, Gaps, Comment
  PROVE  Gaps'
  <1>1. Take(47) /\ pc = "blank" /\ pc' = "comment" /\ start' = Len(text') /\ UNCHANGED tokens
    BY DEF Comment
  <1> DEFINE n == Consumed
  <1>2. /\ TextOK' /\ n \in Nat /\ Consumed' = n + 1 /\ text'[n + 1] = 47 /\ Len(text') = n + 1
        /\ Marked' /\ ~next_unget'
        /\ Begin \in Nat \ {0} /\ Begin <= n + 1 /\ Skipped(text', Begin, n)
        /\ Begin' = Begin /\ TokensOK' /\ GapsBlank'
    BY <1>1, AtBlank
  <1> HIDE DEF n
  <1>3. start' = n + 1 /\ start' - 1 = n /\ start' \in Nat \ {0}
    BY <1>1, <1>2
  <1>4. BomOK' /\ GapOK' /\ CommentOK' /\ pc' \in Points
    BY <1>1, <1>2, <1>3 DEF BomOK, GapOK, CommentOK, Points, Marked, InToken, InComment, InString, InNumber
  <1> QED
    BY <1>2, <1>3, <1>4 DEF Gaps

\* A step within a comment.
LEMMA CommentStays ==
  ASSUME TextOK, Gaps, NEW b, Take(b) \/ PutBack(b), pc \in InComment, start' = start, tokens' = tokens,
         pc' \in InComment, CommentOK', pc' # "block" => Take(b)
  PROVE  Gaps'
  <1>1. /\ Marked' /\ TextOK' /\ start <= Consumed' /\ TokensOK' /\ GapsBlank' /\ Begin' = Begin
        /\ Begin <= start /\ Skipped(text', Begin, start - 1)
    BY Amid
  <1>2. pc' \in {"comment", "line", "star"} => ~next_unget'
    BY Taken
  <1>3. BomOK' /\ GapOK' /\ pc' \in Points
    BY <1>1, <1>2 DEF BomOK, GapOK, Marked, Points, InToken, InComment, InString, InNumber
  <1>4. start' \in Nat \ {0}
    BY DEF Gaps
  <1> QED
    BY <1>1, <1>3, <1>4 DEF Gaps

\* A comment has come to its end.
LEMMA CommentEnds ==
  ASSUME TextOK, Gaps, NEW b, Take(b), pc \in InComment, start' = start, tokens' = tokens,
         pc' = "blank", IsGap(text', start, Consumed')
  PROVE  Gaps'
  <1>1. /\ Marked' /\ TextOK' /\ start <= Consumed' /\ TokensOK' /\ GapsBlank' /\ Begin' = Begin
        /\ Begin <= start /\ Skipped(text', Begin, start - 1)
    BY Amid
  <1>2. Begin \in Nat \ {0} /\ start \in Nat \ {0}
    <2>1. Marked
      BY DEF Gaps, BomOK, Marked, InComment
    <2>2. TextOK' /\ Longer /\ Consumed <= Consumed'
      BY Taken DEF TextOK, Consumed
    <2> QED
      BY <2>1, <2>2, SameBegin DEF Gaps
  <1> DEFINE j == start - 1
             m == Consumed'
  <1>3. j \in Nat /\ m \in Nat /\ j + 1 = start /\ j < m /\ Begin <= m + 1
    BY <1>1, <1>2 DEF TextOK, Consumed
  <1>4. IsGap(text', j + 1, m) /\ Skipped(text', Begin, j) /\ Begin <= j + 1
    BY <1>1, <1>3
  <1> HIDE DEF j
  <1>5. Skipped(text', Begin, m)
    <2> HIDE DEF m
    <2> QED
      BY <1>2, <1>3, <1>4, SkippedMore
  <1>6. Begin' <= Consumed' + 1 /\ Skipped(text', Begin', Consumed')
    BY <1>1, <1>3, <1>5
  <1>7. BomOK' /\ GapOK' /\ CommentOK' /\ pc' \in Points
    BY <1>1, <1>6 DEF BomOK, GapOK, CommentOK, Marked, Points, InToken, InComment, InString, InNumber
  <1> QED
    BY <1>1, <1>2, <1>7 DEF Gaps

\* Nothing follows an error.
LEMMA CommentFails ==
  ASSUME TextOK, Gaps, NEW b, Take(b), pc \in InComment, Fail
  PROVE  Gaps'
  <1>1. Ends /\ start' = start
    BY Failed
  <1>2. TokensOK' /\ GapsBlank'
    BY <1>1, Amid DEF Ends
  <1>3. pc' = "done"
    BY DEF Fail, Return, Finish
  <1>4. BomOK' /\ GapOK' /\ CommentOK' /\ pc' \in Points
    BY <1>3 DEF BomOK, GapOK, CommentOK, Points, InToken, InComment, InString, InNumber
  <1>5. start' \in Nat \ {0}
    BY <1>1 DEF Gaps
  <1> QED
    BY <1>2, <1>4, <1>5 DEF Gaps

\* A comment that ends is one gap more, a star that was put back included.
LEMMA ScanCommentGaps ==
  ASSUME TextOK, Gaps, ScanComment
  PROVE  Gaps'
  <1>1. PICK b : \/ /\ pc = "comment" /\ Take(b)
                    /\ \/ b = 47 /\ Goto("line")
                       \/ b = 42 /\ Goto("block")
                       \/ Fail
                 \/ /\ pc = "line" /\ Take(b)
                    /\ \/ b \in {Lf, 13, EOF, 0} /\ Goto("blank")
                       \/ b \notin {Lf, 13, EOF, 0} /\ Goto("line")
                 \/ /\ pc = "block" /\ Take(b)
                    /\ \/ Fail
                       \/ b = 42 /\ Goto("star")
                       \/ b # 42 /\ Goto("block")
                 \/ /\ pc = "star"
                    /\ \/ b = 47 /\ Take(b) /\ Goto("blank")
                       \/ b # 47 /\ PutBack(b) /\ Goto("block")
    BY DEF ScanComment, CommentStar
  <1> DEFINE n == Consumed
  <1>2. /\ n \in Nat /\ n <= Len(text) /\ start \in Nat \ {0} /\ start <= n /\ text[start] = 47
        /\ Take(b) \/ PutBack(b)
    BY <1>1 DEF Gaps, GapOK, CommentOK, InComment, TextOK, Consumed
  <1>3. /\ \A k \in 1..n : text'[k] = text[k]
        /\ Take(b) => Consumed' = n + 1 /\ text'[n + 1] = b
        /\ PutBack(b) => Consumed' = n /\ next_unget' /\ Len(text') = n + 1 /\ text'[n + 1] = b
    BY <1>2, Taken, PutAside DEF Longer, TextOK
  <1>4. /\ pc = "comment" => start = n
        /\ pc = "line" => /\ start < n /\ text[start + 1] = 47
                          /\ \A k \in (start + 2)..n : text[k] \notin {Lf, 13, EOF, 0}
        /\ pc \in {"block", "star"} => /\ start < n /\ text[start + 1] = 42
                                       /\ \A k \in (start + 3)..n : ~(text[k - 1] = 42 /\ text[k] = 47)
        /\ pc = "star" => start + 1 < n /\ text[n] = 42
        /\ pc = "block" /\ start + 1 < n /\ text[n] = 42 => next_unget /\ text[Len(text)] # 47
    BY DEF Gaps, CommentOK
  <1> HIDE DEF n
  <1>5. CASE pc = "comment" /\ Take(b) /\ b = 47 /\ Goto("line")
    <2>1. CommentOK'
      BY <1>2, <1>3, <1>4, <1>5 DEF CommentOK, Goto, InComment
    <2> QED
      BY <1>5, <2>1, CommentStays DEF Goto, InComment
  <1>6. CASE pc = "comment" /\ Take(b) /\ b = 42 /\ Goto("block")
    <2>1. CommentOK'
      BY <1>2, <1>3, <1>4, <1>6 DEF CommentOK, Goto, InComment
    <2> QED
      BY <1>6, <2>1, CommentStays DEF Goto, InComment
  <1>7. CASE pc = "line" /\ Take(b) /\ b \in {Lf, 13, EOF, 0} /\ Goto("blank")
    <2>1. {k \in (start + 2)..(n + 1) : text'[k] \in {Lf, 13, EOF, 0}} = {n + 1}
      BY <1>2, <1>3, <1>4, <1>7
    <2>2. n + 1 > start + 1 /\ text'[start] = 47 /\ text'[start + 1] = 47
      BY <1>2, <1>3, <1>4, <1>7
    <2>3. IsGap(text', start, Consumed')
      BY <1>3, <1>7, <2>1, <2>2 DEF IsGap
    <2> QED
      BY <1>7, <2>3, CommentEnds DEF Goto, InComment
  <1>8. CASE pc = "line" /\ Take(b) /\ b \notin {Lf, 13, EOF, 0} /\ Goto("line")
    <2>1. CommentOK'
      BY <1>2, <1>3, <1>4, <1>8 DEF CommentOK, Goto, InComment
    <2> QED
      BY <1>8, <2>1, CommentStays DEF Goto, InComment
  <1>9. CASE pc = "block" /\ Take(b) /\ b = 42 /\ Goto("star")
    <2>1. CommentOK'
      BY <1>2, <1>3, <1>4, <1>9 DEF CommentOK, Goto, InComment
    <2> QED
      BY <1>9, <2>1, CommentStays DEF Goto, InComment
  <1>10. CASE pc = "block" /\ Take(b) /\ b # 42 /\ Goto("block")
    <2>1. CommentOK'
      <3>1. next_unget => b = text[Len(text)]
        BY <1>10 DEF Take, Get, Char, Last
      <3>2. \A k \in (start + 3)..(n + 1) : ~(text'[k - 1] = 42 /\ text'[k] = 47)
        <4> TAKE k \in (start + 3)..(n + 1)
        <4>1. CASE k = n + 1
          BY <1>2, <1>3, <1>4, <1>10, <3>1, <4>1
        <4>2. CASE k # n + 1
          <5>1. k \in 1..n /\ k - 1 \in 1..n /\ k \in (start + 3)..n
            BY <1>2, <4>2
          <5> QED
            BY <1>3, <1>4, <1>10, <5>1
        <4> QED
          BY <4>1, <4>2
      <3>3. pc' = "block" /\ start' = start /\ Consumed' = n + 1 /\ text'[n + 1] # 42
        BY <1>3, <1>10 DEF Goto
      <3>4. start < n + 1 /\ text'[start] = 47 /\ text'[start + 1] = 42
        BY <1>2, <1>3, <1>4, <1>10
      <3> QED
        BY <3>2, <3>3, <3>4 DEF CommentOK, InComment
    <2> QED
      BY <1>10, <2>1, CommentStays DEF Goto, InComment
  <1>11. CASE pc = "star" /\ Take(b) /\ b = 47 /\ Goto("blank")
    <2>1. {k \in (start + 3)..(n + 1) : text'[k - 1] = 42 /\ text'[k] = 47} = {n + 1}
      BY <1>2, <1>3, <1>4, <1>11
    <2>2. n + 1 > start + 2 /\ text'[start] = 47 /\ text'[start + 1] = 42
      BY <1>2, <1>3, <1>4, <1>11
    <2>3. IsGap(text', start, Consumed')
      BY <1>3, <1>11, <2>1, <2>2 DEF IsGap
    <2> QED
      BY <1>11, <2>3, CommentEnds DEF Goto, InComment
  <1>12. CASE pc = "star" /\ b # 47 /\ PutBack(b) /\ Goto("block")
    <2>1. CommentOK'
      BY <1>2, <1>3, <1>4, <1>12 DEF CommentOK, Goto, InComment
    <2> QED
      BY <1>12, <2>1, CommentStays DEF Goto, InComment
  <1>13. CASE pc \in {"comment", "block"} /\ Take(b) /\ Fail
    BY <1>13, CommentFails DEF InComment
  <1> QED
    BY <1>1, <1>5, <1>6, <1>7, <1>8, <1>9, <1>10, <1>11, <1>12, <1>13

\* The first byte of a token is a token, or it begins one.
LEMMA Scanned ==
  ASSUME Scan
  PROVE  \E b \in Char \ Blank :
           /\ Take(b) /\ pc = "blank" /\ start' = Len(text') /\ ~(input.comments /\ b = 47)
           /\ \/ pc' \in InToken /\ tokens' = tokens
              \/ /\ pc' \in {"blank", "done"}
                 /\ \E t : tokens' = Append(tokens, t) /\ t.from = start' /\ t.to = start'
  <1>1. PICK b \in Char \ Blank :
           /\ Take(b) /\ pc = "blank" /\ start' = Len(text') /\ ~(input.comments /\ b = 47)
           /\ \/ pc' \in {"literal", "string", "zero", "any1", "minus"} /\ UNCHANGED tokens
              \/ \E type : Finish([type |-> type, from |-> start', to |-> start', buffer |-> <<>>, value |-> 0])
    BY Zenon DEF Scan
  <1>2. CASE pc' \in {"literal", "string", "zero", "any1", "minus"} /\ UNCHANGED tokens
    BY <1>1, <1>2 DEF InToken, InString, InNumber
  <1>3. CASE \E type : Finish([type |-> type, from |-> start', to |-> start', buffer |-> <<>>, value |-> 0])
    BY <1>1, <1>3 DEF Finish
  <1> QED
    BY <1>1, <1>2, <1>3

\* The first byte of a token ends the gap before it.
LEMMA ScanGaps ==
  ASSUME TextOK, Gaps, Scan
  PROVE  Gaps'
  <1>1. PICK b : /\ Take(b) /\ pc = "blank" /\ start' = Len(text')
                 /\ \/ pc' \in InToken /\ tokens' = tokens
                    \/ /\ pc' \in {"blank", "done"}
                       /\ \E t : tokens' = Append(tokens, t) /\ t.from = start' /\ t.to = start'
    BY Scanned
  <1> DEFINE n == Consumed
  <1>2. /\ TextOK' /\ Longer /\ n \in Nat /\ Consumed' = n + 1 /\ n <= Consumed' /\ ~next_unget' /\ Len(text') = n + 1
        /\ Marked /\ Marked'
        /\ Begin \in Nat \ {0} /\ Begin <= n + 1 /\ Skipped(text', Begin, n)
        /\ tokens' = tokens => Begin' = Begin /\ TokensOK' /\ GapsBlank'
    BY <1>1, AtBlank
  <1> HIDE DEF n
  <1>3. start' = n + 1 /\ start' - 1 = n /\ start' \in Nat \ {0} /\ start' <= Consumed'
    BY <1>1, <1>2
  <1>4. CASE pc' \in InToken /\ tokens' = tokens
    <2>1. BomOK' /\ GapOK' /\ CommentOK' /\ pc' \in Points
      BY <1>2, <1>3, <1>4 DEF BomOK, GapOK, CommentOK, Marked, Points, InToken, InComment, InString, InNumber
    <2> QED
      BY <1>2, <1>3, <1>4, <2>1 DEF Gaps
  <1>5. CASE pc' \in {"blank", "done"} /\ \E t : tokens' = Append(tokens, t) /\ t.from = start' /\ t.to = start'
    <2>1. PICK t : tokens' = Append(tokens, t) /\ t.from = start' /\ t.to = start'
      BY <1>5
    <2>2. t.from \in Nat \ {0} /\ t.from \in Nat /\ t.from <= Len(text') /\ t.to = Consumed' /\ Begin <= t.from /\ t.from - 1 = n
      BY <1>2, <1>3, <2>1
    <2>3. Behind(text', tokens', Len(tokens) + 1) = Begin
      BY <1>2, <2>1, <2>2, SameBegin DEF n
    <2>4. /\ Behind(text', tokens', Len(tokens) + 1) <= t.from
          /\ Skipped(text', Behind(text', tokens', Len(tokens) + 1), t.from - 1)
      BY <1>2, <2>2, <2>3
    <2>5. Consumed <= Consumed'
      BY <1>2 DEF n
    <2>6. TokensOK' /\ GapsBlank' /\ Begin' = Consumed' + 1
      BY <1>2, <2>1, <2>2, <2>4, <2>5, Returns
    <2>7. Begin' <= Consumed' + 1 /\ Skipped(text', Begin', Consumed')
      <3>1. n + 1 \in Nat /\ Begin' = (n + 1) + 1
        BY <1>2, <2>6
      <3>2. Skipped(text', (n + 1) + 1, n + 1)
        BY <3>1, NoneAhead
      <3> QED
        BY <1>2, <3>1, <3>2
    <2>8. BomOK' /\ GapOK' /\ CommentOK' /\ pc' \in Points
      BY <1>2, <1>5, <2>7 DEF BomOK, GapOK, CommentOK, Marked, Points, InToken, InComment, InString, InNumber
    <2> QED
      BY <1>3, <2>6, <2>8 DEF Gaps
  <1> QED
    BY <1>1, <1>4, <1>5

LexerInv == TextOK /\ Located /\ Gaps

\* The invariant holds at first.
LEMMA LexerInit ==
  ASSUME InitLexer
  PROVE  LexerInv
  <1> USE DEF InitLexer
  <1>1. TextOK
    <2>1. \A S : <<>> \in Seq(S)
      OBVIOUS
    <2>2. text = <<>> /\ input \in Inputs /\ next_unget = FALSE
      OBVIOUS
    <2> HIDE DEF InitLexer
    <2> QED
      BY <2>1, <2>2, Zenon DEF TextOK
  <1>2. Consumed = 0
    BY DEF Consumed
  <1>3. Located
    <2>1. Breaks = {}
      BY <1>2 DEF Breaks
    <2>2. Cardinality(Breaks) = 0
      BY <2>1, FS_EmptySet
    <2> QED
      BY <1>2, <2>2 DEF Located, PositionOK, ColumnExact
  <1>4. Gaps
    <2>1. TokensOK /\ GapsBlank
      <3>1. \A S : <<>> \in Seq(S)
        OBVIOUS
      <3>2. Len(tokens) = 0 /\ DOMAIN tokens = {}
        OBVIOUS
      <3>3. \A i \in 1..Len(tokens) : FALSE
        BY <3>2
      <3> QED
        BY <3>1, <3>2, <3>3 DEF TokensOK, GapsBlank
    <2>2. BomOK /\ GapOK /\ CommentOK /\ pc \in Points
      BY DEF BomOK, GapOK, CommentOK, Points, InToken, InComment, InString, InNumber
    <2> QED
      BY <2>1, <2>2 DEF Gaps
  <1> QED
    BY <1>1, <1>3, <1>4 DEF LexerInv

\* Every step keeps it.
LEMMA LexerStep ==
  ASSUME LexerInv, NextLexer
  PROVE  LexerInv'
  <1> USE DEF LexerInv
  <1>1. TextOK' /\ Located'
    BY OneByte, Taken, PutAside, TakenLocated, PutAsideLocated
  <1>2. Gaps'
    <2>1. SkipBom => Gaps'
      BY BomGaps
    <2>2. SkipWhitespace => Gaps'
      BY WhitespaceGaps
    <2>3. Comment => Gaps'
      BY CommentGaps
    <2>4. ScanComment => Gaps'
      BY ScanCommentGaps
    <2>5. Scan => Gaps'
      BY ScanGaps
    <2>6. Inside => Gaps'
      BY InsideGaps
    <2> QED
      BY <2>1, <2>2, <2>3, <2>4, <2>5, <2>6 DEF NextLexer, Inside
  <1> QED
    BY <1>1, <1>2

\* So does a stuttering step.
LEMMA LexerStutters ==
  ASSUME LexerInv, UNCHANGED lexer
  PROVE  LexerInv'
  <1> USE DEF lexer
  <1>1. TextOK' /\ Consumed' = Consumed /\ Begin' = Begin
    BY Zenon DEF LexerInv, TextOK, Consumed, Begin, Bom
  <1>2. Located'
    BY <1>1 DEF LexerInv, Located, PositionOK, ColumnExact, Breaks
  <1>3. Gaps'
    <2>1. BomOK'
      BY <1>1 DEF LexerInv, Gaps, BomOK, Bom, TwoAhead, OneAhead
    <2>2. GapOK' /\ CommentOK'
      BY <1>1 DEF LexerInv, Gaps, GapOK, CommentOK
    <2>3. TokensOK' /\ GapsBlank'
      BY <1>1 DEF LexerInv, Gaps, TokensOK, GapsBlank
    <2> QED
      BY <2>1, <2>2, <2>3 DEF LexerInv, Gaps
  <1> QED
    BY <1>1, <1>2, <1>3 DEF LexerInv

\* Every byte is read once, also the ones that unget() puts back: what lies between two
\* tokens can be cut into blanks and comments, and position_t tells the bytes and lines
\* that were read.
THEOREM NothingSkippedHolds == SpecLexer => []NothingSkipped
  <1>1. InitLexer => LexerInv
    BY LexerInit
  <1>2. LexerInv /\ [NextLexer]_lexer => LexerInv'
    BY LexerStep, LexerStutters
  <1>3. LexerInv => NothingSkipped
    BY LocatedExact DEF LexerInv, Gaps, NothingSkipped
  <1> QED
    BY <1>1, <1>2, <1>3, PTL DEF SpecLexer

-----------------------------------------------------------------------------
(* The tokens: what was read of the one at hand, and what was returned.     *)

\* A slice of what was read.
LEMMA Part ==
  ASSUME NEW s \in Seq(Returned), NEW i \in Nat \ {0}, NEW n \in Nat, n <= Len(s), i <= n + 1
  PROVE  /\ SubSeq(s, i, n) \in Seq(Returned) /\ SubSeq(s, i, n) \in Seq(Int)
         /\ Len(SubSeq(s, i, n)) = n - i + 1
         /\ \A k \in 1..(n - i + 1) : SubSeq(s, i, n)[k] = s[i + k - 1]
  <1>1. SubSeq(s, i, n) \in Seq(Returned) /\ Len(SubSeq(s, i, n)) = n - i + 1
        /\ \A k \in 1..(n - i + 1) : SubSeq(s, i, n)[k] = s[i + k - 1]
    OBVIOUS
  <1>2. Returned \subseteq Int
    BY DEF Returned
  <1> QED
    BY <1>1, <1>2, SeqMonotonic

\* A slice stays the same when more is read.
LEMMA PartSame ==
  ASSUME NEW s \in Seq(Returned), NEW t \in Seq(Returned), NEW i \in Nat \ {0}, NEW n \in Nat,
         n <= Len(s), n <= Len(t), \A k \in 1..n : t[k] = s[k], i <= n + 1
  PROVE  SubSeq(t, i, n) = SubSeq(s, i, n)
  <1>1. PICK u \in Seq(Returned) : /\ u = SubSeq(s, i, n) /\ Len(u) = n - i + 1
                                   /\ \A k \in 1..(n - i + 1) : u[k] = s[i + k - 1]
    BY Part
  <1>2. PICK v \in Seq(Returned) : /\ v = SubSeq(t, i, n) /\ Len(v) = n - i + 1
                                   /\ \A k \in 1..(n - i + 1) : v[k] = t[i + k - 1]
    BY Part
  <1>3. \A k \in 1..(n - i + 1) : i + k - 1 \in 1..n
    OBVIOUS
  <1>4. \A k \in 1..(n - i + 1) : v[k] = u[k]
    BY <1>1, <1>2, <1>3
  <1>5. v = u
    BY <1>1, <1>2, <1>4, SeqEqual
  <1> QED
    BY <1>1, <1>2, <1>5, Zenon

\* A slice with one byte more.
LEMMA PartGrows ==
  ASSUME NEW s \in Seq(Returned), NEW t \in Seq(Returned), NEW i \in Nat \ {0}, NEW n \in Nat,
         n <= Len(s), n < Len(t), \A k \in 1..n : t[k] = s[k], i <= n + 1
  PROVE  SubSeq(t, i, n + 1) = Append(SubSeq(s, i, n), t[n + 1])
  <1>1. PICK u \in Seq(Int) : /\ u = SubSeq(s, i, n) /\ Len(u) = n - i + 1
                              /\ \A k \in 1..(n - i + 1) : u[k] = s[i + k - 1]
    BY Part
  <1>2. PICK m \in Nat : m = n + 1 /\ m <= Len(t) /\ i <= m + 1 /\ m - i + 1 = n - i + 2 /\ m \in 1..Len(t)
    OBVIOUS
  <1>3. PICK v \in Seq(Int) : /\ v = SubSeq(t, i, n + 1) /\ Len(v) = n - i + 2
                              /\ \A k \in 1..(n - i + 2) : v[k] = t[i + k - 1]
    <2>1. /\ SubSeq(t, i, m) \in Seq(Int) /\ Len(SubSeq(t, i, m)) = m - i + 1
          /\ \A k \in 1..(m - i + 1) : SubSeq(t, i, m)[k] = t[i + k - 1]
      BY <1>2, Part
    <2> QED
      BY <1>2, <2>1, Zenon
  <1>4. t[n + 1] \in Int
    <2>1. t[m] \in Returned
      BY <1>2
    <2>2. Returned \subseteq Int
      BY DEF Returned
    <2> QED
      BY <1>2, <2>1, <2>2, Zenon
  <1>5. PICK w \in Seq(Int) : /\ w = Append(u, t[n + 1]) /\ Len(w) = n - i + 2
                              /\ \A k \in 1..(n - i + 1) : w[k] = u[k]
                              /\ w[n - i + 2] = t[n + 1]
    <2>1. PICK e \in Int : e = t[n + 1]
      BY <1>4
    <2>2. /\ Append(u, e) \in Seq(Int) /\ Len(Append(u, e)) = Len(u) + 1
          /\ \A k \in 1..Len(u) : Append(u, e)[k] = u[k]
          /\ Append(u, e)[Len(u) + 1] = e
      BY Appended
    <2>3. Len(u) + 1 = n - i + 2
      BY <1>1
    <2> QED
      BY <1>1, <2>1, <2>2, <2>3, Zenon
  <1>6. \A k \in 1..(n - i + 2) : v[k] = w[k]
    <2> TAKE k \in 1..(n - i + 2)
    <2>1. CASE k = n - i + 2
      <3>1. i + k - 1 = n + 1
        BY <2>1
      <3> QED
        BY <1>3, <1>5, <2>1, <3>1
    <2>2. CASE k # n - i + 2
      <3>1. k \in 1..(n - i + 1) /\ i + k - 1 \in 1..n
        BY <2>2
      <3> QED
        BY <1>1, <1>3, <1>5, <3>1
    <2> QED
      BY <2>1, <2>2
  <1>7. v = w
    BY <1>3, <1>5, <1>6, SeqEqual
  <1> QED
    BY <1>1, <1>3, <1>5, <1>7, Zenon

Read(i) == SubSeq(text, i, Consumed)

\* What was read from a place on.
LEMMA ReadSeq ==
  ASSUME TextOK, NEW i \in Nat \ {0}, i <= Consumed + 1
  PROVE  /\ Read(i) \in Seq(Returned) /\ Read(i) \in Seq(Int)
         /\ Len(Read(i)) = Consumed - i + 1
         /\ \A k \in 1..(Consumed - i + 1) : Read(i)[k] = text[i + k - 1]
  <1>1. text \in Seq(Returned) /\ Consumed \in Nat /\ Consumed <= Len(text)
    BY DEF TextOK, Consumed
  <1> QED
    BY <1>1, Part DEF Read

\* get() reads one byte more.
LEMMA ReadMore ==
  ASSUME TextOK, NEW b, Take(b), NEW i \in Nat \ {0}, i <= Consumed + 1
  PROVE  Read(i)' = Append(Read(i), b) /\ b \in Int
  <1>1. /\ b \in Returned /\ TextOK' /\ Longer /\ Consumed' = Consumed + 1 /\ text'[Consumed + 1] = b
        /\ Len(text') = Consumed + 1
    BY Taken
  <1>2. PICK n \in Nat : n = Consumed
    <2>1. Consumed \in Nat
      BY DEF TextOK, Consumed
    <2> QED
      BY <2>1
  <1>3. /\ n <= Len(text) /\ n < Len(text') /\ text \in Seq(Returned) /\ text' \in Seq(Returned)
        /\ \A k \in 1..n : text'[k] = text[k]
    BY <1>1, <1>2 DEF TextOK, Longer, Consumed
  <1>4. SubSeq(text', i, n + 1) = Append(SubSeq(text, i, n), text'[n + 1])
    BY <1>2, <1>3, PartGrows
  <1>5. b \in Int
    BY <1>1 DEF Returned
  <1> QED
    BY <1>1, <1>2, <1>4, <1>5, Zenon DEF Read

\* With unget() none.
LEMMA ReadSame ==
  ASSUME TextOK, NEW b, PutBack(b), NEW i \in Nat \ {0}, i <= Consumed + 1
  PROVE  Read(i)' = Read(i) /\ b \in Int
  <1>1. /\ b \in Returned /\ TextOK' /\ Longer /\ Consumed' = Consumed /\ Len(text') = Consumed + 1
    BY PutAside
  <1>2. PICK n \in Nat : n = Consumed
    <2>1. Consumed \in Nat
      BY DEF TextOK, Consumed
    <2> QED
      BY <2>1
  <1>3. /\ n <= Len(text) /\ n <= Len(text') /\ text \in Seq(Returned) /\ text' \in Seq(Returned)
        /\ \A k \in 1..n : text'[k] = text[k]
    BY <1>1, <1>2 DEF TextOK, Longer, Consumed
  <1>4. SubSeq(text', i, n) = SubSeq(text, i, n)
    BY <1>2, <1>3, PartSame
  <1>5. b \in Int
    BY <1>1 DEF Returned
  <1> QED
    BY <1>1, <1>2, <1>4, <1>5, Zenon DEF Read

\* What was returned as token t, of which s was read and behind it next.
Told(t, s, next, comments) ==
  /\ t.type = "value_string" => StringExact(s, t.buffer)
  /\ t.type \in Numbers => NumberExact(s, t, next)
  /\ t.type \in DOMAIN Word => s = Word[t.type]
  /\ t.type = "parse_error" => BeginsNothing(s, t.from, comments)

Judged(x, comments, t) ==
  /\ Told(t, SubSeq(x, t.from, t.to), x[t.to + 1], comments)
  /\ t.from <= t.to
  /\ t.type \in Numbers => t.to < Len(x)

ToldOK == \A i \in 1..Len(tokens) : Judged(text, input.comments, tokens[i])

\* What was told stays true when more is read.
LEMMA JudgedStays ==
  ASSUME NEW x \in Seq(Returned), NEW y \in Seq(Returned), Len(x) <= Len(y), \A k \in 1..Len(x) : y[k] = x[k],
         NEW comments, NEW t, t.from \in Nat \ {0}, t.to \in Nat, t.to <= Len(x), Judged(x, comments, t)
  PROVE  Judged(y, comments, t)
  <1>1. PICK n \in Nat, i \in Nat \ {0} : n = t.to /\ i = t.from /\ n <= Len(x) /\ i <= n
    BY Zenon DEF Judged
  <1>2. n <= Len(y) /\ i <= n + 1 /\ \A k \in 1..n : y[k] = x[k]
    BY <1>1
  <1>3. SubSeq(y, i, n) = SubSeq(x, i, n)
    BY <1>1, <1>2, PartSame
  <1>4. t.type \in Numbers => n < Len(x) /\ n < Len(y) /\ y[n + 1] = x[n + 1]
    <2>1. n < Len(x) => n < Len(y) /\ n + 1 \in 1..Len(x)
      BY <1>1
    <2>2. t.type \in Numbers => n < Len(x)
      BY <1>1, Zenon DEF Judged
    <2> QED
      BY <2>1, <2>2, Zenon
  <1>5. Told(t, SubSeq(y, i, n), y[n + 1], comments)
    <2>1. Told(t, SubSeq(x, i, n), x[n + 1], comments)
      BY <1>1, Zenon DEF Judged
    <2> QED
      BY <1>3, <1>4, <2>1, Zenon DEF Told
  <1> QED
    BY <1>1, <1>4, <1>5, Zenon DEF Judged

\* A token that was told before stays right.
LEMMA ToldBefore ==
  ASSUME TextOK, Gaps, ToldOK, TextOK', Longer, input' = input, NEW i \in 1..Len(tokens)
  PROVE  Judged(text', input'.comments, tokens[i])
  <1>1. /\ tokens[i].from \in Nat \ {0} /\ tokens[i].to \in Nat /\ tokens[i].to <= Len(text)
        /\ Judged(text, input.comments, tokens[i])
    BY DEF Gaps, TokensOK, ToldOK, TextOK, Consumed
  <1>2. /\ text \in Seq(Returned) /\ text' \in Seq(Returned) /\ Len(text) <= Len(text')
        /\ \A k \in 1..Len(text) : text'[k] = text[k]
    BY DEF TextOK, Longer
  <1>3. PICK t : t = tokens[i]
    OBVIOUS
  <1>4. Judged(text', input.comments, t)
    BY <1>1, <1>2, <1>3, JudgedStays
  <1> QED
    BY <1>3, <1>4, Zenon

\* Where no token is told, all stay right.
LEMMA ToldStays ==
  ASSUME TextOK, Gaps, ToldOK, TextOK', Longer, input' = input, tokens' = tokens
  PROVE  ToldOK'
  <1>1. \A i \in 1..Len(tokens) : Judged(text', input'.comments, tokens[i])
    BY ToldBefore
  <1> QED
    BY <1>1, Zenon DEF ToldOK

\* Where a right one is told, all are right.
LEMMA ToldMore ==
  ASSUME TextOK, Gaps, ToldOK, TextOK', Longer, input' = input, NEW t, tokens' = Append(tokens, t),
         Judged(text', input.comments, t)
  PROVE  ToldOK'
  <1>1. \A i \in 1..Len(tokens) : Judged(text', input'.comments, tokens[i])
    BY ToldBefore
  <1>2. PICK S : tokens \in Seq(S)
    BY DEF Gaps, TokensOK
  <1>3. /\ Len(tokens) \in Nat /\ Len(tokens') = Len(tokens) + 1 /\ tokens'[Len(tokens) + 1] = t
        /\ \A i \in 1..Len(tokens) : tokens'[i] = tokens[i]
    <2>1. tokens \in Seq(S \cup {t})
      BY <1>2
    <2> QED
      BY <2>1
  <1>4. ASSUME NEW i \in 1..Len(tokens')
        PROVE  Judged(text', input'.comments, tokens'[i])
    <2>1. i \in 1..Len(tokens) \/ i = Len(tokens) + 1
      BY <1>3
    <2> QED
      BY <1>1, <1>3, <2>1, Zenon
  <1> QED
    BY <1>4, Zenon DEF ToldOK

\* That all tokens told are right is what the run checks.
LEMMA ToldWhole ==
  ASSUME Gaps, ToldOK
  PROVE  WholeTokens
  <1>1. PICK S : tokens \in Seq(S)
    BY DEF Gaps, TokensOK
  <1>2. ASSUME NEW t \in ToSet(tokens)
        PROVE  Judged(text, input.comments, t)
    <2>1. PICK i \in 1..Len(tokens) : t = tokens[i]
      BY <1>1, <1>2 DEF ToSet
    <2> QED
      BY <2>1 DEF ToldOK
  <1>3. ASSUME NEW t \in ToSet(tokens)
        PROVE  Told(t, Slice(t), text[t.to + 1], input.comments)
    BY <1>2, Zenon DEF Judged, Slice
  <1>4. TokensExact
    BY <1>3, Zenon DEF TokensExact, Told
  <1>5. Refused
    BY <1>3, Zenon DEF Refused, Told
  <1> QED
    BY <1>4, <1>5 DEF WholeTokens

\* A literal of which r was read begins with b.
Letters(b) == Word[LiteralType[b]]
InLiteral(b, r, exp) ==
  /\ b \in DOMAIN Literal
  /\ r # <<>> /\ Len(r) < Len(Letters(b)) /\ Starts(r, Letters(b))
  /\ Awaits(exp, [i \in 1..Len(Letters(b)) |-> {Letters(b)[i]}], Len(r))

\* What was read of the token at hand, and that token_buffer, expected and codepoint fit it.
NumberOK == pc \in InNumber => /\ token_buffer = Read(start)
                               /\ Shape(pc, Read(start), Len(Read(start)))
                               /\ text[start] \in Digit \cup {45}
LiteralOK == pc = "literal" => InLiteral(text[start], Read(start), expected)
StringOK == pc \in InString => /\ text[start] = Quote
                               /\ InText(pc, Read(start + 1), token_buffer, codepoint, expected)
RemarkOK == pc \in InComment => input.comments
Hand == NumberOK /\ LiteralOK /\ StringOK /\ RemarkOK

\* The places in scan() are different ones.
LEMMA Apart ==
  /\ \A q \in {"bom", "bom2", "blank", "done"} : q \notin InNumber /\ q # "literal" /\ q \notin InString /\ q \notin InComment
  /\ \A q \in InNumber : q # "literal" /\ q \notin InString /\ q \notin InComment
  /\ \A q \in InString : q \notin InNumber /\ q # "literal" /\ q \notin InComment
  /\ \A q \in InComment : q \notin InNumber /\ q # "literal" /\ q \notin InString
  /\ "literal" \notin InNumber /\ "literal" \notin InString /\ "literal" \notin InComment
  BY DEF InNumber, InString, InComment

\* Outside of tokens and comments there is nothing at hand.
LEMMA NoHand ==
  ASSUME pc' \in {"bom", "bom2", "blank", "done"}
  PROVE  Hand'
  BY Apart, Zenon DEF Hand, NumberOK, LiteralOK, StringOK, RemarkOK

\* The kind of input stays.
LEMMA SameInput ==
  ASSUME NEW b, Take(b) \/ PutBack(b)
  PROVE  input' = input
  BY DEF Take, PutBack, Get

\* One byte more of the token at hand.
LEMMA TokenGrows ==
  ASSUME TextOK, Gaps, pc \in InToken \cup InComment, NEW b, Take(b)
  PROVE  /\ start \in Nat \ {0} /\ start <= Consumed /\ start <= Consumed' /\ b \in Int
         /\ TextOK' /\ Longer /\ input' = input /\ Len(text') = Consumed'
         /\ Read(start) \in Seq(Int) /\ Read(start) # <<>> /\ Read(start)[1] = text[start]
         /\ Read(start + 1) \in Seq(Int) /\ Len(Read(start)) = Len(Read(start + 1)) + 1
         /\ \A k \in 1..Len(Read(start + 1)) : Read(start)[k + 1] = Read(start + 1)[k]
         /\ SubSeq(text', start, Consumed') = Append(Read(start), b)
         /\ SubSeq(text', start + 1, Consumed') = Append(Read(start + 1), b)
         /\ text'[start] = text[start]
  <1>1. start \in Nat \ {0} /\ start <= Consumed
    BY DEF Gaps, GapOK
  <1>2. /\ TextOK' /\ Longer /\ Consumed' = Consumed + 1 /\ Len(text') = Consumed + 1 /\ Consumed \in Nat
    BY Taken DEF TextOK, Consumed
  <1>3. PICK i \in Nat \ {0}, j \in Nat \ {0}, n \in Nat : i = start /\ j = start + 1 /\ n = Consumed
    BY <1>1, <1>2
  <1>4. i <= n + 1 /\ j <= n + 1 /\ i <= n /\ j = i + 1
    BY <1>1, <1>3
  <1>5. /\ Read(i)' = Append(Read(i), b) /\ b \in Int /\ Read(j)' = Append(Read(j), b)
    BY <1>3, <1>4, ReadMore
  <1>6. /\ Read(i) \in Seq(Int) /\ Len(Read(i)) = n - i + 1
        /\ \A k \in 1..(n - i + 1) : Read(i)[k] = text[i + k - 1]
    BY <1>3, <1>4, ReadSeq
  <1>7. /\ Read(j) \in Seq(Int) /\ Len(Read(j)) = n - j + 1
        /\ \A k \in 1..(n - j + 1) : Read(j)[k] = text[j + k - 1]
    BY <1>3, <1>4, ReadSeq
  <1>8. Read(i) # <<>> /\ Read(i)[1] = text[i] /\ Len(Read(i)) = Len(Read(j)) + 1
    <2>1. 1 \in 1..(n - i + 1) /\ i + 1 - 1 = i /\ n - i + 1 > 0 /\ n - i + 1 = (n - j + 1) + 1
      BY <1>4
    <2>2. Read(i)[1] = text[i]
      BY <1>6, <2>1, Zenon
    <2>3. Read(i) # <<>>
      BY <1>6, <2>1
    <2> QED
      BY <1>6, <1>7, <2>1, <2>2, <2>3, Zenon
  <1>9. ASSUME NEW k \in 1..Len(Read(j))
        PROVE  Read(i)[k + 1] = Read(j)[k]
    <2>1. k \in 1..(n - j + 1) /\ k + 1 \in 1..(n - i + 1) /\ i + (k + 1) - 1 = j + k - 1
      BY <1>4, <1>7
    <2> QED
      BY <1>6, <1>7, <2>1, Zenon
  <1>10. text'[start] = text[start]
    BY <1>1, <1>2 DEF Longer, TextOK, Consumed
  <1>11. input' = input
    BY SameInput
  <1>12. start <= Consumed'
    BY <1>1, <1>2
  <1>13. /\ SubSeq(text', start, Consumed') = Append(Read(start), b)
         /\ SubSeq(text', start + 1, Consumed') = Append(Read(start + 1), b)
    BY <1>3, <1>5, Zenon DEF Read
  <1> QED
    BY <1>1, <1>2, <1>3, <1>5, <1>6, <1>7, <1>8, <1>9, <1>10, <1>11, <1>12, <1>13, Zenon

\* scan() returns a token that ends here.
LEMMA ReturnTold ==
  ASSUME TextOK, Gaps, ToldOK, pc \in InToken \cup InComment, NEW b, Take(b),
         NEW type, NEW value, Return(type, Len(text'), value), type \notin Numbers,
         \A t : t.type = type /\ t.buffer = token_buffer /\ t.from = start =>
                Told(t, Append(Read(start), b), text'[t.to + 1], input.comments)
  PROVE  Hand' /\ ToldOK'
  <1>1. PICK t : /\ tokens' = Append(tokens, t) /\ t.from = start /\ t.to = Len(text')
                 /\ t.type = type /\ t.buffer = token_buffer /\ pc' \in {"blank", "done"}
    BY Finished
  <1>2. /\ TextOK' /\ Longer /\ input' = input /\ Len(text') = Consumed' /\ start <= Consumed'
        /\ SubSeq(text', start, Consumed') = Append(Read(start), b)
    BY TokenGrows
  <1>3. Judged(text', input.comments, t)
    BY <1>1, <1>2, Zenon DEF Judged
  <1>4. ToldOK'
    BY <1>1, <1>2, <1>3, ToldMore
  <1>5. Hand'
    BY <1>1, NoHand
  <1> QED
    BY <1>4, <1>5

\* A refusal is right if what was read begins nothing.
LEMMA FailTold ==
  ASSUME TextOK, Gaps, ToldOK, pc \in InToken \cup InComment, NEW b, Take(b), Fail,
         BeginsNothing(Append(Read(start), b), start, input.comments)
  PROVE  Hand' /\ ToldOK'
  <1>1. "parse_error" \notin Numbers /\ "parse_error" \notin DOMAIN Word /\ "parse_error" # "value_string"
    BY DEF Numbers, Word
  <1>2. Return("parse_error", Len(text'), 0)
    BY DEF Fail
  <1>3. \A t : t.type = "parse_error" /\ t.buffer = token_buffer /\ t.from = start =>
               Told(t, Append(Read(start), b), text'[t.to + 1], input.comments)
    BY <1>1, Zenon DEF Told
  <1> QED
    BY <1>1, <1>2, <1>3, ReturnTold

-----------------------------------------------------------------------------
(* Numbers.                                                                 *)

\* The kinds of first bytes of a token.
LEMMA FirstBytes ==
  /\ DOMAIN Literal = {116, 102, 110}
  /\ \A b \in Digit \cup {45} : b # Quote /\ b \notin DOMAIN Literal /\ b # 47 /\ b # 239
  /\ \A b \in DOMAIN Literal : b # Quote /\ b \notin Digit \cup {45} /\ b # 47 /\ b # 239
  /\ Quote \notin Digit \cup {45}
  BY DEF Literal, Digit, Quote

\* What begins with a digit or minus and no number begins with it begins nothing.
LEMMA NothingNumber ==
  ASSUME NEW s, NEW from, NEW comments, s[1] \in Digit \cup {45}, ~BeginsNumber(s)
  PROVE  BeginsNothing(s, from, comments)
  <1>1. s[1] # Quote /\ s[1] \notin DOMAIN Literal /\ s[1] # 47 /\ s[1] # 239
    BY FirstBytes, Zenon
  <1> QED
    BY <1>1 DEF BeginsNothing

\* The types of numbers.
LEMMA NumberTypes ==
  ASSUME NEW s
  PROVE  NumberType(s) \in Numbers
  BY DEF NumberType, Numbers

\* They are no string, no literal and no error.
LEMMA NumberApart ==
  \A q \in Numbers : q # "value_string" /\ q \notin DOMAIN Word /\ q # "parse_error"
  BY DEF Numbers, Word

\* scan_number(): every number told is one, with all that belongs to it, and no number is refused.
LEMMA NumberTold ==
  ASSUME TextOK, Gaps, Hand, ToldOK, ScanNumber
  PROVE  Hand' /\ ToldOK'
  <1>1. /\ pc \in InNumber
        /\ token_buffer = Read(start) /\ Shape(pc, Read(start), Len(Read(start)))
        /\ text[start] \in Digit \cup {45}
    BY DEF ScanNumber, Hand, NumberOK
  <1>2. pc \in InToken \cup InComment
    BY <1>1 DEF InToken
  <1>3. PICK r : r = Read(start)
    OBVIOUS
  <1>4. PICK b : \/ \E m \in Moves : pc \in m.from /\ b \in m.on /\ Take(b) /\ Add(<<b>>, m.to)
                 \/ /\ ~\E m \in Moves : pc \in m.from /\ b \in m.on
                    /\ \/ /\ pc \in Complete /\ PutBack(b)
                          /\ Return(NumberType(token_buffer), Len(text), NumberValue(token_buffer))
                       \/ pc \notin Complete /\ Take(b) /\ Fail
    BY DEF ScanNumber
  <1>5. CASE \E m \in Moves : pc \in m.from /\ b \in m.on /\ Take(b) /\ Add(<<b>>, m.to)
    <2>1. PICK m \in Moves : pc \in m.from /\ b \in m.on /\ Take(b) /\ Add(<<b>>, m.to)
      BY <1>5
    <2>2. /\ TextOK' /\ Longer /\ input' = input /\ b \in Int
          /\ r \in Seq(Int) /\ r # <<>> /\ SubSeq(text', start, Consumed') = Append(r, b)
          /\ text'[start] = text[start]
      BY <1>2, <1>3, <2>1, TokenGrows
    <2>3. Shape(m.to, Append(r, b), Len(r) + 1)
      BY <1>1, <1>3, <2>1, <2>2, ShapeAppend
    <2>4. pc' = m.to /\ token_buffer' = token_buffer \o <<b>> /\ start' = start /\ tokens' = tokens
      BY <2>1 DEF Add
    <2>5. Read(start)' = Append(r, b)
      BY <2>2, <2>4, Zenon DEF Read
    <2>6. Len(Append(r, b)) = Len(r) + 1 /\ r \o <<b>> = Append(r, b)
      BY <2>2, AppendIsConcat
    <2>7. m.to \in InNumber
      BY MovesOn
    <2>8. NumberOK'
      BY <1>1, <1>3, <2>2, <2>3, <2>4, <2>5, <2>6, Zenon DEF NumberOK
    <2>9. pc' # "literal" /\ pc' \notin InString /\ pc' \notin InComment
      BY <2>4, <2>7, Apart, Zenon
    <2>10. Hand'
      BY <2>8, <2>9, Zenon DEF Hand, LiteralOK, StringOK, RemarkOK
    <2> QED
      BY <2>2, <2>4, <2>10, ToldStays
  <1>6. CASE /\ ~\E m \in Moves : pc \in m.from /\ b \in m.on
             /\ pc \in Complete /\ PutBack(b)
             /\ Return(NumberType(token_buffer), Len(text), NumberValue(token_buffer))
    <2>1. PICK t : /\ tokens' = Append(tokens, t) /\ t.from = start /\ t.to = Len(text)
                   /\ t.type = NumberType(r) /\ t.buffer = r /\ pc' \in {"blank", "done"}
      BY <1>1, <1>3, <1>6, Finished
    <2>2. start \in Nat \ {0} /\ start <= Consumed /\ Consumed = Len(text) /\ start <= Consumed + 1
      <3>1. start \in Nat \ {0} /\ start <= Consumed /\ Consumed = Len(text) /\ Consumed \in Nat
        BY <1>1 DEF Gaps, GapOK, InToken, Consumed, TextOK
      <3> QED
        BY <3>1
    <2>3. /\ TextOK' /\ Longer /\ Consumed' = Consumed /\ Len(text') = Consumed + 1 /\ text'[Consumed + 1] = b
          /\ input' = input
      BY <1>6, PutAside, SameInput
    <2>4. PICK i \in Nat \ {0} : i = start
      BY <2>2
    <2>5. Read(i)' = Read(i) /\ b \in Int
      BY <1>6, <2>2, <2>4, ReadSame
    <2>6. /\ Read(i) \in Seq(Int) /\ Len(Read(i)) = Consumed - i + 1
          /\ \A k \in 1..(Consumed - i + 1) : Read(i)[k] = text[i + k - 1]
      BY <2>2, <2>4, ReadSeq
    <2>7. r \in Seq(Int) /\ r # <<>> /\ SubSeq(text', start, Len(text)) = r
      <3>1. r \in Seq(Int) /\ SubSeq(text', start, Len(text)) = r
        BY <1>3, <2>2, <2>3, <2>4, <2>5, <2>6, Zenon DEF Read
      <3>2. Len(r) = Consumed - i + 1 /\ Consumed \in Nat
        BY <1>3, <2>4, <2>6 DEF TextOK, Consumed
      <3>3. r # <<>>
        BY <2>2, <2>4, <3>1, <3>2
      <3> QED
        BY <3>1, <3>3
    <2>8. IsNumber(r)
      BY <1>1, <1>3, <1>6, <2>7, ShapeNumber
    <2>9. ~BeginsNumber(Append(r, b))
      BY <1>1, <1>3, <1>6, <2>5, <2>7, ShapeEnds
    <2>10. NumberType(r) = "value_float" => Len(r) > 1
      <3>1. Len(r) = 1 => NumberType(r) # "value_float"
        BY <2>7, <2>8, NumberOfOne
      <3>2. Len(r) = 1 \/ Len(r) > 1
        <4>1. PICK n \in Nat : n = Consumed
          BY <2>2 DEF TextOK, Consumed
        <4>2. i <= n /\ n - i + 1 = Len(r)
          BY <1>3, <2>2, <2>4, <2>6, <4>1, Zenon
        <4>3. n - i + 1 = 1 \/ n - i + 1 > 1
          BY <4>2
        <4> QED
          BY <4>2, <4>3, Zenon
      <3> QED
        BY <3>1, <3>2
    <2>11. NumberExact(r, t, b)
      BY <2>1, <2>8, <2>9, <2>10, Zenon DEF NumberExact
    <2>12. t.type \in Numbers
      BY <2>1, NumberTypes
    <2>13. Told(t, r, b, input.comments)
      BY <2>11, <2>12, NumberApart, Zenon DEF Told
    <2>14. text'[Len(text) + 1] = b /\ Len(text) < Len(text')
      <3>1. Len(text) \in Nat
        BY DEF TextOK
      <3> QED
        BY <2>2, <2>3, <3>1
    <2>15. Judged(text', input.comments, t)
      BY <2>1, <2>2, <2>7, <2>13, <2>14, Zenon DEF Judged
    <2>16. ToldOK'
      BY <2>1, <2>3, <2>15, ToldMore
    <2>17. Hand'
      BY <2>1, NoHand
    <2> QED
      BY <2>16, <2>17
  <1>7. CASE /\ ~\E m \in Moves : pc \in m.from /\ b \in m.on
             /\ pc \notin Complete /\ Take(b) /\ Fail
    <2>1. /\ b \in Int /\ r \in Seq(Int) /\ r # <<>> /\ r[1] = text[start]
      BY <1>2, <1>3, <1>7, TokenGrows
    <2>2. ~BeginsNumber(Append(r, b))
      BY <1>1, <1>3, <1>7, <2>1, ShapeEnds
    <2>3. Append(r, b)[1] = r[1]
      BY <2>1
    <2>4. BeginsNothing(Append(r, b), start, input.comments)
      BY <1>1, <2>1, <2>2, <2>3, NothingNumber
    <2> QED
      BY <1>2, <1>3, <1>7, <2>4, FailTold
  <1> QED
    BY <1>4, <1>5, <1>6, <1>7

-----------------------------------------------------------------------------
(* Literals.                                                                *)

\* The literals.
LEMMA WordsAre ==
  /\ DOMAIN Word = {"literal_true", "literal_false", "literal_null"}
  /\ Word["literal_true"] = <<116, 114, 117, 101>>
  /\ Word["literal_false"] = <<102, 97, 108, 115, 101>>
  /\ Word["literal_null"] = <<110, 117, 108, 108>>
  BY DEF Word

\* w is b and s behind it.
Headed(w, b, s) == /\ w \in Seq(Int) /\ w[1] = b /\ Len(w) \in 4..5 /\ Len(s) = Len(w) - 1
                   /\ s \in Seq(Int)
                   /\ \A i \in 1..Len(s) : s[i] = w[i + 1]

\* A literal is its first letter and what is expected behind it.
LEMMA LiteralsAre ==
  /\ Headed(<<116, 114, 117, 101>>, 116, <<114, 117, 101>>)
  /\ Headed(<<102, 97, 108, 115, 101>>, 102, <<97, 108, 115, 101>>)
  /\ Headed(<<110, 117, 108, 108>>, 110, <<117, 108, 108>>)
  <1>1. Headed(<<116, 114, 117, 101>>, 116, <<114, 117, 101>>)
    <2>1. \A i \in 1..3 : i = 1 \/ i = 2 \/ i = 3
      OBVIOUS
    <2>2. \A i \in 1..3 : <<114, 117, 101>>[i] = <<116, 114, 117, 101>>[i + 1]
      BY SMT, <2>1
    <2> QED
      BY SMT, <2>2 DEF Headed
  <1>2. Headed(<<102, 97, 108, 115, 101>>, 102, <<97, 108, 115, 101>>)
    <2>1. \A i \in 1..4 : i = 1 \/ i = 2 \/ i = 3 \/ i = 4
      OBVIOUS
    <2>2. \A i \in 1..4 : <<97, 108, 115, 101>>[i] = <<102, 97, 108, 115, 101>>[i + 1]
      BY SMT, <2>1
    <2> QED
      BY SMT, <2>2 DEF Headed
  <1>3. Headed(<<110, 117, 108, 108>>, 110, <<117, 108, 108>>)
    <2>1. \A i \in 1..3 : i = 1 \/ i = 2 \/ i = 3
      OBVIOUS
    <2>2. \A i \in 1..3 : <<117, 108, 108>>[i] = <<110, 117, 108, 108>>[i + 1]
      BY SMT, <2>1
    <2> QED
      BY SMT, <2>2 DEF Headed
  <1> QED
    BY <1>1, <1>2, <1>3, Zenon

\* The literal for a first letter; no two begin with the same one.
LEMMA LettersAre ==
  ASSUME NEW b \in DOMAIN Literal
  PROVE  /\ LiteralType[b] \in DOMAIN Word
         /\ Headed(Letters(b), b, Literal[b])
         /\ \A w \in DOMAIN Word : Word[w][1] = b => Word[w] = Letters(b)
  <1> DEFINE True == <<116, 114, 117, 101>>
             False == <<102, 97, 108, 115, 101>>
             Null == <<110, 117, 108, 108>>
  <1>1. True[1] = 116 /\ False[1] = 102 /\ Null[1] = 110 /\ 116 # 102 /\ 116 # 110 /\ 102 # 110
    BY SMT
  <1>2. /\ DOMAIN Word = {"literal_true", "literal_false", "literal_null"}
        /\ Word["literal_true"] = True /\ Word["literal_false"] = False /\ Word["literal_null"] = Null
    BY WordsAre, Zenon
  <1>3. /\ Headed(True, 116, <<114, 117, 101>>) /\ Headed(False, 102, <<97, 108, 115, 101>>)
        /\ Headed(Null, 110, <<117, 108, 108>>)
    BY LiteralsAre, Zenon
  <1>4. \/ b = 116 /\ LiteralType[b] = "literal_true" /\ Literal[b] = <<114, 117, 101>>
        \/ b = 102 /\ LiteralType[b] = "literal_false" /\ Literal[b] = <<97, 108, 115, 101>>
        \/ b = 110 /\ LiteralType[b] = "literal_null" /\ Literal[b] = <<117, 108, 108>>
    BY SMT DEF Literal, LiteralType
  <1> HIDE DEF True, False, Null
  <1>5. CASE b = 116 /\ LiteralType[b] = "literal_true" /\ Literal[b] = <<114, 117, 101>>
    <2>1. Letters(b) = True
      BY <1>2, <1>5, Zenon DEF Letters
    <2>2. \A w \in DOMAIN Word : Word[w][1] = b => Word[w] = Letters(b)
      <3> SUFFICES ASSUME NEW w \in DOMAIN Word, Word[w][1] = b
                   PROVE  Word[w] = Letters(b)
        OBVIOUS
      <3>1. Word[w] = True \/ Word[w] = False \/ Word[w] = Null
        BY <1>2, Zenon
      <3>2. Word[w] # False /\ Word[w] # Null
        <4>1. Word[w][1] # False[1] /\ Word[w][1] # Null[1]
          BY <1>1, <1>5
        <4> QED
          BY <4>1, Zenon
      <3> QED
        BY <2>1, <3>1, <3>2, Zenon
    <2>3. Headed(Letters(b), b, Literal[b])
      BY <1>3, <1>5, <2>1, ZenonT(60)
    <2> QED
      BY <1>2, <1>5, <2>2, <2>3, Zenon
  <1>6. CASE b = 102 /\ LiteralType[b] = "literal_false" /\ Literal[b] = <<97, 108, 115, 101>>
    <2>1. Letters(b) = False
      BY <1>2, <1>6, Zenon DEF Letters
    <2>2. \A w \in DOMAIN Word : Word[w][1] = b => Word[w] = Letters(b)
      <3> SUFFICES ASSUME NEW w \in DOMAIN Word, Word[w][1] = b
                   PROVE  Word[w] = Letters(b)
        OBVIOUS
      <3>1. Word[w] = True \/ Word[w] = False \/ Word[w] = Null
        BY <1>2, Zenon
      <3>2. Word[w] # True /\ Word[w] # Null
        <4>1. Word[w][1] # True[1] /\ Word[w][1] # Null[1]
          BY <1>1, <1>6
        <4> QED
          BY <4>1, Zenon
      <3> QED
        BY <2>1, <3>1, <3>2, Zenon
    <2>3. Headed(Letters(b), b, Literal[b])
      BY <1>3, <1>6, <2>1, Zenon
    <2> QED
      BY <1>2, <1>6, <2>2, <2>3, Zenon
  <1>7. CASE b = 110 /\ LiteralType[b] = "literal_null" /\ Literal[b] = <<117, 108, 108>>
    <2>1. Letters(b) = Null
      BY <1>2, <1>7, Zenon DEF Letters
    <2>2. \A w \in DOMAIN Word : Word[w][1] = b => Word[w] = Letters(b)
      <3> SUFFICES ASSUME NEW w \in DOMAIN Word, Word[w][1] = b
                   PROVE  Word[w] = Letters(b)
        OBVIOUS
      <3>1. Word[w] = True \/ Word[w] = False \/ Word[w] = Null
        BY <1>2, Zenon
      <3>2. Word[w] # True /\ Word[w] # False
        <4>1. Word[w][1] # True[1] /\ Word[w][1] # False[1]
          BY <1>1, <1>7
        <4> QED
          BY <4>1, Zenon
      <3> QED
        BY <2>1, <3>1, <3>2, Zenon
    <2>3. Headed(Letters(b), b, Literal[b])
      BY <1>3, <1>7, <2>1, Zenon
    <2> QED
      BY <1>2, <1>7, <2>2, <2>3, Zenon
  <1> QED
    BY <1>4, <1>5, <1>6, <1>7

\* A letter more, or the last one, or a wrong one.
LEMMA LiteralStep ==
  ASSUME NEW b, NEW r \in Seq(Int), NEW exp, InLiteral(b, r, exp), NEW a \in Int
  PROVE  /\ Len(exp) \in Nat /\ Len(exp) > 0
         /\ a \in Head(exp) /\ Len(exp) > 1 => InLiteral(b, Append(r, a), Tail(exp))
         /\ a \in Head(exp) /\ Len(exp) = 1 => Append(r, a) = Word[LiteralType[b]]
         /\ a \notin Head(exp) => ~\E w \in DOMAIN Word : IsPrefix(Append(r, a), Word[w])
         /\ b \in DOMAIN Literal /\ LiteralType[b] \in DOMAIN Word /\ Append(r, a)[1] = b
  <1> DEFINE W == Letters(b)
  <1>1. /\ b \in DOMAIN Literal /\ r # <<>> /\ Len(r) < Len(W) /\ Starts(r, W)
        /\ Awaits(exp, [i \in 1..Len(W) |-> {W[i]}], Len(r))
    BY Zenon DEF InLiteral
  <1>2. /\ W \in Seq(Int) /\ W[1] = b /\ Len(W) \in 4..5 /\ LiteralType[b] \in DOMAIN Word
        /\ \A w \in DOMAIN Word : Word[w][1] = b => Word[w] = W
    <2>1. Headed(W, b, Literal[b])
      BY <1>1, LettersAre, Zenon
    <2> QED
      BY <1>1, <2>1, LettersAre, Zenon DEF Headed
  <1>3. PICK full : full = [i \in 1..Len(W) |-> {W[i]}]
    OBVIOUS
  <1> HIDE DEF W
  <1>4. Len(full) = Len(W) /\ \A i \in 1..Len(W) : full[i] = {W[i]}
    BY <1>2, <1>3
  <1>5. PICK k \in Nat, m \in Nat : k = Len(r) /\ m = Len(W) /\ k > 0 /\ k < m /\ k + 1 \in 1..m /\ 1 \in 1..m /\ 1 \in 1..k
    BY <1>1, <1>2
  <1>6. Awaits(exp, full, k) /\ k < Len(full) /\ Len(full) \in Nat
    BY <1>1, <1>3, <1>4, <1>5, Zenon
  <1>7. Head(exp) = full[k + 1] /\ Len(exp) = Len(full) - k /\ Awaits(Tail(exp), full, k + 1)
    BY <1>6, AwaitsNext
  <1>8. Head(exp) = {W[k + 1]} /\ Len(exp) = m - k
    BY <1>4, <1>5, <1>7, Zenon
  <1>9. PICK u \in Seq(Int) : /\ u = Append(r, a) /\ Len(u) = k + 1 /\ u[k + 1] = a
                              /\ \A i \in 1..k : u[i] = r[i]
    BY <1>5, Appended
  <1>10. \A i \in 1..k : u[i] = W[i]
    BY <1>1, <1>5, <1>9, Zenon DEF Starts
  <1>11. u[1] = b
    BY <1>2, <1>5, <1>10, Zenon
  <1>12. ASSUME a \in Head(exp)
         PROVE  \A i \in 1..(k + 1) : u[i] = W[i]
    <2>1. \A i \in 1..(k + 1) : i \in 1..k \/ i = k + 1
      BY <1>5
    <2>2. u[k + 1] = W[k + 1]
      BY <1>8, <1>9, <1>12
    <2> QED
      BY <1>10, <2>1, <2>2, Zenon
  <1>13. ASSUME a \in Head(exp), Len(exp) > 1
         PROVE  InLiteral(b, u, Tail(exp))
    <2>1. k + 1 < m /\ k + 1 <= m /\ u # <<>>
      BY <1>5, <1>8, <1>9, <1>13
    <2>2. Starts(u, W)
      BY <1>5, <1>9, <1>12, <1>13, <2>1, Zenon DEF Starts
    <2> QED
      BY <1>1, <1>3, <1>5, <1>7, <1>9, <2>1, <2>2, Zenon DEF InLiteral, W
  <1>14. ASSUME a \in Head(exp), Len(exp) = 1
         PROVE  u = W
    <2>1. k + 1 = m
      <3>1. m - k = 1
        BY <1>8, <1>14, Zenon
      <3> QED
        BY <1>5, <3>1
    <2> QED
      <3>1. Len(u) = Len(W) /\ u \in Seq(Int) /\ W \in Seq(Int)
        BY <1>2, <1>5, <1>9, <2>1, Zenon
      <3>2. \A i \in 1..Len(u) : u[i] = W[i]
        BY <1>9, <1>12, <1>14, Zenon
      <3> QED
        BY <3>1, <3>2, SeqEqual, Zenon
  <1>15. ASSUME a \notin Head(exp), NEW w \in DOMAIN Word, IsPrefix(u, Word[w])
         PROVE  FALSE
    <2>1. PICK v : v = Word[w]
      OBVIOUS
    <2>2. v \in Seq(Int)
      <3>1. /\ <<116, 114, 117, 101>> \in Seq(Int) /\ <<102, 97, 108, 115, 101>> \in Seq(Int)
            /\ <<110, 117, 108, 108>> \in Seq(Int)
        BY SMT
      <3>2. v = <<116, 114, 117, 101>> \/ v = <<102, 97, 108, 115, 101>> \/ v = <<110, 117, 108, 108>>
        BY WordsAre, <2>1, SMT
      <3> QED
        BY <3>1, <3>2, ZenonT(60)
    <2>3. Len(u) <= Len(v) /\ SubSeq(u, 1, Len(u)) = SubSeq(v, 1, Len(u))
      BY <1>15, <2>1, Zenon DEF IsPrefix
    <2>4. \A i \in 1..Len(u) : u[i] = v[i]
      BY <2>2, <2>3
    <2>5. v[1] = u[1] /\ v[k + 1] = a
      <3>1. 1 \in 1..Len(u) /\ k + 1 \in 1..Len(u)
        BY <1>5, <1>9
      <3> QED
        BY <1>9, <2>4, <3>1, Zenon
    <2>6. v = W
      BY <1>2, <1>11, <2>1, <2>5, Zenon
    <2> QED
      BY <1>8, <1>15, <2>5, <2>6
  <1>16. u = W => Append(r, a) = Word[LiteralType[b]]
    BY <1>9, Zenon DEF W, Letters
  <1>17. Len(exp) \in Nat /\ Len(exp) > 0
    <2>1. m - k \in Nat /\ m - k > 0
      BY <1>5
    <2> QED
      BY <1>8, <2>1, Zenon
  <1>18. a \in Head(exp) /\ Len(exp) > 1 => InLiteral(b, Append(r, a), Tail(exp))
    BY <1>9, <1>13, Zenon
  <1>19. a \in Head(exp) /\ Len(exp) = 1 => Append(r, a) = Word[LiteralType[b]]
    BY <1>14, <1>16, Zenon
  <1>20. a \notin Head(exp) => ~\E w \in DOMAIN Word : IsPrefix(Append(r, a), Word[w])
    BY <1>9, <1>15, Zenon
  <1>21. b \in DOMAIN Literal /\ LiteralType[b] \in DOMAIN Word /\ Append(r, a)[1] = b
    BY <1>1, <1>2, <1>9, <1>11, Zenon
  <1> QED
    BY <1>17, <1>18, <1>19, <1>20, <1>21, Zenon

\* Literals are no strings, no numbers and no errors.
LEMMA LiteralTypes ==
  \A q \in DOMAIN Word : q # "value_string" /\ q \notin Numbers /\ q # "parse_error"
  BY WordsAre DEF Numbers

\* What begins like a literal and is the beginning of none begins nothing.
LEMMA NothingLiteral ==
  ASSUME NEW s, NEW from, NEW comments, s[1] \in DOMAIN Literal,
         ~\E w \in DOMAIN Word : IsPrefix(s, Word[w])
  PROVE  BeginsNothing(s, from, comments)
  <1>1. s[1] # Quote /\ s[1] \notin Digit \cup {45} /\ s[1] # 47 /\ s[1] # 239
    BY FirstBytes, ZenonT(60)
  <1> QED
    BY <1>1 DEF BeginsNothing

\* scan_literal(): every literal told is one, and none is refused.
LEMMA LiteralTold ==
  ASSUME TextOK, Gaps, Hand, ToldOK, ScanLiteral
  PROVE  Hand' /\ ToldOK'
  <1>1. pc = "literal" /\ InLiteral(text[start], Read(start), expected)
    BY DEF ScanLiteral, Hand, LiteralOK
  <1>2. pc \in InToken \cup InComment
    BY <1>1 DEF InToken
  <1>3. PICK b : /\ Take(b)
                 /\ Expect(b, Return(LiteralType[text[start]], Len(text'), 0))
    BY DEF ScanLiteral
  <1>4. PICK r, a, exp : r = Read(start) /\ a = text[start] /\ exp = expected
    OBVIOUS
  <1>5. /\ TextOK' /\ Longer /\ input' = input /\ b \in Int
        /\ r \in Seq(Int) /\ SubSeq(text', start, Consumed') = Append(r, b)
        /\ text'[start] = a
    BY <1>2, <1>3, <1>4, TokenGrows
  <1>6. InLiteral(a, r, exp)
    BY <1>1, <1>4
  <1>7. /\ Len(exp) \in Nat /\ Len(exp) > 0
        /\ b \in Head(exp) /\ Len(exp) > 1 => InLiteral(a, Append(r, b), Tail(exp))
        /\ b \in Head(exp) /\ Len(exp) = 1 => Append(r, b) = Word[LiteralType[a]]
        /\ b \notin Head(exp) => ~\E w \in DOMAIN Word : IsPrefix(Append(r, b), Word[w])
        /\ a \in DOMAIN Literal /\ LiteralType[a] \in DOMAIN Word /\ Append(r, b)[1] = a
    <2>1. b \in Int /\ r \in Seq(Int) /\ InLiteral(a, r, exp)
      BY <1>5, <1>6
    <2> QED
      BY <2>1, LiteralStep, Zenon
  <1>8. CASE b \notin Head(expected) /\ Fail
    <2>1. BeginsNothing(Append(r, b), start, input.comments)
      <3>1. Append(r, b)[1] \in DOMAIN Literal /\ ~\E w \in DOMAIN Word : IsPrefix(Append(r, b), Word[w])
        BY <1>4, <1>7, <1>8, Zenon
      <3> QED
        BY <3>1, NothingLiteral
    <2> QED
      BY <1>2, <1>3, <1>4, <1>8, <2>1, FailTold
  <1>9. CASE /\ b \in Head(expected) /\ Len(expected) > 1
             /\ expected' = Tail(expected)
             /\ UNCHANGED <<pc, token_buffer, codepoint, tokens, start>>
    <2>1. InLiteral(a, Append(r, b), Tail(exp))
      BY <1>4, <1>7, <1>9, Zenon
    <2>2. Read(start)' = Append(r, b)
      BY <1>5, <1>9, Zenon DEF Read
    <2>3. InLiteral(text[start], Read(start), expected)'
      BY <1>4, <1>5, <1>9, <2>1, <2>2, Zenon
    <2>4. Hand'
      <3>1. pc' = "literal"
        BY <1>1, <1>9
      <3> QED
        BY <2>3, <3>1, Apart, Zenon DEF Hand, NumberOK, LiteralOK, StringOK, RemarkOK
    <2>5. ToldOK'
      BY <1>5, <1>9, ToldStays
    <2> QED
      BY <2>4, <2>5
  <1>10. CASE b \in Head(expected) /\ Len(expected) = 1 /\ Return(LiteralType[text[start]], Len(text'), 0)
    <2>1. Append(r, b) = Word[LiteralType[a]]
      BY <1>4, <1>7, <1>10, Zenon
    <2>2. PICK type : type = LiteralType[a] /\ type \in DOMAIN Word
      BY <1>7
    <2>3. type # "value_string" /\ type \notin Numbers /\ type # "parse_error"
      BY <2>2, LiteralTypes
    <2>4. Return(type, Len(text'), 0)
      BY <1>4, <1>10, <2>2
    <2>5. \A t : t.type = type /\ t.buffer = token_buffer /\ t.from = start =>
                 Told(t, Append(Read(start), b), text'[t.to + 1], input.comments)
      BY <1>4, <2>1, <2>2, <2>3, Zenon DEF Told
    <2> QED
      BY <1>2, <1>3, <2>3, <2>4, <2>5, ReturnTold
  <1> QED
    BY <1>3, <1>8, <1>9, <1>10 DEF Expect

-----------------------------------------------------------------------------
(* Strings.                                                                 *)

\* The string at hand goes on.
LEMMA TextGoesOn ==
  ASSUME TextOK, Gaps, Hand, ToldOK, pc \in InString, NEW b, Take(b),
         pc' \in InString, start' = start, tokens' = tokens,
         InText(pc', Append(Read(start + 1), b), token_buffer', codepoint', expected')
  PROVE  Hand' /\ ToldOK'
  <1>1. pc \in InToken \cup InComment
    BY DEF InToken
  <1>2. text[start] = Quote
    BY DEF Hand, StringOK
  <1>3. /\ TextOK' /\ Longer /\ input' = input
        /\ SubSeq(text', start + 1, Consumed') = Append(Read(start + 1), b)
        /\ text'[start] = text[start]
    BY <1>1, TokenGrows
  <1>4. Read(start + 1)' = Append(Read(start + 1), b)
    BY <1>3, Zenon DEF Read
  <1>5. StringOK'
    BY <1>2, <1>3, <1>4, Zenon DEF StringOK
  <1>6. Hand'
    BY <1>5, Apart, Zenon DEF Hand, NumberOK, LiteralOK, RemarkOK
  <1>7. ToldOK'
    BY <1>3, ToldStays
  <1> QED
    BY <1>6, <1>7

\* Endings are sequences of bytes.
LEMMA EndingsSeq == Endings \subseteq Seq(Int)
  <1> DEFINE d == <<48, 48, 48, 48, 92, 117, 100, 99, 48, 48>>
  <1>1. ASSUME NEW e \in Endings
        PROVE  \/ \E n \in 0..4 : e \in [1..n -> {48, 128, 191}]
               \/ e \in {<<110>>, <<117, 48, 48, 48, 48>>}
               \/ \E i \in 1..10 : e = SubSeq(d, i, 10)
    <2>1. \/ e \in UNION {[1..n -> {128, 191}] : n \in 0..3}
          \/ e \in UNION {[1..n -> {48}] : n \in 1..4}
          \/ e \in {<<110>>, <<117, 48, 48, 48, 48>>}
          \/ e \in {SubSeq(d, i, 10) : i \in 1..10}
      BY <1>1, Zenon DEF Endings
    <2> HIDE DEF d
    <2>2. ASSUME NEW n \in 0..3, e \in [1..n -> {128, 191}]
          PROVE  n \in 0..4 /\ e \in [1..n -> {48, 128, 191}]
      BY <2>2
    <2>3. ASSUME NEW n \in 1..4, e \in [1..n -> {48}]
          PROVE  n \in 0..4 /\ e \in [1..n -> {48, 128, 191}]
      BY <2>3
    <2> QED
      BY <2>1, <2>2, <2>3, ZenonT(60)
  <1>2. d \in Seq(Int) /\ Len(d) = 10
    BY SMT
  <1> HIDE DEF d
  <1>3. ASSUME NEW i \in 1..10
        PROVE  SubSeq(d, i, 10) \in Seq(Int)
    <2>1. \A k \in i..10 : d[k] \in Int
      <3>1. \A k \in i..10 : k \in 1..10
        OBVIOUS
      <3>2. \A k \in 1..10 : d[k] \in Int
        <4>1. \A x \in Seq(Int) : \A k \in 1..Len(x) : x[k] \in Int
          OBVIOUS
        <4> QED
          BY <1>2, <4>1, Zenon
      <3> QED
        BY <3>1, <3>2, Zenon
    <2>2. i \in Int /\ 10 \in Int
      OBVIOUS
    <2> QED
      BY <2>1, <2>2, SubSeqProperties
  <1>4. <<110>> \in Seq(Int) /\ <<117, 48, 48, 48, 48>> \in Seq(Int)
    BY SMT
  <1>5. ASSUME NEW n \in 0..4, NEW e \in [1..n -> {48, 128, 191}]
        PROVE  e \in Seq(Int)
    OBVIOUS
  <1>6. ASSUME NEW e \in Endings
        PROVE  e \in Seq(Int)
    BY <1>1, <1>3, <1>4, <1>5, ZenonT(60)
  <1> QED
    BY <1>6, Zenon

\* No string goes on like this.
LEMMA TextFails ==
  ASSUME TextOK, Gaps, Hand, ToldOK, pc \in InString, NEW b, Take(b), Fail,
         Dead(Append(Read(start + 1), b))
  PROVE  Hand' /\ ToldOK'
  <1>1. pc \in InToken \cup InComment
    BY DEF InToken
  <1>2. text[start] = Quote
    BY DEF Hand, StringOK
  <1>3. PICK r, i : r = Read(start) /\ i = Read(start + 1)
    OBVIOUS
  <1>4. /\ b \in Int /\ r \in Seq(Int) /\ r # <<>> /\ r[1] = text[start]
        /\ i \in Seq(Int) /\ Len(r) = Len(i) + 1
        /\ \A k \in 1..Len(i) : r[k + 1] = i[k]
    BY <1>1, <1>3, TokenGrows
  <1>5. PICK s \in Seq(Int) : /\ s = Append(r, b) /\ Len(s) = Len(r) + 1
                              /\ s[Len(r) + 1] = b /\ \A k \in 1..Len(r) : s[k] = r[k]
    BY <1>4, Appended, ZenonT(60)
  <1>6. PICK u \in Seq(Int) : /\ u = Append(i, b) /\ Len(u) = Len(i) + 1
                              /\ u[Len(i) + 1] = b /\ \A k \in 1..Len(i) : u[k] = i[k]
    BY <1>4, Appended, ZenonT(60)
  <1>7. Tail(s) = u
    <2>1. PICK n \in Nat : n = Len(i)
      BY <1>4
    <2>2. Len(r) = n + 1 /\ Len(s) = n + 2 /\ Len(u) = n + 1
      BY <1>4, <1>5, <1>6, <2>1
    <2>3. PICK v \in Seq(Int) : v = Tail(s) /\ Len(v) = n + 1 /\ \A k \in 1..(n + 1) : v[k] = s[k + 1]
      <3>1. s \in Seq(Int) /\ s # <<>> /\ Len(s) = n + 2
        BY <2>2
      <3>2. Tail(s) \in Seq(Int) /\ Len(Tail(s)) = n + 1 /\ \A k \in 1..(n + 1) : Tail(s)[k] = s[k + 1]
        BY <3>1
      <3> QED
        BY <3>2, Zenon
    <2>4. ASSUME NEW k \in 1..(n + 1)
          PROVE  v[k] = u[k]
      <3>1. CASE k = n + 1
        <4>1. Len(r) + 1 = k + 1 /\ Len(i) + 1 = k
          BY <2>1, <2>2, <3>1
        <4> QED
          BY <1>5, <1>6, <2>3, <4>1, Zenon
      <3>2. CASE k # n + 1
        <4>1. k \in 1..Len(i) /\ k + 1 \in 1..Len(r)
          BY <2>1, <2>2, <3>2
        <4> QED
          BY <1>4, <1>5, <1>6, <2>3, <4>1, Zenon
      <3> QED
        BY <3>1, <3>2
    <2>5. v = u
      BY <2>2, <2>3, <2>4, SeqEqual
    <2> QED
      BY <2>3, <2>5, Zenon
  <1>8. s[1] = Quote
    <2>1. 1 \in 1..Len(r)
      BY <1>4
    <2> QED
      BY <1>2, <1>4, <1>5, <2>1, Zenon
  <1>9. \A e \in Endings : Meanings[Tail(s) \o e] = {}
    BY <1>3, <1>6, <1>7, EndingsSeq, Zenon DEF Dead
  <1>10. BeginsNothing(s, start, input.comments)
    <2>1. s[1] \notin Digit \cup {45} /\ s[1] \notin DOMAIN Literal /\ s[1] # 47 /\ s[1] # 239
      <3>1. Quote # 47 /\ Quote # 239 /\ Quote \notin Digit \cup {45}
        BY FirstBytes DEF Quote
      <3> QED
        BY <1>8, <3>1, FirstBytes, ZenonT(60)
    <2> QED
      BY <1>8, <1>9, <2>1 DEF BeginsNothing
  <1> QED
    BY <1>1, <1>3, <1>5, <1>10, FailTold

\* The text between the quotes.
LEMMA WithinQuotes ==
  ASSUME NEW r \in Seq(Int), NEW i \in Seq(Int), Len(r) = Len(i) + 1, r[1] = Quote,
         \A k \in 1..Len(i) : r[k + 1] = i[k]
  PROVE  /\ Len(Append(r, Quote)) > 1
         /\ Append(r, Quote)[1] = Quote
         /\ Append(r, Quote)[Len(Append(r, Quote))] = Quote
         /\ Within(Append(r, Quote)) = i
  <1>1. PICK n \in Nat : n = Len(i)
    OBVIOUS
  <1>2. Quote \in Int
    BY DEF Quote
  <1>3. PICK s \in Seq(Int) : /\ s = Append(r, Quote) /\ Len(s) = Len(r) + 1
                              /\ s[Len(r) + 1] = Quote /\ \A k \in 1..Len(r) : s[k] = r[k]
    BY <1>2, Appended, ZenonT(60)
  <1>4. Len(r) = n + 1 /\ Len(s) = n + 2 /\ 1 \in 1..Len(r) /\ (n + 2) - 1 = n + 1 /\ n + 2 > 1
    BY <1>1, <1>3
  <1>5. s[1] = Quote /\ s[Len(s)] = Quote /\ Len(s) > 1
    BY <1>3, <1>4, Zenon
  <1>6. Within(s) = i
    <2>1. \A k \in 2..(n + 1) : s[k] \in Int
      <3>1. \A x \in Seq(Int) : \A k \in 1..Len(x) : x[k] \in Int
        OBVIOUS
      <3>2. \A k \in 2..(n + 1) : k \in 1..Len(s)
        BY <1>4
      <3> QED
        BY <3>1, <3>2, Zenon
    <2>2. 2 \in Int /\ n + 1 \in Int
      OBVIOUS
    <2>3. /\ SubSeq(s, 2, n + 1) \in Seq(Int)
          /\ Len(SubSeq(s, 2, n + 1)) = IF 2 <= n + 1 THEN (n + 1) - 2 + 1 ELSE 0
          /\ \A k \in 1..((n + 1) - 2 + 1) : SubSeq(s, 2, n + 1)[k] = s[2 + k - 1]
      BY <2>1, <2>2, SubSeqProperties
    <2>4. PICK w \in Seq(Int) : /\ w = SubSeq(s, 2, n + 1)
                                /\ Len(w) = IF 2 <= n + 1 THEN (n + 1) - 2 + 1 ELSE 0
                                /\ \A k \in 1..((n + 1) - 2 + 1) : w[k] = s[2 + k - 1]
      BY <2>3, Zenon
    <2>5. Len(w) = Len(i)
      <3>1. (IF 2 <= n + 1 THEN (n + 1) - 2 + 1 ELSE 0) = n
        OBVIOUS
      <3> QED
        BY <1>1, <2>4, <3>1, Zenon
    <2>6. \A k \in 1..Len(w) : w[k] = i[k]
      <3> TAKE k \in 1..Len(w)
      <3>1. k \in 1..n /\ k \in 1..((n + 1) - 2 + 1) /\ 2 + k - 1 = k + 1 /\ k + 1 \in 1..Len(r)
        BY <1>1, <1>4, <2>5
      <3>2. w[k] = s[k + 1]
        BY <2>4, <3>1, Zenon
      <3> QED
        BY <1>1, <1>3, <3>1, <3>2, Zenon
    <2>7. w = i
      BY <2>5, <2>6, SeqEqual
    <2> QED
      BY <1>4, <2>4, <2>7, Zenon DEF Within
  <1> QED
    BY <1>3, <1>5, <1>6, Zenon

\* The cases of scan_string() exclude each other.
LEMMA BytesApart ==
  /\ Quote # Backslash
  /\ Quote \notin Control \cup {EOF} /\ Backslash \notin Control \cup {EOF}
  /\ Quote \notin Plain /\ Backslash \notin Plain /\ Quote \notin 194..244 /\ Backslash \notin 194..244
  /\ \A b \in Control \cup {EOF} : b \notin Plain /\ b \notin 194..244 /\ b # Quote /\ b # Backslash
  /\ \A b \in Plain : b \notin Control \cup {EOF} /\ b \notin 194..244 /\ b # Quote /\ b # Backslash
  /\ \A b \in 194..244 : b \notin Control \cup {EOF} /\ b \notin Plain /\ b # Quote /\ b # Backslash
  BY SMT DEF Quote, Backslash, Control, EOF, Plain

\* The places within a string.
LEMMA StringStates == {"string", "tail", "escape", "hex", "low"} = InString
  BY DEF InString

\* scan_string() at the beginning of a character, or at the quote.
LEMMA StringTold ==
  ASSUME TextOK, Gaps, Hand, ToldOK, ScanString
  PROVE  Hand' /\ ToldOK'
  <1>1. pc = "string"
    BY DEF ScanString
  <1>2. pc \in InString /\ pc \in InToken \cup InComment
    BY <1>1 DEF InToken, InString
  <1>3. PICK i : i = Read(start + 1)
    OBVIOUS
  <1>4. text[start] = Quote /\ InText("string", i, token_buffer, codepoint, expected)
    BY <1>1, <1>2, <1>3 DEF Hand, StringOK
  <1>5. PICK b : /\ Take(b)
                 /\ \/ b = Quote /\ Return("value_string", Len(text'), 0)
                    \/ b = Backslash /\ Goto("escape")
                    \/ b # Quote /\ b # Backslash /\ b \notin Plain /\ b \notin 194..244 /\ Fail
                    \/ b \in Plain /\ Add(<<b>>, "string") /\ UNCHANGED expected
                    \/ b \in 194..244 /\ Add(<<b>>, "tail") /\ expected' = Tails(b)
    <2>1. PICK b : /\ Take(b)
                   /\ CASE b = Quote -> Return("value_string", Len(text'), 0)
                        [] b = Backslash -> Goto("escape")
                        [] b \in Control \cup {EOF} -> Fail
                        [] b \in Plain -> Add(<<b>>, "string") /\ UNCHANGED expected
                        [] b \in 194..244 -> Add(<<b>>, "tail") /\ expected' = Tails(b)
                        [] OTHER -> Fail
      BY Zenon DEF ScanString
    <2>2. \/ b = Quote /\ Return("value_string", Len(text'), 0)
          \/ b = Backslash /\ Goto("escape")
          \/ b # Quote /\ b # Backslash /\ b \notin Plain /\ b \notin 194..244 /\ Fail
          \/ b \in Plain /\ Add(<<b>>, "string") /\ UNCHANGED expected
          \/ b \in 194..244 /\ Add(<<b>>, "tail") /\ expected' = Tails(b)
      <3>1. CASE b \in {Quote, Backslash}
        <4>1. CASE b = Quote
          <5>1. b # Backslash /\ b \notin Control \cup {EOF} /\ b \notin Plain /\ b \notin 194..244
            BY <4>1, BytesApart, Zenon
          <5> QED
            BY <2>1, <4>1, <5>1
        <4>2. CASE b = Backslash
          <5>1. b # Quote /\ b \notin Control \cup {EOF} /\ b \notin Plain /\ b \notin 194..244
            BY <4>2, BytesApart, Zenon
          <5> QED
            BY <2>1, <4>2, <5>1
        <4> QED
          BY <3>1, <4>1, <4>2
      <3>2. CASE b \in Control \cup {EOF}
        <4>1. b # Quote /\ b # Backslash /\ b \notin Plain /\ b \notin 194..244
          BY <3>2, BytesApart, ZenonT(60)
        <4> QED
          BY <2>1, <3>2, <4>1
      <3>3. CASE b \in Plain
        BY <2>1, <3>3, BytesApart
      <3>4. CASE b \in 194..244
        BY <2>1, <3>4, BytesApart
      <3>5. CASE b \notin {Quote, Backslash} /\ b \notin Control \cup {EOF} /\ b \notin Plain /\ b \notin 194..244
        <4>1. b # Quote /\ b # Backslash
          BY <3>5
        <4> QED
          BY <2>1, <3>5, <4>1
      <3> QED
        BY <3>1, <3>2, <3>3, <3>4, <3>5, Zenon
    <2> QED
      BY <2>1, <2>2
  <1>6. PICK r : r = Read(start)
    OBVIOUS
  <1>7. /\ b \in Int /\ r \in Seq(Int) /\ r[1] = text[start]
        /\ i \in Seq(Int) /\ Len(r) = Len(i) + 1
        /\ \A k \in 1..Len(i) : r[k + 1] = i[k]
    BY <1>2, <1>3, <1>5, <1>6, TokenGrows
  <1>8. /\ Meanings[i] = {token_buffer}
        /\ b \in Plain => InText("string", Append(i, b), token_buffer \o <<b>>, codepoint, expected)
        /\ b \in 194..244 => InText("tail", Append(i, b), token_buffer \o <<b>>, codepoint, Tails(b))
        /\ b = Backslash => InText("escape", Append(i, b), token_buffer, codepoint, expected)
        /\ b \notin {Quote, Backslash} /\ b \notin Plain /\ b \notin 194..244 => Dead(Append(i, b))
    <2>1. b \in Int /\ InText("string", i, token_buffer, codepoint, expected)
      BY <1>4, <1>7
    <2> QED
      BY <2>1, StringStep, Zenon
  <1>9. CASE b = Quote /\ Return("value_string", Len(text'), 0)
    <2>1. StringExact(Append(r, b), token_buffer)
      <3>1. /\ Len(Append(r, Quote)) > 1 /\ Append(r, Quote)[1] = Quote
            /\ Append(r, Quote)[Len(Append(r, Quote))] = Quote /\ Within(Append(r, Quote)) = i
        BY <1>4, <1>7, WithinQuotes
      <3> QED
        BY <1>8, <1>9, <3>1, Zenon DEF StringExact
    <2>2. "value_string" \notin Numbers /\ "value_string" \notin DOMAIN Word /\ "value_string" # "parse_error"
      BY WordsAre DEF Numbers
    <2>3. \A t : t.type = "value_string" /\ t.buffer = token_buffer /\ t.from = start =>
                 Told(t, Append(Read(start), b), text'[t.to + 1], input.comments)
      BY <1>6, <2>1, <2>2, Zenon DEF Told
    <2> QED
      BY <1>2, <1>5, <1>9, <2>2, <2>3, ReturnTold
  <1>10. CASE b = Backslash /\ Goto("escape")
    <2>1. /\ pc' = "escape" /\ token_buffer' = token_buffer /\ expected' = expected /\ codepoint' = codepoint
          /\ tokens' = tokens /\ start' = start
      BY <1>10 DEF Goto
    <2>2. pc' \in InString
      BY <2>1 DEF InString
    <2>3. InText(pc', Append(Read(start + 1), b), token_buffer', codepoint', expected')
      BY <1>3, <1>8, <1>10, <2>1, Zenon
    <2> QED
      BY <1>2, <1>5, <2>1, <2>2, <2>3, TextGoesOn
  <1>11. CASE b # Quote /\ b # Backslash /\ b \notin Plain /\ b \notin 194..244 /\ Fail
    <2>1. Dead(Append(Read(start + 1), b))
      <3>1. b \notin {Quote, Backslash}
        BY <1>11
      <3> QED
        BY <1>3, <1>8, <1>11, <3>1, Zenon
    <2> QED
      BY <1>2, <1>5, <1>11, <2>1, TextFails
  <1>12. CASE b \in Plain /\ Add(<<b>>, "string") /\ UNCHANGED expected
    <2>1. /\ pc' = "string" /\ token_buffer' = token_buffer \o <<b>> /\ expected' = expected
          /\ codepoint' = codepoint /\ tokens' = tokens /\ start' = start
      BY <1>12 DEF Add
    <2>2. pc' \in InString
      BY <2>1 DEF InString
    <2>3. InText(pc', Append(Read(start + 1), b), token_buffer', codepoint', expected')
      BY <1>3, <1>8, <1>12, <2>1, Zenon
    <2> QED
      BY <1>2, <1>5, <2>1, <2>2, <2>3, TextGoesOn
  <1>13. CASE b \in 194..244 /\ Add(<<b>>, "tail") /\ expected' = Tails(b)
    <2>1. /\ pc' = "tail" /\ token_buffer' = token_buffer \o <<b>> /\ expected' = Tails(b)
          /\ codepoint' = codepoint /\ tokens' = tokens /\ start' = start
      BY <1>13 DEF Add
    <2>2. pc' \in InString
      BY <2>1 DEF InString
    <2>3. InText(pc', Append(Read(start + 1), b), token_buffer', codepoint', expected')
      BY <1>3, <1>8, <1>13, <2>1, Zenon
    <2> QED
      BY <1>2, <1>5, <2>1, <2>2, <2>3, TextGoesOn
  <1> QED
    BY <1>5, <1>9, <1>10, <1>11, <1>12, <1>13

\* What was read of the string at hand.
LEMMA TextAtHand ==
  ASSUME TextOK, Gaps, Hand, NEW q \in InString, pc = q, NEW b, Take(b)
  PROVE  /\ pc \in InString /\ b \in Int
         /\ InText(q, Read(start + 1), token_buffer, codepoint, expected)
  <1>1. pc \in InString /\ pc \in InToken \cup InComment
    BY DEF InToken
  <1>2. InText(q, Read(start + 1), token_buffer, codepoint, expected)
    BY <1>1 DEF Hand, StringOK
  <1>3. b \in Int
    BY <1>1, TokenGrows
  <1> QED
    BY <1>1, <1>2, <1>3

\* scan_string() within a character of UTF-8.
LEMMA TailTold ==
  ASSUME TextOK, Gaps, Hand, ToldOK, NextByteInRange
  PROVE  Hand' /\ ToldOK'
  <1>1. pc = "tail" /\ "tail" \in InString /\ "string" \in InString
    BY DEF NextByteInRange, InString
  <1>2. PICK b : /\ Take(b)
                 /\ \/ b \notin Head(expected) /\ Fail
                    \/ /\ b \in Head(expected)
                       /\ Add(<<b>>, IF Len(expected) = 1 THEN "string" ELSE "tail")
                       /\ expected' = Tail(expected)
    BY Zenon DEF NextByteInRange
  <1>3. PICK i : i = Read(start + 1)
    OBVIOUS
  <1>4. pc \in InString /\ b \in Int /\ InText("tail", i, token_buffer, codepoint, expected)
    BY <1>1, <1>2, <1>3, TextAtHand
  <1>5. /\ Len(expected) \in Nat /\ Len(expected) > 0
        /\ b \in Head(expected) /\ Len(expected) > 1 =>
             InText("tail", Append(i, b), token_buffer \o <<b>>, codepoint, Tail(expected))
        /\ b \in Head(expected) /\ Len(expected) = 1 =>
             InText("string", Append(i, b), token_buffer \o <<b>>, codepoint, Tail(expected))
        /\ b \notin Head(expected) => Dead(Append(i, b))
    <2>1. b \in Int /\ InText("tail", i, token_buffer, codepoint, expected)
      BY <1>4
    <2> QED
      BY <2>1, TailStep, Zenon
  <1>6. CASE b \notin Head(expected) /\ Fail
    <2>1. Dead(Append(Read(start + 1), b))
      BY <1>3, <1>5, <1>6, Zenon
    <2> QED
      BY <1>2, <1>4, <1>6, <2>1, TextFails
  <1>7. CASE /\ b \in Head(expected)
             /\ Add(<<b>>, IF Len(expected) = 1 THEN "string" ELSE "tail")
             /\ expected' = Tail(expected)
    <2>1. Len(expected) = 1 \/ (Len(expected) > 1 /\ Len(expected) # 1)
      <3>1. PICK n \in Nat : n = Len(expected) /\ n > 0
        BY <1>5
      <3>2. n = 1 \/ (n > 1 /\ n # 1)
        BY <3>1
      <3> QED
        BY <3>1, <3>2, Zenon
    <2>2. /\ token_buffer' = token_buffer \o <<b>> /\ expected' = Tail(expected)
          /\ codepoint' = codepoint /\ tokens' = tokens /\ start' = start
          /\ pc' = IF Len(expected) = 1 THEN "string" ELSE "tail"
      BY <1>7 DEF Add
    <2>3. InText(pc', Append(i, b), token_buffer', codepoint', expected') /\ pc' \in InString
      <3>1. CASE Len(expected) = 1
        <4>1. pc' = "string"
          BY <2>2, <3>1
        <4> QED
          BY <1>1, <1>5, <1>7, <2>2, <3>1, <4>1, Zenon
      <3>2. CASE Len(expected) > 1 /\ Len(expected) # 1
        <4>1. pc' = "tail"
          BY <2>2, <3>2
        <4> QED
          BY <1>1, <1>5, <1>7, <2>2, <3>2, <4>1, Zenon
      <3> QED
        BY <2>1, <3>1, <3>2, Zenon
    <2>4. InText(pc', Append(Read(start + 1), b), token_buffer', codepoint', expected')
      BY <1>3, <2>3, Zenon
    <2> QED
      BY <1>2, <1>4, <2>2, <2>3, <2>4, TextGoesOn
  <1> QED
    BY <1>2, <1>6, <1>7

\* scan_string() behind a backslash.
LEMMA EscapeTold ==
  ASSUME TextOK, Gaps, Hand, ToldOK, ScanEscape
  PROVE  Hand' /\ ToldOK'
  <1>1. pc = "escape" /\ "escape" \in InString /\ "string" \in InString /\ "hex" \in InString
    BY DEF ScanEscape, InString
  <1>2. 117 \notin DOMAIN Escape
    BY Escapes
  <1>3. PICK b : /\ Take(b)
                 /\ \/ b \in DOMAIN Escape /\ Add(<<Escape[b]>>, "string") /\ UNCHANGED expected
                    \/ /\ b = 117
                       /\ pc' = "hex" /\ codepoint' = <<0>> /\ expected' = FourDigits
                       /\ UNCHANGED <<token_buffer, tokens, start>>
                    \/ b # 117 /\ b \notin DOMAIN Escape /\ Fail
    BY <1>2 DEF ScanEscape
  <1>4. PICK i : i = Read(start + 1)
    OBVIOUS
  <1>5. pc \in InString /\ b \in Int /\ InText("escape", i, token_buffer, codepoint, expected)
    BY <1>1, <1>3, <1>4, TextAtHand
  <1>6. /\ b \in DOMAIN Escape => InText("string", Append(i, b), token_buffer \o <<Escape[b]>>, codepoint, expected)
        /\ b = 117 => InText("hex", Append(i, b), token_buffer, <<0>>, FourDigits)
        /\ b # 117 /\ b \notin DOMAIN Escape => Dead(Append(i, b))
    <2>1. b \in Int /\ InText("escape", i, token_buffer, codepoint, expected)
      BY <1>5
    <2> QED
      BY <2>1, EscapeStep, Zenon
  <1>7. CASE b \in DOMAIN Escape /\ Add(<<Escape[b]>>, "string") /\ UNCHANGED expected
    <2>1. /\ pc' = "string" /\ token_buffer' = token_buffer \o <<Escape[b]>> /\ expected' = expected
          /\ codepoint' = codepoint /\ tokens' = tokens /\ start' = start
      BY <1>7 DEF Add
    <2>2. InText(pc', Append(Read(start + 1), b), token_buffer', codepoint', expected') /\ pc' \in InString
      BY <1>1, <1>4, <1>6, <1>7, <2>1, Zenon
    <2> QED
      BY <1>3, <1>5, <2>1, <2>2, TextGoesOn
  <1>8. CASE /\ b = 117
             /\ pc' = "hex" /\ codepoint' = <<0>> /\ expected' = FourDigits
             /\ UNCHANGED <<token_buffer, tokens, start>>
    <2>1. token_buffer' = token_buffer /\ tokens' = tokens /\ start' = start
      BY <1>8
    <2>2. InText(pc', Append(Read(start + 1), b), token_buffer', codepoint', expected') /\ pc' \in InString
      BY <1>1, <1>4, <1>6, <1>8, <2>1, Zenon
    <2> QED
      BY <1>3, <1>5, <2>1, <2>2, TextGoesOn
  <1>9. CASE b # 117 /\ b \notin DOMAIN Escape /\ Fail
    <2>1. Dead(Append(Read(start + 1), b))
      BY <1>4, <1>6, <1>9, Zenon
    <2> QED
      BY <1>3, <1>5, <1>9, <2>1, TextFails
  <1> QED
    BY <1>3, <1>7, <1>8, <1>9

\* scan_string() between two surrogates.
LEMMA LowTold ==
  ASSUME TextOK, Gaps, Hand, ToldOK, ScanLow
  PROVE  Hand' /\ ToldOK'
  <1>1. pc = "low" /\ "low" \in InString /\ "hex" \in InString
    BY DEF ScanLow, InString
  <1>2. PICK b : /\ Take(b)
                 /\ \/ b \notin Head(expected) /\ Fail
                    \/ /\ b \in Head(expected) /\ Len(expected) > 1
                       /\ expected' = Tail(expected)
                       /\ UNCHANGED <<pc, token_buffer, codepoint, tokens, start>>
                    \/ /\ b \in Head(expected) /\ Len(expected) = 1
                       /\ pc' = "hex" /\ codepoint' = Append(codepoint, 0) /\ expected' = FourDigits
                       /\ UNCHANGED <<token_buffer, tokens, start>>
    BY Zenon DEF ScanLow, Expect
  <1>3. PICK i : i = Read(start + 1)
    OBVIOUS
  <1>4. pc \in InString /\ b \in Int /\ InText("low", i, token_buffer, codepoint, expected)
    BY <1>1, <1>2, <1>3, TextAtHand
  <1>5. /\ b \notin Head(expected) => Dead(Append(i, b))
        /\ b \in Head(expected) /\ Len(expected) > 1 =>
             InText("low", Append(i, b), token_buffer, codepoint, Tail(expected))
        /\ b \in Head(expected) /\ Len(expected) = 1 =>
             InText("hex", Append(i, b), token_buffer, Append(codepoint, 0), FourDigits)
    <2>1. b \in Int /\ InText("low", i, token_buffer, codepoint, expected)
      BY <1>4
    <2> QED
      BY <2>1, LowStep, Zenon
  <1>6. CASE b \notin Head(expected) /\ Fail
    <2>1. Dead(Append(Read(start + 1), b))
      BY <1>3, <1>5, <1>6, Zenon
    <2> QED
      BY <1>2, <1>4, <1>6, <2>1, TextFails
  <1>7. CASE /\ b \in Head(expected) /\ Len(expected) > 1
             /\ expected' = Tail(expected)
             /\ UNCHANGED <<pc, token_buffer, codepoint, tokens, start>>
    <2>1. pc' = "low" /\ token_buffer' = token_buffer /\ codepoint' = codepoint /\ tokens' = tokens /\ start' = start
      BY <1>1, <1>7
    <2>2. InText(pc', Append(Read(start + 1), b), token_buffer', codepoint', expected') /\ pc' \in InString
      BY <1>1, <1>3, <1>5, <1>7, <2>1, Zenon
    <2> QED
      BY <1>2, <1>4, <2>1, <2>2, TextGoesOn
  <1>8. CASE /\ b \in Head(expected) /\ Len(expected) = 1
             /\ pc' = "hex" /\ codepoint' = Append(codepoint, 0) /\ expected' = FourDigits
             /\ UNCHANGED <<token_buffer, tokens, start>>
    <2>1. token_buffer' = token_buffer /\ tokens' = tokens /\ start' = start
      BY <1>8
    <2>2. InText(pc', Append(Read(start + 1), b), token_buffer', codepoint', expected') /\ pc' \in InString
      BY <1>1, <1>3, <1>5, <1>8, <2>1, Zenon
    <2> QED
      BY <1>2, <1>4, <2>1, <2>2, TextGoesOn
  <1> QED
    BY <1>2, <1>6, <1>7, <1>8

\* The value that get_codepoint() has so far is a natural number.
LEMMA HexNatural ==
  ASSUME NEW inner, NEW buffer, NEW cp, NEW exp, InText("hex", inner, buffer, cp, exp), NEW b \in HexDigit
  PROVE  Last(cp) * 16 + Hex(b) \in Nat
  <1>1. PICK P \in Seq(Int), B \in Seq(Int), r \in Seq(Int) : Cut("hex", inner, buffer, cp, exp, P, B, r)
    BY Zenon DEF InText
  <1>2. "hex" # "tail" /\ "hex" # "string" /\ "hex" # "escape" /\ "hex" # "low" /\ "low" # "tail"
    OBVIOUS
  <1>3. PICK n \in 0..3 : InHex(r, cp, n)
    BY <1>1, <1>2, Zenon DEF Cut, Partial
  <1>4. cp \in Seq(Nat) /\ (Len(cp) = 1 \/ Len(cp) = 2)
    BY <1>3, Zenon DEF InHex
  <1>5. Last(cp) \in Nat
    <2>1. Len(cp) \in 1..Len(cp)
      <3>1. \A k : k = 1 \/ k = 2 => k \in 1..k
        OBVIOUS
      <3> QED
        BY <1>4, <3>1, Zenon
    <2>2. \A x \in Seq(Nat) : \A k \in 1..Len(x) : x[k] \in Nat
      OBVIOUS
    <2> QED
      BY <1>4, <2>1, <2>2, Zenon DEF Last
  <1>6. Hex(b) \in Nat
    BY HexNat
  <1> QED
    BY <1>5, <1>6

\* A first surrogate is no second one.
LEMMA SurrogatesApart == \A c \in Nat : High(c) => ~Low(c)
  BY SMT DEF High, Low

\* What get_codepoint() does with its last digit.
LEMMA CodepointCases ==
  ASSUME NEW c \in Nat, Codepoint(c), Len(codepoint) \in {1, 2}
  PROVE  \/ /\ Len(codepoint) = 1 /\ High(c)
            /\ codepoint' = <<c>> /\ pc' = "low" /\ expected' = LowStart
            /\ UNCHANGED <<token_buffer, tokens, start>>
         \/ Len(codepoint) = 1 /\ Low(c) /\ Fail
         \/ Len(codepoint) = 2 /\ ~Low(c) /\ Fail
         \/ Len(codepoint) = 2 /\ Low(c) /\ Add(Utf8(Combined(codepoint[1], c)), "string")
         \/ Len(codepoint) = 1 /\ ~High(c) /\ ~Low(c) /\ Add(Utf8(c), "string")
  <1> DEFINE A == /\ codepoint' = <<c>> /\ pc' = "low" /\ expected' = LowStart
                  /\ UNCHANGED <<token_buffer, tokens, start>>
             B == Add(Utf8(Combined(codepoint[1], c)), "string")
             C == Add(Utf8(c), "string")
             X == expected' = <<>>
             F == Fail
  <1>1. (CASE Len(codepoint) = 1 /\ High(c) -> A
          [] Len(codepoint) = 1 /\ Low(c) -> F
          [] Len(codepoint) = 2 /\ ~Low(c) -> F
          [] Len(codepoint) = 2 /\ Low(c) -> B /\ X
          [] OTHER -> C /\ X)
    BY SMT DEF Codepoint, LowStart, Combined
  <1> HIDE DEF A, B, C, X, F
  <1>3. CASE Len(codepoint) = 1
    <2>1. Len(codepoint) # 2
      BY <1>3
    <2>2. CASE High(c)
      <3>1. ~Low(c)
        BY <2>2, SurrogatesApart
      <3>2. A
        BY <1>1, <1>3, <2>1, <2>2, <3>1
      <3> QED
        BY <1>3, <2>2, <3>2, Zenon DEF A
    <2>3. CASE ~High(c) /\ Low(c)
      <3>2. F
        BY <1>1, <1>3, <2>1, <2>3
      <3> QED
        BY <1>3, <2>3, <3>2, Zenon DEF F
    <2>4. CASE ~High(c) /\ ~Low(c)
      <3>1. C
        BY <1>1, <1>3, <2>1, <2>4
      <3> QED
        BY <1>3, <2>4, <3>1, Zenon DEF C
    <2> QED
      BY <2>2, <2>3, <2>4, Zenon
  <1>4. CASE Len(codepoint) = 2
    <2>1. Len(codepoint) # 1
      BY <1>4
    <2>2. CASE Low(c)
      <3>1. B
        BY <1>1, <1>4, <2>1, <2>2
      <3> QED
        BY <1>4, <2>2, <3>1, Zenon DEF B
    <2>3. CASE ~Low(c)
      <3>1. F
        BY <1>1, <1>4, <2>1, <2>3
      <3> QED
        BY <1>4, <2>3, <3>1, Zenon DEF F
    <2> QED
      BY <2>2, <2>3, Zenon
  <1> QED
    BY <1>3, <1>4

\* scan_string() within an escape of UTF-16.
LEMMA HexTold ==
  ASSUME TextOK, Gaps, Hand, ToldOK, GetCodepoint
  PROVE  Hand' /\ ToldOK'
  <1>1. pc = "hex" /\ "hex" \in InString /\ "low" \in InString /\ "string" \in InString
    BY DEF GetCodepoint, InString
  <1>2. PICK b : /\ Take(b)
                 /\ LET c == Last(codepoint) * 16 + Hex(b) IN
                    \/ /\ b \in HexDigit /\ Len(expected) > 1
                       /\ codepoint' = [codepoint EXCEPT ![Len(codepoint)] = c]
                       /\ expected' = Tail(expected)
                       /\ UNCHANGED <<pc, token_buffer, tokens, start>>
                    \/ ~(b \in HexDigit /\ Len(expected) > 1) /\ Expect(b, Codepoint(c))
    BY Zenon DEF GetCodepoint
  <1>3. PICK i, c, cp : i = Read(start + 1) /\ c = Last(codepoint) * 16 + Hex(b) /\ cp = codepoint
    OBVIOUS
  <1>4. pc \in InString /\ b \in Int /\ InText("hex", i, token_buffer, cp, expected)
    BY <1>1, <1>2, <1>3, TextAtHand
  <1>5. /\ Len(expected) \in Nat /\ Len(expected) > 0 /\ Head(expected) = HexDigit
        /\ b \notin HexDigit => Dead(Append(i, b))
        /\ b \in HexDigit /\ Len(expected) > 1 =>
             InText("hex", Append(i, b), token_buffer, [cp EXCEPT ![Len(cp)] = c], Tail(expected))
        /\ b \in HexDigit /\ Len(expected) = 1 =>
             /\ Len(cp) \in {1, 2}
             /\ Len(cp) = 1 /\ High(c) => InText("low", Append(i, b), token_buffer, <<c>>, LowStart)
             /\ Len(cp) = 1 /\ Low(c) => Dead(Append(i, b))
             /\ Len(cp) = 2 /\ ~Low(c) => Dead(Append(i, b))
             /\ Len(cp) = 2 /\ Low(c) =>
                  \A cp2, exp2 : InText("string", Append(i, b), token_buffer \o Utf8(Combined(cp[1], c)), cp2, exp2)
             /\ Len(cp) = 1 /\ ~High(c) /\ ~Low(c) =>
                  \A cp2, exp2 : InText("string", Append(i, b), token_buffer \o Utf8(c), cp2, exp2)
    <2>1. b \in Int /\ InText("hex", i, token_buffer, cp, expected) /\ c = Last(cp) * 16 + Hex(b)
      BY <1>3, <1>4
    <2> QED
      BY <2>1, HexStep, Zenon
  <1>6. CASE /\ b \in HexDigit /\ Len(expected) > 1
             /\ codepoint' = [codepoint EXCEPT ![Len(codepoint)] = c]
             /\ expected' = Tail(expected)
             /\ UNCHANGED <<pc, token_buffer, tokens, start>>
    <2>1. pc' = "hex" /\ token_buffer' = token_buffer /\ tokens' = tokens /\ start' = start
      BY <1>1, <1>6
    <2>2. InText("hex", Append(i, b), token_buffer, [cp EXCEPT ![Len(cp)] = c], Tail(expected))
      BY <1>5, <1>6, Zenon
    <2>3. codepoint' = [cp EXCEPT ![Len(cp)] = c] /\ expected' = Tail(expected)
      BY <1>3, <1>6
    <2>4. InText(pc', Append(Read(start + 1), b), token_buffer', codepoint', expected') /\ pc' \in InString
      BY <1>1, <1>3, <2>1, <2>2, <2>3, Zenon
    <2> QED
      BY <1>2, <1>4, <2>1, <2>4, TextGoesOn
  <1>7. CASE b \notin HexDigit /\ Fail
    <2>1. Dead(Append(Read(start + 1), b))
      BY <1>3, <1>5, <1>7, Zenon
    <2> QED
      BY <1>2, <1>4, <1>7, <2>1, TextFails
  <1>8. CASE b \in HexDigit /\ Len(expected) = 1 /\ Codepoint(c)
    <2>1. Len(codepoint) \in {1, 2}
      BY <1>3, <1>5, <1>8, Zenon
    <2>2. \/ /\ Len(cp) = 1 /\ High(c)
             /\ codepoint' = <<c>> /\ pc' = "low" /\ expected' = LowStart
             /\ UNCHANGED <<token_buffer, tokens, start>>
          \/ Len(cp) = 1 /\ Low(c) /\ Fail
          \/ Len(cp) = 2 /\ ~Low(c) /\ Fail
          \/ Len(cp) = 2 /\ Low(c) /\ Add(Utf8(Combined(cp[1], c)), "string")
          \/ Len(cp) = 1 /\ ~High(c) /\ ~Low(c) /\ Add(Utf8(c), "string")
      <3>1. Codepoint(c) /\ c \in Nat
        BY <1>3, <1>4, <1>8, HexNatural
      <3> QED
        BY <1>3, <2>1, <3>1, CodepointCases, Zenon
    <2>3. CASE /\ Len(cp) = 1 /\ High(c)
               /\ codepoint' = <<c>> /\ pc' = "low" /\ expected' = LowStart
               /\ UNCHANGED <<token_buffer, tokens, start>>
      <3>1. token_buffer' = token_buffer /\ tokens' = tokens /\ start' = start
        BY <2>3
      <3>2. InText("low", Append(i, b), token_buffer, <<c>>, LowStart)
        BY <1>5, <1>8, <2>3, Zenon
      <3>3. InText(pc', Append(Read(start + 1), b), token_buffer', codepoint', expected') /\ pc' \in InString
        BY <1>1, <1>3, <2>3, <3>1, <3>2, Zenon
      <3> QED
        BY <1>2, <1>4, <3>1, <3>3, TextGoesOn
    <2>4. CASE (Len(cp) = 1 /\ Low(c) /\ Fail) \/ (Len(cp) = 2 /\ ~Low(c) /\ Fail)
      <3>1. Dead(Append(Read(start + 1), b)) /\ Fail
        BY <1>3, <1>5, <1>8, <2>4, Zenon
      <3> QED
        BY <1>2, <1>4, <3>1, TextFails
    <2>5. ASSUME NEW u, Add(u, "string"),
                 \A cp2, exp2 : InText("string", Append(i, b), token_buffer \o u, cp2, exp2)
          PROVE  Hand' /\ ToldOK'
      <3>1. /\ pc' = "string" /\ token_buffer' = token_buffer \o u
            /\ codepoint' = codepoint /\ tokens' = tokens /\ start' = start
        BY <2>5 DEF Add
      <3>2. InText("string", Append(i, b), token_buffer \o u, codepoint', expected')
        BY <2>5, Zenon
      <3>3. InText(pc', Append(Read(start + 1), b), token_buffer', codepoint', expected') /\ pc' \in InString
        BY <1>1, <1>3, <3>1, <3>2, Zenon
      <3> QED
        BY <1>2, <1>4, <3>1, <3>3, TextGoesOn
    <2>6. CASE Len(cp) = 2 /\ Low(c) /\ Add(Utf8(Combined(cp[1], c)), "string")
      <3>1. \A cp2, exp2 : InText("string", Append(i, b), token_buffer \o Utf8(Combined(cp[1], c)), cp2, exp2)
        BY <1>5, <1>8, <2>6, Zenon
      <3> QED
        BY <2>5, <2>6, <3>1, Zenon
    <2>7. CASE Len(cp) = 1 /\ ~High(c) /\ ~Low(c) /\ Add(Utf8(c), "string")
      <3>1. \A cp2, exp2 : InText("string", Append(i, b), token_buffer \o Utf8(c), cp2, exp2)
        BY <1>5, <1>8, <2>7, Zenon
      <3> QED
        BY <2>5, <2>7, <3>1, Zenon
    <2> QED
      BY <2>2, <2>3, <2>4, <2>6, <2>7, Zenon
  <1>9. \/ /\ b \in HexDigit /\ Len(expected) > 1
           /\ codepoint' = [codepoint EXCEPT ![Len(codepoint)] = c]
           /\ expected' = Tail(expected)
           /\ UNCHANGED <<pc, token_buffer, tokens, start>>
        \/ b \notin HexDigit /\ Fail
        \/ b \in HexDigit /\ Len(expected) = 1 /\ Codepoint(c)
    <2>1. CASE /\ b \in HexDigit /\ Len(expected) > 1
               /\ codepoint' = [codepoint EXCEPT ![Len(codepoint)] = c]
               /\ expected' = Tail(expected)
               /\ UNCHANGED <<pc, token_buffer, tokens, start>>
      BY <2>1, Zenon
    <2>2. CASE ~(b \in HexDigit /\ Len(expected) > 1) /\ Expect(b, Codepoint(c))
      <3>1. \/ b \notin HexDigit /\ Fail
            \/ b \in HexDigit /\ Len(expected) > 1
            \/ b \in HexDigit /\ Len(expected) = 1 /\ Codepoint(c)
        BY <1>5, <2>2, Zenon DEF Expect
      <3> QED
        BY <2>2, <3>1, Zenon
    <2> QED
      BY <1>2, <1>3, <2>1, <2>2, Zenon
  <1> QED
    BY <1>6, <1>7, <1>8, <1>9, Zenon

-----------------------------------------------------------------------------
(* Comments and the byte order mark.                                        *)

\* What begins like a comment and can become none begins nothing.
LEMMA NothingComment ==
  ASSUME NEW s, NEW from, s[1] = 47,
         IF s[2] = 42 THEN Last(s) \in {EOF, 0} /\ ~\E k \in 4..Len(s) : s[k - 1] = 42 /\ s[k] = 47
         ELSE Len(s) = 2 /\ s[2] # 47
  PROVE  BeginsNothing(s, from, TRUE)
  <1>1. 47 # Quote /\ 47 \notin Digit \cup {45} /\ 47 \notin DOMAIN Literal /\ 47 # 239
    BY SMT DEF Quote, Digit, Literal
  <1> QED
    BY <1>1 DEF BeginsNothing

\* A comment goes on or ends.
LEMMA RemarkGoesOn ==
  ASSUME TextOK, Gaps, Hand, ToldOK, pc \in InComment, NEW b, Take(b) \/ PutBack(b),
         NEW next \in InComment \cup {"blank"}, Goto(next)
  PROVE  Hand' /\ ToldOK'
  <1>1. TextOK' /\ Longer /\ input' = input
    BY Taken, PutAside, SameInput
  <1>2. input.comments
    BY DEF Hand, RemarkOK
  <1>3. pc' = next /\ tokens' = tokens
    BY DEF Goto
  <1>4. ToldOK'
    BY <1>1, <1>3, ToldStays
  <1>5. CASE next = "blank"
    <2>1. Hand'
      BY <1>3, <1>5, NoHand
    <2> QED
      BY <1>4, <2>1
  <1>6. CASE next \in InComment
    <2>1. Hand'
      BY <1>1, <1>2, <1>3, <1>6, Apart, Zenon DEF Hand, NumberOK, LiteralOK, StringOK, RemarkOK
    <2> QED
      BY <1>4, <2>1
  <1> QED
    BY <1>5, <1>6

\* scan_comment(): no comment is refused that could be one.
LEMMA RemarkTold ==
  ASSUME TextOK, Gaps, Hand, ToldOK, ScanComment
  PROVE  Hand' /\ ToldOK'
  <1>1. PICK b : \/ /\ pc = "comment" /\ Take(b)
                    /\ \/ b = 47 /\ Goto("line")
                       \/ b = 42 /\ Goto("block")
                       \/ b # 47 /\ b # 42 /\ Fail
                 \/ /\ pc = "line" /\ Take(b)
                    /\ \/ Goto("blank")
                       \/ Goto("line")
                 \/ /\ pc = "block" /\ Take(b)
                    /\ \/ b \in {EOF, 0} /\ Fail
                       \/ Goto("star")
                       \/ Goto("block")
                 \/ /\ pc = "star"
                    /\ \/ b = 47 /\ Take(b) /\ Goto("blank")
                       \/ b # 47 /\ PutBack(b) /\ Goto("block")
    BY DEF ScanComment, CommentStar, EOF
  <1>2. /\ "comment" \in InComment /\ "line" \in InComment /\ "block" \in InComment /\ "star" \in InComment
        /\ pc \in InComment
    BY <1>1 DEF InComment
  <1>3. CASE \E next \in InComment \cup {"blank"} : (Take(b) \/ PutBack(b)) /\ Goto(next)
    BY <1>2, <1>3, RemarkGoesOn
  <1>4. CASE pc \in {"comment", "block"} /\ Take(b) /\ Fail
    <2>1. PICK r : r = Read(start)
      OBVIOUS
    <2>2. /\ b \in Int /\ r \in Seq(Int) /\ start \in Nat \ {0} /\ start <= Consumed
      BY <1>2, <1>4, <2>1, TokenGrows
    <2>3. PICK i \in Nat \ {0}, n \in Nat : i = start /\ n = Consumed /\ i <= n
      <3>1. Consumed \in Nat
        BY DEF TextOK, Consumed
      <3> QED
        BY <2>2, <3>1
    <2>4. Len(r) = n - i + 1 /\ \A k \in 1..(n - i + 1) : r[k] = text[i + k - 1]
      <3>1. i <= Consumed + 1
        BY <2>3
      <3>2. Len(Read(i)) = Consumed - i + 1 /\ \A k \in 1..(Consumed - i + 1) : Read(i)[k] = text[i + k - 1]
        BY <3>1, ReadSeq
      <3> QED
        BY <2>1, <2>3, <3>2, Zenon
    <2>5. PICK s \in Seq(Int) : /\ s = Append(r, b) /\ Len(s) = Len(r) + 1
                                /\ s[Len(r) + 1] = b /\ \A k \in 1..Len(r) : s[k] = r[k]
      BY <2>2, Appended, ZenonT(60)
    <2>6. PICK m \in Nat : m = n - i + 2 /\ m > 1 /\ Len(s) = m /\ Len(r) = m - 1
      BY <2>3, <2>4, <2>5
    <2>7. s[m] = b /\ \A k \in 1..(m - 1) : s[k] = text[i + k - 1]
      <3>1. (m - 1) + 1 = m /\ m - 1 = n - i + 1
        BY <2>6
      <3> QED
        BY <2>4, <2>5, <2>6, <3>1, Zenon
    <2>8. s[1] = 47
      <3>1. text[i] = 47
        BY <1>2, <2>3 DEF Gaps, CommentOK
      <3>2. 1 \in 1..(m - 1) /\ i + 1 - 1 = i
        BY <2>3, <2>6
      <3> QED
        BY <2>7, <3>1, <3>2, Zenon
    <2>9. IF s[2] = 42 THEN Last(s) \in {EOF, 0} /\ ~\E k \in 4..Len(s) : s[k - 1] = 42 /\ s[k] = 47
          ELSE Len(s) = 2 /\ s[2] # 47
      <3>1. CASE pc = "comment"
        <4>1. i = n /\ b # 47 /\ b # 42
          BY <1>1, <1>4, <2>3, <3>1 DEF Gaps, CommentOK, Goto, Fail, Return, Finish
        <4>2. m = 2
          BY <2>3, <2>6, <4>1
        <4> QED
          BY <2>6, <2>7, <4>1, <4>2
      <3>2. CASE pc = "block"
        <4>1. /\ i < n /\ text[i + 1] = 42
              /\ \A k \in (i + 3)..n : ~(text[k - 1] = 42 /\ text[k] = 47)
          BY <2>3, <3>2 DEF Gaps, CommentOK
        <4>2. b \in {EOF, 0}
          BY <1>1, <1>4, <3>2 DEF Goto, Fail, Return, Finish
        <4>3. s[2] = 42
          <5>1. 2 \in 1..(m - 1) /\ i + 2 - 1 = i + 1
            BY <2>3, <2>6, <4>1
          <5> QED
            BY <2>7, <4>1, <5>1, ZenonT(60)
        <4>4. ASSUME NEW k \in 4..Len(s), s[k - 1] = 42, s[k] = 47
              PROVE  FALSE
          <5>1. CASE k = m
            BY <2>7, <4>2, <4>4, <5>1 DEF EOF
          <5>2. CASE k # m
            <6>1. PICK x \in Nat : x = i + k - 1
              BY <2>3, <4>4
            <6>2. k \in 1..(m - 1) /\ k - 1 \in 1..(m - 1) /\ i + (k - 1) - 1 = x - 1 /\ x \in (i + 3)..n
              BY <2>3, <2>6, <5>2, <6>1
            <6>3. s[k] = text[x] /\ s[k - 1] = text[x - 1]
              BY <2>7, <6>1, <6>2, Zenon
            <6> QED
              BY <4>1, <4>4, <6>2, <6>3, ZenonT(60)
          <5> QED
            BY <5>1, <5>2
        <4>5. Last(s) \in {EOF, 0}
          BY <2>6, <2>7, <4>2, Zenon DEF Last
        <4> QED
          BY <4>3, <4>4, <4>5, Zenon
      <3> QED
        BY <1>4, <3>1, <3>2
    <2>10. input.comments = TRUE
      <3>1. input.comments
        BY <1>2 DEF Hand, RemarkOK
      <3>2. input.comments \in BOOLEAN
        <4>1. input \in [bytes : SUBSET (0..255), comments : BOOLEAN, length : Nat, tokens : Nat, chars : Nat]
          BY LexerAssumption DEF TextOK
        <4> QED
          BY <4>1
      <3> QED
        BY <3>1, <3>2
    <2>11. BeginsNothing(Append(Read(start), b), start, input.comments)
      <3>1. BeginsNothing(s, start, TRUE)
        BY <2>8, <2>9, NothingComment
      <3> QED
        BY <2>1, <2>5, <2>10, <3>1, Zenon
    <2>12. pc \in InToken \cup InComment
      BY <1>2
    <2> QED
      BY <1>4, <2>11, <2>12, FailTold
  <1> QED
    <2>1. (\E next \in InComment \cup {"blank"} : (Take(b) \/ PutBack(b)) /\ Goto(next))
          \/ (pc \in {"comment", "block"} /\ Take(b) /\ Fail)
      BY <1>1, <1>2
    <2> QED
      BY <1>3, <1>4, <2>1

\* Nothing is returned and no token is at hand.
LEMMA NothingAtHand ==
  ASSUME TextOK, Gaps, ToldOK, NEW b, Take(b) \/ PutBack(b),
         pc' \in {"bom", "bom2", "blank", "done"}, tokens' = tokens
  PROVE  Hand' /\ ToldOK'
  <1>1. TextOK' /\ Longer /\ input' = input
    BY Taken, PutAside, SameInput
  <1>2. ToldOK'
    BY <1>1, ToldStays
  <1> QED
    BY <1>2, NoHand

\* What begins like a byte order mark and is none begins nothing.
LEMMA NothingMark ==
  ASSUME NEW s, NEW comments, s[1] = 239, ~IsPrefix(s, <<239, 187, 191>>)
  PROVE  BeginsNothing(s, 1, comments)
  <1>1. 239 # Quote /\ 239 \notin Digit \cup {45} /\ 239 \notin DOMAIN Literal /\ 239 # 47
    BY SMT DEF Quote, Digit, Literal
  <1> QED
    BY <1>1 DEF BeginsNothing

\* A wrong second or third byte of the byte order mark.
LEMMA NotTheMark ==
  ASSUME NEW s \in Seq(Int), \/ Len(s) = 2 /\ s[2] # 187
                             \/ Len(s) = 3 /\ s[3] # 191
  PROVE  ~IsPrefix(s, <<239, 187, 191>>)
  <1> SUFFICES ASSUME IsPrefix(s, <<239, 187, 191>>)
               PROVE  FALSE
    OBVIOUS
  <1>1. PICK v : v = <<239, 187, 191>>
    OBVIOUS
  <1>2. v \in Seq(Int) /\ Len(v) = 3 /\ v[2] = 187 /\ v[3] = 191
    BY SMT, <1>1
  <1>3. Len(s) <= Len(v) /\ SubSeq(s, 1, Len(s)) = SubSeq(v, 1, Len(s))
    BY <1>1, Zenon DEF IsPrefix
  <1>4. \A i \in 1..Len(s) : s[i] = v[i]
    BY <1>2, <1>3
  <1>5. CASE Len(s) = 2 /\ s[2] # 187
    BY <1>2, <1>4, <1>5
  <1>6. CASE Len(s) = 3 /\ s[3] # 191
    BY <1>2, <1>4, <1>6
  <1> QED
    BY <1>5, <1>6

\* What is no byte order mark is refused where it ceases to be one.
LEMMA BomTold ==
  ASSUME TextOK, Gaps, Hand, ToldOK, SkipBom
  PROVE  Hand' /\ ToldOK'
  <1>1. CASE pc = "bom"
    <2>1. PICK b : (Take(b) \/ PutBack(b)) /\ pc' \in {"bom", "bom2", "blank", "done"} /\ tokens' = tokens
      BY <1>1 DEF SkipBom
    <2> QED
      BY <2>1, NothingAtHand
  <1>2. CASE pc = "bom2"
    <2>1. /\ text # <<>> /\ text[1] = 239 /\ start = 1 /\ ~next_unget
          /\ \/ Len(text) = 1 /\ TwoAhead
             \/ Len(text) = 2 /\ text[2] = 187 /\ OneAhead
      BY <1>2 DEF Gaps, BomOK
    <2>2. PICK b : Take(b) /\ Expect(b, Goto("blank"))
      BY <1>2 DEF SkipBom
    <2>3. CASE ~Fail
      <3>1. pc' \in {"bom", "bom2", "blank", "done"} /\ tokens' = tokens
        BY <1>2, <2>2, <2>3 DEF Expect, Goto
      <3> QED
        BY <2>2, <3>1, NothingAtHand
    <2>4. CASE Fail /\ b \notin Head(expected)
      <3>1. PICK t : /\ tokens' = Append(tokens, t) /\ t.from = 1 /\ t.to = Len(text') /\ t.type = "parse_error"
                     /\ pc' \in {"blank", "done"}
        BY <2>1, <2>4, Finished DEF Fail
      <3>2. /\ TextOK' /\ Longer /\ input' = input /\ Consumed = Len(text) /\ Len(text') = Consumed'
            /\ Len(text') = Len(text) + 1
        BY <2>1, <2>2, Taken, SameInput DEF Consumed
      <3>3. 1 \in Nat \ {0} /\ 1 <= Consumed + 1
        BY <3>2 DEF TextOK
      <3>4. Read(1)' = Append(Read(1), b) /\ b \in Int
        BY <2>2, <3>3, ReadMore
      <3>5. /\ Read(1) \in Seq(Int) /\ Len(Read(1)) = Consumed - 1 + 1
            /\ \A k \in 1..(Consumed - 1 + 1) : Read(1)[k] = text[1 + k - 1]
        BY <3>3, ReadSeq
      <3>6. PICK r \in Seq(Int) : /\ r = Read(1) /\ Len(r) = Len(text)
                                  /\ \A k \in 1..Len(text) : r[k] = text[k]
        <4>1. Len(text) \in Nat
          BY DEF TextOK
        <4>2. Consumed - 1 + 1 = Len(text) /\ \A k \in 1..Len(text) : 1 + k - 1 = k
          BY <3>2, <4>1
        <4> QED
          BY <3>5, <4>2, Zenon
      <3>7. PICK s \in Seq(Int) : /\ s = Append(r, b) /\ Len(s) = Len(r) + 1
                                  /\ s[Len(r) + 1] = b /\ \A k \in 1..Len(r) : s[k] = r[k]
        BY <3>4, Appended
      <3>8. s[1] = 239
        <4>1. 1 \in 1..Len(r) /\ 1 \in 1..Len(text)
          BY <2>1, <3>6
        <4>2. s[1] = r[1] /\ r[1] = text[1]
          BY <3>6, <3>7, <4>1, Zenon
        <4>3. text[1] = 239
          BY <2>1
        <4> QED
          BY <4>2, <4>3, Zenon
      <3>9. \/ Len(s) = 2 /\ s[2] # 187
            \/ Len(s) = 3 /\ s[3] # 191
        <4>1. CASE Len(text) = 1 /\ TwoAhead
          <5>1. Head(expected) = {187}
            BY <4>1 DEF TwoAhead
          <5> QED
            BY <2>4, <3>6, <3>7, <4>1, <5>1
        <4>2. CASE Len(text) = 2 /\ OneAhead
          <5>1. Head(expected) = {191}
            BY <4>2 DEF OneAhead
          <5> QED
            BY <2>4, <3>6, <3>7, <4>2, <5>1, SMTT(60)
        <4> QED
          BY <2>1, <4>1, <4>2
      <3>10. BeginsNothing(s, 1, input.comments)
        BY <3>8, <3>9, NotTheMark, NothingMark
      <3>11. SubSeq(text', 1, Len(text')) = s
        BY <3>2, <3>4, <3>6, <3>7, Zenon DEF Read
      <3>12. "parse_error" \notin Numbers /\ "parse_error" \notin DOMAIN Word /\ "parse_error" # "value_string"
        BY DEF Numbers, Word
      <3>13. 1 <= Len(text')
        BY <3>2 DEF TextOK
      <3>14. Judged(text', input.comments, t)
        BY <3>1, <3>10, <3>11, <3>12, <3>13, Zenon DEF Judged, Told
      <3>15. ToldOK'
        BY <3>1, <3>2, <3>14, ToldMore
      <3>16. Hand'
        BY <3>1, NoHand
      <3> QED
        BY <3>15, <3>16
    <2>5. Fail => b \notin Head(expected)
      BY <1>2, <2>2 DEF Expect, Goto, Fail, Return, Finish
    <2> QED
      BY <2>3, <2>4, <2>5
  <1> QED
    BY <1>1, <1>2 DEF SkipBom

\* skip_whitespace() tells no token.
LEMMA BlankTold ==
  ASSUME TextOK, Gaps, Hand, ToldOK, SkipWhitespace
  PROVE  Hand' /\ ToldOK'
  <1>1. PICK b : Take(b) /\ pc' = "blank" /\ tokens' = tokens
    BY DEF SkipWhitespace, Goto
  <1> QED
    BY <1>1, NothingAtHand

\* Nor does the first byte of a comment.
LEMMA CommentTold ==
  ASSUME TextOK, Gaps, Hand, ToldOK, Comment
  PROVE  Hand' /\ ToldOK'
  <1>1. Take(47) /\ input.comments /\ pc' = "comment" /\ tokens' = tokens
    BY DEF Comment
  <1>2. TextOK' /\ Longer /\ input' = input
    BY <1>1, Taken, SameInput
  <1>3. ToldOK'
    BY <1>1, <1>2, ToldStays
  <1>4. "comment" \in InComment
    BY DEF InComment
  <1>5. Hand'
    BY <1>1, <1>2, <1>4, Apart, Zenon DEF Hand, NumberOK, LiteralOK, StringOK, RemarkOK
  <1> QED
    BY <1>3, <1>5

-----------------------------------------------------------------------------
(* The first byte of a token.                                               *)

\* What the cases of scan() do: a token of one byte, or the beginning of a longer one.
ScanCases(b) ==
  \/ \E type : /\ Finish([type |-> type, from |-> start', to |-> start', buffer |-> <<>>, value |-> 0])
               /\ \/ type \in {"begin_array", "end_array", "begin_object", "end_object", "name_separator",
                               "value_separator", "end_of_input"}
                  \/ /\ type = "parse_error" /\ b \notin DOMAIN Structural /\ b \notin DOMAIN Literal
                     /\ b # Quote /\ b \notin Digit /\ b # 45
  \/ b \in DOMAIN Literal /\ pc' = "literal" /\ UNCHANGED tokens
  \/ b = Quote /\ pc' = "string" /\ UNCHANGED tokens
  \/ /\ b \in Digit \cup {45}
     /\ pc' = (IF b = Zero THEN "zero" ELSE IF b = 45 THEN "minus" ELSE "any1")
     /\ UNCHANGED tokens

\* The cases of the first byte of a token.
LEMMA ScanSplit ==
  ASSUME Scan
  PROVE  \E b \in Char \ Blank :
           /\ Take(b) /\ pc = "blank" /\ start' = Len(text') /\ ~(input.comments /\ b = 47)
           /\ token_buffer' = (IF b \in Digit \cup {45} THEN <<b>> ELSE <<>>)
           /\ expected' = (IF b \in DOMAIN Literal THEN [i \in DOMAIN Literal[b] |-> {Literal[b][i]}] ELSE <<>>)
           /\ ScanCases(b)
  <1>1. PICK b \in Char \ Blank :
           /\ Take(b) /\ pc = "blank" /\ start' = Len(text') /\ ~(input.comments /\ b = 47)
           /\ token_buffer' = (IF b \in Digit \cup {45} THEN <<b>> ELSE <<>>)
           /\ expected' = (IF b \in DOMAIN Literal THEN [i \in DOMAIN Literal[b] |-> {Literal[b][i]}] ELSE <<>>)
           /\ CASE b \in DOMAIN Structural -> Finish([type |-> Structural[b], from |-> start', to |-> start',
                                                      buffer |-> <<>>, value |-> 0])
                [] b \in DOMAIN Literal -> pc' = "literal" /\ UNCHANGED tokens
                [] b = Quote -> pc' = "string" /\ UNCHANGED tokens
                [] b = Zero -> pc' = "zero" /\ UNCHANGED tokens
                [] b \in Digit \ {Zero} -> pc' = "any1" /\ UNCHANGED tokens
                [] b = 45 -> pc' = "minus" /\ UNCHANGED tokens
                [] OTHER -> Finish([type |-> "parse_error", from |-> start', to |-> start',
                                    buffer |-> <<>>, value |-> 0])
    BY Zenon DEF Scan
  <1> DEFINE Single(type) == Finish([type |-> type, from |-> start', to |-> start', buffer |-> <<>>, value |-> 0])
             Refusal == Single("parse_error")
             Token == Single(Structural[b])
             Letter == pc' = "literal" /\ UNCHANGED tokens
             Text == pc' = "string" /\ UNCHANGED tokens
             ZeroDigit == pc' = "zero" /\ UNCHANGED tokens
             AnyDigit == pc' = "any1" /\ UNCHANGED tokens
             Minus == pc' = "minus" /\ UNCHANGED tokens
  <1>2. (CASE b \in DOMAIN Structural -> Token
          [] b \in DOMAIN Literal -> Letter
          [] b = Quote -> Text
          [] b = Zero -> ZeroDigit
          [] b \in Digit \ {Zero} -> AnyDigit
          [] b = 45 -> Minus
          [] OTHER -> Refusal)
    BY <1>1, Zenon
  <1> HIDE DEF Refusal, Token, Letter, Text, ZeroDigit, AnyDigit, Minus
  <1>3. DOMAIN Structural = {91, 93, 123, 125, 58, 44, 0, EOF} /\ DOMAIN Literal = {116, 102, 110}
        /\ EOF = -1 /\ Quote = 34 /\ Zero = 48 /\ Digit = 48..57
    BY DEF Structural, Literal, EOF, Quote, Zero, Digit
  <1>4. \/ b \in DOMAIN Structural /\ Token
        \/ b \in DOMAIN Literal /\ Letter
        \/ b = Quote /\ Text
        \/ b = Zero /\ ZeroDigit
        \/ b \in Digit \ {Zero} /\ AnyDigit
        \/ b = 45 /\ Minus
        \/ /\ b \notin DOMAIN Structural /\ b \notin DOMAIN Literal /\ b # Quote /\ b \notin Digit /\ b # 45
           /\ Refusal
    <2>1. CASE b \in DOMAIN Structural
      <3>1. b \notin DOMAIN Literal /\ b # Quote /\ b # Zero /\ b \notin Digit \ {Zero} /\ b # 45
        BY SMT, <1>3, <2>1
      <3> QED
        BY <1>2, <2>1, <3>1
    <2>2. CASE b \in DOMAIN Literal
      <3>1. b \notin DOMAIN Structural /\ b # Quote /\ b # Zero /\ b \notin Digit \ {Zero} /\ b # 45
        BY SMT, <1>3, <2>2
      <3> QED
        BY <1>2, <2>2, <3>1
    <2>3. CASE b = Quote
      <3>1. b \notin DOMAIN Structural /\ b \notin DOMAIN Literal /\ b # Zero /\ b \notin Digit \ {Zero} /\ b # 45
        BY SMT, <1>3, <2>3
      <3> QED
        BY <1>2, <2>3, <3>1
    <2>4. CASE b = Zero
      <3>1. b \notin DOMAIN Structural /\ b \notin DOMAIN Literal /\ b # Quote /\ b \notin Digit \ {Zero} /\ b # 45
        BY SMT, <1>3, <2>4
      <3> QED
        BY <1>2, <2>4, <3>1
    <2>5. CASE b \in Digit \ {Zero}
      <3>1. b \notin DOMAIN Structural /\ b \notin DOMAIN Literal /\ b # Quote /\ b # Zero /\ b # 45
        BY SMT, <1>3, <2>5
      <3> QED
        BY <1>2, <2>5, <3>1
    <2>6. CASE b = 45
      <3>1. b \notin DOMAIN Structural /\ b \notin DOMAIN Literal /\ b # Quote /\ b # Zero /\ b \notin Digit \ {Zero}
        BY SMT, <1>3, <2>6
      <3> QED
        BY <1>2, <2>6, <3>1
    <2>7. CASE /\ b \notin DOMAIN Structural /\ b \notin DOMAIN Literal /\ b # Quote
               /\ b # Zero /\ b \notin Digit \ {Zero} /\ b # 45
      <3>1. Refusal
        BY <1>2, <2>7
      <3>2. b \notin Digit
        BY <2>7
      <3> QED
        BY <2>7, <3>1, <3>2, Zenon
    <2> QED
      BY <2>1, <2>2, <2>3, <2>4, <2>5, <2>6, <2>7, Zenon
  <1>5. ScanCases(b)
    <2>1. CASE b \in DOMAIN Structural /\ Token
      <3>1. Structural[b] \in {"begin_array", "end_array", "begin_object", "end_object", "name_separator",
                               "value_separator", "end_of_input"}
        BY SMT, <2>1 DEF Structural
      <3> QED
        BY <2>1, <3>1, Zenon DEF ScanCases, Token
    <2>2. CASE b \in DOMAIN Literal /\ Letter
      BY <2>2, Zenon DEF ScanCases, Letter
    <2>3. CASE b = Quote /\ Text
      BY <2>3, Zenon DEF ScanCases, Text
    <2>4. CASE b = Zero /\ ZeroDigit
      <3>1. b \in Digit \cup {45}
        BY <1>3, <2>4
      <3> QED
        BY <2>4, <3>1, Zenon DEF ScanCases, ZeroDigit
    <2>5. CASE b \in Digit \ {Zero} /\ AnyDigit
      <3>1. b \in Digit \cup {45} /\ b # Zero /\ b # 45
        BY <1>3, <2>5
      <3> QED
        BY <2>5, <3>1, Zenon DEF ScanCases, AnyDigit
    <2>6. CASE b = 45 /\ Minus
      <3>1. b \in Digit \cup {45} /\ b # Zero
        BY <1>3, <2>6
      <3> QED
        BY <2>6, <3>1, Zenon DEF ScanCases, Minus
    <2>7. CASE /\ b \notin DOMAIN Structural /\ b \notin DOMAIN Literal /\ b # Quote /\ b \notin Digit /\ b # 45
               /\ Refusal
      BY <2>7, Zenon DEF ScanCases, Refusal
    <2> QED
      BY <1>4, <2>1, <2>2, <2>3, <2>4, <2>5, <2>6, <2>7, Zenon
  <1> QED
    BY <1>1, <1>5, Zenon

\* A literal begins with its first letter.
LEMMA LiteralBegins ==
  ASSUME NEW b \in DOMAIN Literal, NEW r \in Seq(Int), Len(r) = 1, r[1] = b
  PROVE  InLiteral(b, r, [i \in DOMAIN Literal[b] |-> {Literal[b][i]}])
  <1> DEFINE W == Letters(b)
             s == Literal[b]
  <1>1. Headed(W, b, s)
    BY LettersAre, Zenon
  <1> HIDE DEF W, s
  <1>2. /\ W \in Seq(Int) /\ W[1] = b /\ Len(W) \in 4..5 /\ Len(s) = Len(W) - 1 /\ s \in Seq(Int)
        /\ \A i \in 1..Len(s) : s[i] = W[i + 1]
    BY <1>1, Zenon DEF Headed
  <1>3. PICK m \in Nat : m = Len(W) /\ m > 3
    <2>1. \A x \in 4..5 : x \in Nat /\ x > 3
      OBVIOUS
    <2> QED
      BY <1>2, <2>1, Zenon
  <1>4. PICK n \in Nat : n = Len(s) /\ n = m - 1
    BY <1>2, <1>3
  <1>5. PICK full : full = [i \in 1..Len(W) |-> {W[i]}]
    OBVIOUS
  <1>6. Len(full) = m /\ \A i \in 1..m : full[i] = {W[i]}
    BY <1>2, <1>3, <1>5
  <1>7. PICK exp : exp = [i \in DOMAIN s |-> {s[i]}]
    OBVIOUS
  <1>8. exp = [i \in 1..n |-> {s[i]}]
    BY <1>2, <1>4, <1>7
  <1>9. exp \in Seq(SUBSET Int) /\ Len(exp) = n /\ \A i \in 1..n : exp[i] = {s[i]}
    <2>1. \A i \in 1..n : {s[i]} \in SUBSET Int
      <3>1. \A x \in Seq(Int) : \A k \in 1..Len(x) : x[k] \in Int
        OBVIOUS
      <3>2. \A i \in 1..n : s[i] \in Int
        BY <1>2, <1>4, <3>1, Zenon
      <3> QED
        BY <3>2
    <2> QED
      BY <1>8, <2>1
  <1>10. \A i \in 1..n : exp[i] = full[1 + i]
    <2> TAKE i \in 1..n
    <2>1. 1 + i = i + 1 /\ i + 1 \in 1..m
      BY <1>4
    <2> QED
      BY <1>2, <1>4, <1>6, <1>9, <2>1, Zenon
  <1>11. Awaits(exp, full, 1)
    <2>1. n = m - 1
      BY <1>4
    <2> QED
      BY <1>6, <1>9, <1>10, <2>1, Zenon DEF Awaits
  <1>12. Starts(r, W)
    <2>1. Len(r) <= Len(W) /\ \A i \in 1..Len(r) : i = 1
      BY <1>3
    <2> QED
      BY <1>2, <2>1, Zenon DEF Starts
  <1>13. r # <<>> /\ Len(r) < Len(W)
    BY <1>3
  <1>14. Awaits(exp, [i \in 1..Len(W) |-> {W[i]}], Len(r))
    BY <1>5, <1>11, Zenon
  <1> QED
    BY <1>7, <1>12, <1>13, <1>14, Zenon DEF InLiteral, W, s

\* scan(): every token of one byte is right, every other one begins as it must, and what is refused begins nothing.
LEMMA ScanTold ==
  ASSUME TextOK, Gaps, Hand, ToldOK, Scan
  PROVE  Hand' /\ ToldOK'
  <1>1. PICK b \in Char \ Blank :
           /\ Take(b) /\ pc = "blank" /\ start' = Len(text') /\ ~(input.comments /\ b = 47)
           /\ token_buffer' = (IF b \in Digit \cup {45} THEN <<b>> ELSE <<>>)
           /\ expected' = (IF b \in DOMAIN Literal THEN [i \in DOMAIN Literal[b] |-> {Literal[b][i]}] ELSE <<>>)
           /\ ScanCases(b)
    BY ScanSplit
  <1>2. /\ TextOK' /\ Longer /\ Consumed \in Nat /\ Consumed' = Consumed + 1
        /\ Len(text') = Consumed + 1 /\ text'[Consumed + 1] = b /\ Marked'
    BY <1>1, AtBlank
  <1>3. input' = input
    BY <1>1, SameInput
  <1>4. PICK n \in Nat, i \in Nat \ {0} : n = Consumed /\ i = n + 1
    BY <1>2
  <1>5. start' = i /\ Consumed' = i /\ Len(text') = i /\ text'[i] = b
    BY <1>1, <1>2, <1>4, Zenon
  <1>6. b \in Int /\ text' \in Seq(Returned)
    <2>1. b \in Returned
      BY <1>1, Taken
    <2> QED
      BY <1>2, <2>1 DEF Returned, TextOK
  <1>7. PICK r \in Seq(Int) : r = SubSeq(text', i, i) /\ Len(r) = 1 /\ r[1] = b
    <2>1. /\ SubSeq(text', i, i) \in Seq(Int) /\ Len(SubSeq(text', i, i)) = i - i + 1
          /\ \A k \in 1..(i - i + 1) : SubSeq(text', i, i)[k] = text'[i + k - 1]
      <3>1. i <= Len(text') /\ i <= i + 1 /\ i \in Nat
        BY <1>5
      <3> QED
        BY <1>6, <3>1, Part
    <2>2. i - i + 1 = 1 /\ 1 \in 1..1 /\ i + 1 - 1 = i
      OBVIOUS
    <2> QED
      BY <1>5, <2>1, <2>2, Zenon
  <1>8. Read(start)' = r /\ text'[start'] = b
    BY <1>5, <1>7, Zenon DEF Read
  <1>9. r = <<b>>
    <2>1. <<b>> \in Seq(Int) /\ Len(<<b>>) = 1 /\ <<b>>[1] = b
      BY <1>6
    <2>2. \A k \in 1..Len(r) : r[k] = <<b>>[k]
      BY <1>7
    <2>3. Len(r) = Len(<<b>>)
      BY <1>7, <2>1
    <2> QED
      BY <2>1, <2>2, <2>3, SeqEqual, Zenon
  <1>10. CASE \E type : /\ Finish([type |-> type, from |-> start', to |-> start', buffer |-> <<>>, value |-> 0])
                        /\ \/ type \in {"begin_array", "end_array", "begin_object", "end_object", "name_separator",
                                        "value_separator", "end_of_input"}
                           \/ /\ type = "parse_error" /\ b \notin DOMAIN Structural /\ b \notin DOMAIN Literal
                              /\ b # Quote /\ b \notin Digit /\ b # 45
    <2>1. PICK type : /\ Finish([type |-> type, from |-> start', to |-> start', buffer |-> <<>>, value |-> 0])
                      /\ \/ type \in {"begin_array", "end_array", "begin_object", "end_object", "name_separator",
                                      "value_separator", "end_of_input"}
                         \/ /\ type = "parse_error" /\ b \notin DOMAIN Structural /\ b \notin DOMAIN Literal
                            /\ b # Quote /\ b \notin Digit /\ b # 45
      BY <1>10
    <2>2. PICK t : /\ tokens' = Append(tokens, t) /\ t.from = i /\ t.to = i /\ t.type = type
                   /\ pc' \in {"blank", "done"}
      BY <1>5, <2>1 DEF Finish
    <2>3. type # "value_string" /\ type \notin Numbers /\ type \notin DOMAIN Word
      BY <2>1, WordsAre DEF Numbers
    <2>4. type = "parse_error" => BeginsNothing(r, i, input.comments)
      <3> SUFFICES ASSUME type = "parse_error"
                   PROVE  BeginsNothing(r, i, input.comments)
        OBVIOUS
      <3>1. b \notin DOMAIN Structural /\ b \notin DOMAIN Literal /\ b # Quote /\ b \notin Digit \cup {45}
        BY <2>1
      <3>2. ~(b = 239 /\ i = 1)
        <4>1. text'[1] = 239 => Consumed' > 2
          BY <1>2 DEF Marked
        <4>2. i = 1 => ~(i > 2)
          OBVIOUS
        <4> QED
          BY <1>5, <4>1, <4>2, Zenon
      <3>3. ~(b = 47 /\ input.comments)
        BY <1>1
      <3> QED
        BY <1>7, <3>1, <3>2, <3>3 DEF BeginsNothing
    <2>5. Told(t, r, text'[t.to + 1], input.comments)
      BY <2>2, <2>3, <2>4, Zenon DEF Told
    <2>6. i <= i
      OBVIOUS
    <2>7. Judged(text', input.comments, t)
      BY <1>7, <2>2, <2>3, <2>5, <2>6, Zenon DEF Judged
    <2>8. ToldOK'
      BY <1>2, <1>3, <2>2, <2>7, ToldMore
    <2>9. Hand'
      BY <2>2, NoHand
    <2> QED
      BY <2>8, <2>9
  <1>11. CASE b \in DOMAIN Literal /\ pc' = "literal" /\ UNCHANGED tokens
    <2>1. InLiteral(b, r, [k \in DOMAIN Literal[b] |-> {Literal[b][k]}])
      BY <1>7, <1>11, LiteralBegins
    <2>2. expected' = [k \in DOMAIN Literal[b] |-> {Literal[b][k]}]
      BY <1>1, <1>11
    <2>3. LiteralOK'
      BY <1>8, <2>1, <2>2, Zenon DEF LiteralOK
    <2>4. Hand'
      BY <1>11, <2>3, Apart, Zenon DEF Hand, NumberOK, StringOK, RemarkOK
    <2>5. tokens' = tokens
      BY <1>11
    <2>6. ToldOK'
      BY <1>2, <1>3, <2>5, ToldStays
    <2> QED
      BY <2>4, <2>6
  <1>12. CASE b = Quote /\ pc' = "string" /\ UNCHANGED tokens
    <2>1. token_buffer' = <<>>
      BY <1>1, <1>12, FirstBytes
    <2>2. Read(start + 1)' = <<>>
      <3>1. SubSeq(text', i + 1, i) = <<>>
        <4>1. i + 1 \in Int /\ i \in Int /\ i < i + 1
          OBVIOUS
        <4> QED
          BY <4>1, SubSeqEmpty
      <3> QED
        BY <1>5, <3>1, Zenon DEF Read
    <2>3. InText("string", <<>>, <<>>, codepoint', expected')
      BY TextBegins
    <2>4. StringOK'
      BY <1>8, <1>12, <2>1, <2>2, <2>3, Zenon DEF StringOK
    <2>5. "string" \in InString
      BY DEF InString
    <2>6. Hand'
      BY <1>12, <2>4, <2>5, Apart, Zenon DEF Hand, NumberOK, LiteralOK, RemarkOK
    <2>7. tokens' = tokens
      BY <1>12
    <2>8. ToldOK'
      BY <1>2, <1>3, <2>7, ToldStays
    <2> QED
      BY <2>6, <2>8
  <1>13. CASE /\ b \in Digit \cup {45}
              /\ pc' = (IF b = Zero THEN "zero" ELSE IF b = 45 THEN "minus" ELSE "any1")
              /\ UNCHANGED tokens
    <2>1. token_buffer' = r
      BY <1>1, <1>9, <1>13
    <2>2. Shape(pc', <<b>>, 1)
      BY <1>13, ShapeFirst
    <2>3. NumberOK'
      BY <1>7, <1>8, <1>9, <1>13, <2>1, <2>2, Zenon DEF NumberOK
    <2>4. pc' \in InNumber
      BY <1>13 DEF InNumber
    <2>5. Hand'
      BY <2>3, <2>4, Apart, Zenon DEF Hand, LiteralOK, StringOK, RemarkOK
    <2>6. tokens' = tokens
      BY <1>13
    <2>7. ToldOK'
      BY <1>2, <1>3, <2>6, ToldStays
    <2> QED
      BY <2>5, <2>7
  <1> QED
    BY <1>1, <1>10, <1>11, <1>12, <1>13, Zenon DEF ScanCases

-----------------------------------------------------------------------------

\* What scan() has returned is right, and what it has read of the token at hand is the
\* beginning of one, which its variables stand for.
WholeInv == LexerInv /\ Hand /\ ToldOK

\* The invariant holds at first.
LEMMA WholeInit ==
  ASSUME InitLexer
  PROVE  WholeInv
  <1>1. LexerInv
    BY LexerInit
  <1>2. Hand
    <2>1. pc = "bom"
      BY DEF InitLexer
    <2> QED
      BY <2>1, Apart, Zenon DEF Hand, NumberOK, LiteralOK, StringOK, RemarkOK
  <1>3. ToldOK
    <2>1. Len(tokens) = 0
      BY DEF InitLexer
    <2>2. \A i \in 1..Len(tokens) : FALSE
      BY <2>1
    <2> QED
      BY <2>2, Zenon DEF ToldOK
  <1> QED
    BY <1>1, <1>2, <1>3 DEF WholeInv

\* Every step keeps it.
LEMMA WholeStep ==
  ASSUME WholeInv, NextLexer
  PROVE  WholeInv'
  <1>1. LexerInv /\ TextOK /\ Gaps /\ Hand /\ ToldOK
    BY DEF WholeInv, LexerInv
  <1>2. LexerInv'
    BY <1>1, LexerStep
  <1>3. SkipBom => Hand' /\ ToldOK'
    BY <1>1, BomTold
  <1>4. SkipWhitespace => Hand' /\ ToldOK'
    BY <1>1, BlankTold
  <1>5. Comment => Hand' /\ ToldOK'
    BY <1>1, CommentTold
  <1>6. ScanComment => Hand' /\ ToldOK'
    BY <1>1, RemarkTold
  <1>7. Scan => Hand' /\ ToldOK'
    BY <1>1, ScanTold
  <1>8. ScanLiteral => Hand' /\ ToldOK'
    BY <1>1, LiteralTold
  <1>9. ScanString => Hand' /\ ToldOK'
    BY <1>1, StringTold
  <1>10. NextByteInRange => Hand' /\ ToldOK'
    BY <1>1, TailTold
  <1>11. ScanEscape => Hand' /\ ToldOK'
    BY <1>1, EscapeTold
  <1>12. GetCodepoint => Hand' /\ ToldOK'
    BY <1>1, HexTold
  <1>13. ScanLow => Hand' /\ ToldOK'
    BY <1>1, LowTold
  <1>14. ScanNumber => Hand' /\ ToldOK'
    BY <1>1, NumberTold
  <1> QED
    BY <1>2, <1>3, <1>4, <1>5, <1>6, <1>7, <1>8, <1>9, <1>10, <1>11, <1>12, <1>13, <1>14, Zenon
       DEF WholeInv, NextLexer

\* So does a stuttering step.
LEMMA WholeStutters ==
  ASSUME WholeInv, UNCHANGED lexer
  PROVE  WholeInv'
  <1>1. LexerInv'
    BY LexerStutters DEF WholeInv
  <1>2. Hand' /\ ToldOK'
    BY Zenon DEF WholeInv, lexer, Hand, NumberOK, LiteralOK, StringOK, RemarkOK, ToldOK, Judged, Told, Read, Consumed
  <1> QED
    BY <1>1, <1>2 DEF WholeInv

\* A text is taken apart as the grammar does it, however long it is and whatever bytes come:
\* every string is well-formed UTF-8 between quotes and token_buffer is all that it can mean,
\* every number is one of the grammar with all its digits, every literal is spelt right, and
\* what was read when scan() gives up is the beginning of nothing.
THEOREM WholeTokensHolds == SpecLexer => []WholeTokens
  <1>1. InitLexer => WholeInv
    BY WholeInit
  <1>2. WholeInv /\ [NextLexer]_lexer => WholeInv'
    BY WholeStep, WholeStutters
  <1>3. WholeInv => WholeTokens
    BY ToldWhole DEF WholeInv, LexerInv
  <1> QED
    BY <1>1, <1>2, <1>3, PTL DEF SpecLexer
=============================================================================
