-------------------------- MODULE JsonParserProofs --------------------------
(***************************************************************************)
(* That the parser accepts what the grammar says, and refuses everything   *)
(* else as soon as it can, for texts of any length and nesting.            *)
(*                                                                         *)
(* What can still follow the tokens that have been read is a language: it  *)
(* depends on where the parser is and on the containers that are open.     *)
(* Reading a token takes it from the front of that language's sequences.   *)
(***************************************************************************)
EXTENDS JsonSyntax, Induction, SequenceTheorems

-----------------------------------------------------------------------------
(* Sequences.                                                               *)

\* What concatenation is.
LEMMA Joined ==
  ASSUME NEW S, NEW a \in Seq(S), NEW b \in Seq(S)
  PROVE  /\ a \o b \in Seq(S) /\ Len(a \o b) = Len(a) + Len(b)
         /\ a \o <<>> = a /\ <<>> \o a = a
         /\ \A c \in Seq(S) : (a \o b) \o c = a \o (b \o c)
  BY ConcatProperties, ConcatEmptySeq, ConcatAssociative

\* What begins with the same is the same when what follows is.
LEMMA SameFirst ==
  ASSUME NEW S, NEW t \in S, NEW u \in S, NEW a \in Seq(S), NEW b \in Seq(S), <<t>> \o a = <<u>> \o b
  PROVE  t = u /\ a = b
  <1>1. (<<t>> \o a)[1] = t /\ (<<u>> \o b)[1] = u
    OBVIOUS
  <1>2. t = u
    BY <1>1
  <1>3. <<t>> \in Seq(S)
    OBVIOUS
  <1>4. \A c \in Seq(S) : \A x, y \in Seq(S) : c \o x = c \o y => x = y
    BY ConcatSimplifications, Zenon
  <1> QED
    BY <1>2, <1>3, <1>4, Zenon

\* What ends with the same is the same when what is before it is.
LEMMA SameLast ==
  ASSUME NEW S, NEW t \in S, NEW u \in S, NEW a \in Seq(S), NEW b \in Seq(S), a \o <<t>> = b \o <<u>>
  PROVE  t = u /\ a = b
  <1>1. Append(a, t) = a \o <<t>> /\ Append(b, u) = b \o <<u>>
    BY AppendIsConcat
  <1> QED
    BY <1>1, AppendInjective

\* A sequence that is not empty has a first element.
LEMMA Headed ==
  ASSUME NEW S, NEW s \in Seq(S), s # <<>>
  PROVE  /\ s[1] \in S /\ SubSeq(s, 2, Len(s)) \in Seq(S)
         /\ s = <<s[1]>> \o SubSeq(s, 2, Len(s))
  <1>1. Len(s) \in Nat /\ Len(s) # 0
    BY EmptySeq
  <1>2. SubSeq(s, 1, Len(s)) = <<s[1]>> \o SubSeq(s, 1 + 1, Len(s))
    BY <1>1, SubSeqRecursiveFirst
  <1>3. SubSeq(s, 1, Len(s)) = s
    BY SubSeqFull
  <1>4. s[1] \in S /\ SubSeq(s, 2, Len(s)) \in Seq(S)
    BY <1>1
  <1> QED
    BY <1>2, <1>3, <1>4

\* And a last one.
LEMMA Ended ==
  ASSUME NEW S, NEW s \in Seq(S), s # <<>>
  PROVE  \E r \in Seq(S), t \in S : s = r \o <<t>>
  <1>1. PICK r \in Seq(S), t \in S : s = Append(r, t)
    BY SequenceEmptyOrAppend, Zenon
  <1>2. Append(r, t) = r \o <<t>>
    BY AppendIsConcat
  <1> QED
    BY <1>1, <1>2, Zenon

\* Where an element stands in a sequence the sequence can be cut.
LEMMA Cut ==
  ASSUME NEW S, NEW s \in Seq(S), NEW i \in 1..Len(s)
  PROVE  /\ SubSeq(s, 1, i - 1) \in Seq(S) /\ SubSeq(s, i + 1, Len(s)) \in Seq(S)
         /\ s = SubSeq(s, 1, i - 1) \o (<<s[i]>> \o SubSeq(s, i + 1, Len(s)))
  <1>1. Len(s) \in Nat
    OBVIOUS
  <1>2. SubSeq(s, i, Len(s)) = <<s[i]>> \o SubSeq(s, i + 1, Len(s))
    BY SubSeqRecursiveFirst
  <1>3. SubSeq(s, 1, i - 1) \o SubSeq(s, i, Len(s)) = s
    <2>1. 1 \in 1..Len(s) + 1 /\ i - 1 \in (1 - 1)..Len(s) /\ Len(s) \in (i - 1)..Len(s)
      BY <1>1
    <2>2. SubSeq(s, 1, i - 1) \o SubSeq(s, (i - 1) + 1, Len(s)) = SubSeq(s, 1, Len(s))
      BY <2>1, ConcatAdjacentSubSeq, Zenon
    <2> QED
      BY <1>1, <2>2, SubSeqFull
  <1>4. SubSeq(s, 1, i - 1) \in Seq(S) /\ SubSeq(s, i + 1, Len(s)) \in Seq(S)
    BY <1>1
  <1> QED
    BY <1>2, <1>3, <1>4

\* And the other way round.
LEMMA Uncut ==
  ASSUME NEW S, NEW a \in Seq(S), NEW t \in S, NEW b \in Seq(S), NEW s, s = a \o (<<t>> \o b)
  PROVE  /\ s \in Seq(S) /\ Len(a) + 1 \in 1..Len(s) /\ s[Len(a) + 1] = t
         /\ Len(s) = Len(a) + 1 + Len(b)
         /\ SubSeq(s, 1, Len(a)) = a /\ SubSeq(s, Len(a) + 2, Len(s)) = b
  <1>1. <<t>> \in Seq(S) /\ <<t>> \o b \in Seq(S) /\ Len(<<t>> \o b) = 1 + Len(b)
    OBVIOUS
  <1>2. s \in Seq(S) /\ Len(s) = Len(a) + 1 + Len(b) /\ Len(a) \in Nat /\ Len(b) \in Nat
    BY <1>1
  <1>3. \A i \in 1..Len(s) : s[i] = IF i <= Len(a) THEN a[i] ELSE (<<t>> \o b)[i - Len(a)]
    BY <1>1, <1>2, ConcatProperties
  <1>4. \A i \in 1..(1 + Len(b)) : (<<t>> \o b)[i] = IF i <= 1 THEN t ELSE b[i - 1]
    BY <1>1
  <1>5. s[Len(a) + 1] = t
    BY <1>2, <1>3, <1>4
  <1>6. SubSeq(s, 1, Len(a)) = a
    <2>1. Len(SubSeq(s, 1, Len(a))) = Len(a) /\ SubSeq(s, 1, Len(a)) \in Seq(S)
      BY <1>2
    <2>2. \A i \in 1..Len(a) : SubSeq(s, 1, Len(a))[i] = a[i]
      BY <1>2, <1>3
    <2> QED
      BY <2>1, <2>2, SeqEqual
  <1>7. SubSeq(s, Len(a) + 2, Len(s)) = b
    <2>1. Len(SubSeq(s, Len(a) + 2, Len(s))) = Len(b) /\ SubSeq(s, Len(a) + 2, Len(s)) \in Seq(S)
      BY <1>2
    <2>2. \A i \in 1..Len(b) : SubSeq(s, Len(a) + 2, Len(s))[i] = b[i]
      <3> TAKE i \in 1..Len(b)
      <3>1. SubSeq(s, Len(a) + 2, Len(s))[i] = s[Len(a) + 1 + i]
        BY <1>2
      <3>2. s[Len(a) + 1 + i] = (<<t>> \o b)[i + 1]
        BY <1>2, <1>3
      <3>3. i + 1 \in 1..(1 + Len(b)) /\ ~(i + 1 <= 1) /\ (i + 1) - 1 = i
        BY <1>2
      <3>4. (<<t>> \o b)[i + 1] = b[i]
        BY <1>4, <3>3, Zenon
      <3> QED
        BY <3>1, <3>2, <3>4, Zenon
    <2> QED
      BY <2>1, <2>2, SeqEqual
  <1> QED
    BY <1>2, <1>5, <1>6, <1>7

\* A sequence between two elements.
LEMMA Wrapped ==
  ASSUME NEW S, NEW t \in S, NEW u \in S, NEW w \in Seq(S), NEW s, s = <<t>> \o (w \o <<u>>)
  PROVE  /\ s \in Seq(S) /\ Len(s) = Len(w) + 2 /\ s[1] = t /\ s[Len(s)] = u
         /\ SubSeq(s, 2, Len(s) - 1) = w
  <1>1. <<t>> \in Seq(S) /\ <<u>> \in Seq(S) /\ w \o <<u>> \in Seq(S) /\ Len(w \o <<u>>) = Len(w) + 1
    OBVIOUS
  <1>2. s \in Seq(S) /\ Len(s) = Len(w) + 2 /\ Len(w) \in Nat
    BY <1>1
  <1>3. \A i \in 1..Len(s) : s[i] = IF i <= 1 THEN t ELSE (w \o <<u>>)[i - 1]
    <2>1. PICK v \in Seq(S) : v = w \o <<u>>
      BY <1>1
    <2>2. s = <<t>> \o v
      BY <2>1
    <2>3. \A i \in 1..Len(s) : s[i] = IF i <= 1 THEN t ELSE v[i - 1]
      BY <2>2
    <2> QED
      BY <2>1, <2>3
  <1>4. \A i \in 1..(Len(w) + 1) : (w \o <<u>>)[i] = IF i <= Len(w) THEN w[i] ELSE u
    BY <1>1
  <1>5. s[1] = t /\ s[Len(s)] = u
    BY <1>2, <1>3, <1>4
  <1>6. Len(SubSeq(s, 2, Len(s) - 1)) = Len(w) /\ SubSeq(s, 2, Len(s) - 1) \in Seq(S)
    BY <1>2
  <1>7. \A i \in 1..Len(w) : SubSeq(s, 2, Len(s) - 1)[i] = w[i]
    <2> TAKE i \in 1..Len(w)
    <2>1. SubSeq(s, 2, Len(s) - 1)[i] = s[i + 1]
      BY <1>2
    <2> QED
      BY <1>2, <1>3, <1>4, <2>1
  <1> QED
    BY <1>2, <1>5, <1>6, <1>7, SeqEqual

\* And what is between the first and the last element.
LEMMA Unwrapped ==
  ASSUME NEW S, NEW s \in Seq(S), Len(s) > 1
  PROVE  /\ SubSeq(s, 2, Len(s) - 1) \in Seq(S)
         /\ s = <<s[1]>> \o (SubSeq(s, 2, Len(s) - 1) \o <<s[Len(s)]>>)
  <1>1. Len(s) \in Nat /\ s # <<>>
    OBVIOUS
  <1>2. s = <<s[1]>> \o SubSeq(s, 2, Len(s))
    BY <1>1, Headed
  <1>3. SubSeq(s, 2, Len(s)) = SubSeq(s, 2, Len(s) - 1) \o <<s[Len(s)]>>
    <2>1. 2 \in 1..Len(s) /\ Len(s) \in 2..Len(s)
      BY <1>1
    <2> QED
      BY <2>1, SubSeqRecursiveSecond, Zenon
  <1>4. SubSeq(s, 2, Len(s) - 1) \in Seq(S)
    BY <1>1
  <1> QED
    BY <1>2, <1>3, <1>4, Zenon

\* What follows two elements.
LEMMA Twice ==
  ASSUME NEW S, NEW t \in S, NEW u \in S, NEW v \in Seq(S), NEW s, s = <<t>> \o (<<u>> \o v)
  PROVE  /\ s \in Seq(S) /\ Len(s) = Len(v) + 2 /\ s[1] = t /\ s[2] = u
         /\ SubSeq(s, 3, Len(s)) = v
  <1>1. <<t>> \in Seq(S) /\ Len(<<t>>) = 1
    OBVIOUS
  <1>2. s = <<t>> \o (<<u>> \o v) /\ <<u>> \o v \in Seq(S)
    OBVIOUS
  <1>3. /\ s \in Seq(S) /\ Len(s) = 2 + Len(v) /\ s[2] = u /\ SubSeq(s, 3, Len(s)) = v
    <2>1. /\ s \in Seq(S) /\ s[Len(<<t>>) + 1] = u /\ Len(s) = Len(<<t>>) + 1 + Len(v)
          /\ SubSeq(s, Len(<<t>>) + 2, Len(s)) = v
      BY <1>1, <1>2, Uncut
    <2>2. Len(v) \in Nat
      OBVIOUS
    <2> QED
      BY <1>1, <2>1, <2>2
  <1>4. s[1] = t
    BY <1>2
  <1> QED
    BY <1>3, <1>4

\* And the other way round.
LEMMA Untwice ==
  ASSUME NEW S, NEW s \in Seq(S), Len(s) > 1
  PROVE  SubSeq(s, 3, Len(s)) \in Seq(S) /\ s = <<s[1]>> \o (<<s[2]>> \o SubSeq(s, 3, Len(s)))
  <1>1. Len(s) \in Nat /\ s # <<>>
    OBVIOUS
  <1>2. s = <<s[1]>> \o SubSeq(s, 2, Len(s))
    BY <1>1, Headed
  <1>3. SubSeq(s, 2, Len(s)) = <<s[2]>> \o SubSeq(s, 2 + 1, Len(s))
    <2>1. 2 \in 1..Len(s) /\ Len(s) \in 2..Len(s)
      BY <1>1
    <2> QED
      BY <2>1, SubSeqRecursiveFirst, Zenon
  <1>4. SubSeq(s, 3, Len(s)) \in Seq(S)
    BY <1>1
  <1> QED
    BY <1>2, <1>3, <1>4

-----------------------------------------------------------------------------
(* The grammar's recursion.                                                 *)

Pairs == Kinds \X Seq(Types)
SizeOf(x) == 2 * Len(x[2]) + (IF x[1] \in Structures THEN 1 ELSE 0)

\* What the grammar says of a sequence when f says it of smaller ones.
Formed(kind, s, f) ==
  \/ kind = "value" /\ Len(s) = 1 /\ s[1] \in {"scalar", "string"}
  \/ /\ kind = "value" /\ Len(s) > 1
     /\ \E c \in Structures : /\ s[1] = Opening[c] /\ s[Len(s)] = Closing[c]
                              /\ Len(s) = 2 \/ f[<<c, SubSeq(s, 2, Len(s) - 1)>>]
  \/ /\ kind = "member" /\ Len(s) > 2 /\ s[1] = "string" /\ s[2] = "name_separator"
     /\ f[<<"value", SubSeq(s, 3, Len(s))>>]
  \/ kind \in Structures /\ f[<<Item[kind], SubSeq(s, 1, Len(s))>>]
  \/ /\ kind \in Structures
     /\ \E i \in 1..Len(s) : /\ s[i] = "value_separator"
                             /\ f[<<Item[kind], SubSeq(s, 1, i - 1)>>]
                             /\ f[<<kind, SubSeq(s, i + 1, Len(s))>>]

\* Kinds, and that what a container holds is smaller than it.
LEMMA ItemKinds ==
  /\ \A c \in Structures : Item[c] \in Kinds \ Structures /\ c \in Kinds
  /\ "value" \in Kinds \ Structures /\ "member" \in Kinds \ Structures
  BY DEF Item, Kinds, Structures

\* A part of a sequence is a smaller one.
LEMMA PartSmaller ==
  ASSUME NEW s \in Seq(Types), NEW i \in 1..(Len(s) + 1), NEW j \in 0..Len(s), NEW k \in Kinds, NEW m \in Kinds,
         i > 1 \/ j < Len(s) \/ (m \in Structures /\ k \notin Structures)
  PROVE  /\ <<k, SubSeq(s, i, j)>> \in Pairs
         /\ SizeOf(<<k, SubSeq(s, i, j)>>) < SizeOf(<<m, s>>)
  <1>1. SubSeq(s, i, j) \in Seq(Types) /\ Len(SubSeq(s, i, j)) = (IF i <= j THEN j - i + 1 ELSE 0)
    OBVIOUS
  <1>2. Len(s) \in Nat
    OBVIOUS
  <1>3. PICK part \in Seq(Types) : part = SubSeq(s, i, j)
    BY <1>1
  <1>4. <<k, part>> \in Pairs
    BY <1>1, <1>3 DEF Pairs
  <1>5. /\ SizeOf(<<k, part>>) = 2 * Len(part) + (IF k \in Structures THEN 1 ELSE 0)
        /\ SizeOf(<<m, s>>) = 2 * Len(s) + (IF m \in Structures THEN 1 ELSE 0)
    BY DEF SizeOf
  <1>6. Len(part) \in Nat /\ Len(part) = (IF i <= j THEN j - i + 1 ELSE 0)
    BY <1>1, <1>3
  <1>7. SizeOf(<<k, part>>) < SizeOf(<<m, s>>)
    BY <1>2, <1>5, <1>6
  <1> QED
    BY <1>3, <1>4, <1>7

\* Same(f, g, x): f and g say the same of what is smaller than x.
Same(f, g, x) == \A y \in Pairs : SizeOf(y) < SizeOf(x) => f[y] = g[y]

\* Two functions that agree on a pair agree where the grammar asks them.
LEMMA SamePart ==
  ASSUME NEW f, NEW g, NEW s \in Seq(Types), NEW i \in 1..(Len(s) + 1), NEW j \in 0..Len(s),
         NEW k \in Kinds, NEW m \in Kinds, Same(f, g, <<m, s>>),
         i > 1 \/ j < Len(s) \/ (m \in Structures /\ k \notin Structures)
  PROVE  f[<<k, SubSeq(s, i, j)>>] = g[<<k, SubSeq(s, i, j)>>]
  <1>1. <<k, SubSeq(s, i, j)>> \in Pairs /\ SizeOf(<<k, SubSeq(s, i, j)>>) < SizeOf(<<m, s>>)
    BY PartSmaller
  <1> QED
    BY <1>1, Zenon DEF Same

\* What the grammar says of a sequence depends on what it says of smaller ones only.
LEMMA FormedLocal ==
  ASSUME NEW f, NEW g, NEW kind \in Kinds, NEW s \in Seq(Types), Same(f, g, <<kind, s>>)
  PROVE  Formed(kind, s, f) <=> Formed(kind, s, g)
  <1>1. Len(s) \in Nat
    OBVIOUS
  <1>0. \A i \in 1..(Len(s) + 1), j \in 0..Len(s), k \in Kinds :
          i > 1 \/ j < Len(s) \/ (kind \in Structures /\ k \notin Structures)
            => f[<<k, SubSeq(s, i, j)>>] = g[<<k, SubSeq(s, i, j)>>]
    BY SamePart
  <1>2. ASSUME Len(s) > 1, NEW c \in Structures
        PROVE  f[<<c, SubSeq(s, 2, Len(s) - 1)>>] = g[<<c, SubSeq(s, 2, Len(s) - 1)>>]
    <2>1. 2 \in 1..(Len(s) + 1) /\ Len(s) - 1 \in 0..Len(s) /\ 2 > 1 /\ c \in Kinds
      BY <1>1, <1>2 DEF Kinds
    <2> QED
      BY <1>0, <2>1, Zenon
  <1>3. ASSUME Len(s) > 2
        PROVE  f[<<"value", SubSeq(s, 3, Len(s))>>] = g[<<"value", SubSeq(s, 3, Len(s))>>]
    <2>1. 3 \in 1..(Len(s) + 1) /\ Len(s) \in 0..Len(s) /\ 3 > 1 /\ "value" \in Kinds
      BY <1>1, <1>3 DEF Kinds
    <2> QED
      BY <1>0, <2>1, Zenon
  <1>4. ASSUME kind \in Structures
        PROVE  f[<<Item[kind], SubSeq(s, 1, Len(s))>>] = g[<<Item[kind], SubSeq(s, 1, Len(s))>>]
    <2>1. /\ 1 \in 1..(Len(s) + 1) /\ Len(s) \in 0..Len(s)
          /\ Item[kind] \in Kinds /\ Item[kind] \notin Structures
      BY <1>1, <1>4, ItemKinds
    <2> QED
      BY <1>0, <1>4, <2>1, Zenon
  <1>5. ASSUME kind \in Structures, NEW i \in 1..Len(s)
        PROVE  /\ f[<<Item[kind], SubSeq(s, 1, i - 1)>>] = g[<<Item[kind], SubSeq(s, 1, i - 1)>>]
               /\ f[<<kind, SubSeq(s, i + 1, Len(s))>>] = g[<<kind, SubSeq(s, i + 1, Len(s))>>]
    <2>1. /\ 1 \in 1..(Len(s) + 1) /\ Len(s) \in 0..Len(s) /\ i - 1 \in 0..Len(s) /\ i - 1 < Len(s)
          /\ i + 1 \in 1..(Len(s) + 1) /\ i + 1 > 1 /\ Item[kind] \in Kinds
      BY <1>1, <1>5, ItemKinds
    <2>2. f[<<Item[kind], SubSeq(s, 1, i - 1)>>] = g[<<Item[kind], SubSeq(s, 1, i - 1)>>]
      BY <1>0, <2>1, Zenon
    <2>3. f[<<kind, SubSeq(s, i + 1, Len(s))>>] = g[<<kind, SubSeq(s, i + 1, Len(s))>>]
      BY <1>0, <2>1, Zenon
    <2> QED
      BY <2>2, <2>3
  <1> QED
    BY <1>2, <1>3, <1>4, <1>5, Zenon DEF Formed

\* What the grammar says is what it says of the parts.
LEMMA GrammarIs ==
  /\ Grammar \in [Pairs -> BOOLEAN]
  /\ \A kind \in Kinds, s \in Seq(Types) : Grammar[<<kind, s>>] = Formed(kind, s, Grammar)
  <1> DEFINE size == [x \in Pairs |-> SizeOf(x)]
             step == [x \in Pairs \X [Pairs -> BOOLEAN] |-> Formed(x[1][1], x[1][2], x[2])]
             Is(f) == f = [x \in Pairs |-> Formed(x[1], x[2], f)]
  <1>1. size \in [Pairs -> Nat] /\ \A x \in Pairs : size[x] = SizeOf(x)
    <2>1. \A x \in Pairs : SizeOf(x) \in Nat
      BY DEF Pairs, SizeOf
    <2> QED
      BY <2>1
  <1>2. /\ step \in [Pairs \X [Pairs -> BOOLEAN] -> BOOLEAN]
        /\ \A x \in Pairs : \A f \in [Pairs -> BOOLEAN] : step[<<x, f>>] = Formed(x[1], x[2], f)
    <2>1. \A kind, s, f : Formed(kind, s, f) \in BOOLEAN
      BY DEF Formed
    <2> QED
      BY <2>1
  <1>3. ByTheSmaller(Pairs, BOOLEAN, size, step)
    <2> HIDE DEF size, step
    <2>1. ASSUME NEW x \in Pairs, NEW f \in [Pairs -> BOOLEAN], NEW g \in [Pairs -> BOOLEAN],
                 \A y \in Pairs : size[y] < size[x] => f[y] = g[y]
          PROVE  step[<<x, f>>] = step[<<x, g>>]
      <3>1. PICK kind \in Kinds, s \in Seq(Types) : x = <<kind, s>>
        BY DEF Pairs
      <3>2. Same(f, g, <<kind, s>>)
        BY <1>1, <2>1, <3>1 DEF Same
      <3>3. Formed(kind, s, f) <=> Formed(kind, s, g)
        BY <3>2, FormedLocal
      <3>4. step[<<x, f>>] = Formed(kind, s, f) /\ step[<<x, g>>] = Formed(kind, s, g)
        BY <1>2, <3>1
      <3>5. Formed(kind, s, f) \in BOOLEAN /\ Formed(kind, s, g) \in BOOLEAN
        BY DEF Formed
      <3> QED
        BY <3>3, <3>4, <3>5
    <2> QED
      BY <1>1, <1>2, <2>1 DEF ByTheSmaller
  <1>4. FALSE \in BOOLEAN
    OBVIOUS
  <1>5. PICK h : Solves(h, Pairs, BOOLEAN, step)
    <2> HIDE DEF size, step
    <2> QED
      BY <1>3, <1>4, WellFounded
  <1>6. h \in [Pairs -> BOOLEAN] /\ \A x \in Pairs : h[x] = step[<<x, h>>]
    BY <1>5, Zenon DEF Solves
  <1>7. Is(h)
    <2> HIDE DEF step
    <2>1. \A x \in Pairs : step[<<x, h>>] = Formed(x[1], x[2], h)
      BY <1>2, <1>6, Zenon
    <2> QED
      BY <1>6, <2>1
  <1>8. Grammar = CHOOSE f : Is(f)
    BY DEF Grammar, Formed, Pairs
  <1>9. Is(Grammar)
    <2> HIDE DEF Is
    <2> QED
      BY <1>7, <1>8
  <1>10. \A kind, s, f : Formed(kind, s, f) \in BOOLEAN
    BY DEF Formed
  <1>11. \A kind \in Kinds, s \in Seq(Types) : <<kind, s>> \in Pairs
    BY DEF Pairs
  <1> QED
    BY <1>9, <1>10, <1>11

\* What the grammar says of a beginning when f says it of smaller ones.
Begun(kind, s, f) ==
  \/ Grammar[<<kind, s>>]
  \/ Len(s) = 0
  \/ /\ kind = "value"
     /\ \E c \in Structures : s[1] = Opening[c] /\ f[<<c, SubSeq(s, 2, Len(s))>>]
  \/ /\ kind = "member" /\ s[1] = "string"
     /\ Len(s) = 1 \/ (s[2] = "name_separator" /\ f[<<"value", SubSeq(s, 3, Len(s))>>])
  \/ kind \in Structures /\ f[<<Item[kind], SubSeq(s, 1, Len(s))>>]
  \/ /\ kind \in Structures
     /\ \E i \in 1..Len(s) : /\ s[i] = "value_separator"
                             /\ Grammar[<<Item[kind], SubSeq(s, 1, i - 1)>>]
                             /\ f[<<kind, SubSeq(s, i + 1, Len(s))>>]

\* What the grammar says of a beginning depends on what it says of smaller ones only.
LEMMA BegunLocal ==
  ASSUME NEW f, NEW g, NEW kind \in Kinds, NEW s \in Seq(Types), Same(f, g, <<kind, s>>)
  PROVE  Begun(kind, s, f) <=> Begun(kind, s, g)
  <1>1. Len(s) \in Nat
    OBVIOUS
  <1>2. \A i \in 1..(Len(s) + 1), j \in 0..Len(s), k \in Kinds :
          i > 1 \/ j < Len(s) \/ (kind \in Structures /\ k \notin Structures)
            => f[<<k, SubSeq(s, i, j)>>] = g[<<k, SubSeq(s, i, j)>>]
    BY SamePart
  <1>3. ASSUME Len(s) # 0, NEW c \in Structures
        PROVE  f[<<c, SubSeq(s, 2, Len(s))>>] = g[<<c, SubSeq(s, 2, Len(s))>>]
    <2>1. 2 \in 1..(Len(s) + 1) /\ Len(s) \in 0..Len(s) /\ 2 > 1 /\ c \in Kinds
      BY <1>1, <1>3 DEF Kinds
    <2> QED
      BY <1>2, <2>1, Zenon
  <1>4. ASSUME Len(s) # 0, Len(s) # 1
        PROVE  f[<<"value", SubSeq(s, 3, Len(s))>>] = g[<<"value", SubSeq(s, 3, Len(s))>>]
    <2>1. Len(s) > 1
      <3>1. \A n \in Nat : n # 0 /\ n # 1 => n > 1
        OBVIOUS
      <3> QED
        BY <1>1, <1>4, <3>1, Zenon
    <2>2. 3 \in 1..(Len(s) + 1) /\ Len(s) \in 0..Len(s) /\ 3 > 1
      BY <1>1, <2>1
    <2>3. "value" \in Kinds
      BY DEF Kinds
    <2> QED
      BY <1>2, <2>2, <2>3, Zenon
  <1>5. ASSUME kind \in Structures
        PROVE  f[<<Item[kind], SubSeq(s, 1, Len(s))>>] = g[<<Item[kind], SubSeq(s, 1, Len(s))>>]
    <2>1. /\ 1 \in 1..(Len(s) + 1) /\ Len(s) \in 0..Len(s)
          /\ Item[kind] \in Kinds /\ Item[kind] \notin Structures
      BY <1>1, <1>5, ItemKinds
    <2> QED
      BY <1>2, <1>5, <2>1, Zenon
  <1>6. ASSUME kind \in Structures, NEW i \in 1..Len(s)
        PROVE  f[<<kind, SubSeq(s, i + 1, Len(s))>>] = g[<<kind, SubSeq(s, i + 1, Len(s))>>]
    <2>1. Len(s) \in 0..Len(s) /\ i + 1 \in 1..(Len(s) + 1) /\ i + 1 > 1
      BY <1>1
    <2> QED
      BY <1>2, <2>1, Zenon
  <1> QED
    BY <1>3, <1>4, <1>5, <1>6, Zenon DEF Begun

\* What the grammar says of a beginning is what it says of its parts.
LEMMA BeginningIs ==
  /\ Beginning \in [Pairs -> BOOLEAN]
  /\ \A kind \in Kinds, s \in Seq(Types) : Beginning[<<kind, s>>] = Begun(kind, s, Beginning)
  <1> DEFINE size == [x \in Pairs |-> SizeOf(x)]
             step == [x \in Pairs \X [Pairs -> BOOLEAN] |-> Begun(x[1][1], x[1][2], x[2])]
             Is(f) == f = [x \in Pairs |-> Begun(x[1], x[2], f)]
  <1>0. \A kind, s, f : Begun(kind, s, f) \in BOOLEAN
    BY DEF Begun
  <1>1. size \in [Pairs -> Nat] /\ \A x \in Pairs : size[x] = SizeOf(x)
    <2>1. \A x \in Pairs : SizeOf(x) \in Nat
      BY DEF Pairs, SizeOf
    <2> QED
      BY <2>1
  <1>2. /\ step \in [Pairs \X [Pairs -> BOOLEAN] -> BOOLEAN]
        /\ \A x \in Pairs : \A f \in [Pairs -> BOOLEAN] : step[<<x, f>>] = Begun(x[1], x[2], f)
    BY <1>0
  <1>3. ByTheSmaller(Pairs, BOOLEAN, size, step)
    <2> HIDE DEF size, step
    <2>1. ASSUME NEW x \in Pairs, NEW f \in [Pairs -> BOOLEAN], NEW g \in [Pairs -> BOOLEAN],
                 \A y \in Pairs : size[y] < size[x] => f[y] = g[y]
          PROVE  step[<<x, f>>] = step[<<x, g>>]
      <3>1. PICK kind \in Kinds, s \in Seq(Types) : x = <<kind, s>>
        BY DEF Pairs
      <3>2. Same(f, g, <<kind, s>>)
        BY <1>1, <2>1, <3>1 DEF Same
      <3>3. Begun(kind, s, f) <=> Begun(kind, s, g)
        BY <3>2, BegunLocal
      <3>4. step[<<x, f>>] = Begun(kind, s, f) /\ step[<<x, g>>] = Begun(kind, s, g)
        BY <1>2, <3>1
      <3> QED
        BY <1>0, <3>3, <3>4
    <2> QED
      BY <1>1, <1>2, <2>1 DEF ByTheSmaller
  <1>4. FALSE \in BOOLEAN
    OBVIOUS
  <1>5. PICK h : Solves(h, Pairs, BOOLEAN, step)
    <2> HIDE DEF size, step
    <2> QED
      BY <1>3, <1>4, WellFounded
  <1>6. h \in [Pairs -> BOOLEAN] /\ \A x \in Pairs : h[x] = step[<<x, h>>]
    BY <1>5, Zenon DEF Solves
  <1>7. Is(h)
    <2> HIDE DEF step
    <2>1. \A x \in Pairs : step[<<x, h>>] = Begun(x[1], x[2], h)
      BY <1>2, <1>6, Zenon
    <2> QED
      BY <1>6, <2>1
  <1>8. Beginning = CHOOSE f : Is(f)
    BY DEF Beginning, Begun, Pairs
  <1>9. Is(Beginning)
    <2> HIDE DEF Is
    <2> QED
      BY <1>7, <1>8
  <1>11. \A kind \in Kinds, s \in Seq(Types) : <<kind, s>> \in Pairs
    BY DEF Pairs
  <1> QED
    BY <1>0, <1>9, <1>11

-----------------------------------------------------------------------------
(* The grammar in terms of concatenation.                                   *)

\* s is of a kind, and s may stand between the brackets of a container.
Word(kind, s) == s \in Seq(Types) /\ Grammar[<<kind, s>>]
Held(c, s) == s = <<>> \/ Word(c, s)

\* Types of tokens that the grammar names.
LEMMA TypesNamed ==
  /\ "scalar" \in Types /\ "string" \in Types
  /\ "name_separator" \in Types /\ "value_separator" \in Types
  /\ \A c \in Structures : Opening[c] \in Types /\ Closing[c] \in Types
  BY DEF Types, Punctuation, Structures, Opening, Closing

\* What is a value.
LEMMA ValueForms ==
  ASSUME NEW s
  PROVE  Word("value", s) <=>
           \/ s = <<"scalar">> \/ s = <<"string">>
           \/ \E c \in Structures : \E w \in Seq(Types) :
                Held(c, w) /\ s = <<Opening[c]>> \o (w \o <<Closing[c]>>)
  <1> USE TypesNamed
  <1>1. "value" \in Kinds /\ "value" \notin Structures
    BY ItemKinds
  <1>2. ASSUME s \in Seq(Types)
        PROVE  Word("value", s) <=>
                 \/ Len(s) = 1 /\ s[1] \in {"scalar", "string"}
                 \/ /\ Len(s) > 1
                    /\ \E c \in Structures : /\ s[1] = Opening[c] /\ s[Len(s)] = Closing[c]
                                             /\ Len(s) = 2 \/ Grammar[<<c, SubSeq(s, 2, Len(s) - 1)>>]
    <2>1. Grammar[<<"value", s>>] = Formed("value", s, Grammar)
      BY <1>1, <1>2, GrammarIs
    <2>2. "value" # "member"
      OBVIOUS
    <2> QED
      BY <1>1, <1>2, <2>1, <2>2, Zenon DEF Formed, Word
  <1>3. ASSUME Word("value", s)
        PROVE  \/ s = <<"scalar">> \/ s = <<"string">>
               \/ \E c \in Structures : \E w \in Seq(Types) :
                    Held(c, w) /\ s = <<Opening[c]>> \o (w \o <<Closing[c]>>)
    <2>1. s \in Seq(Types)
      BY <1>3 DEF Word
    <2>2. CASE Len(s) = 1 /\ s[1] \in {"scalar", "string"}
      <3>1. s = <<s[1]>>
        BY <2>1, <2>2
      <3> QED
        BY <2>2, <3>1
    <2>3. ASSUME Len(s) > 1, NEW c \in Structures, s[1] = Opening[c], s[Len(s)] = Closing[c],
                 Len(s) = 2 \/ Grammar[<<c, SubSeq(s, 2, Len(s) - 1)>>]
          PROVE  \E w \in Seq(Types) : Held(c, w) /\ s = <<Opening[c]>> \o (w \o <<Closing[c]>>)
      <3>1. /\ SubSeq(s, 2, Len(s) - 1) \in Seq(Types)
            /\ s = <<Opening[c]>> \o (SubSeq(s, 2, Len(s) - 1) \o <<Closing[c]>>)
        BY <2>1, <2>3, Unwrapped
      <3>2. Len(s) = 2 => SubSeq(s, 2, Len(s) - 1) = <<>>
        BY <2>1
      <3>3. Held(c, SubSeq(s, 2, Len(s) - 1))
        BY <2>3, <3>1, <3>2, Zenon DEF Held, Word
      <3> QED
        BY <3>1, <3>3, Zenon
    <2> QED
      BY <1>2, <1>3, <2>1, <2>2, <2>3, Zenon
  <1>4. ASSUME s = <<"scalar">> \/ s = <<"string">>
        PROVE  Word("value", s)
    <2>1. \A t \in Types : <<t>> \in Seq(Types) /\ Len(<<t>>) = 1 /\ <<t>>[1] = t
      OBVIOUS
    <2>2. PICK t \in {"scalar", "string"} : s = <<t>>
      BY <1>4
    <2>3. s \in Seq(Types) /\ Len(s) = 1 /\ s[1] \in {"scalar", "string"}
      BY <2>1, <2>2
    <2> QED
      BY <1>2, <2>3
  <1>5. ASSUME NEW c \in Structures, NEW w \in Seq(Types), Held(c, w),
               s = <<Opening[c]>> \o (w \o <<Closing[c]>>)
        PROVE  Word("value", s)
    <2>1. /\ s \in Seq(Types) /\ Len(s) = Len(w) + 2 /\ s[1] = Opening[c] /\ s[Len(s)] = Closing[c]
          /\ SubSeq(s, 2, Len(s) - 1) = w
      BY <1>5, Wrapped
    <2>2. Len(s) > 1 /\ (w = <<>> => Len(s) = 2)
      BY <2>1
    <2>3. Len(s) = 2 \/ Grammar[<<c, w>>]
      BY <1>5, <2>2, Zenon DEF Held, Word
    <2> QED
      BY <1>2, <2>1, <2>2, <2>3, Zenon
  <1> QED
    BY <1>3, <1>4, <1>5, Zenon

\* What is a member of an object.
LEMMA MemberForms ==
  ASSUME NEW s
  PROVE  Word("member", s) <=>
           \E v \in Seq(Types) : Word("value", v) /\ s = <<"string">> \o (<<"name_separator">> \o v)
  <1> USE TypesNamed
  <1>1. "member" \in Kinds /\ "member" \notin Structures /\ "member" # "value"
    BY ItemKinds
  <1>2. ASSUME s \in Seq(Types)
        PROVE  Word("member", s) <=> /\ Len(s) > 2 /\ s[1] = "string" /\ s[2] = "name_separator"
                                     /\ Grammar[<<"value", SubSeq(s, 3, Len(s))>>]
    <2>1. Grammar[<<"member", s>>] = Formed("member", s, Grammar)
      BY <1>1, <1>2, GrammarIs
    <2> QED
      BY <1>1, <1>2, <2>1, Zenon DEF Formed, Word
  <1>3. ASSUME Word("member", s)
        PROVE  \E v \in Seq(Types) : Word("value", v) /\ s = <<"string">> \o (<<"name_separator">> \o v)
    <2>1. s \in Seq(Types)
      BY <1>3 DEF Word
    <2>2. /\ Len(s) > 2 /\ s[1] = "string" /\ s[2] = "name_separator"
          /\ Grammar[<<"value", SubSeq(s, 3, Len(s))>>]
      BY <1>2, <1>3, <2>1
    <2>3. Len(s) > 1
      BY <2>1, <2>2
    <2>4. SubSeq(s, 3, Len(s)) \in Seq(Types) /\ s = <<s[1]>> \o (<<s[2]>> \o SubSeq(s, 3, Len(s)))
      BY <2>1, <2>3, Untwice
    <2> QED
      BY <2>2, <2>4, Zenon DEF Word
  <1>4. ASSUME NEW v \in Seq(Types), Word("value", v), s = <<"string">> \o (<<"name_separator">> \o v)
        PROVE  Word("member", s)
    <2>1. /\ s \in Seq(Types) /\ Len(s) = Len(v) + 2 /\ s[1] = "string" /\ s[2] = "name_separator"
          /\ SubSeq(s, 3, Len(s)) = v
      BY <1>4, Twice
    <2>2. v # <<>>
      <3>1. <<"scalar">> # <<>> /\ <<"string">> # <<>>
        OBVIOUS
      <3>2. \A c \in Structures : \A w \in Seq(Types) : <<Opening[c]>> \o (w \o <<Closing[c]>>) # <<>>
        OBVIOUS
      <3> QED
        BY <1>4, <3>1, <3>2, ValueForms, Zenon
    <2>3. Len(s) > 2
      BY <2>1, <2>2
    <2> QED
      BY <1>2, <1>4, <2>1, <2>3, Zenon DEF Word
  <1> QED
    BY <1>3, <1>4, Zenon

\* What a container holds.
LEMMA ListForms ==
  ASSUME NEW c \in Structures, NEW s
  PROVE  Word(c, s) <=>
           \/ Word(Item[c], s)
           \/ \E v \in Seq(Types) : \E w \in Seq(Types) :
                Word(Item[c], v) /\ Word(c, w) /\ s = v \o (<<"value_separator">> \o w)
  <1> USE TypesNamed
  <1>1. c \in Kinds /\ c # "value" /\ c # "member"
    BY DEF Kinds, Structures
  <1>2. ASSUME s \in Seq(Types)
        PROVE  Word(c, s) <=>
                 \/ Grammar[<<Item[c], SubSeq(s, 1, Len(s))>>]
                 \/ \E i \in 1..Len(s) : /\ s[i] = "value_separator"
                                         /\ Grammar[<<Item[c], SubSeq(s, 1, i - 1)>>]
                                         /\ Grammar[<<c, SubSeq(s, i + 1, Len(s))>>]
    <2>1. Grammar[<<c, s>>] = Formed(c, s, Grammar)
      BY <1>1, <1>2, GrammarIs
    <2> QED
      BY <1>1, <1>2, <2>1, Zenon DEF Formed, Word
  <1>3. ASSUME s \in Seq(Types)
        PROVE  SubSeq(s, 1, Len(s)) = s
    BY <1>3, SubSeqFull
  <1>4. ASSUME Word(c, s)
        PROVE  \/ Word(Item[c], s)
               \/ \E v \in Seq(Types) : \E w \in Seq(Types) :
                    Word(Item[c], v) /\ Word(c, w) /\ s = v \o (<<"value_separator">> \o w)
    <2>1. s \in Seq(Types)
      BY <1>4 DEF Word
    <2>2. ASSUME NEW i \in 1..Len(s), s[i] = "value_separator",
                 Grammar[<<Item[c], SubSeq(s, 1, i - 1)>>], Grammar[<<c, SubSeq(s, i + 1, Len(s))>>]
          PROVE  \E v \in Seq(Types) : \E w \in Seq(Types) :
                   Word(Item[c], v) /\ Word(c, w) /\ s = v \o (<<"value_separator">> \o w)
      <3>1. /\ SubSeq(s, 1, i - 1) \in Seq(Types) /\ SubSeq(s, i + 1, Len(s)) \in Seq(Types)
            /\ s = SubSeq(s, 1, i - 1) \o (<<s[i]>> \o SubSeq(s, i + 1, Len(s)))
        BY <2>1, Cut
      <3> QED
        BY <2>2, <3>1, Zenon DEF Word
    <2> QED
      BY <1>2, <1>3, <1>4, <2>1, <2>2, Zenon DEF Word
  <1>5. ASSUME Word(Item[c], s)
        PROVE  Word(c, s)
    BY <1>2, <1>3, <1>5, Zenon DEF Word
  <1>6. ASSUME NEW v \in Seq(Types), NEW w \in Seq(Types), Word(Item[c], v), Word(c, w),
               s = v \o (<<"value_separator">> \o w)
        PROVE  Word(c, s)
    <2>1. /\ s \in Seq(Types) /\ Len(v) + 1 \in 1..Len(s) /\ s[Len(v) + 1] = "value_separator"
          /\ SubSeq(s, 1, Len(v)) = v /\ SubSeq(s, Len(v) + 2, Len(s)) = w
      BY <1>6, Uncut
    <2>2. PICK i \in 1..Len(s) : i = Len(v) + 1
      BY <2>1
    <2>3. i - 1 = Len(v) /\ i + 1 = Len(v) + 2
      BY <2>2
    <2>4. /\ s[i] = "value_separator" /\ Grammar[<<Item[c], SubSeq(s, 1, i - 1)>>]
          /\ Grammar[<<c, SubSeq(s, i + 1, Len(s))>>]
      BY <1>6, <2>1, <2>2, <2>3, Zenon DEF Word
    <2> QED
      BY <1>2, <2>1, <2>4, Zenon
  <1> QED
    BY <1>4, <1>5, <1>6, Zenon

\* Nothing is nothing.
LEMMA WordsLong ==
  ASSUME NEW s, Word("value", s) \/ Word("member", s)
  PROVE  s # <<>> /\ s \in Seq(Types)
  <1>1. <<"scalar">> # <<>> /\ <<"string">> # <<>>
    OBVIOUS
  <1>2. \A c \in Structures : \A w \in Seq(Types) : <<Opening[c]>> \o (w \o <<Closing[c]>>) # <<>>
    BY TypesNamed
  <1>3. \A v \in Seq(Types) : <<"string">> \o (<<"name_separator">> \o v) # <<>>
    BY TypesNamed
  <1>4. Word("value", s) => s # <<>>
    BY <1>1, <1>2, ValueForms, Zenon
  <1>5. Word("member", s) => s # <<>>
    BY <1>3, MemberForms, Zenon
  <1> QED
    BY <1>4, <1>5, Zenon DEF Word

-----------------------------------------------------------------------------
(* What may follow.                                                         *)

\* A token and then L; something of a kind and then L; what follows the opening of a container
\* and then L; what follows a member or an element, the end of its container and then L.
Led(t, L) == {s \in Seq(Types) : \E x \in L : s = <<t>> \o x}
Then(kind, L) == {s \in Seq(Types) : \E w \in Seq(Types) : \E x \in L : Word(kind, w) /\ s = w \o x}
Within(c, L) == Led(Closing[c], L) \cup Then(c, Led(Closing[c], L))
Behind(c, L) == Led(Closing[c], L) \cup Led("value_separator", Then(c, Led(Closing[c], L)))

\* What begins with the same token is the same when what follows is.
LEMMA SameHead ==
  ASSUME NEW t \in Types, NEW u \in Types, NEW a \in Seq(Types), NEW b \in Seq(Types), <<t>> \o a = <<u>> \o b
  PROVE  t = u /\ a = b
  BY SameFirst

\* After its first token, of a token and then L there is L.
LEMMA LedIs ==
  ASSUME NEW L \in SUBSET Seq(Types), NEW t \in Types
  PROVE  /\ Led(t, L) \in SUBSET Seq(Types) /\ <<>> \notin Led(t, L)
         /\ \A u \in Types, e \in Seq(Types) : <<u>> \o e \in Led(t, L) <=> u = t /\ e \in L
         /\ L # {} => Led(t, L) # {}
  <1>1. \A x \in Seq(Types) : <<t>> \o x \in Seq(Types) /\ <<t>> \o x # <<>>
    OBVIOUS
  <1>2. \A u \in Types, e \in Seq(Types) : <<u>> \o e \in Seq(Types)
    OBVIOUS
  <1>4. \A x \in L : x \in Seq(Types)
    OBVIOUS
  <1>5. \A s : s \in Led(t, L) <=> s \in Seq(Types) /\ \E x \in L : s = <<t>> \o x
    BY Zenon DEF Led
  <1>6. <<>> \notin Led(t, L)
    BY <1>1, <1>4, <1>5, Zenon
  <1>7. \A u \in Types, e \in Seq(Types) : <<u>> \o e \in Led(t, L) <=> u = t /\ e \in L
    <2> SUFFICES ASSUME NEW u \in Types, NEW e \in Seq(Types)
                 PROVE  <<u>> \o e \in Led(t, L) <=> u = t /\ e \in L
      OBVIOUS
    <2>1. \A x \in L : <<u>> \o e = <<t>> \o x <=> u = t /\ e = x
      <3> TAKE x \in L
      <3>1. x \in Seq(Types)
        OBVIOUS
      <3> QED
        BY <3>1, SameFirst
    <2>2. <<u>> \o e \in Led(t, L) <=> \E x \in L : <<u>> \o e = <<t>> \o x
      BY <1>2, <1>5, Zenon
    <2> QED
      BY <2>1, <2>2, Zenon
  <1>8. L # {} => Led(t, L) # {}
    BY <1>1, <1>4, <1>5
  <1> QED
    BY <1>5, <1>6, <1>7, <1>8

\* Membership in Then.
LEMMA ThenIs ==
  ASSUME NEW L \in SUBSET Seq(Types), NEW kind
  PROVE  /\ Then(kind, L) \in SUBSET Seq(Types)
         /\ \A w \in Seq(Types), x \in L : Word(kind, w) => w \o x \in Then(kind, L)
         /\ \A s \in Then(kind, L) : \E w \in Seq(Types) : \E x \in L : Word(kind, w) /\ s = w \o x
  <1>1. \A w \in Seq(Types), x \in L : w \o x \in Seq(Types)
    OBVIOUS
  <1>2. \A s : s \in Then(kind, L) <=>
          s \in Seq(Types) /\ \E w \in Seq(Types) : \E x \in L : Word(kind, w) /\ s = w \o x
    BY Zenon DEF Then
  <1> QED
    BY <1>1, <1>2, Zenon

\* How a token followed by something goes.
LEMMA Assoc ==
  ASSUME NEW t \in Types, NEW a \in Seq(Types), NEW b \in Seq(Types)
  PROVE  (<<t>> \o a) \o b = <<t>> \o (a \o b) /\ a \o b \in Seq(Types) /\ <<t>> \o a \in Seq(Types)
  <1>1. <<t>> \in Seq(Types)
    OBVIOUS
  <1> QED
    BY <1>1, ConcatAssociative

\* After its first token, of a member and then L there is the colon, a value, and L.
LEMMA ThenMember ==
  ASSUME NEW L \in SUBSET Seq(Types), NEW u \in Types, NEW e \in Seq(Types)
  PROVE  <<u>> \o e \in Then("member", L) <=> u = "string" /\ e \in Led("name_separator", Then("value", L))
  <1> USE TypesNamed
  <1>1. Then("value", L) \in SUBSET Seq(Types)
    BY ThenIs
  <1>2. ASSUME <<u>> \o e \in Then("member", L)
        PROVE  u = "string" /\ e \in Led("name_separator", Then("value", L))
    <2>1. PICK w \in Seq(Types), x \in L : Word("member", w) /\ <<u>> \o e = w \o x
      BY <1>2, Zenon DEF Then
    <2>2. PICK v \in Seq(Types) : Word("value", v) /\ w = <<"string">> \o (<<"name_separator">> \o v)
      BY <2>1, MemberForms, Zenon
    <2>3. /\ v \o x \in Seq(Types) /\ <<"name_separator">> \o (v \o x) \in Seq(Types)
          /\ w \o x = <<"string">> \o (<<"name_separator">> \o (v \o x))
      <3>1. v \o x \in Seq(Types) /\ <<"name_separator">> \o v \in Seq(Types)
            /\ (<<"name_separator">> \o v) \o x = <<"name_separator">> \o (v \o x)
        BY Assoc
      <3>2. (<<"string">> \o (<<"name_separator">> \o v)) \o x = <<"string">> \o ((<<"name_separator">> \o v) \o x)
        BY <3>1, Assoc
      <3>3. <<"name_separator">> \o (v \o x) \in Seq(Types)
        BY <3>1, Assoc
      <3> QED
        BY <2>2, <3>1, <3>2, <3>3
    <2>4. u = "string" /\ e = <<"name_separator">> \o (v \o x)
      <3>1. PICK r \in Seq(Types) : r = <<"name_separator">> \o (v \o x)
        BY <2>3
      <3>2. <<u>> \o e = <<"string">> \o r
        BY <2>1, <2>3, <3>1
      <3>4. u = "string" /\ e = r
        BY <3>2, SameHead
      <3> QED
        BY <3>1, <3>4
    <2>5. v \o x \in Then("value", L)
      BY <2>2, ThenIs, Zenon
    <2>6. <<"name_separator">> \o (v \o x) \in Led("name_separator", Then("value", L))
      BY <1>1, <2>3, <2>5, LedIs
    <2> QED
      BY <2>4, <2>6
  <1>3. ASSUME u = "string", e \in Led("name_separator", Then("value", L))
        PROVE  <<u>> \o e \in Then("member", L)
    <2>1. PICK y \in Then("value", L) : e = <<"name_separator">> \o y
      BY <1>3 DEF Led
    <2>2. PICK v \in Seq(Types), x \in L : Word("value", v) /\ y = v \o x
      BY <2>1, Zenon DEF Then
    <2>3. PICK w : w = <<"string">> \o (<<"name_separator">> \o v)
      OBVIOUS
    <2>4. Word("member", w)
      BY <2>2, <2>3, MemberForms, Zenon
    <2>5. w \in Seq(Types)
      BY <2>4, Zenon DEF Word
    <2>6. w \o x = <<u>> \o e
      <3>1. <<"name_separator">> \o v \in Seq(Types)
            /\ (<<"name_separator">> \o v) \o x = <<"name_separator">> \o (v \o x)
        BY Assoc
      <3>2. (<<"string">> \o (<<"name_separator">> \o v)) \o x = <<"string">> \o ((<<"name_separator">> \o v) \o x)
        BY <3>1, Assoc
      <3> QED
        BY <1>3, <2>1, <2>2, <2>3, <3>1, <3>2
    <2>7. w \o x \in Then("member", L)
      BY <2>4, <2>5, ThenIs, Zenon
    <2> QED
      BY <2>6, <2>7
  <1> QED
    BY <1>2, <1>3

\* What stands in a container and the rest of the text, is an item and what comes behind it.
LEMMA ThenList ==
  ASSUME NEW L \in SUBSET Seq(Types), NEW c \in Structures
  PROVE  Then(c, Led(Closing[c], L)) = Then(Item[c], Behind(c, L))
  <1> USE TypesNamed
  <1> DEFINE C == Led(Closing[c], L)
             K == Then(c, C)
             B == Behind(c, L)
  <1>1. C \in SUBSET Seq(Types)
    BY LedIs
  <1>2. K \in SUBSET Seq(Types)
    BY <1>1, ThenIs
  <1>3. Led("value_separator", K) \in SUBSET Seq(Types)
    BY <1>2, LedIs
  <1>4. B = C \cup Led("value_separator", K) /\ B \in SUBSET Seq(Types)
    BY <1>1, <1>3 DEF Behind
  <1>5. ASSUME NEW s \in K
        PROVE  s \in Then(Item[c], B)
    <2> HIDE DEF C, B
    <2>1. PICK w \in Seq(Types), x \in C : Word(c, w) /\ s = w \o x
      BY <1>5, Zenon DEF Then
    <2>2. x \in Seq(Types) /\ x \in B
      BY <1>1, <1>4
    <2>3. CASE Word(Item[c], w)
      BY <1>4, <2>1, <2>2, <2>3, ThenIs, Zenon
    <2>4. ASSUME NEW v \in Seq(Types), NEW z \in Seq(Types), Word(Item[c], v), Word(c, z),
                 w = v \o (<<"value_separator">> \o z)
          PROVE  s \in Then(Item[c], B)
      <3>1. z \o x \in K
        BY <1>1, <2>4, ThenIs, Zenon
      <3>2. /\ z \o x \in Seq(Types) /\ <<"value_separator">> \o z \in Seq(Types)
            /\ (<<"value_separator">> \o z) \o x = <<"value_separator">> \o (z \o x)
        BY <2>2, Assoc
      <3>3. <<"value_separator">> \o (z \o x) \in Led("value_separator", K)
        BY <1>2, <3>1, <3>2, LedIs
      <3>4. s = v \o (<<"value_separator">> \o (z \o x))
        <4>1. (v \o (<<"value_separator">> \o z)) \o x = v \o ((<<"value_separator">> \o z) \o x)
          BY <2>2, <3>2, ConcatAssociative
        <4> QED
          BY <2>1, <2>4, <3>2, <4>1
      <3>5. <<"value_separator">> \o (z \o x) \in B
        BY <1>4, <3>3
      <3>6. v \o (<<"value_separator">> \o (z \o x)) \in Then(Item[c], B)
        BY <1>4, <2>4, <3>5, ThenIs, Zenon
      <3> QED
        BY <3>4, <3>6
    <2> QED
      BY <2>1, <2>3, <2>4, ListForms, Zenon
  <1>6. ASSUME NEW s \in Then(Item[c], B)
        PROVE  s \in K
    <2> HIDE DEF C, B
    <2>1. PICK v \in Seq(Types), y \in B : Word(Item[c], v) /\ s = v \o y
      BY <1>6, Zenon DEF Then
    <2>2. CASE y \in C
      <3>1. Word(c, v)
        BY <2>1, ListForms, Zenon
      <3> QED
        BY <1>1, <2>1, <2>2, <3>1, ThenIs, Zenon
    <2>3. CASE y \in Led("value_separator", K)
      <3>1. PICK q \in K : y = <<"value_separator">> \o q
        BY <2>3 DEF Led
      <3>2. PICK z \in Seq(Types), x \in C : Word(c, z) /\ q = z \o x
        BY <3>1, Zenon DEF Then
      <3>3. x \in Seq(Types)
        BY <1>1
      <3>4. PICK w : w = v \o (<<"value_separator">> \o z)
        OBVIOUS
      <3>5. Word(c, w)
        BY <2>1, <3>2, <3>4, ListForms, Zenon
      <3>6. w \in Seq(Types)
        BY <3>5, Zenon DEF Word
      <3>7. w \o x = s
        <4>1. /\ <<"value_separator">> \o z \in Seq(Types)
              /\ (<<"value_separator">> \o z) \o x = <<"value_separator">> \o (z \o x)
          BY <3>3, Assoc
        <4>2. (v \o (<<"value_separator">> \o z)) \o x = v \o ((<<"value_separator">> \o z) \o x)
          BY <3>3, <4>1, ConcatAssociative
        <4> QED
          BY <2>1, <3>1, <3>2, <3>4, <4>1, <4>2
      <3>8. w \o x \in K
        BY <1>1, <3>5, <3>6, ThenIs, Zenon
      <3> QED
        BY <3>7, <3>8
    <2> QED
      BY <1>4, <2>1, <2>2, <2>3
  <1> HIDE DEF K, B
  <1>7. K = Then(Item[c], B)
    BY <1>5, <1>6
  <1> QED
    BY <1>7 DEF K, B

\* Brackets around something, and then x.
LEMMA WrappedThen ==
  ASSUME NEW t \in Types, NEW u \in Types, NEW z \in Seq(Types), NEW x \in Seq(Types)
  PROVE  /\ <<u>> \o x \in Seq(Types) /\ z \o (<<u>> \o x) \in Seq(Types)
         /\ (<<t>> \o (z \o <<u>>)) \o x = <<t>> \o (z \o (<<u>> \o x))
  <1>1. <<u>> \in Seq(Types) /\ z \o <<u>> \in Seq(Types) /\ <<u>> \o x \in Seq(Types)
        /\ z \o (<<u>> \o x) \in Seq(Types)
    OBVIOUS
  <1>2. (<<t>> \o (z \o <<u>>)) \o x = <<t>> \o ((z \o <<u>>) \o x)
    BY <1>1, Assoc
  <1>3. (z \o <<u>>) \o x = z \o (<<u>> \o x)
    BY <1>1, ConcatAssociative
  <1> QED
    BY <1>1, <1>2, <1>3

\* w is a token, others, and a token.
IsWrapped(w, t, z, y) == t \in Types /\ y \in Types /\ z \in Seq(Types) /\ w = <<t>> \o (z \o <<y>>)

Unwraps(w, t, z, y) == \A x \in Seq(Types) : w \o x = <<t>> \o (z \o (<<y>> \o x))

\* What follows it follows its last token.
LEMMA WrappedEqual ==
  ASSUME NEW w, NEW t, NEW z, NEW y, IsWrapped(w, t, z, y)
  PROVE  Unwraps(w, t, z, y)
  <1>1. t \in Types /\ y \in Types /\ z \in Seq(Types) /\ w = <<t>> \o (z \o <<y>>)
    BY Zenon DEF IsWrapped
  <1>2. \A x \in Seq(Types) : (<<t>> \o (z \o <<y>>)) \o x = <<t>> \o (z \o (<<y>> \o x))
    BY <1>1, WrappedThen
  <1> QED
    BY <1>1, <1>2, Zenon DEF Unwraps

\* After its first token, of a value and then L there is L, or what follows an opening bracket.
LEMMA ThenValue ==
  ASSUME NEW L \in SUBSET Seq(Types), NEW u \in Types, NEW e \in Seq(Types)
  PROVE  <<u>> \o e \in Then("value", L) <=>
           \/ u \in {"scalar", "string"} /\ e \in L
           \/ \E c \in Structures : u = Opening[c] /\ e \in Within(c, L)
  <1>0. \A t \in Types, r \in Seq(Types) : <<u>> \o e = <<t>> \o r => u = t /\ e = r
    BY SameHead
  <1>1. ASSUME <<u>> \o e \in Then("value", L)
        PROVE  \/ u \in {"scalar", "string"} /\ e \in L
               \/ \E c \in Structures : u = Opening[c] /\ e \in Within(c, L)
    <2>1. PICK w \in Seq(Types), x \in L : Word("value", w) /\ <<u>> \o e = w \o x
      BY <1>1, Zenon DEF Then
    <2>2. x \in Seq(Types)
      OBVIOUS
    <2>3. ASSUME NEW t \in {"scalar", "string"}, w = <<t>>
          PROVE  u = t /\ e = x
      <3>1. t \in Types
        BY TypesNamed
      <3>2. <<u>> \o e = <<t>> \o x
        BY <2>1, <2>3
      <3> QED
        BY <2>2, <3>1, <3>2, SameHead
    <2>4. ASSUME NEW c \in Structures, NEW z \in Seq(Types), Held(c, z),
                 w = <<Opening[c]>> \o (z \o <<Closing[c]>>)
          PROVE  u = Opening[c] /\ e \in Within(c, L)
      <3>1. PICK t \in Types, y \in Types : t = Opening[c] /\ y = Closing[c]
        BY TypesNamed
      <3>2. /\ <<y>> \o x \in Seq(Types) /\ z \o (<<y>> \o x) \in Seq(Types)
            /\ w \o x = <<t>> \o (z \o (<<y>> \o x))
        <4>1. <<y>> \o x \in Seq(Types)
          BY <2>2
        <4>2. z \o (<<y>> \o x) \in Seq(Types)
          BY <4>1
        <4>3. IsWrapped(w, t, z, y)
          BY <2>4, <3>1, Zenon DEF IsWrapped
        <4>4. w \o x = <<t>> \o (z \o (<<y>> \o x))
          <5>1. Unwraps(w, t, z, y)
            BY <4>3, WrappedEqual, Zenon
          <5> QED
            BY <2>2, <5>1, Zenon DEF Unwraps
        <4> QED
          BY <4>1, <4>2, <4>4, Zenon
      <3>3. <<u>> \o e = <<t>> \o (z \o (<<y>> \o x))
        BY <2>1, <2>4, <3>1, <3>2
      <3>4. u = t /\ e = z \o (<<y>> \o x)
        <4>1. PICK r \in Seq(Types) : r = z \o (<<y>> \o x)
          BY <3>2
        <4>2. <<u>> \o e = <<t>> \o r
          BY <3>3, <4>1
        <4>3. u = t /\ e = r
          BY <1>0, <4>2
        <4> QED
          BY <4>1, <4>3
      <3>5. Led(y, L) \in SUBSET Seq(Types) /\ <<y>> \o x \in Led(y, L)
        BY <2>2, LedIs
      <3>6. CASE z = <<>>
        <4>1. e = <<y>> \o x
          BY <3>2, <3>4, <3>6
        <4> QED
          BY <3>1, <3>4, <3>5, <4>1 DEF Within
      <3>7. CASE Word(c, z)
        <4>1. z \o (<<y>> \o x) \in Then(c, Led(y, L))
          BY <3>5, <3>7, ThenIs, Zenon
        <4> QED
          BY <3>1, <3>4, <4>1 DEF Within
      <3> QED
        BY <2>4, <3>6, <3>7, Zenon DEF Held
    <2>5. \/ w = <<"scalar">> \/ w = <<"string">>
          \/ \E c \in Structures : \E z \in Seq(Types) :
               Held(c, z) /\ w = <<Opening[c]>> \o (z \o <<Closing[c]>>)
      BY <2>1, ValueForms, Zenon
    <2> QED
      BY <2>3, <2>4, <2>5
  <1>2. ASSUME u \in {"scalar", "string"}, e \in L
        PROVE  <<u>> \o e \in Then("value", L)
    <2>1. <<u>> = <<"scalar">> \/ <<u>> = <<"string">>
      BY <1>2
    <2>2. <<u>> \in Seq(Types)
      OBVIOUS
    <2> QED
      BY <1>2, <2>1, <2>2, ValueForms, ThenIs, Zenon
  <1>3. ASSUME NEW c \in Structures, u = Opening[c], e \in Within(c, L)
        PROVE  <<u>> \o e \in Then("value", L)
    <2>1. PICK y \in Types : y = Closing[c]
      BY TypesNamed
    <2>2. Led(y, L) \in SUBSET Seq(Types)
      BY LedIs
    <2>3. PICK z \in Seq(Types), q \in Led(y, L) : Held(c, z) /\ e = z \o q
      <3>1. CASE e \in Led(y, L)
        <4>1. <<>> \in Seq(Types) /\ e = <<>> \o e
          OBVIOUS
        <4> QED
          BY <3>1, <4>1, Zenon DEF Held
      <3>2. CASE e \in Then(c, Led(y, L))
        BY <3>2, Zenon DEF Then, Held
      <3> QED
        BY <1>3, <2>1, <3>1, <3>2 DEF Within
    <2>4. PICK x \in L : q = <<y>> \o x
      BY Zenon DEF Led
    <2>10. x \in Seq(Types)
      OBVIOUS
    <2>5. (<<u>> \o (z \o <<y>>)) \o x = <<u>> \o (z \o (<<y>> \o x))
      BY <2>10, WrappedThen
    <2>6. PICK w : w = <<u>> \o (z \o <<y>>)
      OBVIOUS
    <2>7. Word("value", w)
      BY <1>3, <2>1, <2>3, <2>6, ValueForms, Zenon
    <2>8. w \in Seq(Types)
      BY <2>7, Zenon DEF Word
    <2>9. w \o x \in Then("value", L)
      BY <2>7, <2>8, ThenIs, Zenon
    <2> QED
      BY <2>3, <2>4, <2>5, <2>6, <2>9
  <1> QED
    BY <1>1, <1>2, <1>3, Zenon

\* Nothing is a value, or a member, and then L; there are values and members.
LEMMA ThenNothing ==
  ASSUME NEW L \in SUBSET Seq(Types), NEW kind \in {"value", "member"}
  PROVE  <<>> \notin Then(kind, L) /\ (L # {} => Then(kind, L) # {})
  <1> USE TypesNamed
  <1>1. <<>> \notin Then(kind, L)
    <2> SUFFICES ASSUME NEW w \in Seq(Types), NEW x \in L, Word(kind, w), <<>> = w \o x PROVE FALSE
      BY Zenon DEF Then
    <2>1. w # <<>>
      BY WordsLong
    <2>2. x \in Seq(Types)
      OBVIOUS
    <2>3. w \o x = <<>> => w = <<>>
      BY <2>2, ConcatEqualIffEmpty
    <2> QED
      BY <2>1, <2>3
  <1>2. \E w \in Seq(Types) : Word(kind, w)
    <2>1. <<"scalar">> \in Seq(Types) /\ Word("value", <<"scalar">>)
      <3>1. <<"scalar">> \in Seq(Types)
        OBVIOUS
      <3> QED
        BY <3>1, ValueForms, Zenon
    <2>2. PICK w : w = <<"string">> \o (<<"name_separator">> \o <<"scalar">>)
      OBVIOUS
    <2>3. Word("member", w)
      BY <2>1, <2>2, MemberForms, Zenon
    <2>4. w \in Seq(Types)
      BY <2>3, Zenon DEF Word
    <2> QED
      BY <2>1, <2>3, <2>4
  <1> QED
    BY <1>1, <1>2, ThenIs

\* The names that tokens have around an array and an object.
LEMMA Brackets ==
  /\ Opening["array"] = "begin_array" /\ Closing["array"] = "end_array" /\ Item["array"] = "value"
  /\ Opening["object"] = "begin_object" /\ Closing["object"] = "end_object" /\ Item["object"] = "member"
  /\ Structures = {"array", "object"}
  /\ \A c \in Structures : /\ Closing[c] \notin {"scalar", "string", "begin_array", "begin_object"}
                           /\ Closing[c] # "value_separator" /\ Item[c] \in {"value", "member"}
  BY DEF Opening, Closing, Item, Structures

\* Sets of token sequences that are not empty.
Languages == (SUBSET Seq(Types)) \ {{}}

\* What may come after a container is known when what may come after its opening is.
LEMMA BehindIs ==
  ASSUME NEW X \in Languages, NEW c \in Structures
  PROVE  /\ Behind(c, X) \in Languages /\ <<>> \notin Behind(c, X)
         /\ \A u \in Types, e \in Seq(Types) :
              <<u>> \o e \in Behind(c, X) <=>
                \/ u = Closing[c] /\ e \in X
                \/ u = "value_separator" /\ e \in Then(Item[c], Behind(c, X))
  <1> DEFINE y == Closing[c]
             C == Led(y, X)
             K == Then(c, C)
  <1>1. y \in Types /\ "value_separator" \in Types
    BY TypesNamed
  <1>2. X \in SUBSET Seq(Types) /\ X # {}
    BY DEF Languages
  <1> HIDE DEF y
  <1>3. /\ C \in SUBSET Seq(Types) /\ <<>> \notin C /\ C # {}
        /\ \A u \in Types, e \in Seq(Types) : <<u>> \o e \in C <=> u = y /\ e \in X
    BY <1>1, <1>2, LedIs
  <1> HIDE DEF C
  <1>4. K \in SUBSET Seq(Types)
    BY <1>3, ThenIs
  <1> HIDE DEF K
  <1>5. /\ Led("value_separator", K) \in SUBSET Seq(Types) /\ <<>> \notin Led("value_separator", K)
        /\ \A u \in Types, e \in Seq(Types) :
             <<u>> \o e \in Led("value_separator", K) <=> u = "value_separator" /\ e \in K
    BY <1>1, <1>4, LedIs
  <1>6. Behind(c, X) = C \cup Led("value_separator", K)
    BY DEF Behind, C, K, y
  <1>7. K = Then(Item[c], Behind(c, X))
    BY <1>2, ThenList DEF C, K, y
  <1>8. Behind(c, X) \in Languages /\ <<>> \notin Behind(c, X)
    BY <1>3, <1>5, <1>6 DEF Languages
  <1>9. ASSUME NEW u \in Types, NEW e \in Seq(Types)
        PROVE  <<u>> \o e \in Behind(c, X) <=> \/ u = y /\ e \in X
                                               \/ u = "value_separator" /\ e \in K
    BY <1>3, <1>5, <1>6
  <1> QED
    BY <1>7, <1>8, <1>9, Zenon DEF y

\* After its first token, of an item and then L there is nothing that begins with a bracket's end.
LEMMA WithinIs ==
  ASSUME NEW X \in Languages, NEW c \in Structures
  PROVE  /\ Within(c, X) \in Languages /\ <<>> \notin Within(c, X)
         /\ \A u \in Types, e \in Seq(Types) :
              <<u>> \o e \in Within(c, X) <=>
                \/ u = Closing[c] /\ e \in X
                \/ u # Closing[c] /\ <<u>> \o e \in Then(Item[c], Behind(c, X))
  <1> DEFINE y == Closing[c]
             C == Led(y, X)
             B == Behind(c, X)
             K == Then(Item[c], B)
  <1>1. y \in Types
    BY TypesNamed
  <1>2. X \in SUBSET Seq(Types) /\ X # {}
    BY DEF Languages
  <1>3. Within(c, X) = C \cup K
    BY <1>2, ThenList DEF Within
  <1>4. B \in SUBSET Seq(Types)
    BY BehindIs DEF Languages
  <1> HIDE DEF y, B
  <1>5. /\ C \in SUBSET Seq(Types) /\ <<>> \notin C /\ C # {}
        /\ \A u \in Types, e \in Seq(Types) : <<u>> \o e \in C <=> u = y /\ e \in X
    BY <1>1, <1>2, LedIs
  <1>6. K \in SUBSET Seq(Types) /\ <<>> \notin K
    <2>1. Item[c] \in {"value", "member"}
      BY Brackets
    <2> QED
      BY <1>4, <2>1, ThenIs, ThenNothing
  <1>7. ASSUME NEW e \in Seq(Types), <<y>> \o e \in K
        PROVE  FALSE
    <2>1. CASE Item[c] = "value"
      <3>1. \/ y \in {"scalar", "string"}
            \/ \E d \in Structures : y = Opening[d]
        BY <1>1, <1>4, <1>7, <2>1, ThenValue
      <3> QED
        BY <3>1, Brackets DEF y
    <2>2. CASE Item[c] = "member"
      <3>1. y = "string"
        BY <1>1, <1>4, <1>7, <2>2, ThenMember
      <3> QED
        BY <3>1, Brackets DEF y
    <2> QED
      BY <2>1, <2>2, Brackets
  <1> HIDE DEF C, K
  <1>8. Within(c, X) \in Languages /\ <<>> \notin Within(c, X)
    BY <1>3, <1>5, <1>6 DEF Languages
  <1>9. ASSUME NEW u \in Types, NEW e \in Seq(Types)
        PROVE  <<u>> \o e \in Within(c, X) <=> \/ u = y /\ e \in X
                                               \/ u # y /\ <<u>> \o e \in K
    BY <1>3, <1>5, <1>7
  <1> QED
    BY <1>8, <1>9, Zenon DEF y, K, B

-----------------------------------------------------------------------------
(* What may come in a state of the parser.                                  *)

\* L is what may come after a value in the containers that are open.
Chain(A, open) == /\ A \in [0..Len(open) -> Languages]
                  /\ A[0] = {<<>>}
                  /\ \A i \in 1..Len(open) : A[i] = Behind(open[i], A[i - 1])
Expects(open, L) == \E A : Chain(A, open) /\ L = A[Len(open)]

\* In no container there comes nothing.
LEMMA ExpectsNothing ==
  /\ Expects(<<>>, {<<>>})
  /\ \A L : Expects(<<>>, L) => L = {<<>>}
  <1>1. {<<>>} \in Languages
    <2>1. <<>> \in Seq(Types)
      OBVIOUS
    <2> QED
      BY <2>1 DEF Languages
  <1>2. Len(<<>>) = 0
    OBVIOUS
  <1>3. Chain([i \in 0..0 |-> {<<>>}], <<>>)
    BY <1>1, <1>2 DEF Chain
  <1> QED
    BY <1>2, <1>3 DEF Expects, Chain

\* What is expected is a language.
LEMMA ExpectsLanguage ==
  ASSUME NEW open \in Seq(Structures), NEW L, Expects(open, L)
  PROVE  L \in Languages /\ (open # <<>> => <<>> \notin L)
  <1>1. PICK A : Chain(A, open) /\ L = A[Len(open)]
    BY DEF Expects
  <1>2. PICK n \in Nat : n = Len(open)
    OBVIOUS
  <1>3. L \in Languages
    BY <1>1, <1>2 DEF Chain
  <1>4. ASSUME open # <<>>
        PROVE  <<>> \notin L
    <2>1. n \in 1..n
      BY <1>2, <1>4
    <2>2. A[n - 1] \in Languages /\ open[n] \in Structures
      BY <1>1, <1>2, <2>1 DEF Chain
    <2>3. L = Behind(open[n], A[n - 1])
      BY <1>1, <1>2, <2>1 DEF Chain
    <2> QED
      BY <2>2, <2>3, BehindIs
  <1> QED
    BY <1>3, <1>4

\* Another container is opened.
LEMMA ExpectsMore ==
  ASSUME NEW open \in Seq(Structures), NEW L, Expects(open, L), NEW c \in Structures
  PROVE  Expects(Append(open, c), Behind(c, L))
  <1>1. PICK A : Chain(A, open) /\ L = A[Len(open)]
    BY DEF Expects
  <1>2. PICK n \in Nat : n = Len(open)
    OBVIOUS
  <1>3. /\ A \in [0..n -> Languages] /\ A[0] = {<<>>} /\ L = A[n]
        /\ \A i \in 1..n : A[i] = Behind(open[i], A[i - 1])
    BY <1>1, <1>2 DEF Chain
  <1>4. Behind(c, L) \in Languages
    BY <1>3, BehindIs
  <1> DEFINE B == [i \in 0..(n + 1) |-> IF i = n + 1 THEN Behind(c, L) ELSE A[i]]
  <1>5. /\ B \in [0..(n + 1) -> Languages] /\ B[n + 1] = Behind(c, L)
        /\ \A i \in 0..n : B[i] = A[i]
    BY <1>3, <1>4
  <1> HIDE DEF B
  <1>6. PICK more : more = Append(open, c)
    OBVIOUS
  <1>7. Len(more) = n + 1 /\ more[n + 1] = c /\ \A i \in 1..n : more[i] = open[i]
    BY <1>2, <1>6
  <1>8. \A i \in 1..(n + 1) : B[i] = Behind(more[i], B[i - 1])
    <2> TAKE i \in 1..(n + 1)
    <2>1. CASE i = n + 1
      <3>1. i - 1 = n /\ n \in 0..n
        BY <2>1
      <3>2. B[i - 1] = L
        BY <1>3, <1>5, <3>1
      <3> QED
        BY <1>5, <1>7, <2>1, <3>2, Zenon
    <2>2. CASE i # n + 1
      <3>1. i \in 1..n /\ i \in 0..n /\ i - 1 \in 0..n
        BY <2>2
      <3>2. B[i] = A[i] /\ B[i - 1] = A[i - 1] /\ more[i] = open[i] /\ A[i] = Behind(open[i], A[i - 1])
        BY <1>3, <1>5, <1>7, <3>1, Zenon
      <3> QED
        BY <3>2, Zenon
    <2> QED
      BY <2>1, <2>2
  <1>9. B[0] = {<<>>}
    BY <1>3, <1>5
  <1>10. Chain(B, more)
    BY <1>5, <1>7, <1>8, <1>9 DEF Chain
  <1> QED
    BY <1>5, <1>6, <1>7, <1>10 DEF Expects

\* The innermost container is closed.
LEMMA ExpectsLess ==
  ASSUME NEW open \in Seq(Structures), open # <<>>, NEW L, Expects(open, L)
  PROVE  /\ Front(open) \in Seq(Structures) /\ Last(open) \in Structures
         /\ \E M : Expects(Front(open), M) /\ L = Behind(Last(open), M)
  <1>1. PICK A : Chain(A, open) /\ L = A[Len(open)]
    BY DEF Expects
  <1>2. PICK n \in Nat : n = Len(open)
    OBVIOUS
  <1>3. /\ A \in [0..n -> Languages] /\ A[0] = {<<>>} /\ L = A[n] /\ n \in 1..n
        /\ \A i \in 1..n : A[i] = Behind(open[i], A[i - 1])
    BY <1>1, <1>2 DEF Chain
  <1>4. PICK less : less = Front(open)
    OBVIOUS
  <1>5. less \in Seq(Structures) /\ Len(less) = n - 1 /\ \A i \in 1..(n - 1) : less[i] = open[i]
    BY <1>2, <1>3, <1>4 DEF Front
  <1>6. Last(open) = open[n] /\ open[n] \in Structures
    BY <1>2, <1>3 DEF Last
  <1> DEFINE B == [i \in 0..(n - 1) |-> A[i]]
  <1>7. /\ B \in [0..(n - 1) -> Languages] /\ \A i \in 0..(n - 1) : B[i] = A[i]
    BY <1>3
  <1> HIDE DEF B
  <1>8. \A i \in 1..(n - 1) : B[i] = Behind(less[i], B[i - 1])
    <2> TAKE i \in 1..(n - 1)
    <2>1. i \in 0..(n - 1) /\ i - 1 \in 0..(n - 1) /\ i \in 1..n
      OBVIOUS
    <2>2. B[i] = A[i] /\ B[i - 1] = A[i - 1] /\ less[i] = open[i] /\ A[i] = Behind(open[i], A[i - 1])
      BY <1>3, <1>5, <1>7, <2>1, Zenon
    <2> QED
      BY <2>2, Zenon
  <1>9. B[0] = {<<>>} /\ B[n - 1] = A[n - 1]
    BY <1>3, <1>7
  <1>10. Chain(B, less)
    BY <1>5, <1>7, <1>8, <1>9 DEF Chain
  <1>11. Expects(less, A[n - 1])
    BY <1>5, <1>9, <1>10 DEF Expects
  <1>12. L = Behind(Last(open), A[n - 1])
    BY <1>3, <1>6
  <1> QED
    BY <1>4, <1>5, <1>6, <1>11, <1>12, Zenon

\* What may come in a place of the parser, when L may come after the containers that are open.
Rest(place, L) ==
  CASE place = "value" -> Then("value", L)
    [] place = "first_key" -> Within("object", L)
    [] place = "first_element" -> Within("array", L)
    [] place = "first_colon" -> Led("name_separator", Then("value", Behind("object", L)))
    [] place = "colon" -> Led("name_separator", Then("value", L))
    [] place = "key" -> Then("member", L)
    [] place = "after" -> L
    [] place = "end" -> L
    [] place = "failed" -> {}

\* The rest at each place.
LEMMA RestIs ==
  ASSUME NEW L
  PROVE  /\ Rest("value", L) = Then("value", L)
         /\ Rest("first_key", L) = Within("object", L)
         /\ Rest("first_element", L) = Within("array", L)
         /\ Rest("first_colon", L) = Led("name_separator", Then("value", Behind("object", L)))
         /\ Rest("colon", L) = Led("name_separator", Then("value", L))
         /\ Rest("key", L) = Then("member", L)
         /\ Rest("after", L) = L /\ Rest("end", L) = L /\ Rest("failed", L) = {}
  BY DEF Rest

\* After a token the parser is in a place where what may come is what might come after it.
Onward(place, L, u, next, M) ==
  \A e \in Seq(Types) : <<u>> \o e \in Rest(place, L) <=> e \in Rest(next, M)

\* Where a value begins.
LEMMA OnValue ==
  ASSUME NEW L \in Languages, NEW u \in Types
  PROVE  /\ u \in {"scalar", "string"} => Onward("value", L, u, "after", L) /\ Onward("value", L, u, "end", L)
         /\ u = "begin_array" => Onward("value", L, u, "first_element", L)
         /\ u = "begin_object" => Onward("value", L, u, "first_key", L)
         /\ u \notin {"begin_object", "begin_array", "scalar", "string"} => Onward("value", L, u, "failed", L)
  <1>1. L \in SUBSET Seq(Types)
    BY DEF Languages
  <1>2. \A e \in Seq(Types) : <<u>> \o e \in Then("value", L) <=>
          \/ u \in {"scalar", "string"} /\ e \in L
          \/ \E c \in Structures : u = Opening[c] /\ e \in Within(c, L)
    BY <1>1, ThenValue
  <1>3. \A e \in Seq(Types) : <<u>> \o e \in Then("value", L) <=>
          \/ u \in {"scalar", "string"} /\ e \in L
          \/ u = "begin_array" /\ e \in Within("array", L)
          \/ u = "begin_object" /\ e \in Within("object", L)
    BY <1>2, Brackets
  <1> QED
    BY <1>3, RestIs DEF Onward

\* After the opening of an array.
LEMMA OnFirstElement ==
  ASSUME NEW L \in Languages, NEW u \in Types
  PROVE  /\ u = "end_array" => /\ Onward("first_element", L, u, "after", L)
                               /\ Onward("first_element", L, u, "end", L)
         /\ u # "end_array" => \A next, M : Onward("value", Behind("array", L), u, next, M)
                                              => Onward("first_element", L, u, next, M)
  <1>1. "array" \in Structures
    BY Brackets
  <1>2. \A e \in Seq(Types) : <<u>> \o e \in Within("array", L) <=>
          \/ u = "end_array" /\ e \in L
          \/ u # "end_array" /\ <<u>> \o e \in Then("value", Behind("array", L))
    BY <1>1, WithinIs, Brackets
  <1>3. u = "end_array" => \A e \in Seq(Types) : <<u>> \o e \in Within("array", L) <=> e \in L
    BY <1>2, Zenon
  <1>4. u # "end_array" => \A e \in Seq(Types) : <<u>> \o e \in Within("array", L)
                                                   <=> <<u>> \o e \in Then("value", Behind("array", L))
    BY <1>2, Zenon
  <1>5. /\ Rest("first_element", L) = Within("array", L) /\ Rest("after", L) = L /\ Rest("end", L) = L
        /\ Rest("value", Behind("array", L)) = Then("value", Behind("array", L))
    BY RestIs
  <1>6. u = "end_array" => /\ Onward("first_element", L, u, "after", L)
                           /\ Onward("first_element", L, u, "end", L)
    BY <1>3, <1>5 DEF Onward
  <1>7. ASSUME u # "end_array", NEW next, NEW M, Onward("value", Behind("array", L), u, next, M)
        PROVE  Onward("first_element", L, u, next, M)
    BY <1>4, <1>5, <1>7 DEF Onward
  <1> QED
    BY <1>6, <1>7

\* Where the key of a member is.
LEMMA OnKey ==
  ASSUME NEW L \in Languages, NEW u \in Types
  PROVE  /\ u = "string" => Onward("key", L, u, "colon", L)
         /\ u # "string" => Onward("key", L, u, "failed", L)
  <1>1. L \in SUBSET Seq(Types)
    BY DEF Languages
  <1>2. \A e \in Seq(Types) : <<u>> \o e \in Then("member", L)
                                <=> u = "string" /\ e \in Led("name_separator", Then("value", L))
    BY <1>1, ThenMember
  <1> QED
    BY <1>2, RestIs DEF Onward

\* After the opening of an object.
LEMMA OnFirstKey ==
  ASSUME NEW L \in Languages, NEW u \in Types
  PROVE  /\ u = "end_object" => Onward("first_key", L, u, "after", L) /\ Onward("first_key", L, u, "end", L)
         /\ u = "string" => Onward("first_key", L, u, "first_colon", L)
         /\ u \notin {"end_object", "string"} => Onward("first_key", L, u, "failed", L)
  <1>1. "object" \in Structures
    BY Brackets
  <1>2. Behind("object", L) \in Languages
    BY <1>1, BehindIs
  <1>3. Behind("object", L) \in SUBSET Seq(Types)
    BY <1>2 DEF Languages
  <1>4. \A e \in Seq(Types) : <<u>> \o e \in Within("object", L) <=>
          \/ u = "end_object" /\ e \in L
          \/ u # "end_object" /\ <<u>> \o e \in Then("member", Behind("object", L))
    BY <1>1, WithinIs, Brackets
  <1>5. \A e \in Seq(Types) : <<u>> \o e \in Then("member", Behind("object", L))
          <=> u = "string" /\ e \in Led("name_separator", Then("value", Behind("object", L)))
    BY <1>3, ThenMember
  <1> QED
    BY <1>4, <1>5, RestIs DEF Onward

\* Where a colon is.
LEMMA OnColon ==
  ASSUME NEW L \in Languages, NEW u \in Types
  PROVE  /\ u = "name_separator" => /\ Onward("colon", L, u, "value", L)
                                    /\ Onward("first_colon", L, u, "value", Behind("object", L))
         /\ u # "name_separator" => /\ Onward("colon", L, u, "failed", L)
                                    /\ Onward("first_colon", L, u, "failed", L)
  <1>1. "object" \in Structures
    BY Brackets
  <1>2. L \in SUBSET Seq(Types) /\ Behind("object", L) \in SUBSET Seq(Types)
    BY <1>1, BehindIs DEF Languages
  <1>3. Then("value", L) \in SUBSET Seq(Types) /\ Then("value", Behind("object", L)) \in SUBSET Seq(Types)
    BY <1>2, ThenIs
  <1>4. \A e \in Seq(Types) :
          /\ <<u>> \o e \in Led("name_separator", Then("value", L))
               <=> u = "name_separator" /\ e \in Then("value", L)
          /\ <<u>> \o e \in Led("name_separator", Then("value", Behind("object", L)))
               <=> u = "name_separator" /\ e \in Then("value", Behind("object", L))
    BY <1>3, LedIs, TypesNamed
  <1> QED
    BY <1>4, RestIs DEF Onward

\* After a value in a container.
LEMMA OnAfter ==
  ASSUME NEW M \in Languages, NEW c \in Structures, NEW L, L = Behind(c, M), NEW u \in Types
  PROVE  /\ u = Closing[c] => Onward("after", L, u, "after", M) /\ Onward("after", L, u, "end", M)
         /\ u = "value_separator" => Onward("after", L, u, IF c = "array" THEN "value" ELSE "key", L)
         /\ u \notin {Closing[c], "value_separator"} => Onward("after", L, u, "failed", L)
  <1>1. \A e \in Seq(Types) : <<u>> \o e \in L <=>
          \/ u = Closing[c] /\ e \in M
          \/ u = "value_separator" /\ e \in Then(Item[c], L)
    BY BehindIs
  <1>2. Closing[c] # "value_separator"
    BY Brackets
  <1>3. c = "array" => Item[c] = "value"
    BY Brackets
  <1>4. c # "array" => Item[c] = "member"
    BY Brackets
  <1>5. u = Closing[c] => \A e \in Seq(Types) : <<u>> \o e \in L <=> e \in M
    BY <1>1, <1>2, Zenon
  <1>6. u = "value_separator" => \A e \in Seq(Types) : <<u>> \o e \in L <=> e \in Then(Item[c], L)
    BY <1>1, <1>2, Zenon
  <1>7. u \notin {Closing[c], "value_separator"} => \A e \in Seq(Types) : <<u>> \o e \notin L
    BY <1>1, Zenon
  <1>8. Then(Item[c], L) = Rest(IF c = "array" THEN "value" ELSE "key", L)
    BY <1>3, <1>4, RestIs
  <1>9. /\ Rest("after", L) = L /\ Rest("after", M) = M /\ Rest("end", M) = M /\ Rest("failed", L) = {}
    BY RestIs
  <1>10. u = Closing[c] => Onward("after", L, u, "after", M) /\ Onward("after", L, u, "end", M)
    BY <1>5, <1>9, Zenon DEF Onward
  <1>11. u = "value_separator" => Onward("after", L, u, IF c = "array" THEN "value" ELSE "key", L)
    BY <1>6, <1>8, <1>9, Zenon DEF Onward
  <1>12. u \notin {Closing[c], "value_separator"} => Onward("after", L, u, "failed", L)
    BY <1>7, <1>9, Zenon DEF Onward
  <1> QED
    BY <1>10, <1>11, <1>12, Zenon

\* After the text.
LEMMA OnEnd ==
  ASSUME NEW u \in Types, NEW M
  PROVE  Onward("end", {<<>>}, u, "failed", M)
  <1>1. \A e \in Seq(Types) : <<u>> \o e # <<>>
    OBVIOUS
  <1>2. Rest("end", {<<>>}) = {<<>>} /\ Rest("failed", M) = {}
    BY RestIs
  <1> QED
    BY <1>1, <1>2 DEF Onward

\* Something may come wherever the parser has not failed, and nothing only at the end.
LEMMA RestLong ==
  ASSUME NEW L \in Languages, NEW place,
         place \in {"value", "first_key", "first_element", "first_colon", "colon", "key"}
  PROVE  Rest(place, L) # {} /\ <<>> \notin Rest(place, L)
  <1> DEFINE B == Behind("object", L)
  <1>1. "object" \in Structures /\ "array" \in Structures
    BY Brackets
  <1>2. L \in SUBSET Seq(Types) /\ L # {} /\ B \in SUBSET Seq(Types) /\ B # {}
    BY <1>1, BehindIs DEF Languages
  <1> HIDE DEF B
  <1>3. \A k \in {"value", "member"} : <<>> \notin Then(k, L) /\ Then(k, L) # {}
    BY <1>2, ThenNothing
  <1>4. Then("value", B) # {} /\ Then("value", B) \in SUBSET Seq(Types) /\ Then("value", L) \in SUBSET Seq(Types)
    BY <1>2, ThenIs, ThenNothing
  <1>5. /\ <<>> \notin Led("name_separator", Then("value", B)) /\ Led("name_separator", Then("value", B)) # {}
        /\ <<>> \notin Led("name_separator", Then("value", L)) /\ Led("name_separator", Then("value", L)) # {}
    BY <1>3, <1>4, LedIs, TypesNamed
  <1>6. \A c \in Structures : <<>> \notin Within(c, L) /\ Within(c, L) # {}
    BY WithinIs DEF Languages
  <1> QED
    BY <1>1, <1>3, <1>5, <1>6, RestIs DEF B

-----------------------------------------------------------------------------
(* The parser.                                                              *)

\* What has been read of a text begins a value whose rest is what the parser's place and the open
\* containers say, and nothing else.
Reading(tokens, place, open) ==
  \E L : /\ Expects(open, L)
         /\ \A e \in Seq(Types) : Word("value", TypesOf(tokens) \o e) <=> e \in Rest(place, L)

Amid == {"value", "first_key", "first_element", "first_colon", "colon", "key"}
Places == Amid \cup {"after", "end", "failed", "accepted"}

InvParser ==
  /\ read \in Seq(Token) /\ at \in Places /\ states \in Seq(Structures)
  /\ at = "after" => states # <<>>
  /\ at = "end" => states = <<>>
  /\ at # "accepted" => Reading(read, at, states)
  /\ at = "accepted" => IsValue(Front(read)) /\ Last(read).type = "end_of_input"
  /\ at = "failed" /\ Last(read).type = "end_of_input" => ~IsValue(Front(read))

\* A token's type is one that the grammar knows.
LEMMA TokenTypes == \A t \in Token : t.type \in Types
  BY DEF Token, Types

\* The types of one token more.
LEMMA OneMore ==
  ASSUME NEW tokens \in Seq(Token), NEW t \in Token
  PROVE  /\ t.type \in Types /\ TypesOf(tokens) \in Seq(Types) /\ Append(tokens, t) \in Seq(Token)
         /\ TypesOf(Append(tokens, t)) = TypesOf(tokens) \o <<t.type>>
         /\ Front(Append(tokens, t)) = tokens /\ Last(Append(tokens, t)) = t
  <1>1. \A x \in Token : x.type \in Types
    BY TokenTypes
  <1>2. PICK n \in Nat : n = Len(tokens)
    OBVIOUS
  <1>3. PICK more \in Seq(Token) : more = Append(tokens, t)
    BY AppendProperties
  <1>4. Len(more) = n + 1 /\ more[n + 1] = t /\ \A i \in 1..n : more[i] = tokens[i]
    BY <1>2, <1>3
  <1>5. \A i \in 1..n : tokens[i] \in Token
    BY <1>2
  <1>6. TypesOf(tokens) = [i \in 1..n |-> tokens[i].type] /\ TypesOf(more) = [i \in 1..(n + 1) |-> more[i].type]
    BY <1>2, <1>4 DEF TypesOf
  <1>7. TypesOf(tokens) \in Seq(Types) /\ Len(TypesOf(tokens)) = n
        /\ \A i \in 1..n : TypesOf(tokens)[i] = tokens[i].type
    BY <1>1, <1>5, <1>6
  <1>8. t.type \in Types
    BY <1>1
  <1>9. TypesOf(more) \in Seq(Types) /\ Len(TypesOf(more)) = n + 1
        /\ \A i \in 1..(n + 1) : TypesOf(more)[i] = more[i].type
    <2>1. \A i \in 1..(n + 1) : more[i].type \in Types
      BY <1>1, <1>4, <1>5
    <2> QED
      BY <1>6, <2>1
  <1>10. TypesOf(more) = TypesOf(tokens) \o <<t.type>>
    <2>1. PICK a \in Seq(Types) : a = TypesOf(tokens)
      BY <1>7
    <2>2. PICK b \in Seq(Types) : b = TypesOf(more)
      BY <1>9
    <2>3. PICK u \in Types : u = t.type
      BY <1>8
    <2>4. Len(a) = n /\ \A i \in 1..n : a[i] = tokens[i].type
      BY <1>7, <2>1
    <2>5. Len(b) = n + 1 /\ b[n + 1] = u /\ \A i \in 1..n : b[i] = tokens[i].type
      BY <1>4, <1>9, <2>2, <2>3
    <2>6. Append(a, u) \in Seq(Types) /\ Len(Append(a, u)) = n + 1 /\ Append(a, u)[n + 1] = u
          /\ \A i \in 1..n : Append(a, u)[i] = a[i]
      BY <2>4
    <2>7. \A i \in 1..(n + 1) : b[i] = Append(a, u)[i]
      BY <2>4, <2>5, <2>6
    <2>8. b = Append(a, u)
      BY <2>5, <2>6, <2>7, SeqEqual
    <2> QED
      BY <2>1, <2>2, <2>3, <2>8, AppendIsConcat
  <1>11. Last(more) = t
    BY <1>4 DEF Last
  <1>12. Front(more) = tokens
    <2>1. Front(more) = SubSeq(more, 1, n)
      BY <1>4 DEF Front
    <2>2. SubSeq(more, 1, n) \in Seq(Token) /\ Len(SubSeq(more, 1, n)) = n
          /\ \A i \in 1..n : SubSeq(more, 1, n)[i] = more[i]
      BY <1>4
    <2> QED
      BY <1>2, <1>4, <2>1, <2>2, SeqEqual
  <1> QED
    BY <1>3, <1>7, <1>8, <1>10, <1>11, <1>12

\* One step of reading.
LEMMA ReadOn ==
  ASSUME NEW tokens \in Seq(Token), NEW t \in Token, NEW place, NEW open, NEW next, NEW more,
         Reading(tokens, place, open),
         \A L : Expects(open, L) => \E M : Expects(more, M) /\ Onward(place, L, t.type, next, M)
  PROVE  Reading(Append(tokens, t), next, more)
  <1>1. PICK L : /\ Expects(open, L)
                 /\ \A e \in Seq(Types) : Word("value", TypesOf(tokens) \o e) <=> e \in Rest(place, L)
    BY DEF Reading
  <1>2. PICK M : Expects(more, M) /\ Onward(place, L, t.type, next, M)
    BY <1>1
  <1>3. /\ t.type \in Types /\ TypesOf(tokens) \in Seq(Types)
        /\ TypesOf(Append(tokens, t)) = TypesOf(tokens) \o <<t.type>>
    BY OneMore
  <1>4. ASSUME NEW e \in Seq(Types)
        PROVE  Word("value", TypesOf(Append(tokens, t)) \o e) <=> e \in Rest(next, M)
    <2>1. <<t.type>> \in Seq(Types)
      BY <1>3
    <2>2. <<t.type>> \o e \in Seq(Types)
          /\ (TypesOf(tokens) \o <<t.type>>) \o e = TypesOf(tokens) \o (<<t.type>> \o e)
      BY <1>3, <2>1, Joined
    <2>3. Word("value", TypesOf(tokens) \o (<<t.type>> \o e)) <=> <<t.type>> \o e \in Rest(place, L)
      BY <1>1, <2>2, Zenon
    <2>4. <<t.type>> \o e \in Rest(place, L) <=> e \in Rest(next, M)
      BY <1>2 DEF Onward
    <2> QED
      BY <1>3, <2>2, <2>3, <2>4, Zenon
  <1> QED
    BY <1>2, <1>4 DEF Reading

\* Where a value is not over it is not there, but it may come.
LEMMA NotYet ==
  ASSUME NEW tokens \in Seq(Token), NEW place, NEW open \in Seq(Structures), Reading(tokens, place, open),
         place \in Amid \/ (place = "after" /\ open # <<>>)
  PROVE  /\ ~IsValue(tokens)
         /\ \E e \in Seq(Types) : Word("value", TypesOf(tokens) \o e)
  <1>1. PICK L : /\ Expects(open, L)
                 /\ \A e \in Seq(Types) : Word("value", TypesOf(tokens) \o e) <=> e \in Rest(place, L)
    BY DEF Reading
  <1>2. L \in Languages /\ (open # <<>> => <<>> \notin L)
    BY <1>1, ExpectsLanguage
  <1>3. Rest(place, L) # {} /\ <<>> \notin Rest(place, L)
    <2>1. CASE place \in Amid
      BY <1>2, <2>1, RestLong DEF Amid
    <2>2. CASE place = "after" /\ open # <<>>
      BY <1>2, <2>2, RestIs DEF Languages
    <2> QED
      BY <2>1, <2>2
  <1>4. Rest(place, L) \in SUBSET Seq(Types)
    <2>1. L \in SUBSET Seq(Types) /\ "object" \in Structures /\ "array" \in Structures
          /\ Behind("object", L) \in SUBSET Seq(Types) /\ Within("object", L) \in SUBSET Seq(Types)
          /\ Within("array", L) \in SUBSET Seq(Types)
      BY <1>2, BehindIs, WithinIs, Brackets DEF Languages
    <2>2. /\ Then("value", L) \in SUBSET Seq(Types) /\ Then("member", L) \in SUBSET Seq(Types)
          /\ Then("value", Behind("object", L)) \in SUBSET Seq(Types)
      BY <2>1, ThenIs
    <2>3. /\ Led("name_separator", Then("value", L)) \in SUBSET Seq(Types)
          /\ Led("name_separator", Then("value", Behind("object", L))) \in SUBSET Seq(Types)
      BY <2>2, LedIs, TypesNamed
    <2> QED
      BY <2>1, <2>2, <2>3, RestIs DEF Amid
  <1>5. \E e \in Seq(Types) : Word("value", TypesOf(tokens) \o e)
    BY <1>1, <1>3, <1>4
  <1>6. TypesOf(tokens) \in Seq(Types) /\ TypesOf(tokens) \o <<>> = TypesOf(tokens)
    <2>1. TypesOf(tokens) = [i \in 1..Len(tokens) |-> tokens[i].type] /\ Len(tokens) \in Nat
      BY DEF TypesOf
    <2>2. \A i \in 1..Len(tokens) : tokens[i].type \in Types
      BY DEF Token, Types
    <2>3. TypesOf(tokens) \in Seq(Types)
      BY <2>1, <2>2
    <2> QED
      BY <2>3, Joined
  <1>7. <<>> \in Seq(Types)
    OBVIOUS
  <1> QED
    BY <1>1, <1>3, <1>5, <1>6, <1>7, Zenon DEF IsValue, Word

\* Before the first token, what can follow is any value.
LEMMA ReadingNothing ==
  InitParser => InvParser
  <1> SUFFICES ASSUME InitParser PROVE InvParser
    OBVIOUS
  <1>1. read = <<>> /\ at = "value" /\ states = <<>>
    BY DEF InitParser
  <1>2. Reading(<<>>, "value", <<>>)
    <2>1. Expects(<<>>, {<<>>})
      BY ExpectsNothing
    <2>2. TypesOf(<<>>) = <<>>
      BY DEF TypesOf
    <2>3. ASSUME NEW e \in Seq(Types)
          PROVE  Word("value", <<>> \o e) <=> e \in Rest("value", {<<>>})
      <3>1. <<>> \o e = e /\ e \o <<>> = e
        BY ConcatEmptySeq
      <3>2. e \in Then("value", {<<>>}) <=> \E w \in Seq(Types) : Word("value", w) /\ e = w \o <<>>
        BY Zenon DEF Then
      <3>3. \A w \in Seq(Types) : w \o <<>> = w
        BY ConcatEmptySeq
      <3>4. Rest("value", {<<>>}) = Then("value", {<<>>})
        BY RestIs
      <3> QED
        BY <3>1, <3>2, <3>3, <3>4, Zenon
    <2> QED
      BY <2>1, <2>2, <2>3 DEF Reading
  <1> QED
    BY <1>1, <1>2 DEF InvParser, Places, Amid

\* A step that goes where what has been read lets it go.
LEMMA StepTo ==
  ASSUME InvParser, NEW t \in Token, GetToken(t), at # "end",
         at' \in Places \ {"accepted"}, states' \in Seq(Structures),
         at' = "after" => states' # <<>>, at' = "end" => states' = <<>>,
         \A L : Expects(states, L) => \E M : Expects(states', M) /\ Onward(at, L, t.type, at', M)
  PROVE  InvParser'
  <1>1. /\ read \in Seq(Token) /\ at \in Places /\ states \in Seq(Structures)
        /\ at # "accepted" /\ at # "failed"
        /\ at = "after" => states # <<>>
        /\ Reading(read, at, states)
    BY DEF InvParser, GetToken
  <1>2. read' = Append(read, t)
    BY DEF GetToken
  <1>3. read' \in Seq(Token) /\ Front(read') = read /\ Last(read') = t
    BY <1>1, <1>2, OneMore
  <1>4. Reading(read', at', states')
    BY <1>1, <1>2, ReadOn
  <1>5. ~IsValue(read)
    <2>1. at \in Amid \/ (at = "after" /\ states # <<>>)
      BY <1>1 DEF Places
    <2> QED
      BY <1>1, <2>1, NotYet
  <1> QED
    BY <1>3, <1>4, <1>5, Zenon DEF InvParser

\* What is done with a token that begins a value.
LEMMA ValueGoes ==
  ASSUME NEW t \in Token, NEW open \in Seq(Structures), Value(t, open)
  PROVE  /\ at' \in Places \ {"accepted"} /\ states' = open
         /\ at' = "after" => open # <<>>
         /\ at' = "end" => open = <<>>
         /\ \A L : Expects(open, L) => Onward("value", L, t.type, at', L)
  <1>1. t.type \in Types
    BY TokenTypes
  <1>2. \/ t.type = "begin_object" /\ at' = "first_key" /\ states' = open
        \/ t.type = "begin_array" /\ at' = "first_element" /\ states' = open
        \/ /\ t.type \in {"scalar", "string"} /\ states' = open
           /\ at' = IF open = <<>> THEN "end" ELSE "after"
        \/ /\ t.type \notin {"begin_object", "begin_array", "scalar", "string"}
           /\ at' = "failed" /\ states' = open
    BY DEF Value, Evaluate
  <1>3. /\ at' \in Places \ {"accepted"} /\ states' = open
        /\ at' = "after" => open # <<>>
        /\ at' = "end" => open = <<>>
    BY <1>2 DEF Places, Amid
  <1>4. ASSUME NEW L, Expects(open, L)
        PROVE  Onward("value", L, t.type, at', L)
    <2>1. L \in Languages
      BY <1>4, ExpectsLanguage
    <2> QED
      BY <1>1, <1>2, <2>1, OnValue
  <1> QED
    BY <1>3, <1>4

\* A container is closed, and what follows is what might follow it.
LEMMA CloseGoes ==
  ASSUME NEW open \in Seq(Structures), Evaluate(open)
  PROVE  /\ at' \in {"after", "end"} /\ at' \in Places \ {"accepted"} /\ states' = open
         /\ at' = "after" => open # <<>>
         /\ at' = "end" => open = <<>>
  BY DEF Evaluate, Places, Amid

\* A value is expected: a scalar ends the text or goes on with its container, a bracket opens one.
LEMMA ParseValueStep ==
  ASSUME InvParser, NEW t \in Token, ParseValue(t)
  PROVE  InvParser'
  <1>1. states \in Seq(Structures)
    BY DEF InvParser
  <1>2. at = "value" /\ GetToken(t) /\ Value(t, states)
    BY DEF ParseValue
  <1>3. /\ at' \in Places \ {"accepted"} /\ states' = states
        /\ at' = "after" => states # <<>>
        /\ at' = "end" => states = <<>>
        /\ \A L : Expects(states, L) => Onward("value", L, t.type, at', L)
    BY <1>1, <1>2, ValueGoes
  <1>4. \A L : Expects(states, L) => \E M : Expects(states', M) /\ Onward(at, L, t.type, at', M)
    BY <1>2, <1>3, Zenon
  <1> QED
    BY <1>1, <1>2, <1>3, <1>4, StepTo

\* An array has just begun: it ends at once, or its first element begins.
LEMMA FirstElementStep ==
  ASSUME InvParser, NEW t \in Token, FirstElement(t)
  PROVE  InvParser'
  <1>1. states \in Seq(Structures) /\ "array" \in Structures
    BY Brackets DEF InvParser
  <1>2. at = "first_element" /\ GetToken(t) /\ t.type \in Types
    BY TokenTypes DEF FirstElement
  <1>3. CASE t.type = "end_array"
    <2>1. Evaluate(states)
      BY <1>3 DEF FirstElement, EndArray
    <2>2. /\ at' \in {"after", "end"} /\ at' \in Places \ {"accepted"} /\ states' = states
          /\ at' = "after" => states # <<>>
          /\ at' = "end" => states = <<>>
      BY <1>1, <2>1, CloseGoes
    <2>3. ASSUME NEW L, Expects(states, L)
          PROVE  Expects(states', L) /\ Onward(at, L, t.type, at', L)
      <3>1. L \in Languages
        BY <1>1, <2>3, ExpectsLanguage
      <3>2. Onward("first_element", L, t.type, "after", L) /\ Onward("first_element", L, t.type, "end", L)
        BY <1>2, <1>3, <3>1, OnFirstElement
      <3> QED
        BY <1>2, <2>2, <2>3, <3>2
    <2> QED
      BY <1>1, <1>2, <2>2, <2>3, StepTo
  <1>4. CASE t.type # "end_array"
    <2>1. Value(t, Append(states, "array"))
      BY <1>4 DEF FirstElement
    <2>2. PICK more \in Seq(Structures) : more = Append(states, "array")
      BY <1>1, AppendProperties
    <2>3. /\ at' \in Places \ {"accepted"} /\ states' = more
          /\ at' = "after" => more # <<>>
          /\ at' = "end" => more = <<>>
          /\ \A L : Expects(more, L) => Onward("value", L, t.type, at', L)
      BY <2>1, <2>2, ValueGoes
    <2>4. ASSUME NEW L, Expects(states, L)
          PROVE  Expects(states', Behind("array", L)) /\ Onward(at, L, t.type, at', Behind("array", L))
      <3>1. L \in Languages
        BY <1>1, <2>4, ExpectsLanguage
      <3>2. Expects(more, Behind("array", L))
        BY <1>1, <2>2, <2>4, ExpectsMore
      <3>3. Onward("value", Behind("array", L), t.type, at', Behind("array", L))
        BY <2>3, <3>2, Zenon
      <3>4. Onward("first_element", L, t.type, at', Behind("array", L))
        BY <1>2, <1>4, <3>1, <3>3, OnFirstElement
      <3> QED
        BY <1>2, <2>3, <3>2, <3>4
    <2> QED
      BY <1>2, <2>3, <2>4, StepTo
  <1> QED
    BY <1>3, <1>4

\* What is done with a token that should be a key.
LEMMA KeyGoes ==
  ASSUME NEW t \in Token, ParseKey(t)
  PROVE  /\ states' = states
         /\ t.type = "string" => at' = IF at = "first_key" THEN "first_colon" ELSE "colon"
         /\ t.type # "string" => at' = "failed"
  BY DEF ParseKey

\* An object has just begun: it ends at once, or its first key is read.
LEMMA FirstKeyStep ==
  ASSUME InvParser, NEW t \in Token, FirstKey(t)
  PROVE  InvParser'
  <1>1. states \in Seq(Structures)
    BY DEF InvParser
  <1>2. at = "first_key" /\ GetToken(t) /\ t.type \in Types
    BY TokenTypes DEF FirstKey
  <1>3. ASSUME NEW L, Expects(states, L)
        PROVE  /\ t.type = "end_object" => Onward(at, L, t.type, "after", L) /\ Onward(at, L, t.type, "end", L)
               /\ t.type = "string" => Onward(at, L, t.type, "first_colon", L)
               /\ t.type \notin {"end_object", "string"} => Onward(at, L, t.type, "failed", L)
    <2>1. L \in Languages
      BY <1>1, <1>3, ExpectsLanguage
    <2> QED
      BY <1>2, <2>1, OnFirstKey
  <1>4. CASE t.type = "end_object"
    <2>1. Evaluate(states)
      BY <1>4 DEF FirstKey, EndObject
    <2>2. /\ at' \in {"after", "end"} /\ at' \in Places \ {"accepted"} /\ states' = states
          /\ at' = "after" => states # <<>>
          /\ at' = "end" => states = <<>>
      BY <1>1, <2>1, CloseGoes
    <2>3. ASSUME NEW L, Expects(states, L)
          PROVE  Expects(states', L) /\ Onward(at, L, t.type, at', L)
      BY <1>3, <1>4, <2>2, <2>3
    <2> QED
      BY <1>1, <1>2, <2>2, <2>3, StepTo
  <1>5. CASE t.type # "end_object"
    <2>1. /\ states' = states
          /\ t.type = "string" => at' = "first_colon"
          /\ t.type # "string" => at' = "failed"
      BY <1>2, <1>5, KeyGoes DEF FirstKey
    <2>2. at' \in Places \ {"accepted"} /\ at' # "after" /\ at' # "end"
      BY <2>1 DEF Places, Amid
    <2>3. ASSUME NEW L, Expects(states, L)
          PROVE  Expects(states', L) /\ Onward(at, L, t.type, at', L)
      BY <1>3, <1>5, <2>1, <2>3
    <2> QED
      BY <1>1, <1>2, <2>1, <2>2, <2>3, StepTo
  <1> QED
    BY <1>4, <1>5

\* Behind a comma in an object comes another key.
LEMMA NextKeyStep ==
  ASSUME InvParser, NEW t \in Token, NextKey(t)
  PROVE  InvParser'
  <1>1. states \in Seq(Structures)
    BY DEF InvParser
  <1>2. at = "key" /\ GetToken(t) /\ t.type \in Types /\ ParseKey(t)
    BY TokenTypes DEF NextKey
  <1>3. /\ states' = states
        /\ t.type = "string" => at' = "colon"
        /\ t.type # "string" => at' = "failed"
    BY <1>2, KeyGoes
  <1>4. at' \in Places \ {"accepted"} /\ at' # "after" /\ at' # "end"
    BY <1>3 DEF Places, Amid
  <1>5. ASSUME NEW L, Expects(states, L)
        PROVE  Expects(states', L) /\ Onward(at, L, t.type, at', L)
    <2>1. L \in Languages
      BY <1>1, <1>5, ExpectsLanguage
    <2>2. /\ t.type = "string" => Onward("key", L, t.type, "colon", L)
          /\ t.type # "string" => Onward("key", L, t.type, "failed", L)
      BY <1>2, <2>1, OnKey
    <2> QED
      BY <1>2, <1>3, <1>5, <2>2
  <1> QED
    BY <1>1, <1>2, <1>3, <1>4, <1>5, StepTo

\* Behind a key comes a colon.
LEMMA ColonStep ==
  ASSUME InvParser, NEW t \in Token, Colon(t)
  PROVE  InvParser'
  <1>1. states \in Seq(Structures) /\ "object" \in Structures
    BY Brackets DEF InvParser
  <1>2. at \in {"first_colon", "colon"} /\ GetToken(t) /\ t.type \in Types
    BY TokenTypes DEF Colon
  <1>3. /\ at' = IF t.type = "name_separator" THEN "value" ELSE "failed"
        /\ states' = IF at = "first_colon" /\ t.type = "name_separator" THEN Append(states, "object")
                     ELSE states
    BY DEF Colon
  <1>4. at' \in Places \ {"accepted"} /\ at' # "after" /\ at' # "end" /\ states' \in Seq(Structures)
    BY <1>1, <1>3 DEF Places, Amid
  <1>5. ASSUME NEW L, Expects(states, L)
        PROVE  \E M : Expects(states', M) /\ Onward(at, L, t.type, at', M)
    <2>1. L \in Languages
      BY <1>1, <1>5, ExpectsLanguage
    <2>2. /\ t.type = "name_separator" => /\ Onward("colon", L, t.type, "value", L)
                                          /\ Onward("first_colon", L, t.type, "value", Behind("object", L))
          /\ t.type # "name_separator" => /\ Onward("colon", L, t.type, "failed", L)
                                          /\ Onward("first_colon", L, t.type, "failed", L)
      BY <1>2, <2>1, OnColon
    <2>3. Expects(Append(states, "object"), Behind("object", L))
      BY <1>1, <1>5, ExpectsMore
    <2>4. CASE at = "first_colon" /\ t.type = "name_separator"
      <3>1. states' = Append(states, "object") /\ at' = "value"
        BY <1>3, <2>4
      <3>2. Onward(at, L, t.type, at', Behind("object", L))
        BY <2>2, <2>4, <3>1
      <3> QED
        BY <2>3, <3>1, <3>2
    <2>5. CASE ~(at = "first_colon" /\ t.type = "name_separator")
      <3>1. states' = states
        BY <1>3, <2>5
      <3>2. Onward(at, L, t.type, at', L)
        BY <1>2, <1>3, <2>2, <2>5
      <3> QED
        BY <1>5, <3>1, <3>2
    <2> QED
      BY <2>4, <2>5
  <1> QED
    BY <1>2, <1>4, <1>5, StepTo

\* After an element and after a member the same is done, but for what a comma leads to.
LEMMA AfterStep ==
  ASSUME InvParser, NEW t \in Token, GetToken(t), at = "after", NEW c \in Structures, Last(states) = c,
         t.type = Closing[c] => Evaluate(Front(states)),
         t.type # Closing[c] => /\ at' = IF t.type = "value_separator"
                                         THEN (IF c = "array" THEN "value" ELSE "key") ELSE "failed"
                                /\ states' = states
  PROVE  InvParser'
  <1>1. states \in Seq(Structures) /\ states # <<>> /\ t.type \in Types
    BY TokenTypes DEF InvParser
  <1>2. Front(states) \in Seq(Structures)
    <2>1. PICK n \in Nat : n = Len(states)
      BY <1>1
    <2>2. Front(states) = SubSeq(states, 1, n - 1)
      BY <2>1 DEF Front
    <2> QED
      BY <1>1, <2>1, <2>2
  <1>3. ASSUME NEW L, Expects(states, L)
        PROVE  \E M : /\ Expects(Front(states), M)
                      /\ t.type = Closing[c] => Onward("after", L, t.type, "after", M)
                                                /\ Onward("after", L, t.type, "end", M)
                      /\ t.type = "value_separator" =>
                           Onward("after", L, t.type, IF c = "array" THEN "value" ELSE "key", L)
                      /\ t.type \notin {Closing[c], "value_separator"} =>
                           Onward("after", L, t.type, "failed", L)
    <2>1. PICK M : Expects(Front(states), M) /\ L = Behind(c, M)
      BY <1>1, <1>3, ExpectsLess
    <2>2. M \in Languages
      BY <1>2, <2>1, ExpectsLanguage
    <2>3. /\ t.type = Closing[c] => Onward("after", L, t.type, "after", M)
                                    /\ Onward("after", L, t.type, "end", M)
          /\ t.type = "value_separator" =>
               Onward("after", L, t.type, IF c = "array" THEN "value" ELSE "key", L)
          /\ t.type \notin {Closing[c], "value_separator"} => Onward("after", L, t.type, "failed", L)
      BY <1>1, <2>1, <2>2, OnAfter
    <2> QED
      BY <2>1, <2>3, Zenon
  <1>4. CASE t.type = Closing[c]
    <2>1. /\ at' \in {"after", "end"} /\ at' \in Places \ {"accepted"} /\ states' = Front(states)
          /\ at' = "after" => Front(states) # <<>>
          /\ at' = "end" => Front(states) = <<>>
      BY <1>2, <1>4, CloseGoes
    <2>2. ASSUME NEW L, Expects(states, L)
          PROVE  \E M : Expects(states', M) /\ Onward(at, L, t.type, at', M)
      <3>1. PICK M : /\ Expects(Front(states), M)
                     /\ Onward("after", L, t.type, "after", M) /\ Onward("after", L, t.type, "end", M)
        BY <1>3, <1>4, <2>2, Zenon
      <3> QED
        BY <2>1, <3>1
    <2> QED
      BY <1>2, <2>1, <2>2, StepTo
  <1>5. CASE t.type # Closing[c]
    <2>1. /\ at' = IF t.type = "value_separator" THEN (IF c = "array" THEN "value" ELSE "key") ELSE "failed"
          /\ states' = states
      BY <1>5
    <2>2. at' \in Places \ {"accepted"} /\ at' # "after" /\ at' # "end"
      BY <2>1 DEF Places, Amid
    <2>3. ASSUME NEW L, Expects(states, L)
          PROVE  Expects(states', L) /\ Onward(at, L, t.type, at', L)
      <3>1. /\ t.type = "value_separator" =>
                 Onward("after", L, t.type, IF c = "array" THEN "value" ELSE "key", L)
            /\ t.type # "value_separator" => Onward("after", L, t.type, "failed", L)
        BY <1>3, <1>5, <2>3
      <3> QED
        BY <2>1, <2>3, <3>1
    <2> QED
      BY <1>1, <2>1, <2>2, <2>3, StepTo
  <1> QED
    BY <1>4, <1>5

\* An element has ended: the array ends too, or a comma announces another element.
LEMMA AfterElementStep ==
  ASSUME InvParser, NEW t \in Token, AfterElement(t)
  PROVE  InvParser'
  <1>1. "array" \in Structures /\ Closing["array"] = "end_array"
    BY Brackets
  <1>2. GetToken(t) /\ at = "after" /\ Last(states) = "array"
    BY DEF AfterElement
  <1>3. t.type = "end_array" => Evaluate(Front(states))
    BY DEF AfterElement, EndArray
  <1>4. t.type # "end_array" => /\ at' = IF t.type = "value_separator" THEN "value" ELSE "failed"
                                /\ states' = states
    BY DEF AfterElement
  <1> QED
    BY <1>1, <1>2, <1>3, <1>4, AfterStep

\* A member has ended: the object ends too, or a comma announces another key.
LEMMA AfterMemberStep ==
  ASSUME InvParser, NEW t \in Token, AfterMember(t)
  PROVE  InvParser'
  <1>1. "object" \in Structures /\ Closing["object"] = "end_object" /\ "object" # "array"
    BY Brackets
  <1>2. GetToken(t) /\ at = "after" /\ Last(states) = "object"
    BY DEF AfterMember
  <1>3. t.type = "end_object" => Evaluate(Front(states))
    BY DEF AfterMember, EndObject
  <1>4. t.type # "end_object" => /\ at' = IF t.type = "value_separator" THEN "key" ELSE "failed"
                                 /\ states' = states
    BY DEF AfterMember
  <1> QED
    BY <1>1, <1>2, <1>3, <1>4, AfterStep

\* Where the text is over it is a value.
LEMMA Complete ==
  ASSUME NEW tokens \in Seq(Token), Reading(tokens, "end", <<>>)
  PROVE  IsValue(tokens)
  <1>1. PICK L : /\ Expects(<<>>, L)
                 /\ \A e \in Seq(Types) : Word("value", TypesOf(tokens) \o e) <=> e \in Rest("end", L)
    BY DEF Reading
  <1>2. Rest("end", L) = {<<>>}
    BY <1>1, ExpectsNothing, RestIs
  <1>3. <<>> \in Seq(Types)
    OBVIOUS
  <1>4. TypesOf(tokens) \o <<>> = TypesOf(tokens)
    <2>1. TypesOf(tokens) = [i \in 1..Len(tokens) |-> tokens[i].type] /\ Len(tokens) \in Nat
      BY DEF TypesOf
    <2>2. \A i \in 1..Len(tokens) : tokens[i].type \in Types
      BY TokenTypes
    <2>3. TypesOf(tokens) \in Seq(Types)
      BY <2>1, <2>2
    <2> QED
      BY <2>3, Joined
  <1>5. <<>> \in Rest("end", L)
    BY <1>2
  <1>6. Word("value", TypesOf(tokens) \o <<>>)
    BY <1>1, <1>3, <1>5, Zenon
  <1> QED
    BY <1>4, <1>6, Zenon DEF IsValue, Word

\* The value has ended: the text is accepted exactly when nothing follows.
LEMMA EndOfTextStep ==
  ASSUME InvParser, NEW t \in Token, EndOfText(t)
  PROVE  InvParser'
  <1>1. /\ read \in Seq(Token) /\ states = <<>> /\ at = "end" /\ Reading(read, "end", <<>>)
    BY DEF InvParser, EndOfText
  <1>2. /\ read' = Append(read, t) /\ states' = states
        /\ at' = IF t.type = "end_of_input" THEN "accepted" ELSE "failed"
    BY DEF EndOfText, GetToken
  <1>3. read' \in Seq(Token) /\ Front(read') = read /\ Last(read') = t /\ t.type \in Types
    BY <1>1, <1>2, OneMore
  <1>4. states' = <<>> /\ states' \in Seq(Structures)
    BY <1>1, <1>2
  <1>5. CASE t.type = "end_of_input"
    <2>1. IsValue(read)
      BY <1>1, Complete
    <2>2. at' = "accepted"
      BY <1>2, <1>5
    <2> QED
      BY <1>3, <1>4, <1>5, <2>1, <2>2 DEF InvParser, Places
  <1>6. CASE t.type # "end_of_input"
    <2>1. at' = "failed"
      BY <1>2, <1>6
    <2>2. ASSUME NEW L, Expects(<<>>, L)
          PROVE  Expects(<<>>, L) /\ Onward("end", L, t.type, "failed", L)
      BY <1>3, <2>2, ExpectsNothing, OnEnd
    <2>3. Reading(Append(read, t), "failed", <<>>)
      BY <1>1, <2>2, ReadOn
    <2>4. Reading(read', at', states')
      BY <1>2, <1>4, <2>1, <2>3
    <2> QED
      BY <1>3, <1>4, <1>6, <2>1, <2>4 DEF InvParser, Places
  <1> QED
    BY <1>5, <1>6

\* The parser has read what it may have read.
THEOREM ParserReads == SpecParser => []InvParser
  <1>1. InitParser => InvParser
    BY ReadingNothing
  <1>2. InvParser /\ [NextParser]_parser => InvParser'
    <2> SUFFICES ASSUME InvParser, [NextParser]_parser PROVE InvParser'
      OBVIOUS
    <2>1. CASE UNCHANGED parser
      <3>1. UNCHANGED <<read, at, states>>
        BY <2>1 DEF parser
      <3> QED
        BY <3>1 DEF InvParser
    <2>2. ASSUME NextParser
          PROVE  InvParser'
      BY <2>2, ParseValueStep, FirstKeyStep, FirstElementStep, ColonStep, AfterElementStep, AfterMemberStep,
         NextKeyStep, EndOfTextStep, Zenon DEF NextParser
    <2> QED
      BY <2>1, <2>2
  <1> QED
    BY <1>1, <1>2, PTL DEF SpecParser

-----------------------------------------------------------------------------
(* Beginnings.                                                              *)

Begins(kind, s) == Beginning[<<kind, s>>]

\* What a value begins with.
LEMMA ValueBegins ==
  ASSUME NEW s \in Seq(Types)
  PROVE  Begins("value", s) <=>
           \/ Word("value", s) \/ s = <<>>
           \/ \E c \in Structures : \E z \in Seq(Types) : s = <<Opening[c]>> \o z /\ Begins(c, z)
  <1> USE TypesNamed
  <1>1. "value" \in Kinds /\ "value" \notin Structures /\ "value" # "member"
    BY ItemKinds
  <1>2. Beginning[<<"value", s>>] = Begun("value", s, Beginning)
    BY <1>1, BeginningIs
  <1>3. Len(s) = 0 <=> s = <<>>
    OBVIOUS
  <1>4. Begins("value", s) <=>
          \/ Grammar[<<"value", s>>] \/ Len(s) = 0
          \/ \E c \in Structures : s[1] = Opening[c] /\ Beginning[<<c, SubSeq(s, 2, Len(s))>>]
    BY <1>1, <1>2, Zenon DEF Begun, Begins
  <1>5. ASSUME NEW c \in Structures, s # <<>>, s[1] = Opening[c], Beginning[<<c, SubSeq(s, 2, Len(s))>>]
        PROVE  \E z \in Seq(Types) : s = <<Opening[c]>> \o z /\ Begins(c, z)
    <2>1. SubSeq(s, 2, Len(s)) \in Seq(Types) /\ s = <<s[1]>> \o SubSeq(s, 2, Len(s))
      BY <1>5, Headed
    <2> QED
      BY <1>5, <2>1, Zenon DEF Begins
  <1>6. ASSUME NEW c \in Structures, NEW z \in Seq(Types), s = <<Opening[c]>> \o z, Begins(c, z)
        PROVE  s[1] = Opening[c] /\ Beginning[<<c, SubSeq(s, 2, Len(s))>>]
    <2>1. s = <<>> \o (<<Opening[c]>> \o z) /\ <<>> \in Seq(Types) /\ Len(<<>>) = 0
      BY <1>6
    <2>2. PICK t \in Types : t = Opening[c]
      OBVIOUS
    <2>3. /\ s[Len(<<>>) + 1] = t /\ SubSeq(s, Len(<<>>) + 2, Len(s)) = z
      BY <2>1, <2>2, Uncut
    <2>4. s[1] = t /\ SubSeq(s, 2, Len(s)) = z
      BY <2>1, <2>3
    <2> QED
      BY <1>6, <2>2, <2>4, Zenon DEF Begins
  <1> QED
    BY <1>3, <1>4, <1>5, <1>6, Zenon DEF Word

\* What a member begins with.
LEMMA MemberBegins ==
  ASSUME NEW s \in Seq(Types)
  PROVE  Begins("member", s) <=>
           \/ Word("member", s) \/ s = <<>> \/ s = <<"string">>
           \/ \E z \in Seq(Types) : s = <<"string">> \o (<<"name_separator">> \o z) /\ Begins("value", z)
  <1> USE TypesNamed
  <1>1. "member" \in Kinds /\ "member" \notin Structures /\ "member" # "value"
    BY ItemKinds
  <1>2. Beginning[<<"member", s>>] = Begun("member", s, Beginning)
    BY <1>1, BeginningIs
  <1>3. Len(s) = 0 <=> s = <<>>
    OBVIOUS
  <1>4. Begins("member", s) <=>
          \/ Grammar[<<"member", s>>] \/ Len(s) = 0
          \/ /\ s[1] = "string"
             /\ Len(s) = 1 \/ (s[2] = "name_separator" /\ Beginning[<<"value", SubSeq(s, 3, Len(s))>>])
    BY <1>1, <1>2, Zenon DEF Begun, Begins
  <1>5. Len(s) = 1 /\ s[1] = "string" <=> s = <<"string">>
    OBVIOUS
  <1>6. ASSUME s # <<>>, Len(s) # 1, s[1] = "string", s[2] = "name_separator",
               Beginning[<<"value", SubSeq(s, 3, Len(s))>>]
        PROVE  \E z \in Seq(Types) : s = <<"string">> \o (<<"name_separator">> \o z) /\ Begins("value", z)
    <2>1. Len(s) > 1
      <3>1. Len(s) \in Nat /\ Len(s) # 0
        BY <1>6, EmptySeq
      <3>2. \A n \in Nat : n # 0 /\ n # 1 => n > 1
        OBVIOUS
      <3> QED
        BY <1>6, <3>1, <3>2, Zenon
    <2>2. SubSeq(s, 3, Len(s)) \in Seq(Types) /\ s = <<s[1]>> \o (<<s[2]>> \o SubSeq(s, 3, Len(s)))
      BY <2>1, Untwice
    <2> QED
      BY <1>6, <2>2, Zenon DEF Begins
  <1>7. ASSUME NEW z \in Seq(Types), s = <<"string">> \o (<<"name_separator">> \o z), Begins("value", z)
        PROVE  s[1] = "string" /\ s[2] = "name_separator" /\ Beginning[<<"value", SubSeq(s, 3, Len(s))>>]
    <2>1. s[1] = "string" /\ s[2] = "name_separator" /\ SubSeq(s, 3, Len(s)) = z
      BY <1>7, Twice
    <2> QED
      BY <1>7, <2>1, Zenon DEF Begins
  <1> QED
    BY <1>3, <1>4, <1>5, <1>6, <1>7, Zenon DEF Word

\* What stands in a container begins with.
LEMMA ListBegins ==
  ASSUME NEW c \in Structures, NEW s \in Seq(Types)
  PROVE  Begins(c, s) <=>
           \/ Word(c, s) \/ s = <<>> \/ Begins(Item[c], s)
           \/ \E v \in Seq(Types) : \E z \in Seq(Types) :
                Word(Item[c], v) /\ Begins(c, z) /\ s = v \o (<<"value_separator">> \o z)
  <1> USE TypesNamed
  <1>1. c \in Kinds /\ c # "value" /\ c # "member"
    BY DEF Kinds, Structures
  <1>2. Beginning[<<c, s>>] = Begun(c, s, Beginning)
    BY <1>1, BeginningIs
  <1>3. (Len(s) = 0 <=> s = <<>>) /\ SubSeq(s, 1, Len(s)) = s
    BY SubSeqFull
  <1>4. Begins(c, s) <=>
          \/ Grammar[<<c, s>>] \/ Len(s) = 0 \/ Beginning[<<Item[c], SubSeq(s, 1, Len(s))>>]
          \/ \E i \in 1..Len(s) : /\ s[i] = "value_separator"
                                  /\ Grammar[<<Item[c], SubSeq(s, 1, i - 1)>>]
                                  /\ Beginning[<<c, SubSeq(s, i + 1, Len(s))>>]
    BY <1>1, <1>2, Zenon DEF Begun, Begins
  <1>5. ASSUME NEW i \in 1..Len(s), s[i] = "value_separator",
               Grammar[<<Item[c], SubSeq(s, 1, i - 1)>>], Beginning[<<c, SubSeq(s, i + 1, Len(s))>>]
        PROVE  \E v \in Seq(Types) : \E z \in Seq(Types) :
                 Word(Item[c], v) /\ Begins(c, z) /\ s = v \o (<<"value_separator">> \o z)
    <2>1. /\ SubSeq(s, 1, i - 1) \in Seq(Types) /\ SubSeq(s, i + 1, Len(s)) \in Seq(Types)
          /\ s = SubSeq(s, 1, i - 1) \o (<<s[i]>> \o SubSeq(s, i + 1, Len(s)))
      BY Cut
    <2> QED
      BY <1>5, <2>1, Zenon DEF Word, Begins
  <1>6. ASSUME NEW v \in Seq(Types), NEW z \in Seq(Types), Word(Item[c], v), Begins(c, z),
               s = v \o (<<"value_separator">> \o z)
        PROVE  \E i \in 1..Len(s) : /\ s[i] = "value_separator"
                                    /\ Grammar[<<Item[c], SubSeq(s, 1, i - 1)>>]
                                    /\ Beginning[<<c, SubSeq(s, i + 1, Len(s))>>]
    <2>1. /\ Len(v) + 1 \in 1..Len(s) /\ s[Len(v) + 1] = "value_separator"
          /\ SubSeq(s, 1, Len(v)) = v /\ SubSeq(s, Len(v) + 2, Len(s)) = z
      BY <1>6, Uncut
    <2>2. PICK i \in 1..Len(s) : i = Len(v) + 1
      BY <2>1
    <2>3. i - 1 = Len(v) /\ i + 1 = Len(v) + 2
      BY <2>2
    <2> QED
      BY <1>6, <2>1, <2>2, <2>3, Zenon DEF Word, Begins
  <1> QED
    BY <1>3, <1>4, <1>5, <1>6, Zenon DEF Word, Begins

\* The size of a sequence as something of a kind: that of its parts is smaller.
SizeAs(kind, s) == 2 * Len(s) + (IF kind \in Structures THEN 1 ELSE 0)

\* Whatever begins something smaller than n has the beginnings that the grammar says.
Known(n) == \A kind \in Kinds, s, e \in Seq(Types) :
              SizeAs(kind, s \o e) < n /\ Word(kind, s \o e) => Begins(kind, s)

\* How long two sequences and what is between them are.
LEMMA SizesAre ==
  ASSUME NEW s \in Seq(Types), NEW e \in Seq(Types)
  PROVE  /\ Len(s) \in Nat /\ Len(e) \in Nat /\ s \o e \in Seq(Types) /\ Len(s \o e) = Len(s) + Len(e)
         /\ \A t \in Types : <<t>> \o s \in Seq(Types) /\ Len(<<t>> \o s) = Len(s) + 1
                             /\ s \o <<t>> \in Seq(Types) /\ Len(s \o <<t>>) = Len(s) + 1
  OBVIOUS

\* A sequence of types that is not empty has a first one.
LEMMA FirstType ==
  ASSUME NEW s \in Seq(Types), s # <<>>
  PROVE  \E h \in Types : \E r \in Seq(Types) : s = <<h>> \o r
  <1>1. s[1] \in Types /\ SubSeq(s, 2, Len(s)) \in Seq(Types) /\ s = <<s[1]>> \o SubSeq(s, 2, Len(s))
    BY Headed
  <1> QED
    BY <1>1, Zenon

\* What is between the first and the last of two sequences, one after the other.
LEMMA Regrouped ==
  ASSUME NEW h \in Types, NEW l \in Types, NEW r \in Seq(Types), NEW f \in Seq(Types)
  PROVE  r \o f \in Seq(Types) /\ (<<h>> \o r) \o (f \o <<l>>) = <<h>> \o ((r \o f) \o <<l>>)
  <1>1. <<l>> \in Seq(Types) /\ f \o <<l>> \in Seq(Types) /\ r \o f \in Seq(Types)
    OBVIOUS
  <1>2. (<<h>> \o r) \o (f \o <<l>>) = <<h>> \o (r \o (f \o <<l>>))
    BY <1>1, Assoc
  <1>3. r \o (f \o <<l>>) = (r \o f) \o <<l>>
    BY <1>1, ConcatAssociative
  <1> QED
    BY <1>1, <1>2, <1>3

\* s is a first token before others.
Prefixed(s, t, a) == t \in Types /\ a \in Seq(Types) /\ s = <<t>> \o a

\* It is so in one way.
LEMMA PrefixedSame ==
  ASSUME NEW s, NEW t, NEW u, NEW a, NEW b, Prefixed(s, t, a), Prefixed(s, u, b)
  PROVE  t = u /\ a = b
  BY SameHead DEF Prefixed

\* s is a first token, others, and a last one.
Enclosed(s, t, a, l) == t \in Types /\ a \in Seq(Types) /\ l \in Types /\ s = <<t>> \o (a \o <<l>>)

\* It is so in one way.
LEMMA EnclosedSame ==
  ASSUME NEW s, NEW t, NEW u, NEW a, NEW b, NEW l, NEW m, Enclosed(s, t, a, l), Enclosed(s, u, b, m)
  PROVE  t = u /\ a = b
  <1>1. /\ t \in Types /\ u \in Types /\ l \in Types /\ m \in Types
        /\ a \in Seq(Types) /\ b \in Seq(Types)
    BY DEF Enclosed
  <1>2. <<t>> \o (a \o <<l>>) = <<u>> \o (b \o <<m>>)
    BY DEF Enclosed
  <1>3. PICK x \in Seq(Types) : x = a \o <<l>>
    BY <1>1, SizesAre
  <1>4. PICK y \in Seq(Types) : y = b \o <<m>>
    BY <1>1, SizesAre
  <1>5. Prefixed(s, t, x) /\ Prefixed(s, u, y)
    BY <1>1, <1>2, <1>3, <1>4 DEF Prefixed, Enclosed
  <1>6. t = u /\ x = y
    BY <1>5, PrefixedSame, Zenon
  <1>7. a \o <<l>> = b \o <<m>>
    BY <1>3, <1>4, <1>6
  <1>8. a = b
    BY <1>1, <1>7, SameLast
  <1> QED
    BY <1>6, <1>8

\* What a value is cut into, begins with what the grammar says.
LEMMA ValueCut ==
  ASSUME NEW n \in Nat, Known(n), NEW s \in Seq(Types), NEW e \in Seq(Types),
         SizeAs("value", s \o e) <= n, Word("value", s \o e)
  PROVE  Begins("value", s)
  <1>1. CASE s = <<>>
    BY <1>1, ValueBegins
  <1>2. CASE e = <<>>
    <2>1. s \o e = s
      BY <1>2, ConcatEmptySeq
    <2> QED
      BY <2>1, ValueBegins
  <1>3. CASE s # <<>> /\ e # <<>>
    <2>1. PICK h \in Types, r \in Seq(Types) : s = <<h>> \o r
      BY <1>3, FirstType, Zenon
    <2>2. PICK f \in Seq(Types), l \in Types : e = f \o <<l>>
      BY <1>3, Ended
    <2>3. r \o f \in Seq(Types) /\ s \o e = <<h>> \o ((r \o f) \o <<l>>)
      BY <2>1, <2>2, Regrouped
    <2>4. Len(s \o e) = Len(r) + Len(f) + 2 /\ Len(r) \in Nat /\ Len(f) \in Nat
          /\ Len(r \o f) = Len(r) + Len(f)
      BY <2>1, <2>2, SizesAre
    <2>5. ASSUME NEW t \in Types, s \o e = <<t>>
          PROVE  FALSE
      <3>1. Len(<<t>>) = 1
        OBVIOUS
      <3> QED
        BY <2>4, <2>5, <3>1
    <2>6. ASSUME NEW c \in Structures, NEW z \in Seq(Types), Held(c, z),
                 s \o e = <<Opening[c]>> \o (z \o <<Closing[c]>>)
          PROVE  Begins("value", s)
      <3>1. PICK t \in Types, y \in Types : t = Opening[c] /\ y = Closing[c]
        BY TypesNamed
      <3>2. PICK m \in Seq(Types) : m = r \o f
        BY <2>3
      <3>3. h = t /\ z = r \o f
        <4>1. Enclosed(s \o e, h, m, l) /\ Enclosed(s \o e, t, z, y)
          BY <2>3, <2>6, <3>1, <3>2, Zenon DEF Enclosed
        <4>2. h = t /\ m = z
          BY <4>1, EnclosedSame, Zenon
        <4> QED
          BY <3>2, <4>2
      <3>4. Begins(c, r)
        <4>1. CASE z = <<>>
          <5>1. r = <<>>
            BY <2>4, <3>3, <4>1
          <5> QED
            BY <5>1, ListBegins
        <4>2. CASE Word(c, z)
          <5>1. c \in Kinds
            BY DEF Kinds
          <5>2. SizeAs(c, r \o f) < SizeAs("value", s \o e)
            BY <2>4, ItemKinds DEF SizeAs
          <5>3. SizeAs(c, r \o f) < n
            BY <2>4, <5>2 DEF SizeAs
          <5> QED
            BY <3>3, <4>2, <5>1, <5>3, Zenon DEF Known
        <4> QED
          BY <2>6, <4>1, <4>2, Zenon DEF Held
      <3>5. s = <<Opening[c]>> \o r
        BY <2>1, <3>1, <3>3
      <3> QED
        BY <3>4, <3>5, ValueBegins, Zenon
    <2>7. \/ s \o e = <<"scalar">> \/ s \o e = <<"string">>
          \/ \E c \in Structures : \E z \in Seq(Types) :
               Held(c, z) /\ s \o e = <<Opening[c]>> \o (z \o <<Closing[c]>>)
      BY ValueForms, Zenon
    <2>8. "scalar" \in Types /\ "string" \in Types
      BY TypesNamed
    <2> QED
      BY <2>5, <2>6, <2>7, <2>8, Zenon
  <1> QED
    BY <1>1, <1>2, <1>3

\* What a member is cut into, begins with what the grammar says.
LEMMA MemberCut ==
  ASSUME NEW n \in Nat, Known(n), NEW s \in Seq(Types), NEW e \in Seq(Types),
         SizeAs("member", s \o e) <= n, Word("member", s \o e)
  PROVE  Begins("member", s)
  <1>1. PICK v \in Seq(Types) : /\ Word("value", v)
                                /\ s \o e = <<"string">> \o (<<"name_separator">> \o v)
    BY MemberForms, Zenon
  <1>2. PICK a \in Seq(Types) : a = <<"name_separator">> \o v
    BY TypesNamed, SizesAre
  <1>3. CASE s = <<>>
    BY <1>3, MemberBegins
  <1>4. CASE s # <<>>
    <2>1. PICK h \in Types, r \in Seq(Types) : s = <<h>> \o r
      BY <1>4, FirstType, Zenon
    <2>2. (<<h>> \o r) \o e = <<h>> \o (r \o e) /\ r \o e \in Seq(Types)
      BY Assoc
    <2>3. h = "string" /\ r \o e = a
      <3>1. PICK b \in Seq(Types) : b = r \o e
        BY <2>2
      <3>2. PICK t \in Types : t = "string"
        BY TypesNamed
      <3>3. s \o e = <<h>> \o b
        BY <2>1, <2>2, <3>1, Zenon
      <3>4. s \o e = <<t>> \o a
        BY <1>1, <1>2, <3>2, Zenon
      <3>5. Prefixed(s \o e, h, b) /\ Prefixed(s \o e, t, a)
        BY <3>3, <3>4, Zenon DEF Prefixed
      <3>6. h = t /\ b = a
        BY <3>5, PrefixedSame, Zenon
      <3> QED
        BY <3>1, <3>2, <3>6, Zenon
    <2>4. CASE r = <<>>
      <3>1. s = <<"string">>
        BY <2>1, <2>3, <2>4
      <3> QED
        BY <3>1, MemberBegins
    <2>5. CASE r # <<>>
      <3>1. PICK g \in Types, q \in Seq(Types) : r = <<g>> \o q
        BY <2>5, FirstType, Zenon
      <3>2. (<<g>> \o q) \o e = <<g>> \o (q \o e) /\ q \o e \in Seq(Types)
        BY Assoc
      <3>3. g = "name_separator" /\ q \o e = v
        <4>1. PICK b \in Seq(Types) : b = q \o e
          BY <3>2
        <4>2. PICK u \in Types : u = "name_separator"
          BY TypesNamed
        <4>3. Prefixed(a, g, b) /\ Prefixed(a, u, v)
          BY <1>2, <2>3, <3>1, <3>2, <4>1, <4>2 DEF Prefixed
        <4>4. g = u /\ b = v
          BY <4>3, PrefixedSame, Zenon
        <4> QED
          BY <4>1, <4>2, <4>4
      <3>4. Begins("value", q)
        <4>1. Len(s \o e) = Len(v) + 2 /\ Len(v) \in Nat
          BY <1>1, Twice
        <4>2. SizeAs("value", q \o e) < n
          BY <3>3, <4>1, ItemKinds DEF SizeAs
        <4>3. "value" \in Kinds
          BY DEF Kinds
        <4> QED
          BY <1>1, <3>3, <4>2, <4>3, Zenon DEF Known
      <3>5. s = <<"string">> \o (<<"name_separator">> \o q)
        BY <2>1, <2>3, <3>1, <3>3
      <3> QED
        BY <3>4, <3>5, MemberBegins, Zenon
    <2> QED
      BY <2>4, <2>5
  <1> QED
    BY <1>3, <1>4

\* s is two sequences, one after the other.
InTwo(s, a, b) == a \in Seq(Types) /\ b \in Seq(Types) /\ s = a \o b

\* Sequences one after the other, in either grouping.
LEMMA Associative == \A a, b, c \in Seq(Types) : (a \o b) \o c = a \o (b \o c)
  BY Joined

\* The first of two cuts of a sequence, into a and b, is not behind the second, into c and d.
Meets(a, b, c, d) == \E x \in Seq(Types) : c = a \o x /\ b = x \o d

\* Of a sequence cut in two places the second part begins in the first, or the first ends in it.
LEMMA TwoCuts ==
  ASSUME NEW s, NEW a, NEW b, NEW c, NEW d, InTwo(s, a, b), InTwo(s, c, d), Len(a) <= Len(c)
  PROVE  Meets(a, b, c, d)
  <1> SUFFICES ASSUME a \in Seq(Types), b \in Seq(Types), c \in Seq(Types), d \in Seq(Types), a \o b = c \o d
               PROVE  Meets(a, b, c, d)
    BY Zenon DEF InTwo
  <1> DEFINE x == SubSeq(c, Len(a) + 1, Len(c))
  <1>1. Len(a) \in Nat /\ Len(c) \in Nat /\ x \in Seq(Types)
    OBVIOUS
  <1>2. c = SubSeq(c, 1, Len(a)) \o x
    <2>1. 1 \in 1..Len(c) + 1 /\ Len(a) \in (1 - 1)..Len(c) /\ Len(c) \in Len(a)..Len(c)
      BY <1>1
    <2>2. SubSeq(c, 1, Len(a)) \o SubSeq(c, Len(a) + 1, Len(c)) = SubSeq(c, 1, Len(c))
      BY <2>1, ConcatAdjacentSubSeq, Zenon
    <2> QED
      BY <2>2, SubSeqFull
  <1>3. SubSeq(c, 1, Len(a)) = a
    <2>1. Len(SubSeq(c, 1, Len(a))) = Len(a) /\ SubSeq(c, 1, Len(a)) \in Seq(Types)
      BY <1>1
    <2>2. \A i \in 1..Len(a) : SubSeq(c, 1, Len(a))[i] = a[i]
      <3> TAKE i \in 1..Len(a)
      <3>1. SubSeq(c, 1, Len(a))[i] = c[i]
        BY <1>1
      <3>2. (a \o b)[i] = a[i] /\ (c \o d)[i] = c[i]
        BY <1>1, ConcatProperties
      <3> QED
        BY <3>1, <3>2
    <2> QED
      BY <2>1, <2>2, SeqEqual
  <1> HIDE DEF x
  <1>4. c = a \o x
    BY <1>2, <1>3
  <1>5. a \o b = a \o (x \o d)
    <2>1. (a \o x) \o d = a \o (x \o d)
      BY <1>1, Associative, Zenon
    <2> QED
      BY <1>4, <2>1, Zenon
  <1>6. x \o d \in Seq(Types)
    BY <1>1
  <1>7. b = x \o d
    <2>1. \A e, f, g \in Seq(Types) : e \o f = e \o g => f = g
      BY ConcatSimplifications, Zenon
    <2> QED
      BY <1>5, <1>6, <2>1, Zenon
  <1> QED
    BY <1>1, <1>4, <1>7, Zenon DEF Meets

\* What the contents of a container are cut into, begins with what the grammar says.
LEMMA ListCut ==
  ASSUME NEW n \in Nat, Known(n), NEW c \in Structures, NEW s \in Seq(Types), NEW e \in Seq(Types),
         SizeAs(c, s \o e) <= n, Word(c, s \o e)
  PROVE  Begins(c, s)
  <1>0. \A t \in Types, a, b \in Seq(Types) : (<<t>> \o a) \o b = <<t>> \o (a \o b)
    BY Assoc
  <1>1. CASE Word(Item[c], s \o e)
    <2>1. Item[c] \in Kinds /\ Item[c] \notin Structures
      BY ItemKinds
    <2>2. SizeAs(Item[c], s \o e) < n
      BY <2>1, SizesAre DEF SizeAs
    <2>3. Begins(Item[c], s)
      BY <1>1, <2>1, <2>2, Zenon DEF Known
    <2> QED
      BY <2>3, ListBegins
  <1>2. ASSUME NEW v \in Seq(Types), NEW w \in Seq(Types), Word(Item[c], v), Word(c, w),
               s \o e = v \o (<<"value_separator">> \o w)
        PROVE  Begins(c, s)
    <2>1. PICK u \in Types : u = "value_separator"
      BY TypesNamed
    <2>2. PICK y \in Seq(Types) : y = <<u>> \o w
      BY SizesAre
    <2>3. s \o e = v \o y
      BY <1>2, <2>1, <2>2
    <2>4. Len(s \o e) = Len(v) + Len(w) + 1 /\ Len(v) \in Nat /\ Len(w) \in Nat /\ Len(s) \in Nat
      BY <2>2, <2>3, SizesAre
    <2>5. CASE Len(s) <= Len(v)
      <3>1. PICK x \in Seq(Types) : v = s \o x
        <4>1. InTwo(s \o e, s, e) /\ InTwo(s \o e, v, y)
          BY <2>3, Zenon DEF InTwo
        <4>2. Meets(s, e, v, y)
          BY <2>5, <4>1, TwoCuts, Zenon
        <4> QED
          BY <4>2, Zenon DEF Meets
      <3>2. Item[c] \in Kinds /\ Item[c] \notin Structures
        BY ItemKinds
      <3>3. SizeAs(Item[c], v) < n
        BY <2>4, <3>2 DEF SizeAs
      <3>4. Begins(Item[c], s)
        BY <1>2, <3>1, <3>2, <3>3, Zenon DEF Known
      <3> QED
        BY <3>4, ListBegins
    <2>6. CASE Len(v) < Len(s)
      <3>1. PICK x \in Seq(Types) : s = v \o x /\ y = x \o e
        <4>1. InTwo(s \o e, s, e) /\ InTwo(s \o e, v, y)
          BY <2>3, Zenon DEF InTwo
        <4>2. Len(v) <= Len(s)
          BY <2>4, <2>6
        <4>3. Meets(v, y, s, e)
          BY <4>1, <4>2, TwoCuts, Zenon
        <4> QED
          BY <4>3, Zenon DEF Meets
      <3>2. x # <<>>
        BY <2>4, <2>6, <3>1, SizesAre
      <3>3. PICK g \in Types, q \in Seq(Types) : x = <<g>> \o q
        BY <3>2, FirstType, Zenon
      <3>4. PICK b \in Seq(Types) : b = q \o e
        BY SizesAre
      <3>5. g = u /\ w = b
        <4>1. (<<g>> \o q) \o e = <<g>> \o (q \o e)
          BY <1>0, <3>3, Zenon
        <4>2. y = <<g>> \o b
          BY <3>1, <3>3, <3>4, <4>1, Zenon
        <4>3. Prefixed(y, g, b) /\ Prefixed(y, u, w)
          BY <2>2, <4>2, Zenon DEF Prefixed
        <4> QED
          BY <4>3, PrefixedSame, Zenon
      <3>6. Begins(c, q)
        <4>1. c \in Kinds
          BY ItemKinds
        <4>2. SizeAs(c, w) < n
          BY <2>4 DEF SizeAs
        <4> QED
          BY <1>2, <3>4, <3>5, <4>1, <4>2, Zenon DEF Known
      <3>7. s = v \o (<<"value_separator">> \o q)
        BY <2>1, <3>1, <3>3, <3>5
      <3> QED
        BY <1>2, <3>6, <3>7, ListBegins, Zenon
    <2> QED
      BY <2>4, <2>5, <2>6
  <1> QED
    BY <1>1, <1>2, ListForms, Zenon

\* Whatever begins what the grammar allows is what it allows to begin with.
LEMMA CutBegins ==
  ASSUME NEW kind \in Kinds, NEW s \in Seq(Types), NEW e \in Seq(Types), Word(kind, s \o e)
  PROVE  Begins(kind, s)
  <1>1. ASSUME NEW n \in Nat, Known(n)
        PROVE  Known(n + 1)
    <2> SUFFICES ASSUME NEW k \in Kinds, NEW a \in Seq(Types), NEW b \in Seq(Types),
                        SizeAs(k, a \o b) < n + 1, Word(k, a \o b)
                 PROVE  Begins(k, a)
      BY Zenon DEF Known
    <2>1. SizeAs(k, a \o b) <= n
      <3>1. SizeAs(k, a \o b) \in Nat
        BY SizesAre DEF SizeAs
      <3> QED
        BY <3>1
    <2>2. k \in {"value", "member"} \cup Structures
      BY DEF Kinds
    <2> QED
      BY <1>1, <2>1, <2>2, ValueCut, MemberCut, ListCut
  <1>2. Known(0)
    <2>1. \A k \in Kinds, a, b \in Seq(Types) : ~(SizeAs(k, a \o b) < 0)
      BY SizesAre DEF SizeAs
    <2> QED
      BY <2>1, Zenon DEF Known
  <1>3. ASSUME NEW m \in Nat
        PROVE  Known(m)
    <2> DEFINE C == {n \in 0..m : Known(n)}
    <2>1. 0 \in C
      BY <1>2
    <2>2. \A n \in 0..m : n \in C /\ n < m => n + 1 \in C
      BY <1>1
    <2>3. 0..m \subseteq C
      <3> HIDE DEF C
      <3> QED
        BY <2>1, <2>2, Upwards
    <2> QED
      BY <2>3
  <1>4. SizeAs(kind, s \o e) \in Nat /\ SizeAs(kind, s \o e) + 1 \in Nat
        /\ SizeAs(kind, s \o e) < SizeAs(kind, s \o e) + 1
    BY SizesAre DEF SizeAs
  <1> QED
    BY <1>3, <1>4, Zenon DEF Known

\* s begins something of a kind.
Completes(kind, s) == \E e \in Seq(Types) : Word(kind, s \o e)

\* Whatever is smaller than n and has the beginnings that the grammar says, begins something.
Completed(n) == \A kind \in Kinds, s \in Seq(Types) :
                  SizeAs(kind, s) < n /\ Begins(kind, s) => Completes(kind, s)

\* What follows the items of a container follows the last of them.
LEMMA FollowingItems ==
  \A u \in Types : \A v, z, e \in Seq(Types) : (v \o (<<u>> \o z)) \o e = v \o (<<u>> \o (z \o e))
  <1> SUFFICES ASSUME NEW u \in Types, NEW v \in Seq(Types), NEW z \in Seq(Types), NEW e \in Seq(Types)
               PROVE  (v \o (<<u>> \o z)) \o e = v \o (<<u>> \o (z \o e))
    BY Zenon
  <1>1. <<u>> \o z \in Seq(Types)
    BY SizesAre
  <1>2. (<<u>> \o z) \o e = <<u>> \o (z \o e)
    BY Assoc
  <1>3. (v \o (<<u>> \o z)) \o e = v \o ((<<u>> \o z) \o e)
    BY <1>1, Associative, Zenon
  <1> QED
    BY <1>2, <1>3, Zenon

\* What follows a member follows its value.
LEMMA FollowingTwo ==
  \A t, u \in Types : \A z, e \in Seq(Types) : (<<t>> \o (<<u>> \o z)) \o e = <<t>> \o (<<u>> \o (z \o e))
  <1>1. \A t \in Types : <<t>> \in Seq(Types)
    OBVIOUS
  <1> QED
    BY <1>1, FollowingItems, Zenon

\* What follows the contents of a container, and the bracket that ends it.
LEMMA FollowingInside ==
  \A t, u \in Types : \A z, e \in Seq(Types) : (<<t>> \o z) \o (e \o <<u>>) = <<t>> \o ((z \o e) \o <<u>>)
  <1> SUFFICES ASSUME NEW t \in Types, NEW u \in Types, NEW z \in Seq(Types), NEW e \in Seq(Types)
               PROVE  (<<t>> \o z) \o (e \o <<u>>) = <<t>> \o ((z \o e) \o <<u>>)
    BY Zenon
  <1> QED
    BY Regrouped

\* There is a value, a member, and something for a container to hold.
LEMMA SomeWord ==
  ASSUME NEW kind \in Kinds
  PROVE  \E e \in Seq(Types) : Word(kind, e)
  <1>1. "scalar" \in Types /\ "string" \in Types /\ "name_separator" \in Types
    BY TypesNamed
  <1>2. PICK a \in Seq(Types) : a = <<"scalar">>
    <2>1. \A t \in Types : <<t>> \in Seq(Types)
      OBVIOUS
    <2> QED
      BY <1>1, <2>1, Zenon
  <1>3. Word("value", a)
    BY <1>2, ValueForms, Zenon
  <1>4. \E e \in Seq(Types) : Word("member", e)
    <2>1. PICK b \in Seq(Types) : b = <<"name_separator">> \o a
      BY <1>1, SizesAre
    <2>2. PICK d \in Seq(Types) : d = <<"string">> \o b
      BY <1>1, SizesAre
    <2>3. d = <<"string">> \o (<<"name_separator">> \o a)
      BY <2>1, <2>2, Zenon
    <2>4. Word("member", d)
      BY <1>3, <2>3, MemberForms, Zenon
    <2> QED
      BY <2>4, Zenon
  <1>5. ASSUME NEW c \in Structures
        PROVE  \E e \in Seq(Types) : Word(c, e)
    <2>1. Item[c] \in {"value", "member"}
      BY Brackets, Zenon
    <2>2. PICK e \in Seq(Types) : Word(Item[c], e)
      BY <1>3, <1>4, <2>1, Zenon
    <2>3. Word(c, e)
      BY <2>2, ListForms, Zenon
    <2> QED
      BY <2>3, Zenon
  <1> QED
    BY <1>3, <1>4, <1>5, Zenon DEF Kinds

\* What is something of a kind, and nothing at all, begin something of it.
LEMMA CompletesEnds ==
  ASSUME NEW kind \in Kinds, NEW s \in Seq(Types), Word(kind, s) \/ s = <<>>
  PROVE  Completes(kind, s)
  <1>1. CASE Word(kind, s)
    <2>1. s \o <<>> = s /\ <<>> \in Seq(Types)
      BY ConcatEmptySeq
    <2> QED
      BY <1>1, <2>1, Zenon DEF Completes
  <1>2. CASE s = <<>>
    <2>1. PICK e \in Seq(Types) : Word(kind, e)
      BY SomeWord, Zenon
    <2>2. s \o e = e
      BY <1>2, ConcatEmptySeq
    <2> QED
      BY <2>1, <2>2, Zenon DEF Completes
  <1> QED
    BY <1>1, <1>2

\* What has the beginnings of a value begins one.
LEMMA ValueCompletes ==
  ASSUME NEW n \in Nat, Completed(n), NEW s \in Seq(Types), SizeAs("value", s) <= n, Begins("value", s)
  PROVE  Completes("value", s)
  <1>1. "value" \in Kinds /\ "value" \notin Structures
    BY ItemKinds
  <1>2. CASE Word("value", s) \/ s = <<>>
    BY <1>1, <1>2, CompletesEnds, Zenon
  <1>3. ASSUME NEW c \in Structures, NEW z \in Seq(Types), s = <<Opening[c]>> \o z, Begins(c, z)
        PROVE  Completes("value", s)
    <2>1. PICK t \in Types, u \in Types : t = Opening[c] /\ u = Closing[c]
      BY TypesNamed
    <2>2. c \in Kinds
      BY ItemKinds
    <2>3. SizeAs(c, z) < n
      <3>1. s = <<t>> \o z
        BY <1>3, <2>1
      <3>2. Len(s) = Len(z) + 1 /\ Len(z) \in Nat
        BY <3>1, SizesAre
      <3> QED
        BY <1>1, <3>2 DEF SizeAs
    <2>4. PICK e \in Seq(Types) : Word(c, z \o e)
      BY <1>3, <2>2, <2>3, Zenon DEF Completed, Completes
    <2>5. z \o e \in Seq(Types) /\ e \o <<u>> \in Seq(Types)
          /\ (<<t>> \o z) \o (e \o <<u>>) = <<t>> \o ((z \o e) \o <<u>>)
      <3>1. (<<t>> \o z) \o (e \o <<u>>) = <<t>> \o ((z \o e) \o <<u>>)
        BY FollowingInside, Zenon
      <3>2. z \o e \in Seq(Types) /\ e \o <<u>> \in Seq(Types)
        BY SizesAre
      <3> QED
        BY <3>1, <3>2, Zenon
    <2>6. s \o (e \o <<u>>) = <<Opening[c]>> \o ((z \o e) \o <<Closing[c]>>)
      BY <1>3, <2>1, <2>5
    <2>7. Held(c, z \o e)
      BY <2>4, Zenon DEF Held
    <2>8. Word("value", s \o (e \o <<u>>))
      BY <2>5, <2>6, <2>7, ValueForms, Zenon
    <2> QED
      BY <2>5, <2>8, Zenon DEF Completes
  <1> QED
    BY <1>2, <1>3, ValueBegins, Zenon

\* What has the beginnings of a member begins one.
LEMMA MemberCompletes ==
  ASSUME NEW n \in Nat, Completed(n), NEW s \in Seq(Types), SizeAs("member", s) <= n, Begins("member", s)
  PROVE  Completes("member", s)
  <1>1. "member" \in Kinds /\ "member" \notin Structures /\ "value" \in Kinds /\ "value" \notin Structures
    BY ItemKinds
  <1>2. PICK t \in Types, u \in Types : t = "string" /\ u = "name_separator"
    BY TypesNamed
  <1>3. CASE Word("member", s) \/ s = <<>>
    BY <1>1, <1>3, CompletesEnds, Zenon
  <1>4. CASE s = <<"string">>
    <2>1. PICK e \in Seq(Types) : Word("value", e)
      BY <1>1, SomeWord, Zenon
    <2>2. <<u>> \o e \in Seq(Types)
      BY SizesAre
    <2>3. s \o (<<u>> \o e) = <<"string">> \o (<<"name_separator">> \o e)
      BY <1>2, <1>4, Zenon
    <2>4. Word("member", s \o (<<u>> \o e))
      BY <2>1, <2>3, MemberForms, Zenon
    <2> QED
      BY <2>2, <2>4, Zenon DEF Completes
  <1>5. ASSUME NEW z \in Seq(Types), s = <<"string">> \o (<<"name_separator">> \o z), Begins("value", z)
        PROVE  Completes("member", s)
    <2>1. s = <<t>> \o (<<u>> \o z)
      BY <1>2, <1>5, Zenon
    <2>2. SizeAs("value", z) < n
      <3>1. Len(s) = Len(z) + 2 /\ Len(z) \in Nat
        BY <2>1, Twice
      <3> QED
        BY <1>1, <3>1 DEF SizeAs
    <2>3. PICK e \in Seq(Types) : Word("value", z \o e)
      BY <1>1, <1>5, <2>2, Zenon DEF Completed, Completes
    <2>4. z \o e \in Seq(Types) /\ (<<t>> \o (<<u>> \o z)) \o e = <<t>> \o (<<u>> \o (z \o e))
      <3>1. (<<t>> \o (<<u>> \o z)) \o e = <<t>> \o (<<u>> \o (z \o e))
        BY FollowingTwo, Zenon
      <3>2. z \o e \in Seq(Types)
        BY SizesAre
      <3> QED
        BY <3>1, <3>2, Zenon
    <2>5. s \o e = <<"string">> \o (<<"name_separator">> \o (z \o e))
      BY <1>2, <2>1, <2>4, Zenon
    <2>6. Word("member", s \o e)
      BY <2>3, <2>4, <2>5, MemberForms, Zenon
    <2> QED
      BY <2>6, Zenon DEF Completes
  <1> QED
    BY <1>3, <1>4, <1>5, MemberBegins, Zenon

\* What has the beginnings of the contents of a container begins them.
LEMMA ListCompletes ==
  ASSUME NEW n \in Nat, Completed(n), NEW c \in Structures, NEW s \in Seq(Types), SizeAs(c, s) <= n, Begins(c, s)
  PROVE  Completes(c, s)
  <1>1. c \in Kinds /\ Item[c] \in Kinds /\ Item[c] \notin Structures
    BY ItemKinds
  <1>2. CASE Word(c, s) \/ s = <<>>
    BY <1>1, <1>2, CompletesEnds, Zenon
  <1>3. CASE Begins(Item[c], s)
    <2>1. SizeAs(Item[c], s) < n
      BY <1>1, SizesAre DEF SizeAs
    <2>2. PICK e \in Seq(Types) : Word(Item[c], s \o e)
      BY <1>1, <1>3, <2>1, Zenon DEF Completed, Completes
    <2>3. Word(c, s \o e)
      BY <2>2, ListForms, Zenon
    <2> QED
      BY <2>3, Zenon DEF Completes
  <1>4. ASSUME NEW v \in Seq(Types), NEW z \in Seq(Types), Word(Item[c], v), Begins(c, z),
               s = v \o (<<"value_separator">> \o z)
        PROVE  Completes(c, s)
    <2>0. \A u \in Types : \A a, b \in Seq(Types) : (v \o (<<u>> \o a)) \o b = v \o (<<u>> \o (a \o b))
      BY FollowingItems
    <2>1. PICK u \in Types : u = "value_separator"
      BY TypesNamed
    <2>2. PICK y \in Seq(Types) : y = <<u>> \o z
      BY SizesAre
    <2>3. s = v \o y
      BY <1>4, <2>1, <2>2, Zenon
    <2>4. Len(s) = Len(v) + Len(z) + 1 /\ Len(v) \in Nat /\ Len(z) \in Nat
      BY <2>2, <2>3, SizesAre
    <2>5. SizeAs(c, z) < n
      BY <2>4 DEF SizeAs
    <2>6. PICK e \in Seq(Types) : Word(c, z \o e)
      BY <1>1, <1>4, <2>5, Zenon DEF Completed, Completes
    <2>7. z \o e \in Seq(Types) /\ (v \o (<<u>> \o z)) \o e = v \o (<<u>> \o (z \o e))
      <3>1. (v \o (<<u>> \o z)) \o e = v \o (<<u>> \o (z \o e))
        BY <2>0, Zenon
      <3>2. z \o e \in Seq(Types)
        BY SizesAre
      <3> QED
        BY <3>1, <3>2, Zenon
    <2>8. s \o e = v \o (<<"value_separator">> \o (z \o e))
      BY <1>4, <2>1, <2>7, Zenon
    <2>9. Word(c, s \o e)
      BY <1>4, <2>6, <2>7, <2>8, ListForms, Zenon
    <2> QED
      BY <2>9, Zenon DEF Completes
  <1> QED
    BY <1>2, <1>3, <1>4, ListBegins, Zenon

\* Whatever has the beginnings that the grammar says can be completed.
LEMMA BeginsCompletes ==
  ASSUME NEW kind \in Kinds, NEW s \in Seq(Types), Begins(kind, s)
  PROVE  Completes(kind, s)
  <1>1. ASSUME NEW n \in Nat, Completed(n)
        PROVE  Completed(n + 1)
    <2> SUFFICES ASSUME NEW k \in Kinds, NEW a \in Seq(Types), SizeAs(k, a) < n + 1, Begins(k, a)
                 PROVE  Completes(k, a)
      BY Zenon DEF Completed
    <2>1. SizeAs(k, a) <= n
      <3>1. SizeAs(k, a) \in Nat
        BY SizesAre DEF SizeAs
      <3> QED
        BY <3>1
    <2>2. k \in {"value", "member"} \cup Structures
      BY DEF Kinds
    <2> QED
      BY <1>1, <2>1, <2>2, ValueCompletes, MemberCompletes, ListCompletes
  <1>2. Completed(0)
    <2>1. \A k \in Kinds, a \in Seq(Types) : ~(SizeAs(k, a) < 0)
      BY SizesAre DEF SizeAs
    <2> QED
      BY <2>1, Zenon DEF Completed
  <1>3. ASSUME NEW m \in Nat
        PROVE  Completed(m)
    <2> DEFINE C == {n \in 0..m : Completed(n)}
    <2>1. 0 \in C
      BY <1>2
    <2>2. \A n \in 0..m : n \in C /\ n < m => n + 1 \in C
      BY <1>1
    <2>3. 0..m \subseteq C
      <3> HIDE DEF C
      <3> QED
        BY <2>1, <2>2, Upwards
    <2> QED
      BY <2>3
  <1>4. SizeAs(kind, s) \in Nat /\ SizeAs(kind, s) + 1 \in Nat /\ SizeAs(kind, s) < SizeAs(kind, s) + 1
    BY SizesAre DEF SizeAs
  <1> QED
    BY <1>3, <1>4, Zenon DEF Completed

\* What has been read begins a value of the grammar's exactly as long as the parser has not failed.
LEMMA VerdictFollows ==
  InvParser => Verdict
  <1> SUFFICES ASSUME InvParser PROVE Verdict
    OBVIOUS
  <1>1. /\ read \in Seq(Token) /\ at \in Places /\ states \in Seq(Structures)
        /\ (at = "after" => states # <<>>) /\ (at = "end" => states = <<>>)
        /\ (at # "accepted" => Reading(read, at, states))
    BY DEF InvParser
  <1>2. TypesOf(read) \in Seq(Types) /\ "value" \in Kinds
    <2>1. \A i \in 1..Len(read) : read[i].type \in Types
      BY <1>1, TokenTypes
    <2> QED
      BY <1>1, <2>1, ItemKinds DEF TypesOf
  <1>3. BeginsValue(read) <=> Begins("value", TypesOf(read))
    BY Zenon DEF BeginsValue, Begins
  <1>4. at = "accepted" => IsValue(Front(read)) /\ Last(read).type = "end_of_input"
    BY Zenon DEF InvParser
  <1>5. at = "failed" /\ Last(read).type = "end_of_input" => ~IsValue(Front(read))
    BY Zenon DEF InvParser
  <1>6. ASSUME at = "failed"
        PROVE  ~BeginsValue(read)
    <2>1. Reading(read, "failed", states)
      BY <1>1, <1>6
    <2>2. PICK L : \A e \in Seq(Types) : Word("value", TypesOf(read) \o e) <=> e \in Rest("failed", L)
      BY <2>1, Zenon DEF Reading
    <2>3. Rest("failed", L) = {}
      BY RestIs
    <2>4. \A e \in Seq(Types) : ~Word("value", TypesOf(read) \o e)
      BY <2>2, <2>3
    <2>5. ~Completes("value", TypesOf(read))
      BY <2>4, Zenon DEF Completes
    <2> QED
      BY <1>2, <1>3, <2>5, BeginsCompletes, Zenon
  <1>7. ASSUME at = "end"
        PROVE  IsValue(read)
    <2>1. Reading(read, "end", <<>>)
      BY <1>1, <1>7
    <2> QED
      BY <1>1, <2>1, Complete
  <1>8. ASSUME at \notin {"accepted", "failed", "end"}
        PROVE  BeginsValue(read) /\ ~IsValue(read)
    <2>1. Reading(read, at, states) /\ (at \in Amid \/ (at = "after" /\ states # <<>>))
      BY <1>1, <1>8 DEF Places
    <2>2. ~IsValue(read) /\ \E e \in Seq(Types) : Word("value", TypesOf(read) \o e)
      BY <1>1, <2>1, NotYet
    <2> QED
      BY <1>2, <1>3, <2>2, CutBegins, Zenon
  <1> QED
    BY <1>4, <1>5, <1>6, <1>7, <1>8, Zenon DEF Verdict

\* Whatever tokens a text has, however many and however deeply nested: parse() (parser::sax_parse_internal())
\* accepts exactly the texts of one value, and refuses every other at the first token that no text has there.
THEOREM VerdictHolds == SpecParser => []Verdict
  <1>1. InvParser => Verdict
    BY VerdictFollows
  <1> QED
    BY <1>1, ParserReads, PTL
=============================================================================
