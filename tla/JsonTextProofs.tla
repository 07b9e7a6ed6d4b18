--------------------------- MODULE JsonTextProofs ---------------------------
(***************************************************************************)
(* What numbers and strings are in JSON, as the lexer meets them: byte by  *)
(* byte, and without knowing what follows.                                 *)
(***************************************************************************)
EXTENDS JsonLexerProps, Induction, SequenceTheorems

-----------------------------------------------------------------------------
(* Numbers: the grammar in terms of places.                                 *)

\* Whether a minus comes first.
Sign(s) == IF s # <<>> /\ s[1] = 45 THEN 1 ELSE 0

DigitsAt(s, i, j) == i <= j /\ \A k \in i..j : s[k] \in Digit
WholeAt(s, p, i) == DigitsAt(s, p + 1, i) /\ (i > p + 1 => s[p + 1] # Zero)
FractionAt(s, i, j) == i = j \/ (i < j /\ s[i + 1] = 46 /\ DigitsAt(s, i + 2, j))
ExponentAt(s, j, n) == \/ j = n
                       \/ j < n /\ s[j + 1] \in {69, 101} /\ DigitsAt(s, j + 2, n)
                       \/ /\ j + 1 < n /\ s[j + 1] \in {69, 101} /\ s[j + 2] \in {43, 45}
                          /\ DigitsAt(s, j + 3, n)
NumberAt(s, p, i, j, n) == i <= j /\ WholeAt(s, p, i) /\ FractionAt(s, i, j) /\ ExponentAt(s, j, n)

\* The digits of a slice are the digits at its place.
LEMMA DigitsPart ==
  ASSUME NEW u \in Seq(Int), NEW a \in Nat \ {0}, NEW b \in 0..Len(u), a <= b + 1
  PROVE  /\ SubSeq(u, a, b) \in Seq(Int) /\ Len(SubSeq(u, a, b)) = b - a + 1
         /\ \A k \in 1..(b - a + 1) : SubSeq(u, a, b)[k] = u[a + k - 1]
         /\ Digits(SubSeq(u, a, b)) <=> DigitsAt(u, a, b)
  <1> DEFINE v == SubSeq(u, a, b)
             n == b - a + 1
  <1>1. /\ n \in Nat /\ v \in Seq(Int) /\ Len(v) = n /\ DOMAIN v = 1..n
        /\ \A k \in 1..n : v[k] = u[a + k - 1]
    OBVIOUS
  <1>2. v # <<>> <=> a <= b
    <2> HIDE DEF v
    <2> QED
      BY <1>1
  <1>3. ASSUME \A i \in DOMAIN v : v[i] \in Digit
        PROVE  \A k \in a..b : u[k] \in Digit
    <2> HIDE DEF v
    <2> SUFFICES ASSUME NEW k \in a..b PROVE u[k] \in Digit
      OBVIOUS
    <2>1. PICK i \in 1..n : a + i - 1 = k
      <3>1. k - a + 1 \in 1..n /\ a + (k - a + 1) - 1 = k
        OBVIOUS
      <3> QED
        BY <3>1
    <2>2. v[i] = u[k]
      BY <1>1, <2>1
    <2>3. v[i] \in Digit
      BY <1>1, <1>3
    <2> QED
      BY <2>2, <2>3
  <1>4. ASSUME \A k \in a..b : u[k] \in Digit
        PROVE  \A i \in DOMAIN v : v[i] \in Digit
    <2> HIDE DEF v
    <2> SUFFICES ASSUME NEW i \in 1..n PROVE v[i] \in Digit
      BY <1>1
    <2>1. a + i - 1 \in a..b
      OBVIOUS
    <2>2. v[i] = u[a + i - 1]
      BY <1>1
    <2> QED
      BY <1>4, <2>1, <2>2
  <1> HIDE DEF v
  <1>5. Digits(v) <=> DigitsAt(u, a, b)
    BY <1>2, <1>3, <1>4 DEF Digits, DigitsAt
  <1> QED
    BY <1>1, <1>5 DEF v

\* The same without the first byte.
LEMMA DigitsRest ==
  ASSUME NEW u \in Seq(Int), NEW a \in Nat \ {0}, NEW b \in 0..Len(u), a <= b
  PROVE  /\ Tail(SubSeq(u, a, b)) = SubSeq(u, a + 1, b) 
         /\ Digits(Tail(SubSeq(u, a, b))) <=> DigitsAt(u, a + 1, b)
  <1> DEFINE v == SubSeq(u, a, b)
             w == SubSeq(u, a + 1, b)
  <1>1. v \in Seq(Int) /\ Len(v) = b - a + 1 /\ \A k \in 1..(b - a + 1) : v[k] = u[a + k - 1]
    BY DigitsPart
  <1>2. w \in Seq(Int) /\ Len(w) = b - a /\ \A k \in 1..(b - a) : w[k] = u[a + k]
    OBVIOUS
  <1> HIDE DEF v, w
  <1>3. Tail(v) \in Seq(Int) /\ Len(Tail(v)) = b - a /\ \A k \in 1..(b - a) : Tail(v)[k] = v[k + 1]
    BY <1>1
  <1>4. \A k \in 1..(b - a) : Tail(v)[k] = w[k]
    <2> TAKE k \in 1..(b - a)
    <2>1. k + 1 \in 1..(b - a + 1) /\ a + (k + 1) - 1 = a + k
      OBVIOUS
    <2>2. v[k + 1] = u[a + k]
      BY <1>1, <2>1
    <2> QED
      BY <1>2, <1>3, <2>2
  <1>5. Tail(v) = w
    BY <1>2, <1>3, <1>4, SeqEqual
  <1>6. Digits(w) <=> DigitsAt(u, a + 1, b)
    BY DigitsPart DEF w
  <1> QED
    BY <1>5, <1>6 DEF v, w

\* s is u behind p bytes.
LEMMA DigitsShift ==
  ASSUME NEW s \in Seq(Int), NEW u \in Seq(Int), NEW p \in Nat, \A k \in 1..Len(u) : u[k] = s[k + p],
         NEW a \in Nat \ {0}, NEW b \in 0..Len(u)
  PROVE  DigitsAt(u, a, b) <=> DigitsAt(s, a + p, b + p)
  <1>1. ASSUME \A k \in a..b : u[k] \in Digit, NEW k \in (a + p)..(b + p)
        PROVE  s[k] \in Digit
    <2>1. k - p \in a..b /\ k - p \in 1..Len(u) /\ (k - p) + p = k
      OBVIOUS
    <2> QED
      BY <1>1, <2>1
  <1>2. ASSUME \A k \in (a + p)..(b + p) : s[k] \in Digit, NEW k \in a..b
        PROVE  u[k] \in Digit
    <2>1. k + p \in (a + p)..(b + p) /\ k \in 1..Len(u)
      OBVIOUS
    <2> QED
      BY <1>2, <2>1
  <1>3. a <= b <=> a + p <= b + p
    OBVIOUS
  <1> QED
    BY <1>1, <1>2, <1>3 DEF DigitsAt

\* The three parts of a number, cut out of u, are the parts of s at the same place behind its sign.
LEMMA PartsOfNumber ==
  ASSUME NEW s \in Seq(Int), NEW u \in Seq(Int), NEW p \in Nat, Len(s) = Len(u) + p,
         \A k \in 1..Len(u) : u[k] = s[k + p],
         NEW i \in 0..Len(u), NEW j \in 0..Len(u), i <= j
  PROVE  /\ Whole(SubSeq(u, 1, i)) <=> WholeAt(s, p, i + p)
         /\ Fraction(SubSeq(u, i + 1, j)) <=> FractionAt(s, i + p, j + p)
         /\ Exponent(SubSeq(u, j + 1, Len(u))) <=> ExponentAt(s, j + p, Len(s))
  <1> DEFINE n == Len(u)
  <1>0. n \in Nat /\ Len(s) = n + p
    OBVIOUS
  <1>1. Whole(SubSeq(u, 1, i)) <=> WholeAt(s, p, i + p)
    <2> DEFINE v == SubSeq(u, 1, i)
    <2>1. Len(v) = i /\ (i > 0 => v[1] = u[1]) /\ (Digits(v) <=> DigitsAt(u, 1, i))
      BY DigitsPart
    <2>2. DigitsAt(u, 1, i) <=> DigitsAt(s, p + 1, i + p)
      <3>1. DigitsAt(u, 1, i) <=> DigitsAt(s, 1 + p, i + p)
        BY DigitsShift, SMTT(60)
      <3> QED
        BY <3>1
    <2>3. i > 1 => u[1] = s[p + 1]
      OBVIOUS
    <2>4. (i > 1 <=> i + p > p + 1) /\ (i > 1 => i > 0)
      OBVIOUS
    <2>5. Len(v) > 1 <=> i > 1
      BY <2>1, Zenon
    <2>6. Whole(v) <=> WholeAt(s, p, i + p)
      <3> HIDE DEF v
      <3> QED
        BY <2>1, <2>2, <2>3, <2>4, <2>5, Zenon DEF Whole, WholeAt
    <2> QED
      BY <2>6
  <1>2. Fraction(SubSeq(u, i + 1, j)) <=> FractionAt(s, i + p, j + p)
    <2> DEFINE v == SubSeq(u, i + 1, j)
    <2>1. v \in Seq(Int) /\ Len(v) = j - i /\ (i < j => v[1] = u[i + 1])
      <3>1. i + 1 \in Nat \ {0} /\ i + 1 <= j + 1 /\ j - (i + 1) + 1 = j - i
        OBVIOUS
      <3>2. v \in Seq(Int) /\ Len(v) = j - (i + 1) + 1 /\ \A k \in 1..(j - (i + 1) + 1) : v[k] = u[(i + 1) + k - 1]
        BY <3>1, DigitsPart
      <3>3. i < j => 1 \in 1..(j - i) /\ (i + 1) + 1 - 1 = i + 1
        OBVIOUS
      <3> HIDE DEF v
      <3> QED
        BY <3>1, <3>2, <3>3
    <2>2. CASE i = j
      <3>1. v = <<>>
        BY <2>1, <2>2
      <3> QED
        BY <2>2, <3>1 DEF Fraction, FractionAt
    <2>3. CASE i < j
      <3>1. Digits(Tail(v)) <=> DigitsAt(u, i + 2, j)
        <4>1. (i + 1) + 1 = i + 2 /\ i + 1 \in Nat \ {0} /\ i + 1 <= j
          BY <2>3
        <4> QED
          BY <4>1, DigitsRest
      <3>2. DigitsAt(u, i + 2, j) <=> DigitsAt(s, (i + p) + 2, j + p)
        <4>1. DigitsAt(u, i + 2, j) <=> DigitsAt(s, (i + 2) + p, j + p)
          <5>1. i + 2 \in Nat \ {0}
            OBVIOUS
          <5> QED
            BY <5>1, DigitsShift
        <4>2. (i + 2) + p = (i + p) + 2
          OBVIOUS
        <4> QED
          BY <4>1, <4>2
      <3>3. v # <<>> /\ v[1] = s[(i + p) + 1] /\ i + p # j + p /\ i + p < j + p
        <4>1. u[i + 1] = s[(i + 1) + p] /\ (i + 1) + p = (i + p) + 1
          BY <2>3, SMTT(60)
        <4>2. v # <<>> /\ i + p # j + p /\ i + p < j + p
          <5> HIDE DEF v
          <5> QED
            BY <2>1, <2>3
        <4>3. u[i + 1] = s[(i + p) + 1]
          BY <4>1
        <4>4. v[1] = u[i + 1]
          BY <2>1, <2>3, Zenon
        <4> QED
          BY <4>2, <4>3, <4>4, Zenon
      <3>4. Fraction(v) <=> FractionAt(s, i + p, j + p)
        <4> HIDE DEF v
        <4> QED
          BY <3>1, <3>2, <3>3, Zenon DEF Fraction, FractionAt
      <3> QED
        BY <3>4
    <2> QED
      BY <2>2, <2>3
  <1>3. Exponent(SubSeq(u, j + 1, n)) <=> ExponentAt(s, j + p, Len(s))
    <2> DEFINE v == SubSeq(u, j + 1, n)
    <2>1. /\ v \in Seq(Int) /\ Len(v) = n - j /\ (j < n => v[1] = u[j + 1])
          /\ j + 1 < n => v[2] = u[j + 2]
      <3>1. j + 1 \in Nat \ {0} /\ n \in 0..Len(u) /\ j + 1 <= n + 1 /\ n - (j + 1) + 1 = n - j
        OBVIOUS
      <3>2. v \in Seq(Int) /\ Len(v) = n - (j + 1) + 1 /\ \A k \in 1..(n - (j + 1) + 1) : v[k] = u[(j + 1) + k - 1]
        BY <3>1, DigitsPart
      <3>3. /\ j < n => 1 \in 1..(n - j) /\ (j + 1) + 1 - 1 = j + 1
            /\ j + 1 < n => 2 \in 1..(n - j) /\ (j + 1) + 2 - 1 = j + 2
        OBVIOUS
      <3> HIDE DEF v, n
      <3> QED
        BY <1>0, <3>1, <3>2, <3>3
    <2>2. CASE j = n
      <3>1. v = <<>> /\ j + p = Len(s)
        BY <2>1, <2>2
      <3> QED
        BY <3>1 DEF Exponent, ExponentAt
    <2>3. CASE j < n
      <3>1. Digits(Tail(v)) <=> DigitsAt(u, j + 2, n)
        <4>1. (j + 1) + 1 = j + 2 /\ j + 1 \in Nat \ {0} /\ j + 1 <= n /\ n \in 0..Len(u)
          BY <2>3
        <4> QED
          BY <4>1, DigitsRest
      <3>2. ASSUME j + 1 < n
            PROVE  Digits(Tail(Tail(v))) <=> DigitsAt(u, j + 3, n)
        <4>1. j + 1 \in Nat \ {0} /\ j + 2 \in Nat \ {0} /\ j + 1 <= n /\ j + 2 <= n /\ n \in 0..Len(u)
          BY <3>2, SMTT(60)
        <4>2. (j + 1) + 1 = j + 2 /\ (j + 2) + 1 = j + 3
          OBVIOUS
        <4>3. Tail(v) = SubSeq(u, j + 2, n)
          BY <4>1, <4>2, DigitsRest
        <4>4. Digits(Tail(SubSeq(u, j + 2, n))) <=> DigitsAt(u, j + 3, n)
          BY <4>1, <4>2, DigitsRest
        <4> QED
          BY <4>3, <4>4
      <3>3. /\ DigitsAt(u, j + 2, n) <=> DigitsAt(s, (j + p) + 2, Len(s))
            /\ DigitsAt(u, j + 3, n) <=> DigitsAt(s, (j + p) + 3, Len(s))
        <4>1. DigitsAt(u, j + 2, n) <=> DigitsAt(s, (j + 2) + p, n + p)
          <5>1. j + 2 \in Nat \ {0} /\ n \in 0..Len(u)
            OBVIOUS
          <5> QED
            BY <5>1, DigitsShift
        <4>2. DigitsAt(u, j + 3, n) <=> DigitsAt(s, (j + 3) + p, n + p)
          <5>1. j + 3 \in Nat \ {0} /\ n \in 0..Len(u)
            OBVIOUS
          <5> QED
            BY <5>1, DigitsShift
        <4>3. (j + 2) + p = (j + p) + 2 /\ (j + 3) + p = (j + p) + 3 /\ n + p = Len(s)
          OBVIOUS
        <4> QED
          BY <4>1, <4>2, <4>3
      <3>4. v # <<>> /\ v[1] = s[(j + p) + 1] /\ j + p # Len(s) /\ j + p < Len(s)
        <4>1. u[j + 1] = s[(j + 1) + p] /\ (j + 1) + p = (j + p) + 1
          BY <2>3
        <4>2. v # <<>> /\ j + p # Len(s) /\ j + p < Len(s)
          <5> HIDE DEF v, n
          <5>1. Len(v) > 0
            BY <1>0, <2>1, <2>3
          <5>2. v # <<>>
            BY <5>1
          <5>3. j + p # Len(s) /\ j + p < Len(s)
            BY <1>0, <2>3
          <5> QED
            BY <5>2, <5>3
        <4>3. u[j + 1] = s[(j + p) + 1]
          BY <4>1
        <4>4. v[1] = u[j + 1]
          BY <2>1, <2>3, Zenon
        <4> QED
          BY <4>2, <4>3, <4>4, Zenon
      <3>5. j + 1 < n => v[2] = s[(j + p) + 2]
        <4>1. j + 1 < n => u[j + 2] = s[(j + 2) + p] /\ (j + 2) + p = (j + p) + 2
          BY <2>3, SMTT(60)
        <4> QED
          BY <2>1, <4>1
      <3>6. /\ Len(v) > 2 <=> j + 2 < n
            /\ (j + p) + 1 < Len(s) <=> j + 1 < n
            /\ j + 2 < n => j + 1 < n
        <4> HIDE DEF v, n
        <4>1. Len(v) = n - j
          BY <2>1
        <4> QED
          BY <1>0, <4>1
      <3>7. DigitsAt(u, j + 3, n) => j + 2 < n
        BY DEF DigitsAt
      <3>8. Exponent(v) <=> ExponentAt(s, j + p, Len(s))
        <4> HIDE DEF v, n
        <4> QED
          BY <1>0, <3>1, <3>2, <3>3, <3>4, <3>5, <3>6, <3>7, Zenon DEF Exponent, ExponentAt
      <3> QED
        BY <3>8
    <2> QED
      BY <2>2, <2>3
  <1> QED
    BY <1>1, <1>2, <1>3

\* What stands behind the minus.
LEMMA BehindMinus ==
  ASSUME NEW s \in Seq(Int)
  PROVE  \E u \in Seq(Int) : /\ u = (IF s # <<>> /\ s[1] = 45 THEN Tail(s) ELSE s)
                             /\ Sign(s) \in 0..1 /\ Len(s) = Len(u) + Sign(s)
                             /\ \A k \in 1..Len(u) : u[k] = s[k + Sign(s)]
  <1>1. CASE s # <<>> /\ s[1] = 45
    <2>1. Sign(s) = 1
      BY <1>1 DEF Sign
    <2> DEFINE u == Tail(s)
    <2>2. u \in Seq(Int) /\ Len(s) = Len(u) + 1 /\ \A k \in 1..Len(u) : u[k] = s[k + 1]
      BY <1>1
    <2>3. u = (IF s # <<>> /\ s[1] = 45 THEN Tail(s) ELSE s)
      BY <1>1, Zenon
    <2>4. 1 \in 0..1
      OBVIOUS
    <2> HIDE DEF u
    <2> QED
      BY <2>1, <2>2, <2>3, <2>4, ZenonT(60)
  <1>2. CASE ~(s # <<>> /\ s[1] = 45)
    <2>1. Sign(s) = 0
      BY <1>2, Zenon DEF Sign
    <2> QED
      BY <1>2, <2>1
  <1> QED
    BY <1>1, <1>2

\* IsNumber in terms of places in s: a sign, and two cuts between its three parts.
LEMMA IsNumberAt ==
  ASSUME NEW s \in Seq(Int)
  PROVE  IsNumber(s) <=> \E i \in 0..Len(s) : \E j \in 0..Len(s) : NumberAt(s, Sign(s), i, j, Len(s))
  <1>1. PICK u \in Seq(Int) : /\ u = (IF s # <<>> /\ s[1] = 45 THEN Tail(s) ELSE s)
                              /\ Sign(s) \in 0..1 /\ Len(s) = Len(u) + Sign(s)
                              /\ \A k \in 1..Len(u) : u[k] = s[k + Sign(s)]
    BY BehindMinus
  <1>2. PICK p \in Nat : p = Sign(s)
    BY <1>1
  <1>3. IsNumber(s) <=> \E i \in 0..Len(u), j \in 0..Len(u) :
          /\ i <= j
          /\ Whole(SubSeq(u, 1, i)) /\ Fraction(SubSeq(u, i + 1, j)) /\ Exponent(SubSeq(u, j + 1, Len(u)))
    BY <1>1, Zenon DEF IsNumber
  <1>4. Len(s) = Len(u) + p /\ \A k \in 1..Len(u) : u[k] = s[k + p]
    BY <1>1, <1>2
  <1> DEFINE n == Len(u)
  <1>5. n \in Nat /\ Len(s) = n + p
    BY <1>4
  <1>6. \A i, j \in 0..n : i <= j =>
          (NumberAt(s, p, i + p, j + p, Len(s)) <=>
             Whole(SubSeq(u, 1, i)) /\ Fraction(SubSeq(u, i + 1, j)) /\ Exponent(SubSeq(u, j + 1, Len(u))))
    <2> SUFFICES ASSUME NEW i \in 0..n, NEW j \in 0..n, i <= j
                 PROVE  NumberAt(s, p, i + p, j + p, Len(s)) <=>
                          Whole(SubSeq(u, 1, i)) /\ Fraction(SubSeq(u, i + 1, j)) /\ Exponent(SubSeq(u, j + 1, Len(u)))
      OBVIOUS
    <2>1. i + p <= j + p
      OBVIOUS
    <2>2. /\ Whole(SubSeq(u, 1, i)) <=> WholeAt(s, p, i + p)
          /\ Fraction(SubSeq(u, i + 1, j)) <=> FractionAt(s, i + p, j + p)
          /\ Exponent(SubSeq(u, j + 1, Len(u))) <=> ExponentAt(s, j + p, Len(s))
      BY <1>4, PartsOfNumber
    <2> QED
      BY <2>1, <2>2, Zenon DEF NumberAt
  <1>7. ASSUME NEW i \in 0..Len(s), NEW j \in 0..Len(s), NumberAt(s, p, i, j, Len(s))
        PROVE  \E k \in 0..n : \E l \in 0..n : k <= l /\ i = k + p /\ j = l + p
    <2>1. p < i /\ i <= j
      BY <1>7 DEF NumberAt, WholeAt, DigitsAt
    <2> HIDE DEF n
    <2>2. i - p \in 0..n /\ j - p \in 0..n /\ i - p <= j - p /\ i = (i - p) + p /\ j = (j - p) + p
      BY <1>5, <2>1
    <2> QED
      BY <2>2
  <1>8. \A k \in 0..n : k + p \in 0..Len(s)
    BY <1>5
  <1> HIDE DEF n
  <1>9. IsNumber(s) => \E i \in 0..Len(s) : \E j \in 0..Len(s) : NumberAt(s, p, i, j, Len(s))
    BY <1>3, <1>6, <1>8 DEF n
  <1>10. (\E i \in 0..Len(s) : \E j \in 0..Len(s) : NumberAt(s, p, i, j, Len(s))) => IsNumber(s)
    <2> SUFFICES ASSUME NEW i \in 0..Len(s), NEW j \in 0..Len(s), NumberAt(s, p, i, j, Len(s))
                 PROVE  IsNumber(s)
      OBVIOUS
    <2>1. PICK k \in 0..n, l \in 0..n : k <= l /\ i = k + p /\ j = l + p
      BY <1>7
    <2>2. NumberAt(s, p, k + p, l + p, Len(s))
      BY <2>1
    <2>3. Whole(SubSeq(u, 1, k)) /\ Fraction(SubSeq(u, k + 1, l)) /\ Exponent(SubSeq(u, l + 1, Len(u)))
      BY <1>6, <2>1, <2>2
    <2> QED
      BY <1>3, <2>1, <2>3 DEF n
  <1> QED
    BY <1>2, <1>9, <1>10

-----------------------------------------------------------------------------
(* Numbers: what scan_number() knows of the n bytes it has read, at each of *)
(* its labels.                                                              *)

Shape(q, s, n) == LET p == Sign(s) IN
  /\ q = "minus" => n = 1 /\ p = 1
  /\ q = "zero" => n = p + 1 /\ s[p + 1] = Zero
  /\ q = "any1" => WholeAt(s, p, n) /\ s[p + 1] # Zero
  /\ q = "decimal1" => \E i \in 1..n : WholeAt(s, p, i) /\ n = i + 1 /\ s[i + 1] = 46
  /\ q = "decimal2" => \E i \in 1..n : WholeAt(s, p, i) /\ i < n /\ FractionAt(s, i, n)
  /\ q = "exponent" => \E i, j \in 1..n : /\ i <= j /\ WholeAt(s, p, i) /\ FractionAt(s, i, j)
                                          /\ n = j + 1 /\ s[j + 1] \in {69, 101}
  /\ q = "sign" => \E i, j \in 1..n : /\ i <= j /\ WholeAt(s, p, i) /\ FractionAt(s, i, j)
                                      /\ n = j + 2 /\ s[j + 1] \in {69, 101} /\ s[j + 2] \in {43, 45}
  /\ q = "any2" => \E i, j \in 1..n : NumberAt(s, p, i, j, n) /\ j < n

\* scan_number() goes on from q to r with b.
Leads(q, b, r) == \E m \in Moves : q \in m.from /\ b \in m.on /\ m.to = r

\* The jumps of scan_number(), one by one.
LEMMA LeadsWhere ==
  ASSUME NEW q, NEW b, NEW r
  PROVE  Leads(q, b, r) <=>
           \/ q = "minus" /\ b = Zero /\ r = "zero"
           \/ q = "minus" /\ b \in Digit \ {Zero} /\ r = "any1"
           \/ q = "any1" /\ b \in Digit /\ r = "any1"
           \/ q \in {"zero", "any1"} /\ b = 46 /\ r = "decimal1"
           \/ q \in {"zero", "any1", "decimal2"} /\ b \in {69, 101} /\ r = "exponent"
           \/ q \in {"decimal1", "decimal2"} /\ b \in Digit /\ r = "decimal2"
           \/ q = "exponent" /\ b \in {43, 45} /\ r = "sign"
           \/ q \in {"exponent", "sign", "any2"} /\ b \in Digit /\ r = "any2"
  BY DEF Leads, Moves, WholeMoves, FractionMoves, ExponentMoves, Jump

\* One more digit behind digits.
LEMMA MoreDigits ==
  ASSUME NEW s, NEW a \in Int, NEW n \in Int, s[n + 1] \in Digit, a <= n + 1, \A k \in a..n : s[k] \in Digit
  PROVE  DigitsAt(s, a, n + 1)
  <1>1. \A k \in a..(n + 1) : k \in a..n \/ k = n + 1
    OBVIOUS
  <1> QED
    BY <1>1 DEF DigitsAt

\* A step of scan_number() keeps the shape.
LEMMA ShapeStep ==
  ASSUME NEW s \in Seq(Int), NEW n \in Nat \ {0}, NEW q, NEW r, Leads(q, s[n + 1], r), Shape(q, s, n)
  PROVE  Shape(r, s, n + 1)
  <1> DEFINE p == Sign(s)
             b == s[n + 1]
  <1>1. p \in 0..1
    BY DEF Sign
  <1>2. CASE q = "minus" /\ b = Zero /\ r = "zero"
    BY <1>2 DEF Shape
  <1>3. CASE q = "minus" /\ b \in Digit \ {Zero} /\ r = "any1"
    <2>1. n = 1 /\ p = 1
      BY <1>3 DEF Shape
    <2>2. DigitsAt(s, p + 1, n + 1)
      BY <1>3, <2>1 DEF DigitsAt
    <2>3. WholeAt(s, p, n + 1) /\ s[p + 1] # Zero
      BY <1>3, <2>1, <2>2 DEF WholeAt
    <2> QED
      BY <1>3, <2>3 DEF Shape
  <1>4. CASE q = "any1" /\ b \in Digit /\ r = "any1"
    <2>1. DigitsAt(s, p + 1, n) /\ s[p + 1] # Zero
      BY <1>4 DEF Shape, WholeAt
    <2>2. DigitsAt(s, p + 1, n + 1)
      BY <1>1, <1>4, <2>1, MoreDigits DEF DigitsAt
    <2> QED
      BY <1>4, <2>1, <2>2 DEF Shape, WholeAt
  <1>5. ASSUME q \in {"zero", "any1"}
        PROVE  WholeAt(s, p, n)
    BY <1>1, <1>5 DEF Shape, WholeAt, DigitsAt, Zero, Digit
  <1>6. CASE q \in {"zero", "any1"} /\ b = 46 /\ r = "decimal1"
    BY <1>5, <1>6 DEF Shape
  <1>7. CASE q \in {"zero", "any1", "decimal2"} /\ b \in {69, 101} /\ r = "exponent"
    <2>1. \E i \in 1..n : i <= n /\ WholeAt(s, p, i) /\ FractionAt(s, i, n)
      BY <1>5, <1>7 DEF Shape, FractionAt
    <2> QED
      BY <1>7, <2>1 DEF Shape
  <1>8. CASE q = "decimal1" /\ b \in Digit /\ r = "decimal2"
    <2>1. PICK i \in 1..n : WholeAt(s, p, i) /\ n = i + 1 /\ s[i + 1] = 46
      BY <1>8 DEF Shape
    <2>2. DigitsAt(s, i + 2, n + 1)
      <3>1. i + 2 = n + 1 /\ i + 2 \in Int /\ n \in Int /\ \A k \in (i + 2)..n : FALSE
        BY <2>1
      <3> QED
        BY <1>8, <3>1, MoreDigits
    <2>3. FractionAt(s, i, n + 1)
      BY <2>1, <2>2 DEF FractionAt
    <2> QED
      BY <1>8, <2>1, <2>3 DEF Shape
  <1>9. CASE q = "decimal2" /\ b \in Digit /\ r = "decimal2"
    <2>1. PICK i \in 1..n : WholeAt(s, p, i) /\ i < n /\ FractionAt(s, i, n)
      BY <1>9 DEF Shape
    <2>2. s[i + 1] = 46 /\ DigitsAt(s, i + 2, n)
      BY <2>1 DEF FractionAt
    <2>3. DigitsAt(s, i + 2, n + 1)
      BY <1>9, <2>1, <2>2, MoreDigits, SMTT(60) DEF DigitsAt
    <2>4. FractionAt(s, i, n + 1)
      BY <2>1, <2>2, <2>3 DEF FractionAt
    <2> QED
      BY <1>9, <2>1, <2>4 DEF Shape
  <1>10. CASE q = "exponent" /\ b \in {43, 45} /\ r = "sign"
    <2>1. PICK i \in 1..n, j \in 1..n : /\ i <= j /\ WholeAt(s, p, i) /\ FractionAt(s, i, j)
                                        /\ n = j + 1 /\ s[j + 1] \in {69, 101}
      BY <1>10 DEF Shape
    <2>2. n + 1 = j + 2 /\ s[j + 2] \in {43, 45} /\ i \in 1..(n + 1) /\ j \in 1..(n + 1)
      BY <1>10, <2>1
    <2> QED
      BY <1>10, <2>1, <2>2 DEF Shape
  <1>11. CASE q = "exponent" /\ b \in Digit /\ r = "any2"
    <2>1. PICK i \in 1..n, j \in 1..n : /\ i <= j /\ WholeAt(s, p, i) /\ FractionAt(s, i, j)
                                        /\ n = j + 1 /\ s[j + 1] \in {69, 101}
      BY <1>11 DEF Shape
    <2>2. DigitsAt(s, j + 2, n + 1)
      <3>1. j + 2 = n + 1 /\ j + 2 \in Int /\ n \in Int /\ \A k \in (j + 2)..n : FALSE
        BY <2>1
      <3> QED
        BY <1>11, <3>1, MoreDigits
    <2>3. NumberAt(s, p, i, j, n + 1) /\ j < n + 1 /\ i \in 1..(n + 1) /\ j \in 1..(n + 1)
      BY <2>1, <2>2 DEF NumberAt, ExponentAt
    <2> QED
      BY <1>11, <2>3 DEF Shape
  <1>12. CASE q = "sign" /\ b \in Digit /\ r = "any2"
    <2>1. PICK i \in 1..n, j \in 1..n : /\ i <= j /\ WholeAt(s, p, i) /\ FractionAt(s, i, j)
                                        /\ n = j + 2 /\ s[j + 1] \in {69, 101} /\ s[j + 2] \in {43, 45}
      BY <1>12 DEF Shape
    <2>2. DigitsAt(s, j + 3, n + 1)
      <3>1. j + 3 = n + 1 /\ j + 3 \in Int /\ n \in Int /\ \A k \in (j + 3)..n : FALSE
        BY <2>1
      <3> QED
        BY <1>12, <3>1, MoreDigits
    <2>3. NumberAt(s, p, i, j, n + 1) /\ j < n + 1 /\ i \in 1..(n + 1) /\ j \in 1..(n + 1)
      BY <2>1, <2>2 DEF NumberAt, ExponentAt
    <2> QED
      BY <1>12, <2>3 DEF Shape
  <1>13. CASE q = "any2" /\ b \in Digit /\ r = "any2"
    <2>1. PICK i \in 1..n, j \in 1..n : NumberAt(s, p, i, j, n) /\ j < n
      BY <1>13 DEF Shape
    <2>2. \/ s[j + 1] \in {69, 101} /\ DigitsAt(s, j + 2, n)
          \/ j + 1 < n /\ s[j + 1] \in {69, 101} /\ s[j + 2] \in {43, 45} /\ DigitsAt(s, j + 3, n)
      BY <2>1 DEF NumberAt, ExponentAt
    <2>3. \A a \in Int : DigitsAt(s, a, n) => DigitsAt(s, a, n + 1)
      BY <1>13, MoreDigits DEF DigitsAt
    <2>4. ExponentAt(s, j, n + 1)
      BY <2>1, <2>2, <2>3 DEF ExponentAt
    <2>5. NumberAt(s, p, i, j, n + 1) /\ j < n + 1 /\ i \in 1..(n + 1) /\ j \in 1..(n + 1)
      BY <2>1, <2>4 DEF NumberAt
    <2> QED
      BY <1>13, <2>5 DEF Shape
  <1> QED
    BY <1>2, <1>3, <1>4, <1>6, <1>7, <1>8, <1>9, <1>10, <1>11, <1>12, <1>13, LeadsWhere

\* A digit is no sign, no point and no exponent's letter.
LEMMA DigitOnly == \A x \in Digit : x # 43 /\ x # 45 /\ x # 46 /\ x # 69 /\ x # 101
  <1>1. \A x \in 48..57 : x # 43 /\ x # 45 /\ x # 46 /\ x # 69 /\ x # 101
    OBVIOUS
  <1> QED
    BY <1>1 DEF Digit

\* Where the integer part of a number ends does not depend on what follows.
LEMMA WholeOnce ==
  ASSUME NEW s \in Seq(Int), NEW p \in Nat, NEW i \in Nat, WholeAt(s, p, i), s[i + 1] \notin Digit,
         NEW k \in Nat, NEW l \in Nat, NEW m \in Nat, NumberAt(s, p, k, l, m), i < m
  PROVE  k = i
  <1>1. p < i /\ (\A h \in (p + 1)..i : s[h] \in Digit) /\ p < k /\ \A h \in (p + 1)..k : s[h] \in Digit
    BY DEF WholeAt, DigitsAt, NumberAt
  <1>2. ~(k > i)
    BY <1>1
  <1>3. ASSUME k < i
        PROVE  FALSE
    <2>1. s[k + 1] \in Digit
      BY <1>1, <1>3
    <2>2. s[k + 1] \notin {46, 69, 101}
      BY <2>1, DigitOnly
    <2>3. l = k
      BY <2>2 DEF NumberAt, FractionAt
    <2>4. l = m
      BY <2>2, <2>3 DEF NumberAt, ExponentAt
    <2> QED
      BY <1>3, <2>3, <2>4
  <1> QED
    BY <1>2, <1>3

\* Before an e there is one way to cut a number into its parts.
LEMMA FractionOnce ==
  ASSUME NEW s \in Seq(Int), NEW p \in Nat, NEW i \in Nat, NEW j \in Nat, i <= j,
         WholeAt(s, p, i), FractionAt(s, i, j), s[j + 1] \in {69, 101},
         NEW k \in Nat, NEW l \in Nat, NEW m \in Nat, NumberAt(s, p, k, l, m), j < m
  PROVE  k = i /\ l = j
  <1>1. s[i + 1] \notin Digit
    BY DigitOnly DEF FractionAt
  <1>2. k = i
    BY <1>1, WholeOnce
  <1>3. FractionAt(s, i, l) /\ i <= l /\ ExponentAt(s, l, m)
    BY <1>2 DEF NumberAt
  <1>4. CASE i = j
    <2>1. s[i + 1] # 46
      BY <1>4
    <2> QED
      BY <1>2, <1>3, <1>4, <2>1 DEF FractionAt
  <1>5. CASE i < j
    <2>1. s[i + 1] = 46 /\ DigitsAt(s, i + 2, j)
      BY <1>5 DEF FractionAt
    <2>2. i < l /\ DigitsAt(s, i + 2, l)
      <3>1. i # l
        BY <1>3, <1>5, <2>1, SMTT(60) DEF ExponentAt
      <3> QED
        BY <1>3, <3>1 DEF FractionAt
    <2>3. ~(l > j)
      BY <2>1, <2>2, DigitOnly DEF DigitsAt
    <2>4. ASSUME l < j
          PROVE  FALSE
      <3>1. s[l + 1] \in Digit
        BY <2>1, <2>2, <2>4 DEF DigitsAt
      <3>2. s[l + 1] \notin {69, 101}
        BY <3>1, DigitOnly
      <3> QED
        BY <1>3, <2>4, <3>2 DEF ExponentAt
    <2> QED
      BY <1>2, <2>3, <2>4
  <1> QED
    BY <1>4, <1>5

\* Where scan_number() cannot go on, no number does.
LEMMA NumberLeads ==
  ASSUME NEW s \in Seq(Int), NEW n \in Nat \ {0}, NEW q \in InNumber, Shape(q, s, n),
         NEW k \in Nat, NEW l \in Nat, NEW m \in Nat, NumberAt(s, Sign(s), k, l, m), n < m
  PROVE  \E r : Leads(q, s[n + 1], r)
  <1> DEFINE p == Sign(s)
             b == s[n + 1]
  <1>1. p \in Nat
    BY DEF Sign
  <1>2. k <= l /\ WholeAt(s, p, k) /\ FractionAt(s, k, l) /\ ExponentAt(s, l, m)
    BY DEF NumberAt
  <1>3. CASE q = "minus"
    <2>1. b \in Digit
      BY <1>2, <1>3 DEF Shape, WholeAt, DigitsAt
    <2> QED
      BY <1>3, <2>1, LeadsWhere
  <1>4. ASSUME k = n
        PROVE  b \in {46, 69, 101}
    BY <1>2, <1>4, SMTT(60) DEF FractionAt, ExponentAt
  <1>5. CASE q = "zero"
    <2>1. n = p + 1 /\ s[p + 1] = Zero
      BY <1>5 DEF Shape
    <2>2. k = n
      BY <1>1, <1>2, <2>1 DEF WholeAt, DigitsAt
    <2> QED
      BY <1>4, <1>5, <2>2, LeadsWhere
  <1>6. CASE q = "any1"
    <2>1. WholeAt(s, p, n)
      BY <1>6 DEF Shape
    <2>2. b \in Digit \/ k = n
      BY <1>1, <2>1, WholeOnce
    <2> QED
      BY <1>4, <1>6, <2>2, LeadsWhere
  <1>7. CASE q \in {"decimal1", "decimal2"}
    <2>1. PICK i \in 1..n : /\ WholeAt(s, p, i) /\ i < n /\ s[i + 1] = 46
                            /\ \A h \in (i + 2)..n : s[h] \in Digit
                            /\ q = "decimal1" => n = i + 1
      <3>1. CASE q = "decimal1"
        <4>1. PICK i \in 1..n : WholeAt(s, p, i) /\ n = i + 1 /\ s[i + 1] = 46
          BY <3>1 DEF Shape
        <4>2. i < n /\ \A h \in (i + 2)..n : FALSE
          BY <4>1
        <4> QED
          BY <4>1, <4>2
      <3>2. CASE q = "decimal2"
        BY <3>2 DEF Shape, FractionAt, DigitsAt
      <3> QED
        BY <1>7, <3>1, <3>2
    <2>2. s[i + 1] \notin Digit /\ s[i + 1] \notin {69, 101} /\ i < m
      BY <2>1, DigitOnly
    <2>3. k = i
      BY <1>1, <2>1, <2>2, WholeOnce
    <2>4. k # l
      BY <1>2, <2>1, <2>2, <2>3 DEF ExponentAt
    <2>5. i + 2 <= l /\ \A h \in (i + 2)..l : s[h] \in Digit
      BY <1>2, <2>3, <2>4 DEF FractionAt, DigitsAt
    <2>6. CASE l > n
      <3>1. b \in Digit
        BY <2>1, <2>5, <2>6
      <3> QED
        BY <1>7, <3>1, LeadsWhere
    <2>7. CASE l = n
      <3>1. b \in {69, 101}
        BY <1>2, <2>7 DEF ExponentAt
      <3>2. q = "decimal2"
        BY <1>7, <2>1, <2>5, <2>7
      <3> QED
        BY <3>1, <3>2, LeadsWhere
    <2>8. CASE l < n
      <3>1. s[l + 1] \in Digit
        BY <2>1, <2>5, <2>8
      <3>2. s[l + 1] \notin {69, 101}
        BY <3>1, DigitOnly
      <3> QED
        BY <1>2, <2>8, <3>2 DEF ExponentAt
    <2> QED
      BY <2>6, <2>7, <2>8
  <1>8. CASE q = "exponent"
    <2>1. PICK i \in 1..n, j \in 1..n : /\ i <= j /\ WholeAt(s, p, i) /\ FractionAt(s, i, j)
                                        /\ n = j + 1 /\ s[j + 1] \in {69, 101}
      BY <1>8 DEF Shape
    <2>2. l = j
      BY <1>1, <2>1, FractionOnce
    <2>3. n + 1 = j + 2 /\ m # j
      BY <2>1
    <2>4. s[j + 2] \in Digit \cup {43, 45}
      BY <1>2, <2>2, <2>3 DEF ExponentAt, DigitsAt
    <2>5. b \in Digit \cup {43, 45}
      BY <2>3, <2>4
    <2> QED
      BY <1>8, <2>5, LeadsWhere
  <1>9. CASE q = "sign"
    <2>1. PICK i \in 1..n, j \in 1..n : /\ i <= j /\ WholeAt(s, p, i) /\ FractionAt(s, i, j)
                                        /\ n = j + 2 /\ s[j + 1] \in {69, 101} /\ s[j + 2] \in {43, 45}
      BY <1>9 DEF Shape
    <2>2. l = j
      BY <1>1, <2>1, FractionOnce, SMTT(60)
    <2>3. n + 1 = j + 3 /\ m # j /\ s[j + 2] \notin Digit
      BY <2>1, DigitOnly
    <2>4. s[j + 3] \in Digit
      BY <1>2, <2>2, <2>3 DEF ExponentAt, DigitsAt
    <2>5. b \in Digit
      BY <2>3, <2>4
    <2> QED
      BY <1>9, <2>5, LeadsWhere
  <1>10. CASE q = "any2"
    <2>1. PICK i \in 1..n, j \in 1..n : NumberAt(s, p, i, j, n) /\ j < n
      BY <1>10 DEF Shape
    <2>2. i <= j /\ WholeAt(s, p, i) /\ FractionAt(s, i, j) /\ s[j + 1] \in {69, 101} /\ n >= j + 2
          /\ (s[j + 2] \in {43, 45} => n >= j + 3)
      BY <2>1, DigitOnly, SMTT(60) DEF NumberAt, ExponentAt, DigitsAt
    <2>3. l = j
      BY <1>1, <2>1, <2>2, FractionOnce, SMTT(60)
    <2>4. b \in Digit
      BY <1>2, <2>1, <2>2, <2>3 DEF ExponentAt, DigitsAt
    <2> QED
      BY <1>10, <2>4, LeadsWhere
  <1> QED
    BY <1>3, <1>5, <1>6, <1>7, <1>8, <1>9, <1>10 DEF InNumber

\* Only the first n bytes matter.
LEMMA ShapeSame ==
  ASSUME NEW s \in Seq(Int), NEW x \in Seq(Int), NEW n \in Nat \ {0}, n <= Len(s), n <= Len(x),
         \A k \in 1..n : s[k] = x[k], NEW q, Shape(q, s, n)
  PROVE  Shape(q, x, n)
  <1> DEFINE p == Sign(s)
  <1>1. Sign(x) = p /\ p \in 0..1
    <2>1. 1 \in 1..n /\ s # <<>> /\ x # <<>>
      OBVIOUS
    <2>2. s[1] = x[1]
      BY <2>1
    <2> QED
      BY <2>1, <2>2 DEF Sign
  <1>2. \A a \in Nat \ {0} : \A b \in Int : b <= n => (DigitsAt(s, a, b) <=> DigitsAt(x, a, b))
    <2> SUFFICES ASSUME NEW a \in Nat \ {0}, NEW b \in Int, b <= n
                 PROVE  DigitsAt(s, a, b) <=> DigitsAt(x, a, b)
      OBVIOUS
    <2>1. \A k \in a..b : s[k] = x[k]
      OBVIOUS
    <2> QED
      BY <2>1, Zenon DEF DigitsAt
  <1>3. \A i \in 0..n : (WholeAt(s, p, i) <=> WholeAt(x, p, i))
    <2> TAKE i \in 0..n
    <2>1. DigitsAt(s, p + 1, i) <=> DigitsAt(x, p + 1, i)
      <3>1. p + 1 \in Nat \ {0} /\ i \in Int /\ i <= n
        BY <1>1
      <3> QED
        BY <1>2, <3>1
    <2>2. i > p + 1 => s[p + 1] = x[p + 1]
      BY <1>1
    <2> QED
      BY <2>1, <2>2, Zenon DEF WholeAt
  <1>4. \A i \in 1..n : \A j \in 1..n : (FractionAt(s, i, j) <=> FractionAt(x, i, j))
    <2> TAKE i \in 1..n
    <2> TAKE j \in 1..n
    <2>1. DigitsAt(s, i + 2, j) <=> DigitsAt(x, i + 2, j)
      BY <1>2
    <2>2. i < j => s[i + 1] = x[i + 1]
      OBVIOUS
    <2> QED
      BY <2>1, <2>2, Zenon DEF FractionAt
  <1>5. \A j \in 1..n : (ExponentAt(s, j, n) <=> ExponentAt(x, j, n))
    <2> TAKE j \in 1..n
    <2>1. /\ DigitsAt(s, j + 2, n) <=> DigitsAt(x, j + 2, n)
          /\ DigitsAt(s, j + 3, n) <=> DigitsAt(x, j + 3, n)
      BY <1>2
    <2>2. (j < n => s[j + 1] = x[j + 1]) /\ (j + 1 < n => s[j + 2] = x[j + 2] /\ j < n)
      OBVIOUS
    <2> QED
      BY <2>1, <2>2, SMTT(60) DEF ExponentAt
  <1>6. \A i \in 1..n : \A j \in 1..n : (NumberAt(s, p, i, j, n) <=> NumberAt(x, p, i, j, n))
    BY <1>3, <1>4, <1>5 DEF NumberAt
  <1>7. q = "minus" => n = 1 /\ p = 1
    BY DEF Shape
  <1>8. q = "zero" => n = p + 1 /\ x[p + 1] = Zero
    BY <1>1 DEF Shape
  <1>9. q = "any1" => WholeAt(x, p, n) /\ x[p + 1] # Zero
    <2>1. q = "any1" => WholeAt(s, p, n) /\ s[p + 1] # Zero
      BY DEF Shape
    <2>2. WholeAt(s, p, n) => p + 1 <= n
      BY DEF WholeAt, DigitsAt
    <2>3. p + 1 <= n => s[p + 1] = x[p + 1]
      BY <1>1
    <2> QED
      BY <1>3, <2>1, <2>2, <2>3
  <1>10. q = "decimal1" => \E i \in 1..n : WholeAt(x, p, i) /\ n = i + 1 /\ x[i + 1] = 46
    BY <1>3 DEF Shape
  <1>11. q = "decimal2" => \E i \in 1..n : WholeAt(x, p, i) /\ i < n /\ FractionAt(x, i, n)
    BY <1>3, <1>4 DEF Shape
  <1>12. q = "exponent" => \E i, j \in 1..n : /\ i <= j /\ WholeAt(x, p, i) /\ FractionAt(x, i, j)
                                              /\ n = j + 1 /\ x[j + 1] \in {69, 101}
    BY <1>3, <1>4, SMTT(60) DEF Shape
  <1>13. q = "sign" => \E i, j \in 1..n : /\ i <= j /\ WholeAt(x, p, i) /\ FractionAt(x, i, j)
                                          /\ n = j + 2 /\ x[j + 1] \in {69, 101} /\ x[j + 2] \in {43, 45}
    <2> SUFFICES ASSUME q = "sign"
                 PROVE  \E i, j \in 1..n : /\ i <= j /\ WholeAt(x, p, i) /\ FractionAt(x, i, j)
                                          /\ n = j + 2 /\ x[j + 1] \in {69, 101} /\ x[j + 2] \in {43, 45}
      OBVIOUS
    <2>1. PICK i \in 1..n, j \in 1..n : /\ i <= j /\ WholeAt(s, p, i) /\ FractionAt(s, i, j)
                                        /\ n = j + 2 /\ s[j + 1] \in {69, 101} /\ s[j + 2] \in {43, 45}
      BY DEF Shape
    <2>2. j + 1 \in 1..n /\ j + 2 \in 1..n
      BY <2>1
    <2>3. x[j + 1] \in {69, 101} /\ x[j + 2] \in {43, 45}
      BY <2>1, <2>2, SMTT(60)
    <2>4. WholeAt(x, p, i) /\ FractionAt(x, i, j)
      BY <1>3, <1>4, <2>1
    <2> QED
      BY <2>1, <2>3, <2>4
  <1>14. q = "any2" => \E i, j \in 1..n : NumberAt(x, p, i, j, n) /\ j < n
    BY <1>6 DEF Shape
  <1>15. Sign(x) = p
    BY <1>1
  <1> HIDE DEF p
  <1> QED
    BY <1>15, <1>7, <1>8, <1>9, <1>10, <1>11, <1>12, <1>13, <1>14 DEF Shape

\* scan_number() takes the first byte of a number, and one byte after the other.
LEMMA ShapeFirst ==
  ASSUME NEW b \in Digit \cup {45}, NEW q,
         q = (IF b = Zero THEN "zero" ELSE IF b = 45 THEN "minus" ELSE "any1")
  PROVE  Shape(q, <<b>>, 1)
  <1> DEFINE s == <<b>>
  <1>1. s # <<>> /\ s[1] = b
    OBVIOUS
  <1> HIDE DEF s
  <1>2. CASE b = 45
    BY <1>1, <1>2 DEF Shape, Sign, s, Zero
  <1>3. CASE b \in Digit
    <2>1. b # 45
      BY <1>3, DigitOnly
    <2>2. Sign(s) = 0
      BY <1>1, <2>1 DEF Sign
    <2>3. DigitsAt(s, 1, 1)
      BY <1>1, <1>3 DEF DigitsAt
    <2>4. WholeAt(s, 0, 1)
      BY <2>3 DEF WholeAt
    <2> QED
      BY <1>1, <2>1, <2>2, <2>4 DEF Shape, s
  <1> QED
    BY <1>2, <1>3

\* A jump of scan_number() leads from the shape of one label to that of the next.
LEMMA ShapeAppend ==
  ASSUME NEW s \in Seq(Int), s # <<>>, NEW q, Shape(q, s, Len(s)), NEW b \in Int,
         NEW m \in Moves, q \in m.from, b \in m.on
  PROVE  Shape(m.to, Append(s, b), Len(s) + 1)
  <1> DEFINE x == Append(s, b)
             n == Len(s)
  <1>1. /\ x \in Seq(Int) /\ n \in Nat \ {0} /\ n <= Len(s) /\ n <= Len(x) /\ x[n + 1] = b
        /\ \A k \in 1..n : s[k] = x[k]
    OBVIOUS
  <1> HIDE DEF x
  <1>2. Shape(q, x, n)
    BY <1>1, ShapeSame
  <1>3. Leads(q, x[n + 1], m.to)
    BY <1>1 DEF Leads
  <1>4. Shape(m.to, x, n + 1)
    BY <1>1, <1>2, <1>3, ShapeStep
  <1> QED
    BY <1>4 DEF x

\* Where it may end, the number is whole, and where it cannot go on, no number does.
LEMMA ShapeNumber ==
  ASSUME NEW s \in Seq(Int), s # <<>>, NEW q \in Complete, Shape(q, s, Len(s))
  PROVE  IsNumber(s)
  <1> DEFINE n == Len(s)
             p == Sign(s)
  <1>1. n \in Nat \ {0} /\ p \in 0..1
    BY DEF Sign
  <1> SUFFICES \E i \in 0..n : \E j \in 0..n : NumberAt(s, p, i, j, n)
    BY IsNumberAt
  <1>2. CASE q \in {"zero", "any1"}
    <2>1. WholeAt(s, p, n)
      BY <1>1, <1>2 DEF Shape, WholeAt, DigitsAt, Zero, Digit
    <2>2. NumberAt(s, p, n, n, n)
      BY <1>1, <2>1 DEF NumberAt, FractionAt, ExponentAt
    <2> QED
      BY <1>1, <2>2
  <1>3. CASE q = "decimal2"
    <2>1. PICK i \in 1..n : WholeAt(s, p, i) /\ i < n /\ FractionAt(s, i, n)
      BY <1>3 DEF Shape
    <2>2. NumberAt(s, p, i, n, n)
      BY <1>1, <2>1 DEF NumberAt, ExponentAt
    <2> QED
      BY <1>1, <2>2
  <1>4. CASE q = "any2"
    BY <1>4 DEF Shape
  <1> QED
    BY <1>2, <1>3, <1>4 DEF Complete

\* Where no jump is, no number goes on.
LEMMA ShapeEnds ==
  ASSUME NEW s \in Seq(Int), s # <<>>, NEW q \in InNumber, Shape(q, s, Len(s)), NEW b \in Int,
         ~\E m \in Moves : q \in m.from /\ b \in m.on
  PROVE  ~BeginsNumber(Append(s, b))
  <1>1. PICK n \in Nat \ {0} : n = Len(s)
    OBVIOUS
  <1>2. ASSUME NEW x \in Seq(Int), n < Len(x), x[n + 1] = b, \A k \in 1..n : s[k] = x[k]
        PROVE  ~IsNumber(x)
    <2>1. Shape(q, x, n)
      <3>1. n <= Len(s) /\ n <= Len(x) /\ Shape(q, s, n)
        BY <1>1, <1>2
      <3> QED
        BY <1>2, <3>1, ShapeSame
    <2>2. ASSUME NEW i \in 0..Len(x), NEW j \in 0..Len(x), NumberAt(x, Sign(x), i, j, Len(x))
          PROVE  FALSE
      <3>1. i \in Nat /\ j \in Nat /\ Len(x) \in Nat
        OBVIOUS
      <3>2. \E r : Leads(q, x[n + 1], r)
        BY <1>2, <2>1, <2>2, <3>1, NumberLeads
      <3> QED
        BY <1>2, <3>2 DEF Leads
    <2> QED
      BY <2>2, IsNumberAt
  <1> DEFINE x == Append(s, b)
             y == Append(x, Zero)
  <1>3. x \in Seq(Int) /\ Len(x) = n + 1 /\ x[n + 1] = b /\ \A k \in 1..n : s[k] = x[k]
    BY <1>1
  <1>4. y \in Seq(Int) /\ Len(y) = n + 2 /\ y[n + 1] = b /\ \A k \in 1..n : s[k] = y[k]
    <2> HIDE DEF x
    <2> QED
      BY <1>1, <1>3 DEF Zero
  <1> HIDE DEF x, y
  <1>5. n < Len(x) /\ n < Len(y)
    BY <1>3, <1>4
  <1>6. ~IsNumber(x) /\ ~IsNumber(y)
    BY <1>2, <1>3, <1>4, <1>5, Zenon
  <1> QED
    BY <1>6 DEF BeginsNumber, x, y

\* A digit is not too large for a number_unsigned_t.
LEMMA DecimalDigit ==
  ASSUME NEW s \in Seq(Int), Len(s) = 1, s[1] \in Digit
  PROVE  Decimal(s) \in 0..9
  <1> DEFINE Worth(f) == f = [i \in 0..Len(s) |-> IF i = 0 THEN 0 ELSE 10 * f[i - 1] + s[i] - Zero]
             g == [i \in 0..1 |-> IF i = 0 THEN 0 ELSE s[1] - 48]
             h == CHOOSE f : Worth(f)
  <1>1. Worth(g)
    BY DEF Digit, Zero
  <1>2. Worth(h)
    BY <1>1
  <1>3. Decimal(s) = h[1]
    BY DEF Decimal
  <1> HIDE DEF h
  <1>4. h[0] = 0 /\ h[1] = 10 * h[0] + s[1] - Zero
    BY <1>2
  <1> QED
    BY <1>3, <1>4 DEF Digit, Zero

\* A number of one byte is a digit, which never is too large.
LEMMA NumberOfOne ==
  ASSUME NEW s \in Seq(Int), Len(s) = 1, IsNumber(s)
  PROVE  NumberType(s) = "value_unsigned"
  <1>1. PICK i \in 0..1, j \in 0..1 : NumberAt(s, Sign(s), i, j, 1)
    BY IsNumberAt
  <1>2. Sign(s) = 0 /\ s[1] \in Digit
    BY <1>1 DEF NumberAt, WholeAt, DigitsAt, Sign
  <1>3. s[1] # 45
    BY <1>2, DigitOnly
  <1>4. Integral(s) /\ ~Negative(s)
    BY <1>2, <1>3 DEF Integral, Negative
  <1>5. Decimal(s) <= MaxUnsigned
    BY <1>2, DecimalDigit, LexerAssumption
  <1> QED
    BY <1>4, <1>5 DEF NumberType

-----------------------------------------------------------------------------
(* Characters: which bytes spell one.                                       *)

Span(a, x, b) == a <= x /\ x <= b
IsTail(x) == Span(128, x, 191)

\* The first n bytes of u spell a character.
Spelled(u, n) ==
  \/ n = 1 /\ Span(0, u[1], 127)
  \/ n = 2 /\ Span(194, u[1], 223) /\ IsTail(u[2])
  \/ /\ n = 3 /\ Span(224, u[1], 239) /\ IsTail(u[2]) /\ IsTail(u[3])
     /\ u[1] = 224 => u[2] >= 160
     /\ u[1] = 237 => u[2] <= 159
  \/ /\ n = 4 /\ Span(240, u[1], 244) /\ IsTail(u[2]) /\ IsTail(u[3]) /\ IsTail(u[4])
     /\ u[1] = 240 => u[2] >= 144
     /\ u[1] = 244 => u[2] <= 143
Spells(u) == Spelled(u, Len(u))

\* Quotient and rest of what the bytes of UTF-8 are put together from.
LEMMA Divided ==
  ASSUME NEW a \in Nat, NEW r \in Nat
  PROVE  /\ r < 64 => (a * 64 + r) \div 64 = a /\ (a * 64 + r) % 64 = r
         /\ r < 4096 => (a * 4096 + r) \div 4096 = a
         /\ r < 262144 => (a * 262144 + r) \div 262144 = a
  BY SMT

\* The bytes of a character: the first, and the last three.
Lead2(c) == 192 + (c \div 64)
Lead3(c) == 224 + (c \div 4096)
Lead4(c) == 240 + (c \div 262144)
Trail1(c) == 128 + ((c \div 1) % 64)
Trail2(c) == 128 + ((c \div 64) % 64)
Trail3(c) == 128 + ((c \div 4096) % 64)

\* What Utf8() makes are bytes.
LEMMA Tailed ==
  ASSUME NEW c \in Nat
  PROVE  /\ IsTail(Trail1(c)) /\ IsTail(Trail2(c)) /\ IsTail(Trail3(c))
         /\ Trail1(c) \in Int /\ Trail2(c) \in Int /\ Trail3(c) \in Int
         /\ Lead2(c) \in Int /\ Lead3(c) \in Int /\ Lead4(c) \in Int
  BY SMT DEF IsTail, Span, Trail1, Trail2, Trail3, Lead2, Lead3, Lead4

\* Utf8(), by the number of bytes it takes.
LEMMA Utf8Cases ==
  ASSUME NEW c \in Nat
  PROVE  /\ c < 128 => Utf8(c) = <<c>>
         /\ Span(128, c, 2047) => Utf8(c) = <<Lead2(c), Trail1(c)>>
         /\ Span(2048, c, 65535) =>
              Utf8(c) = <<Lead3(c), Trail2(c), Trail1(c)>>
         /\ c > 65535 =>
              Utf8(c) = <<Lead4(c), Trail3(c), Trail2(c), Trail1(c)>>
  BY SMT DEF Utf8, Span, Trail1, Trail2, Trail3, Lead2, Lead3, Lead4

\* The number of bytes tells the range of the code point.
LEMMA Utf8Lengths ==
  ASSUME NEW c \in Nat
  PROVE  /\ Len(Utf8(c)) = 1 => c < 128
         /\ Len(Utf8(c)) = 2 => Span(128, c, 2047)
         /\ Len(Utf8(c)) = 3 => Span(2048, c, 65535)
         /\ Len(Utf8(c)) = 4 => c > 65535
         /\ Utf8(c) \in Seq(Int)
  <1>1. /\ Trail1(c) \in Int /\ Trail2(c) \in Int /\ Trail3(c) \in Int
        /\ Lead2(c) \in Int /\ Lead3(c) \in Int /\ Lead4(c) \in Int
    BY Tailed
  <1>2. CASE c < 128
    <2>1. Utf8(c) = <<c>>
      BY SMT, <1>2, Utf8Cases
    <2> QED
      BY SMT, <1>2, <2>1
  <1>3. CASE Span(128, c, 2047)
    <2>1. Utf8(c) = <<Lead2(c), Trail1(c)>>
      BY SMT, <1>3, Utf8Cases
    <2> QED
      BY SMT, <1>1, <1>3, <2>1
  <1>4. CASE Span(2048, c, 65535)
    <2>1. Utf8(c) = <<Lead3(c), Trail2(c), Trail1(c)>>
      BY SMT, <1>4, Utf8Cases
    <2> QED
      BY SMT, <1>1, <1>4, <2>1
  <1>5. CASE c > 65535
    <2>1. Utf8(c) = <<Lead4(c), Trail3(c), Trail2(c), Trail1(c)>>
      BY SMT, <1>5, Utf8Cases
    <2> QED
      BY SMT, <1>1, <1>5, <2>1
  <1>6. c < 128 \/ Span(128, c, 2047) \/ Span(2048, c, 65535) \/ c > 65535
    BY SMT DEF Span
  <1> QED
    BY SMT, <1>2, <1>3, <1>4, <1>5, <1>6

\* Utf8() gives a sequence of integers.
LEMMA Utf8Seq == \A c \in Nat : Utf8(c) \in Seq(Int)
  BY SMT, Utf8Lengths

\* The elements of a short sequence of integers, one by one.
LEMMA FirstFour ==
  ASSUME NEW u \in Seq(Int)
  PROVE  /\ Len(u) = 1 => u[1] \in Int
         /\ Len(u) = 2 => u[1] \in Int /\ u[2] \in Int
         /\ Len(u) = 3 => u[1] \in Int /\ u[2] \in Int /\ u[3] \in Int
         /\ Len(u) = 4 => u[1] \in Int /\ u[2] \in Int /\ u[3] \in Int /\ u[4] \in Int
  <1>1. \A i \in 1..Len(u) : u[i] \in Int
    OBVIOUS
  <1> QED
    BY SMT, <1>1

Of3(x, y, z) == ((x - 224) * 64 + y - 128) * 64 + z - 128
Of4(x, y, z, w) == (((x - 240) * 64 + y - 128) * 64 + z - 128) * 64 + w - 128

\* The bounds on the second of three bytes keep overlong forms and surrogates out.
LEMMA OfThree ==
  ASSUME NEW x \in Int, NEW y \in Int, NEW z \in Int, NEW c \in Int,
         c = Of3(x, y, z), Span(2048, c, 65535), ~Span(55296, c, 57343), IsTail(y), IsTail(z)
  PROVE  Span(224, x, 239) /\ (x = 224 => y >= 160) /\ (x = 237 => y <= 159)
  BY SMT DEF Span, IsTail, Of3

\* The bounds on the second of four bytes keep overlong forms and what is no Unicode out.
LEMMA OfFour ==
  ASSUME NEW x \in Int, NEW y \in Int, NEW z \in Int, NEW w \in Int, NEW c \in Int,
         c = Of4(x, y, z, w), Span(65536, c, 1114111), IsTail(y), IsTail(z), IsTail(w)
  PROVE  Span(240, x, 244) /\ (x = 240 => y >= 144) /\ (x = 244 => y <= 143)
  BY SMT DEF Span, IsTail, Of4

\* Four bytes spell an integer.
LEMMA OfFourInt == \A x, y, z, w \in Int : Of4(x, y, z, w) \in Int
  BY SMT DEF Of4

\* Bytes spell an integer.
LEMMA SpeltInt ==
  ASSUME NEW u \in Seq(Int)
  PROVE  Spelt(u) \in Int
  <1>1. CASE Len(u) = 1
    BY SMT, <1>1, FirstFour DEF Spelt
  <1>2. CASE Len(u) = 2
    BY SMT, <1>2, FirstFour DEF Spelt
  <1>3. CASE Len(u) = 3
    BY SMT, <1>3, FirstFour DEF Spelt
  <1>4. CASE Len(u) = 4
    <2>1. Spelt(u) = Of4(u[1], u[2], u[3], u[4])
      BY SMT, <1>4 DEF Spelt, Of4
    <2>2. u[1] \in Int /\ u[2] \in Int /\ u[3] \in Int /\ u[4] \in Int
      BY SMT, <1>4, FirstFour
    <2>3. Of4(u[1], u[2], u[3], u[4]) \in Int
      BY Zenon, <2>2, OfFourInt
    <2> QED
      BY Zenon, <2>1, <2>3
  <1>5. CASE Len(u) \notin {1, 2, 3, 4}
    BY SMT, <1>5 DEF Spelt
  <1> QED
    BY <1>1, <1>2, <1>3, <1>4, <1>5

\* Well-formed UTF-8 is in the table of the bytes that may follow each other.
LEMMA WellFormedSpells ==
  ASSUME NEW u \in Seq(Int), Len(u) \in 1..4, WellFormed(u)
  PROVE  Spells(u)
  <1>1. PICK c \in Nat : c = Spelt(u) /\ c <= 1114111 /\ ~Span(55296, c, 57343) /\ Utf8(c) = u
    BY SMT, SpeltInt DEF WellFormed, ScalarValue, Span
  <1>2. CASE Len(u) = 1
    <2>1. c < 128
      BY SMT, <1>1, <1>2, Utf8Lengths
    <2>2. c = u[1]
      BY SMT, <1>1, <1>2 DEF Spelt
    <2> QED
      BY SMT, <1>2, <2>1, <2>2 DEF Spells, Spelled, Span
  <1>3. CASE Len(u) = 2
    <2>1. Span(128, c, 2047)
      BY SMT, <1>1, <1>3, Utf8Lengths
    <2>2. u = <<Lead2(c), Trail1(c)>>
      BY SMT, <1>1, <2>1, Utf8Cases
    <2>3. IsTail(u[2])
      BY SMT, <2>2, Tailed
    <2>4. c = (u[1] - 192) * 64 + u[2] - 128
      BY SMT, <1>1, <1>3 DEF Spelt
    <2>5. u[1] \in Int /\ u[2] \in Int
      BY SMT, <1>3, FirstFour
    <2>6. Span(194, u[1], 223)
      BY SMTT(60), <2>1, <2>3, <2>4, <2>5 DEF Span, IsTail
    <2> QED
      BY SMT, <1>3, <2>3, <2>6 DEF Spells, Spelled
  <1>4. CASE Len(u) = 3
    <2>1. Span(2048, c, 65535)
      BY SMT, <1>1, <1>4, Utf8Lengths
    <2>2. u = <<Lead3(c), Trail2(c), Trail1(c)>>
      BY SMT, <1>1, <2>1, Utf8Cases
    <2>3. IsTail(u[2]) /\ IsTail(u[3])
      BY SMT, <2>2, Tailed
    <2>4. c = Of3(u[1], u[2], u[3])
      BY SMT, <1>1, <1>4 DEF Spelt, Of3
    <2>5. u[1] \in Int /\ u[2] \in Int /\ u[3] \in Int
      BY SMT, <1>4, FirstFour
    <2>6. Span(224, u[1], 239) /\ (u[1] = 224 => u[2] >= 160) /\ (u[1] = 237 => u[2] <= 159)
      BY SMTT(60), <1>1, <2>1, <2>3, <2>4, <2>5, OfThree
    <2> QED
      BY SMT, <1>4, <2>3, <2>6 DEF Spells, Spelled
  <1>5. CASE Len(u) = 4
    <2>1. c > 65535
      BY SMT, <1>1, <1>5, Utf8Lengths
    <2>2. u = <<Lead4(c), Trail3(c), Trail2(c), Trail1(c)>>
      BY SMT, <1>1, <2>1, Utf8Cases
    <2>3. IsTail(u[2]) /\ IsTail(u[3]) /\ IsTail(u[4])
      BY SMT, <2>2, Tailed
    <2>4. c = Of4(u[1], u[2], u[3], u[4])
      BY SMT, <1>1, <1>5 DEF Spelt, Of4
    <2>5. u[1] \in Int /\ u[2] \in Int /\ u[3] \in Int /\ u[4] \in Int
      BY SMT, <1>5, FirstFour
    <2>6. Span(240, u[1], 244) /\ (u[1] = 240 => u[2] >= 144) /\ (u[1] = 244 => u[2] <= 143)
      <3>1. Span(65536, c, 1114111) /\ c \in Int
        BY SMT, <1>1, <2>1 DEF Span
      <3>2. PICK x \in Int, y \in Int, z \in Int, w \in Int : x = u[1] /\ y = u[2] /\ z = u[3] /\ w = u[4]
        BY <2>5, Zenon
      <3>3. c = Of4(x, y, z, w) /\ IsTail(y) /\ IsTail(z) /\ IsTail(w)
        BY <2>3, <2>4, <3>2, Zenon
      <3>4. Span(240, x, 244) /\ (x = 240 => y >= 144) /\ (x = 244 => y <= 143)
        BY SMT, <3>1, <3>3, OfFour
      <3> QED
        BY SMT, <3>2, <3>4
    <2> QED
      BY SMT, <1>5, <2>3, <2>6 DEF Spells, Spelled
  <1> QED
    BY SMT, <1>2, <1>3, <1>4, <1>5

\* What is in the table is well-formed UTF-8.
LEMMA SpellsWellFormed ==
  ASSUME NEW u \in Seq(Int), Spells(u)
  PROVE  WellFormed(u)
  <1>1. Len(u) = 1 \/ Len(u) = 2 \/ Len(u) = 3 \/ Len(u) = 4
    BY SMT DEF Spells, Spelled
  <1>2. CASE Len(u) = 1
    <2>1. Spelt(u) = u[1] /\ u[1] \in Nat /\ u[1] < 128 /\ u = <<u[1]>>
      BY SMTT(60), <1>2 DEF Spelt, Spells, Spelled, Span
    <2>2. Utf8(u[1]) = <<u[1]>>
      BY SMT, <2>1, Utf8Cases
    <2> QED
      BY SMT, <2>1, <2>2 DEF WellFormed, ScalarValue
  <1>3. CASE Len(u) = 2
    <2>0. u[1] \in Int /\ u[2] \in Int /\ Span(194, u[1], 223) /\ Span(128, u[2], 191)
      BY SMT, <1>3, FirstFour DEF Spells, Spelled, IsTail
    <2>1. PICK a \in Nat : u[1] = 192 + a
      <3>1. u[1] - 192 \in Nat /\ u[1] = 192 + (u[1] - 192)
        BY SMT, <2>0 DEF Span
      <3> QED
        BY SMT, <3>1
    <2>10. PICK b \in Nat : u[2] = 128 + b
      <3>1. u[2] - 128 \in Nat /\ u[2] = 128 + (u[2] - 128)
        BY SMT, <2>0 DEF Span
      <3> QED
        BY SMT, <3>1
    <2>11. 2 <= a /\ a < 32 /\ b < 64
      BY SMT, <2>0, <2>1, <2>10 DEF Span
    <2>2. Spelt(u) = (u[1] - 192) * 64 + u[2] - 128
      BY SMT, <1>3 DEF Spelt
    <2>3. PICK c \in Nat : c = a * 64 + b
      BY SMT
    <2>4. Spelt(u) = c /\ Span(128, c, 2047)
      BY SMT, <2>1, <2>10, <2>11, <2>2, <2>3 DEF Span
    <2>5. Lead2(c) = 192 + a /\ Trail1(c) = 128 + b
      BY SMT, <2>1, <2>10, <2>11, <2>3, Divided DEF Lead2, Trail1
    <2>6. Utf8(c) = <<192 + a, 128 + b>>
      BY SMT, <2>4, <2>5, Utf8Cases
    <2>7. u = <<192 + a, 128 + b>>
      BY SMT, <1>3, <2>1, <2>10, <2>11
    <2> QED
      BY SMT, <2>4, <2>6, <2>7 DEF WellFormed, ScalarValue, Span
  <1>4. CASE Len(u) = 3
    <2>0. /\ u[1] \in Int /\ u[2] \in Int /\ u[3] \in Int
          /\ Span(224, u[1], 239) /\ Span(128, u[2], 191) /\ Span(128, u[3], 191)
          /\ u[1] = 224 => u[2] >= 160
          /\ u[1] = 237 => u[2] <= 159
      BY SMT, <1>4, FirstFour DEF Spells, Spelled, IsTail
    <2>1. PICK a \in Nat : u[1] = 224 + a
      <3>1. u[1] - 224 \in Nat /\ u[1] = 224 + (u[1] - 224)
        BY SMT, <2>0 DEF Span
      <3> QED
        BY SMT, <3>1
    <2>10. PICK b \in Nat : u[2] = 128 + b
      <3>1. u[2] - 128 \in Nat /\ u[2] = 128 + (u[2] - 128)
        BY SMT, <2>0 DEF Span
      <3> QED
        BY SMT, <3>1
    <2>12. PICK d \in Nat : u[3] = 128 + d
      <3>1. u[3] - 128 \in Nat /\ u[3] = 128 + (u[3] - 128)
        BY SMTT(60), <2>0 DEF Span
      <3> QED
        BY SMT, <3>1
    <2>11. a < 16 /\ b < 64 /\ d < 64 /\ (a = 0 => b >= 32) /\ (a = 13 => b <= 31)
      BY SMT, <2>0, <2>1, <2>10, <2>12 DEF Span
    <2>2. Spelt(u) = ((u[1] - 224) * 64 + u[2] - 128) * 64 + u[3] - 128
      BY SMT, <1>4 DEF Spelt
    <2>3. PICK c \in Nat : c = (a * 64 + b) * 64 + d
      BY SMT
    <2>4. Spelt(u) = c /\ Span(2048, c, 65535) /\ ~Span(55296, c, 57343)
      BY SMT, <2>1, <2>10, <2>12, <2>11, <2>2, <2>3 DEF Span
    <2>5. Lead3(c) = 224 + a /\ Trail2(c) = 128 + b /\ Trail1(c) = 128 + d
      <3>1. c = a * 4096 + (b * 64 + d) /\ b * 64 + d < 4096 /\ b * 64 + d \in Nat /\ a * 64 + b \in Nat
        BY SMT, <2>1, <2>10, <2>12, <2>11, <2>3
      <3>2. c \div 4096 = a
        BY SMT, <3>1, Divided
      <3>3. c \div 64 = a * 64 + b /\ c % 64 = d
        BY SMT, <2>1, <2>10, <2>12, <2>11, <2>3, <3>1, Divided
      <3>4. (a * 64 + b) % 64 = b
        BY SMT, <2>1, <2>10, <2>12, <2>11, Divided
      <3> QED
        BY SMT, <3>2, <3>3, <3>4 DEF Lead3, Trail2, Trail1
    <2>6. Utf8(c) = <<224 + a, 128 + b, 128 + d>>
      BY SMT, <2>4, <2>5, Utf8Cases
    <2>7. u = <<224 + a, 128 + b, 128 + d>>
      BY SMT, <1>4, <2>1, <2>10, <2>12, <2>11
    <2> QED
      BY SMT, <2>4, <2>6, <2>7 DEF WellFormed, ScalarValue, Span
  <1>5. CASE Len(u) = 4
    <2>0. /\ u[1] \in Int /\ u[2] \in Int /\ u[3] \in Int /\ u[4] \in Int
          /\ Span(240, u[1], 244) /\ Span(128, u[2], 191) /\ Span(128, u[3], 191) /\ Span(128, u[4], 191)
          /\ u[1] = 240 => u[2] >= 144
          /\ u[1] = 244 => u[2] <= 143
      BY SMT, <1>5, FirstFour DEF Spells, Spelled, IsTail
    <2>1. PICK a \in Nat : u[1] = 240 + a
      <3>1. u[1] - 240 \in Nat /\ u[1] = 240 + (u[1] - 240)
        BY SMT, <2>0 DEF Span
      <3> QED
        BY SMT, <3>1
    <2>10. PICK b \in Nat : u[2] = 128 + b
      <3>1. u[2] - 128 \in Nat /\ u[2] = 128 + (u[2] - 128)
        BY SMTT(60), <2>0 DEF Span
      <3> QED
        BY SMT, <3>1
    <2>12. PICK d \in Nat : u[3] = 128 + d
      <3>1. u[3] - 128 \in Nat /\ u[3] = 128 + (u[3] - 128)
        BY SMTT(60), <2>0 DEF Span
      <3> QED
        BY SMT, <3>1
    <2>13. PICK e \in Nat : u[4] = 128 + e
      <3>1. u[4] - 128 \in Nat /\ u[4] = 128 + (u[4] - 128)
        BY SMT, <2>0 DEF Span
      <3> QED
        BY SMT, <3>1
    <2>11. a < 5 /\ b < 64 /\ d < 64 /\ e < 64 /\ (a = 0 => b >= 16) /\ (a = 4 => b <= 15)
      BY SMT, <2>0, <2>1, <2>10, <2>12, <2>13 DEF Span
    <2>2. Spelt(u) = (((u[1] - 240) * 64 + u[2] - 128) * 64 + u[3] - 128) * 64 + u[4] - 128
      BY SMT, <1>5 DEF Spelt
    <2>3. PICK c \in Nat : c = ((a * 64 + b) * 64 + d) * 64 + e
      BY SMT
    <2>4. Spelt(u) = c /\ c > 65535 /\ c <= 1114111
      BY SMT, <2>1, <2>10, <2>12, <2>13, <2>11, <2>2, <2>3
    <2>5. Lead4(c) = 240 + a /\ Trail3(c) = 128 + b /\ Trail2(c) = 128 + d /\ Trail1(c) = 128 + e
      <3>1. /\ c = a * 262144 + (b * 4096 + d * 64 + e) /\ b * 4096 + d * 64 + e < 262144
            /\ b * 4096 + d * 64 + e \in Nat
            /\ c = (a * 64 + b) * 4096 + (d * 64 + e) /\ d * 64 + e < 4096 /\ d * 64 + e \in Nat
            /\ a * 64 + b \in Nat /\ (a * 64 + b) * 64 + d \in Nat
        BY SMT, <2>1, <2>10, <2>12, <2>13, <2>11, <2>3
      <3>2. c \div 262144 = a
        BY SMT, <3>1, Divided
      <3>3. c \div 4096 = a * 64 + b
        BY SMT, <3>1, Divided
      <3>4. c \div 64 = (a * 64 + b) * 64 + d /\ c % 64 = e
        BY SMT, <2>1, <2>10, <2>12, <2>13, <2>11, <2>3, <3>1, Divided
      <3>5. (a * 64 + b) % 64 = b
        BY SMT, <2>11, Divided
      <3>6. ((a * 64 + b) * 64 + d) % 64 = d
        BY SMT, <2>11, <3>1, Divided
      <3> QED
        BY SMT, <3>2, <3>3, <3>4, <3>5, <3>6 DEF Lead4, Trail3, Trail2, Trail1
    <2>6. Utf8(c) = <<240 + a, 128 + b, 128 + d, 128 + e>>
      BY SMT, <2>4, <2>5, Utf8Cases
    <2>7. u = <<240 + a, 128 + b, 128 + d, 128 + e>>
      BY SMT, <1>5, <2>1, <2>10, <2>12, <2>13, <2>11
    <2> QED
      BY SMT, <2>4, <2>6, <2>7 DEF WellFormed, ScalarValue
  <1> QED
    BY SMT, <1>1, <1>2, <1>3, <1>4, <1>5

-----------------------------------------------------------------------------
(* Strings: that Meanings is what its definition says.                      *)

Lengths == {1, 2, 3, 4, 6, 12}
Cuts(s) == {k \in Lengths : k <= Len(s) /\ Denoted(SubSeq(s, 1, k)) # {}}
Products(A, B) == { c \o m : c \in A, m \in B }
Joined(s, n, f) == Products(Denoted(SubSeq(s, 1, n)), f[SubSeq(s, n + 1, Len(s))])
Meant(s, f) == IF s = <<>> THEN {<<>>} ELSE UNION {Joined(s, n, f) : n \in Cuts(s)}

\* The value of a hexadecimal digit.
LEMMA HexInts == \A b \in HexDigit : Hex(b) \in 0..15
  <1>1. \A b \in 48..57 : b \notin 65..70 /\ b \notin 97..102 /\ b - 48 \in 0..15
    OBVIOUS
  <1>2. \A b \in 65..70 : b \notin 48..57 /\ b \notin 97..102 /\ b - 55 \in 0..15
    OBVIOUS
  <1>3. \A b \in 97..102 : b \notin 65..70 /\ b \notin 48..57 /\ b - 87 \in 0..15
    OBVIOUS
  <1> QED
    BY <1>1, <1>2, <1>3 DEF HexDigit, Hex

\* It is a natural number.
LEMMA HexNat == \A b \in HexDigit : Hex(b) \in Nat
  <1>1. \A x \in 0..15 : x \in Nat
    OBVIOUS
  <1> QED
    BY <1>1, HexInts, Zenon

\* So is the value of four of them.
LEMMA CodeUnitNat ==
  ASSUME NEW u \in Seq(Int), IsUnit(u)
  PROVE  CodeUnit(u) \in Nat
  <1>1. u[3] \in HexDigit /\ u[4] \in HexDigit /\ u[5] \in HexDigit /\ u[6] \in HexDigit
    BY DEF IsUnit
  <1>2. Hex(u[3]) \in Nat /\ Hex(u[4]) \in Nat /\ Hex(u[5]) \in Nat /\ Hex(u[6]) \in Nat
    BY <1>1, HexNat, Zenon
  <1>3. \A a, b, c, d \in Nat : ((a * 16 + b) * 16 + c) * 16 + d \in Nat
    BY SMT
  <1> QED
    BY <1>2, <1>3, Zenon DEF CodeUnit

\* The escapes of one letter.
LEMMA Escapes == DOMAIN Escape = {34, 92, 47, 98, 102, 110, 114, 116} /\ \A b \in DOMAIN Escape : Escape[b] \in Nat
  BY DEF Escape

\* What one character may stand for, by the kind of character.
LEMMA DenotedCases ==
  ASSUME NEW u
  PROVE  \/ Denoted(u) = {u}
         \/ u[2] \in DOMAIN Escape /\ Denoted(u) = {<<Escape[u[2]]>>}
         \/ IsUnit(u) /\ Denoted(u) = {Utf8(CodeUnit(u))}
         \/ IsPair(u) /\ Denoted(u) = {Utf8(Paired(u))}
         \/ Denoted(u) = {}
  BY Zenon DEF Denoted

\* The code point of a pair of surrogates is a natural number.
LEMMA PairedNat ==
  ASSUME NEW u \in Seq(Int), IsPair(u)
  PROVE  Paired(u) \in Nat
  <1>0. Len(u) = 12 /\ IsUnit(SubSeq(u, 1, 6)) /\ IsUnit(SubSeq(u, 7, 12))
    BY SMT DEF IsPair
  <1>1. SubSeq(u, 1, 6) \in Seq(Int) /\ SubSeq(u, 7, 12) \in Seq(Int)
    <2>1. Len(u) = 12
      BY <1>0
    <2>2. 6 \in 0..Len(u) /\ 12 \in 0..Len(u) /\ 1 \in Nat \ {0} /\ 7 \in Nat \ {0} /\ 1 <= 6 + 1 /\ 7 <= 12 + 1
      BY <2>1
    <2> QED
      BY <2>2, DigitsPart
  <1>2. PICK a \in Nat : a = CodeUnit(SubSeq(u, 1, 6))
    BY <1>0, <1>1, CodeUnitNat, Zenon
  <1>3. PICK b \in Nat : b = CodeUnit(SubSeq(u, 7, 12))
    BY <1>0, <1>1, CodeUnitNat, Zenon
  <1>4. a >= 55296 /\ b >= 56320
    <2> HIDE DEF IsUnit, CodeUnit
    <2> QED
      BY SMT, <1>2, <1>3 DEF IsPair
  <1>5. Paired(u) = 65536 + 1024 * (a - 55296) + b - 56320
    <2> HIDE DEF CodeUnit
    <2> QED
      BY SMT, <1>2, <1>3 DEF Paired
  <1> QED
    BY SMT, <1>4, <1>5

\* Characters stand for sequences of bytes.
LEMMA DenotedSeq ==
  ASSUME NEW u \in Seq(Int)
  PROVE  Denoted(u) \subseteq Seq(Int)
  <1>1. CASE u[2] \in DOMAIN Escape /\ Denoted(u) = {<<Escape[u[2]]>>}
    <2>1. Escape[u[2]] \in Nat
      BY <1>1, Escapes, Zenon
    <2>2. <<Escape[u[2]]>> \in Seq(Int)
      <3> HIDE DEF Escape
      <3> QED
        BY <2>1
    <2> QED
      BY <1>1, <2>2, Zenon
  <1>2. CASE IsUnit(u) /\ Denoted(u) = {Utf8(CodeUnit(u))}
    <2>1. Utf8(CodeUnit(u)) \in Seq(Int)
      BY <1>2, CodeUnitNat, Utf8Seq, Zenon
    <2> QED
      BY <1>2, <2>1, Zenon
  <1>3. CASE IsPair(u) /\ Denoted(u) = {Utf8(Paired(u))}
    <2>1. Utf8(Paired(u)) \in Seq(Int)
      BY <1>3, PairedNat, Utf8Seq, Zenon
    <2> QED
      BY <1>3, <2>1, Zenon
  <1> QED
    <2>1. Denoted(u) = {u} => Denoted(u) \subseteq Seq(Int)
      OBVIOUS
    <2>2. Denoted(u) = {} => Denoted(u) \subseteq Seq(Int)
      OBVIOUS
    <2> QED
      BY <1>1, <1>2, <1>3, <2>1, <2>2, DenotedCases, Zenon

\* Meanings is looked up for shorter strings only.
LEMMA CutsShorter ==
  ASSUME NEW s \in Seq(Int), NEW n \in Cuts(s)
  PROVE  /\ SubSeq(s, 1, n) \in Seq(Int) /\ SubSeq(s, n + 1, Len(s)) \in Seq(Int)
         /\ Len(SubSeq(s, n + 1, Len(s))) < Len(s)
  BY DEF Cuts, Lengths

\* What a text means depends on what shorter texts mean only.
LEMMA MeantLocal ==
  ASSUME NEW s \in Seq(Int), NEW f, NEW g, \A e \in Seq(Int) : Len(e) < Len(s) => f[e] = g[e]
  PROVE  Meant(s, f) = Meant(s, g)
  <1>1. ASSUME NEW n \in Cuts(s)
        PROVE  Joined(s, n, f) = Joined(s, n, g)
    <2>1. f[SubSeq(s, n + 1, Len(s))] = g[SubSeq(s, n + 1, Len(s))]
      BY <1>1, CutsShorter, Zenon
    <2> QED
      BY <2>1, Zenon DEF Joined
  <1> HIDE DEF Joined
  <1>2. {Joined(s, n, f) : n \in Cuts(s)} = {Joined(s, n, g) : n \in Cuts(s)}
    BY <1>1
  <1> QED
    BY <1>2, Zenon DEF Meant

\* It is a set of sequences of bytes.
LEMMA MeantSeqs ==
  ASSUME NEW s \in Seq(Int), NEW f \in [Seq(Int) -> SUBSET Seq(Int)]
  PROVE  Meant(s, f) \in SUBSET Seq(Int)
  <1>1. ASSUME NEW n \in Cuts(s)
        PROVE  Joined(s, n, f) \in SUBSET Seq(Int)
    <2> SUFFICES ASSUME NEW x \in Joined(s, n, f) PROVE x \in Seq(Int)
      OBVIOUS
    <2>1. PICK c \in Denoted(SubSeq(s, 1, n)), m \in f[SubSeq(s, n + 1, Len(s))] : x = c \o m
      BY DEF Joined, Products
    <2>2. c \in Seq(Int)
      BY <1>1, CutsShorter, DenotedSeq
    <2>3. m \in Seq(Int)
      BY <1>1, CutsShorter
    <2> QED
      BY <2>1, <2>2, <2>3
  <1> HIDE DEF Joined
  <1> QED
    BY <1>1 DEF Meant

\* Meanings exists and satisfies its own equation.
LEMMA MeaningsAre ==
  /\ Meanings \in [Seq(Int) -> SUBSET Seq(Int)]
  /\ \A s \in Seq(Int) : Meanings[s] = Meant(s, Meanings)
  <1> DEFINE D == Seq(Int)
             B == SUBSET Seq(Int)
             size == [s \in D |-> Len(s)]
             step == [x \in D \X [D -> B] |-> Meant(x[1], x[2])]
             Is(f) == f = [s \in Seq(Int) |-> Meant(s, f)]
  <1>1. size \in [D -> Nat] /\ \A s \in D : size[s] = Len(s)
    OBVIOUS
  <1>2. /\ step \in [D \X [D -> B] -> B]
        /\ \A s \in D : \A f \in [D -> B] : step[<<s, f>>] = Meant(s, f)
    <2> HIDE DEF Meant
    <2>1. \A x \in D \X [D -> B] : Meant(x[1], x[2]) \in B
      BY MeantSeqs
    <2> HIDE DEF D, B
    <2> QED
      BY <2>1
  <1>3. ByTheSmaller(D, B, size, step)
    <2> HIDE DEF size, step
    <2>1. ASSUME NEW d \in D, NEW f \in [D -> B], NEW g \in [D -> B],
                 \A e \in D : size[e] < size[d] => f[e] = g[e]
          PROVE  step[<<d, f>>] = step[<<d, g>>]
      <3>1. \A e \in D : Len(e) < Len(d) => f[e] = g[e]
        BY <1>1, <2>1
      <3>2. Meant(d, f) = Meant(d, g)
        BY <3>1, MeantLocal
      <3> HIDE DEF D, B
      <3> QED
        BY <1>2, <3>2
    <2> HIDE DEF D, B
    <2> QED
      BY <1>1, <1>2, <2>1 DEF ByTheSmaller
  <1>4. {} \in B
    OBVIOUS
  <1>5. PICK h : Solves(h, D, B, step)
    <2> HIDE DEF D, B, size, step
    <2> QED
      BY <1>3, <1>4, WellFounded
  <1>6. h \in [D -> B] /\ \A d \in D : h[d] = step[<<d, h>>]
    BY <1>5, Zenon DEF Solves
  <1>7. Is(h)
    <2> HIDE DEF step, B, Meant
    <2>1. \A s \in D : step[<<s, h>>] = Meant(s, h)
      BY <1>2, <1>6, Zenon
    <2> QED
      BY <1>6, <2>1
  <1>8. Meanings = CHOOSE f : Is(f)
    BY DEF Meanings, Meant, Joined, Products, Cuts, Lengths
  <1>9. Is(Meanings)
    <2> HIDE DEF Is
    <2> QED
      BY <1>7, <1>8
  <1>10. ASSUME NEW n \in Nat
         PROVE  \A s \in D : Len(s) < n => Meanings[s] = h[s]
    <2> DEFINE C == {k \in 0..n : \A s \in D : Len(s) < k => Meanings[s] = h[s]}
    <2>1. 0 \in C
      OBVIOUS
    <2>2. \A k \in 0..n : k \in C /\ k < n => k + 1 \in C
      <3> SUFFICES ASSUME NEW k \in 0..n, k \in C, k < n, NEW s \in D, Len(s) < k + 1
                   PROVE  Meanings[s] = h[s]
        OBVIOUS
      <3>1. \A e \in Seq(Int) : Len(e) < Len(s) => Meanings[e] = h[e]
        OBVIOUS
      <3> HIDE DEF Meant
      <3>2. Meant(s, Meanings) = Meant(s, h)
        BY <3>1, MeantLocal
      <3> QED
        BY <1>7, <1>9, <3>2
    <2>3. n \in C
      <3>1. 0..n \subseteq C
        <4> HIDE DEF C
        <4> QED
          BY <2>1, <2>2, Upwards
      <3>2. n \in 0..n
        OBVIOUS
      <3> QED
        BY <3>1, <3>2
    <2> QED
      BY <2>3
  <1>11. \A s \in D : Meanings[s] = h[s]
    <2> TAKE s \in D
    <2>1. Len(s) + 1 \in Nat /\ Len(s) < Len(s) + 1
      OBVIOUS
    <2> QED
      BY <1>10, <2>1
  <1>12. Meanings \in [D -> B] /\ \A s \in D : Meanings[s] = Meant(s, Meanings)
    <2> HIDE DEF B, Meant
    <2>1. Meanings = [s \in D |-> Meanings[s]]
      BY <1>9
    <2> QED
      BY <1>6, <1>9, <1>11, <2>1
  <1> QED
    BY <1>12

-----------------------------------------------------------------------------
(* Strings: which beginnings of s stand for a character.                    *)

UnitAt(s, k) == /\ s[k + 1] = Backslash /\ s[k + 2] = 117
                /\ s[k + 3] \in HexDigit /\ s[k + 4] \in HexDigit /\ s[k + 5] \in HexDigit /\ s[k + 6] \in HexDigit
CodeAt(s, k) == ((Hex(s[k + 3]) * 16 + Hex(s[k + 4])) * 16 + Hex(s[k + 5])) * 16 + Hex(s[k + 6])
Ordinary(b) == b >= 32 /\ b # Quote /\ b # Backslash

\* The first n bytes of s do.
Denotes(s, n) ==
  \/ n <= 4 /\ Spelled(s, n) /\ Ordinary(s[1])
  \/ n = 2 /\ s[1] = Backslash /\ s[2] \in DOMAIN Escape
  \/ n = 6 /\ UnitAt(s, 0) /\ ScalarValue(CodeAt(s, 0))
  \/ n = 12 /\ UnitAt(s, 0) /\ UnitAt(s, 6) /\ High(CodeAt(s, 0)) /\ Low(CodeAt(s, 6))

\* The value of an escape of UTF-16 is a natural number.
LEMMA CodeAtNat ==
  ASSUME NEW s, NEW k, UnitAt(s, k)
  PROVE  CodeAt(s, k) \in Nat
  <1>1. /\ Hex(s[k + 3]) \in Nat /\ Hex(s[k + 4]) \in Nat
        /\ Hex(s[k + 5]) \in Nat /\ Hex(s[k + 6]) \in Nat
    BY HexNat, ZenonT(60) DEF UnitAt
  <1>2. \A a, b, c, d \in Nat : ((a * 16 + b) * 16 + c) * 16 + d \in Nat
    BY SMT
  <1> QED
    BY <1>1, <1>2, Zenon DEF CodeAt

\* Six bytes of u and of s are the same.
SixSame(u, j, s, k) ==
  /\ u[j + 1] = s[k + 1] /\ u[j + 2] = s[k + 2] /\ u[j + 3] = s[k + 3]
  /\ u[j + 4] = s[k + 4] /\ u[j + 5] = s[k + 5] /\ u[j + 6] = s[k + 6]

SameAt(u, j, s, k) == (UnitAt(u, j) <=> UnitAt(s, k)) /\ CodeAt(u, j) = CodeAt(s, k)

\* An escape of UTF-16 is the same at another place.
LEMMA SameUnit ==
  ASSUME NEW u, NEW j, NEW s, NEW k, SixSame(u, j, s, k)
  PROVE  SameAt(u, j, s, k)
  BY Zenon DEF UnitAt, CodeAt, SixSame, SameAt

\* A sequence of six bytes is an escape of UTF-16 if its first six are.
LEMMA UnitWhole ==
  ASSUME NEW u \in Seq(Int), Len(u) = 6
  PROVE  (IsUnit(u) <=> UnitAt(u, 0)) /\ CodeUnit(u) = CodeAt(u, 0)
  <1>1. \A i \in 3..6 : i = 3 \/ i = 4 \/ i = 5 \/ i = 6
    OBVIOUS
  <1>2. 3 \in 3..6 /\ 4 \in 3..6 /\ 5 \in 3..6 /\ 6 \in 3..6
    OBVIOUS
  <1>3. 0 + 1 = 1 /\ 0 + 2 = 2 /\ 0 + 3 = 3 /\ 0 + 4 = 4 /\ 0 + 5 = 5 /\ 0 + 6 = 6
    OBVIOUS
  <1>4. (\A i \in 3..6 : u[i] \in HexDigit) <=>
          u[3] \in HexDigit /\ u[4] \in HexDigit /\ u[5] \in HexDigit /\ u[6] \in HexDigit
    <2> HIDE DEF HexDigit
    <2> QED
      BY <1>1, <1>2
  <1>5. IsUnit(u) <=> /\ u[1] = Backslash /\ u[2] = 117
                      /\ u[3] \in HexDigit /\ u[4] \in HexDigit /\ u[5] \in HexDigit /\ u[6] \in HexDigit
    BY <1>4, Zenon DEF IsUnit
  <1>6. UnitAt(u, 0) <=> /\ u[1] = Backslash /\ u[2] = 117
                         /\ u[3] \in HexDigit /\ u[4] \in HexDigit /\ u[5] \in HexDigit /\ u[6] \in HexDigit
    BY <1>3, Zenon DEF UnitAt
  <1>7. CodeUnit(u) = CodeAt(u, 0)
    BY <1>3, Zenon DEF CodeUnit, CodeAt
  <1> QED
    BY <1>5, <1>6, <1>7, Zenon

\* Six bytes within a sequence are one if those at that place are.
LEMMA UnitPart ==
  ASSUME NEW u \in Seq(Int), NEW k \in Nat, k + 6 <= Len(u)
  PROVE  /\ SubSeq(u, k + 1, k + 6) \in Seq(Int) /\ Len(SubSeq(u, k + 1, k + 6)) = 6
         /\ IsUnit(SubSeq(u, k + 1, k + 6)) <=> UnitAt(u, k)
         /\ CodeUnit(SubSeq(u, k + 1, k + 6)) = CodeAt(u, k)
  <1>1. PICK v \in Seq(Int) : v = SubSeq(u, k + 1, k + 6) /\ Len(v) = 6 /\ \A i \in 1..6 : v[i] = u[k + i]
    <2>1. k + 1 \in Nat \ {0} /\ k + 6 \in 0..Len(u) /\ k + 1 <= (k + 6) + 1
      OBVIOUS
    <2>2. /\ SubSeq(u, k + 1, k + 6) \in Seq(Int) /\ Len(SubSeq(u, k + 1, k + 6)) = (k + 6) - (k + 1) + 1
          /\ \A i \in 1..((k + 6) - (k + 1) + 1) : SubSeq(u, k + 1, k + 6)[i] = u[(k + 1) + i - 1]
      BY <2>1, DigitsPart
    <2>3. (k + 6) - (k + 1) + 1 = 6 /\ \A i \in 1..6 : (k + 1) + i - 1 = k + i
      OBVIOUS
    <2> QED
      BY <2>2, <2>3, ZenonT(60)
  <1>2. PICK z \in Nat : z = 0
    OBVIOUS
  <1>3. SixSame(v, z, u, k)
    BY <1>1, <1>2 DEF SixSame
  <1>5. (UnitAt(v, z) <=> UnitAt(u, k)) /\ CodeAt(v, z) = CodeAt(u, k)
    <2>1. SameAt(v, z, u, k)
      BY <1>3, SameUnit
    <2> QED
      BY <2>1, Zenon DEF SameAt
  <1>4. (IsUnit(v) <=> UnitAt(v, 0)) /\ CodeUnit(v) = CodeAt(v, 0)
    BY <1>1, UnitWhole
  <1> QED
    BY <1>1, <1>2, <1>4, <1>5, Zenon

PairAt(s) == UnitAt(s, 0) /\ UnitAt(s, 6) /\ High(CodeAt(s, 0)) /\ Low(CodeAt(s, 6))

\* A pair of surrogates in terms of places.
LEMMA PairWhole ==
  ASSUME NEW u \in Seq(Int), Len(u) = 12
  PROVE  /\ IsPair(u) <=> PairAt(u)
         /\ Paired(u) = 65536 + 1024 * (CodeAt(u, 0) - 55296) + CodeAt(u, 6) - 56320
  <1>1. /\ IsUnit(SubSeq(u, 1, 6)) <=> UnitAt(u, 0)
        /\ CodeUnit(SubSeq(u, 1, 6)) = CodeAt(u, 0)
    <2>1. 0 \in Nat /\ 0 + 6 <= Len(u) /\ 0 + 1 = 1 /\ 0 + 6 = 6
      OBVIOUS
    <2> HIDE DEF UnitAt, CodeAt, IsUnit, CodeUnit
    <2>2. /\ IsUnit(SubSeq(u, 0 + 1, 0 + 6)) <=> UnitAt(u, 0)
          /\ CodeUnit(SubSeq(u, 0 + 1, 0 + 6)) = CodeAt(u, 0)
      BY <2>1, UnitPart
    <2> QED
      BY <2>1, <2>2
  <1>2. /\ IsUnit(SubSeq(u, 7, 12)) <=> UnitAt(u, 6)
        /\ CodeUnit(SubSeq(u, 7, 12)) = CodeAt(u, 6)
    <2>1. 6 \in Nat /\ 6 + 6 <= Len(u) /\ 6 + 1 = 7 /\ 6 + 6 = 12
      OBVIOUS
    <2>2. /\ IsUnit(SubSeq(u, 6 + 1, 6 + 6)) <=> UnitAt(u, 6)
          /\ CodeUnit(SubSeq(u, 6 + 1, 6 + 6)) = CodeAt(u, 6)
      BY <2>1, UnitPart
    <2> QED
      BY <2>1, <2>2
  <1>3. IsPair(u) <=> /\ UnitAt(u, 0) /\ UnitAt(u, 6)
                      /\ 55296 <= CodeAt(u, 0) /\ CodeAt(u, 0) <= 56319
                      /\ 56320 <= CodeAt(u, 6) /\ CodeAt(u, 6) <= 57343
    <2> HIDE DEF UnitAt, CodeAt, IsUnit, CodeUnit
    <2> QED
      BY SMT, <1>1, <1>2 DEF IsPair
  <1>4. Paired(u) = 65536 + 1024 * (CodeAt(u, 0) - 55296) + CodeAt(u, 6) - 56320
    BY SMT, <1>1, <1>2 DEF Paired
  <1>5. (UnitAt(u, 0) => CodeAt(u, 0) \in Nat) /\ (UnitAt(u, 6) => CodeAt(u, 6) \in Nat)
    BY CodeAtNat, Zenon
  <1> HIDE DEF UnitAt, CodeAt
  <1>6. IsPair(u) <=> PairAt(u)
    BY SMT, <1>3, <1>5 DEF High, Low, PairAt
  <1> QED
    BY <1>4, <1>6

\* Denotes says which beginnings of s stand for something.
LEMMA DenotesWhere ==
  ASSUME NEW s \in Seq(Int), NEW n \in Lengths, n <= Len(s)
  PROVE  (Denoted(SubSeq(s, 1, n)) # {}) <=> Denotes(s, n)
  <1>1. PICK u \in Seq(Int) : u = SubSeq(s, 1, n) /\ Len(u) = n /\ \A i \in 1..n : u[i] = s[i]
    <2>1. n \in Nat \ {0} /\ n \in 0..Len(s) /\ 1 \in Nat \ {0} /\ 1 <= n + 1 /\ n - 1 + 1 = n
      BY DEF Lengths
    <2>2. /\ SubSeq(s, 1, n) \in Seq(Int) /\ Len(SubSeq(s, 1, n)) = n - 1 + 1
          /\ \A k \in 1..(n - 1 + 1) : SubSeq(s, 1, n)[k] = s[1 + k - 1]
      BY <2>1, DigitsPart
    <2>3. \A k \in 1..n : 1 + k - 1 = k
      BY <2>1
    <2> QED
      BY <2>1, <2>2, <2>3
  <1>2. n = 1 \/ n = 2 \/ n = 3 \/ n = 4 \/ n = 6 \/ n = 12
    BY DEF Lengths
  <1>3. u[1] = s[1] /\ (n >= 2 => u[2] = s[2]) /\ (n >= 3 => u[3] = s[3]) /\ (n >= 4 => u[4] = s[4])
    <2>1. 1 \in 1..n /\ (n >= 2 => 2 \in 1..n) /\ (n >= 3 => 3 \in 1..n) /\ (n >= 4 => 4 \in 1..n)
      BY <1>2
    <2> QED
      BY <1>1, <2>1
  <1>4. ASSUME n <= 4
        PROVE  WellFormed(u) <=> Spelled(s, n)
    <2>1. Len(u) \in 1..4
      BY <1>1, <1>2, <1>4
    <2>2. WellFormed(u) <=> Spells(u)
      BY <2>1, WellFormedSpells, SpellsWellFormed, Zenon
    <2>3. Spells(u) <=> Spelled(s, n)
      <3>1. (n = 1 /\ n # 2 /\ n # 3 /\ n # 4) \/ (n # 1 /\ n = 2 /\ n # 3 /\ n # 4)
              \/ (n # 1 /\ n # 2 /\ n = 3 /\ n # 4) \/ (n # 1 /\ n # 2 /\ n # 3 /\ n = 4)
        BY <1>2, <1>4
      <3>2. /\ (n = 2 => u[2] = s[2]) /\ (n = 3 => u[2] = s[2] /\ u[3] = s[3])
            /\ (n = 4 => u[2] = s[2] /\ u[3] = s[3] /\ u[4] = s[4])
        BY <1>3
      <3>3. u[1] = s[1] /\ Len(u) = n
        BY <1>1, <1>3
      <3> HIDE DEF Span, IsTail
      <3> QED
        BY SMTT(60), <3>1, <3>2, <3>3 DEF Spells, Spelled
    <2> QED
      BY <2>2, <2>3, Zenon
  <1>5. (IsUnit(u) => n = 6) /\ (IsPair(u) => n = 12)
    BY SMT, <1>1 DEF IsUnit, IsPair
  <1>6. ASSUME n = 6
        PROVE  (IsUnit(u) <=> UnitAt(s, 0)) /\ CodeUnit(u) = CodeAt(s, 0)
    <2>1. PICK z \in Nat : z = 0
      OBVIOUS
    <2>2. SixSame(u, z, s, z)
      BY <1>1, <1>6, <2>1 DEF SixSame
    <2>3. (UnitAt(u, z) <=> UnitAt(s, z)) /\ CodeAt(u, z) = CodeAt(s, z)
      <3>1. SameAt(u, z, s, z)
        BY <2>2, SameUnit
      <3> QED
        BY <3>1, Zenon DEF SameAt
    <2>4. (IsUnit(u) <=> UnitAt(u, 0)) /\ CodeUnit(u) = CodeAt(u, 0)
      BY <1>1, <1>6, UnitWhole
    <2> QED
      BY <2>1, <2>3, <2>4, Zenon
  <1>7. ASSUME n = 12
        PROVE  IsPair(u) <=> UnitAt(s, 0) /\ UnitAt(s, 6) /\ High(CodeAt(s, 0)) /\ Low(CodeAt(s, 6))
    <2>1. PICK z \in Nat : z = 0
      OBVIOUS
    <2>2. SixSame(u, z, s, z)
      BY <1>1, <1>7, <2>1 DEF SixSame
    <2>6. SixSame(u, 6, s, 6)
      BY <1>1, <1>7 DEF SixSame
    <2>3. (UnitAt(u, z) <=> UnitAt(s, z)) /\ CodeAt(u, z) = CodeAt(s, z)
      <3>1. SameAt(u, z, s, z)
        BY <2>2, SameUnit
      <3> QED
        BY <3>1, Zenon DEF SameAt
    <2>4. (UnitAt(u, 6) <=> UnitAt(s, 6)) /\ CodeAt(u, 6) = CodeAt(s, 6)
      <3>1. SameAt(u, 6, s, 6)
        BY <2>6, SameUnit
      <3> QED
        BY <3>1, Zenon DEF SameAt
    <2>5. IsPair(u) <=> UnitAt(u, 0) /\ UnitAt(u, 6) /\ High(CodeAt(u, 0)) /\ Low(CodeAt(u, 6))
      <3>1. Len(u) = 12
        BY <1>1, <1>7
      <3>2. IsPair(u) <=> PairAt(u)
        BY <3>1, PairWhole
      <3> QED
        BY <3>2, Zenon DEF PairAt
    <2> HIDE DEF High, Low
    <2> QED
      BY <2>1, <2>3, <2>4, <2>5, Zenon
  <1>8. CASE n <= 4
    <2>1. n # 6 /\ n # 12 /\ ~IsUnit(u) /\ ~IsPair(u)
      BY SMT, <1>2, <1>5, <1>8
    <2>2. (u[1] >= 32 /\ u[1] \notin {Quote, Backslash}) <=> Ordinary(s[1])
      BY <1>3 DEF Ordinary
    <2>3. Denoted(u) # {} <=> \/ WellFormed(u) /\ u[1] >= 32 /\ u[1] \notin {Quote, Backslash}
                              \/ n = 2 /\ u[1] = Backslash /\ u[2] \in DOMAIN Escape
      <3>1. Len(u) <= 4 /\ Len(u) = n
        BY <1>1, <1>8
      <3> QED
        BY <2>1, <3>1, Zenon DEF Denoted
    <2>4. Denotes(s, n) <=> \/ Spelled(s, n) /\ Ordinary(s[1])
                            \/ n = 2 /\ s[1] = Backslash /\ s[2] \in DOMAIN Escape
      BY <1>8, <2>1, Zenon DEF Denotes
    <2>5. n = 2 => u[1] = s[1] /\ u[2] = s[2]
      BY <1>3
    <2>6. Denoted(u) # {} <=> Denotes(s, n)
      BY <1>4, <1>8, <2>2, <2>3, <2>4, <2>5, Zenon
    <2> QED
      BY <1>1, <2>6, Zenon
  <1>9. CASE n = 6
    <2>1. n # 2 /\ n # 12 /\ ~(n <= 4) /\ ~IsPair(u) /\ ~(Len(u) <= 4) /\ Len(u) # 2
      BY SMT, <1>1, <1>5, <1>9
    <2>2. Denoted(u) # {} <=> IsUnit(u) /\ ScalarValue(CodeUnit(u))
      BY <2>1, Zenon DEF Denoted
    <2>3. Denotes(s, n) <=> UnitAt(s, 0) /\ ScalarValue(CodeAt(s, 0))
      BY <1>9, <2>1, Zenon DEF Denotes
    <2> QED
      BY <1>1, <1>6, <1>9, <2>2, <2>3, Zenon
  <1>10. CASE n = 12
    <2>1. n # 2 /\ n # 6 /\ ~(n <= 4) /\ ~IsUnit(u) /\ ~(Len(u) <= 4) /\ Len(u) # 2
      BY SMT, <1>1, <1>5, <1>10
    <2>2. Denoted(u) # {} <=> IsPair(u)
      BY <2>1, Zenon DEF Denoted
    <2>3. Denotes(s, n) <=> UnitAt(s, 0) /\ UnitAt(s, 6) /\ High(CodeAt(s, 0)) /\ Low(CodeAt(s, 6))
      BY <1>10, <2>1, Zenon DEF Denotes
    <2> QED
      BY <1>1, <1>7, <1>10, <2>2, <2>3, Zenon
  <1>11. n <= 4 \/ n = 6 \/ n = 12
    BY <1>2
  <1> QED
    BY <1>8, <1>9, <1>10, <1>11

\* No text begins with two characters.
LEMMA Unambiguous ==
  ASSUME NEW s \in Seq(Int), NEW m \in Lengths, NEW n \in Lengths, n <= Len(s), m <= Len(s),
         Denotes(s, m), Denotes(s, n)
  PROVE  m = n
  <1>1. ASSUME NEW k \in Lengths, k <= Len(s), Denotes(s, k)
        PROVE  \/ k = 1 /\ Span(0, s[1], 127) /\ s[1] # 92
               \/ k = 2 /\ Span(194, s[1], 223)
               \/ k = 2 /\ s[1] = 92 /\ s[2] # 117
               \/ k = 3 /\ Span(224, s[1], 239)
               \/ k = 4 /\ Span(240, s[1], 244)
               \/ k = 6 /\ s[1] = 92 /\ s[2] = 117 /\ UnitAt(s, 0) /\ ScalarValue(CodeAt(s, 0))
               \/ k = 12 /\ s[1] = 92 /\ s[2] = 117 /\ UnitAt(s, 0) /\ High(CodeAt(s, 0))
    <2>1. CASE k <= 4 /\ Spelled(s, k) /\ Ordinary(s[1])
      <3> HIDE DEF Span, IsTail
      <3> QED
        BY SMT, <2>1 DEF Spelled, Ordinary, Backslash
    <2>2. CASE k = 2 /\ s[1] = Backslash /\ s[2] \in DOMAIN Escape
      <3>1. s[2] # 117
        <4>1. 117 \notin DOMAIN Escape
          BY Escapes
        <4> QED
          BY <2>2, <4>1, Zenon
      <3> QED
        BY <2>2, <3>1 DEF Backslash
    <2>3. CASE k = 6 /\ UnitAt(s, 0) /\ ScalarValue(CodeAt(s, 0))
      BY SMT, <2>3 DEF UnitAt, Backslash
    <2>4. CASE k = 12 /\ UnitAt(s, 0) /\ UnitAt(s, 6) /\ High(CodeAt(s, 0)) /\ Low(CodeAt(s, 6))
      BY SMT, <2>4 DEF UnitAt, Backslash
    <2> QED
      BY <1>1, <2>1, <2>2, <2>3, <2>4, Zenon DEF Denotes
  <1>3. s[1] \in Int
    <2>1. 1 \in 1..Len(s)
      BY DEF Lengths
    <2> QED
      BY <2>1
  <1>4. UnitAt(s, 0) => ~(ScalarValue(CodeAt(s, 0)) /\ High(CodeAt(s, 0)))
    <2> SUFFICES ASSUME UnitAt(s, 0)
                 PROVE  ~(ScalarValue(CodeAt(s, 0)) /\ High(CodeAt(s, 0)))
      OBVIOUS
    <2>1. PICK c \in Nat : c = CodeAt(s, 0)
      BY CodeAtNat, Zenon
    <2>2. ~(ScalarValue(c) /\ High(c))
      BY SMT DEF ScalarValue, High
    <2> QED
      BY <2>1, <2>2, Zenon
  <1> HIDE DEF ScalarValue, High, CodeAt, UnitAt
  <1> QED
    BY SMT, <1>1, <1>3, <1>4 DEF Span

Prefixed(c, M) == {c \o m : m \in M}

\* Wherever a text begins with p, p stands for c.
Reads(p, c) == /\ p \in Seq(Int) /\ c \in Seq(Int)
               /\ \A e \in Seq(Int) : Meanings[p \o e] = Prefixed(c, Meanings[e])

\* No text begins with r.
Dead(r) == /\ r \in Seq(Int)
           /\ \A e \in Seq(Int) : Meanings[r \o e] = {}

\* Sequences joined are sequences, and it does not matter how they are put in brackets.
LEMMA Joins ==
  ASSUME NEW x \in Seq(Int), NEW y \in Seq(Int), NEW z \in Seq(Int)
  PROVE  x \o y \in Seq(Int) /\ (x \o y) \o z = x \o (y \o z)
  OBVIOUS

\* Nothing joined changes nothing.
LEMMA JoinsEmpty ==
  ASSUME NEW x \in Seq(Int)
  PROVE  x \o <<>> = x /\ <<>> \o x = x
  OBVIOUS

\* A text means sequences of bytes.
LEMMA MeansSeqs ==
  ASSUME NEW s \in Seq(Int)
  PROVE  Meanings[s] \subseteq Seq(Int)
  BY MeaningsAre

\* The empty text means the empty one.
LEMMA NothingMeans == Meanings[<<>>] = {<<>>}
  <1>1. <<>> \in Seq(Int)
    OBVIOUS
  <1> QED
    BY <1>1, MeaningsAre, Zenon DEF Meant

\* Nothing stands for nothing.
LEMMA ReadsNothing == Reads(<<>>, <<>>)
  <1>1. <<>> \in Seq(Int)
    OBVIOUS
  <1>2. ASSUME NEW e \in Seq(Int)
        PROVE  Meanings[<<>> \o e] = Prefixed(<<>>, Meanings[e])
    <2>1. \A m \in Meanings[e] : <<>> \o m = m
      BY MeansSeqs, JoinsEmpty
    <2>2. Prefixed(<<>>, Meanings[e]) = Meanings[e]
      BY <2>1, Zenon DEF Prefixed
    <2> QED
      BY <2>2, JoinsEmpty
  <1> QED
    BY <1>1, <1>2 DEF Reads

\* Two beginnings are one.
LEMMA PrefixedTwice ==
  ASSUME NEW b \in Seq(Int), NEW c \in Seq(Int), NEW M \in SUBSET Seq(Int)
  PROVE  Prefixed(b, Prefixed(c, M)) = Prefixed(b \o c, M)
  <1>1. \A m \in M : (b \o c) \o m = b \o (c \o m)
    BY Joins
  <1>2. \A x : x \in Prefixed(b, Prefixed(c, M)) <=> \E m \in M : x = b \o (c \o m)
    BY Zenon DEF Prefixed
  <1>3. \A x : x \in Prefixed(b \o c, M) <=> \E m \in M : x = (b \o c) \o m
    BY Zenon DEF Prefixed
  <1>4. \A x : x \in Prefixed(b, Prefixed(c, M)) <=> x \in Prefixed(b \o c, M)
    BY <1>1, <1>2, <1>3, ZenonT(60)
  <1> QED
    BY <1>4, Zenon

\* One text behind another stands for one meaning behind the other.
LEMMA ReadsMore ==
  ASSUME NEW p, NEW b, NEW u, NEW c, Reads(p, b), Reads(u, c)
  PROVE  Reads(p \o u, b \o c)
  <1>1. p \in Seq(Int) /\ b \in Seq(Int) /\ u \in Seq(Int) /\ c \in Seq(Int)
    BY DEF Reads
  <1>2. p \o u \in Seq(Int) /\ b \o c \in Seq(Int)
    BY <1>1, Joins
  <1>3. ASSUME NEW e \in Seq(Int)
        PROVE  Meanings[(p \o u) \o e] = Prefixed(b \o c, Meanings[e])
    <2>1. u \o e \in Seq(Int) /\ (p \o u) \o e = p \o (u \o e)
      <3>1. u \o e \in Seq(Int)
        BY <1>1, Joins
      <3>2. (p \o u) \o e = p \o (u \o e)
        <4>1. \A x, y, z \in Seq(Int) : (x \o y) \o z = x \o (y \o z)
          BY Joins, SMTT(60)
        <4> HIDE <1>2
        <4> QED
          BY <1>1, <4>1, ZenonT(60)
      <3> QED
        BY <3>1, <3>2
    <2>2. Meanings[p \o (u \o e)] = Prefixed(b, Meanings[u \o e]) /\ Meanings[u \o e] = Prefixed(c, Meanings[e])
      BY <2>1, Zenon DEF Reads
    <2>3. Prefixed(b, Prefixed(c, Meanings[e])) = Prefixed(b \o c, Meanings[e])
      <3>1. Meanings[e] \in SUBSET Seq(Int)
        BY MeansSeqs
      <3> QED
        BY <1>1, <3>1, PrefixedTwice
    <2> QED
      BY <2>1, <2>2, <2>3, Zenon
  <1> QED
    BY <1>2, <1>3, Zenon DEF Reads

\* What no text begins with, no text goes on with behind whole characters.
LEMMA DeadBehind ==
  ASSUME NEW p, NEW b, NEW r, Reads(p, b), Dead(r)
  PROVE  Dead(p \o r)
  <1>1. p \in Seq(Int) /\ b \in Seq(Int) /\ r \in Seq(Int)
    BY DEF Reads, Dead
  <1>2. p \o r \in Seq(Int)
    BY <1>1, Joins
  <1>3. ASSUME NEW e \in Seq(Int)
        PROVE  Meanings[(p \o r) \o e] = {}
    <2>1. r \o e \in Seq(Int) /\ (p \o r) \o e = p \o (r \o e)
      BY <1>1, Joins, SMTT(60)
    <2>2. Meanings[p \o (r \o e)] = Prefixed(b, Meanings[r \o e]) /\ Meanings[r \o e] = {}
      BY <2>1, Zenon DEF Reads, Dead
    <2>3. Prefixed(b, {}) = {}
      BY DEF Prefixed
    <2> QED
      BY <2>1, <2>2, <2>3, Zenon
  <1> QED
    BY <1>2, <1>3, Zenon DEF Dead

\* A text that was read to its end has one meaning.
LEMMA ReadsAll ==
  ASSUME NEW p, NEW b, Reads(p, b)
  PROVE  Meanings[p] = {b}
  <1>1. <<>> \in Seq(Int) /\ p \in Seq(Int) /\ b \in Seq(Int)
    BY DEF Reads
  <1>2. p \o <<>> = p /\ b \o <<>> = b
    BY <1>1, JoinsEmpty
  <1>3. Meanings[p \o <<>>] = Prefixed(b, Meanings[<<>>])
    BY <1>1, Zenon DEF Reads
  <1>4. Prefixed(b, {<<>>}) = {b \o <<>>}
    BY Zenon DEF Prefixed
  <1> QED
    BY <1>2, <1>3, <1>4, NothingMeans, Zenon

\* The two parts of a sequence that was joined.
LEMMA Parted ==
  ASSUME NEW u \in Seq(Int), NEW e \in Seq(Int)
  PROVE  /\ u \o e \in Seq(Int) /\ Len(u \o e) = Len(u) + Len(e)
         /\ SubSeq(u \o e, 1, Len(u)) = u
         /\ SubSeq(u \o e, Len(u) + 1, Len(u \o e)) = e
         /\ \A i \in 1..Len(u) : (u \o e)[i] = u[i]
         /\ \A i \in 1..Len(e) : (u \o e)[Len(u) + i] = e[i]
  OBVIOUS

\* What is joined to one meaning.
LEMMA ProductsOfOne ==
  ASSUME NEW c, NEW M
  PROVE  \A x : x \in Products({c}, M) <=> \E m \in M : x = c \o m
  <1>1. ASSUME NEW x, x \in Products({c}, M)
        PROVE  \E m \in M : x = c \o m
    <2>1. PICK d \in {c}, m \in M : x = d \o m
      BY <1>1 DEF Products
    <2> QED
      BY <2>1, Zenon
  <1>2. ASSUME NEW m \in M
        PROVE  c \o m \in Products({c}, M)
    <2>1. c \in {c}
      OBVIOUS
    <2> QED
      BY <2>1 DEF Products
  <1> QED
    BY <1>1, <1>2, Zenon

\* What one character stands for is what a text that begins with it stands for.
LEMMA OneUnit ==
  ASSUME NEW u \in Seq(Int), NEW c \in Seq(Int), Len(u) \in Lengths, Denoted(u) = {c}
  PROVE  Reads(u, c)
  <1>1. ASSUME NEW e \in Seq(Int)
        PROVE  Meanings[u \o e] = Prefixed(c, Meanings[e])
    <2>1. PICK n \in Lengths : n = Len(u)
      OBVIOUS
    <2>2. PICK s \in Seq(Int) : /\ s = u \o e /\ n <= Len(s)
                                /\ SubSeq(s, 1, n) = u /\ SubSeq(s, n + 1, Len(s)) = e
      <3>1. /\ u \o e \in Seq(Int) /\ Len(u \o e) = Len(u) + Len(e)
            /\ SubSeq(u \o e, 1, Len(u)) = u /\ SubSeq(u \o e, Len(u) + 1, Len(u \o e)) = e
        BY Parted
      <3>2. Len(u) <= Len(u \o e)
        <4>1. Len(u) \in Nat /\ Len(e) \in Nat
          OBVIOUS
        <4> QED
          BY <3>1, <4>1
      <3> QED
        BY <2>1, <3>1, <3>2
    <2>3. n > 0 /\ s # <<>>
      BY <2>1, <2>2 DEF Lengths
    <2>4. Denotes(s, n)
      BY <2>2, DenotesWhere
    <2>5. Cuts(s) = {n}
      <3>1. n \in Cuts(s)
        BY <2>2, Zenon DEF Cuts
      <3>2. ASSUME NEW k \in Cuts(s)
            PROVE  k = n
        <4>1. k \in Lengths /\ k <= Len(s) /\ Denoted(SubSeq(s, 1, k)) # {}
          BY Zenon DEF Cuts
        <4>2. Denotes(s, k)
          BY <4>1, DenotesWhere
        <4> QED
          BY <2>2, <2>4, <4>1, <4>2, Unambiguous
      <3> QED
        BY <3>1, <3>2, Zenon
    <2>6. Meanings[s] = UNION {Joined(s, k, Meanings) : k \in {n}}
      BY <2>3, <2>5, MeaningsAre, Zenon DEF Meant
    <2>7. Joined(s, n, Meanings) = Products({c}, Meanings[e])
      BY <2>2, Zenon DEF Joined
    <2>8. UNION {Joined(s, k, Meanings) : k \in {n}} = Joined(s, n, Meanings)
      BY Zenon
    <2>9. Products({c}, Meanings[e]) = Prefixed(c, Meanings[e])
      <3>1. \A x : x \in Products({c}, Meanings[e]) <=> \E m \in Meanings[e] : x = c \o m
        BY ProductsOfOne
      <3>2. \A x : x \in Prefixed(c, Meanings[e]) <=> \E m \in Meanings[e] : x = c \o m
        BY Zenon DEF Prefixed
      <3>3. \A x : x \in Products({c}, Meanings[e]) <=> x \in Prefixed(c, Meanings[e])
        BY <3>1, <3>2, Zenon
      <3> QED
        BY <3>3, Zenon
    <2> QED
      BY <2>2, <2>6, <2>7, <2>8, <2>9, Zenon
  <1> QED
    BY <1>1 DEF Reads

\* s begins with r.
Starts(r, s) == Len(r) <= Len(s) /\ \A i \in 1..Len(r) : s[i] = r[i]

\* No character begins with r.
Hopeless(r) == \A s \in Seq(Int) : \A n \in Lengths : Starts(r, s) /\ n <= Len(s) => ~Denotes(s, n)

\* If no character begins with r, no text does.
LEMMA DeadWhere ==
  ASSUME NEW r \in Seq(Int), r # <<>>, Hopeless(r)
  PROVE  Dead(r)
  <1>1. ASSUME NEW e \in Seq(Int)
        PROVE  Meanings[r \o e] = {}
    <2>1. PICK s \in Seq(Int) : s = r \o e /\ Len(s) = Len(r) + Len(e) /\ \A i \in 1..Len(r) : s[i] = r[i]
      BY Parted
    <2>2. Starts(r, s) /\ s # <<>>
      BY <2>1 DEF Starts
    <2>3. Cuts(s) = {}
      <3>1. ASSUME NEW k \in Cuts(s)
            PROVE  FALSE
        <4>1. k \in Lengths /\ k <= Len(s) /\ Denoted(SubSeq(s, 1, k)) # {}
          BY Zenon DEF Cuts
        <4>2. Denotes(s, k)
          BY <4>1, DenotesWhere
        <4> QED
          BY <2>2, <4>1, <4>2, Zenon DEF Hopeless
      <3> QED
        BY <3>1, Zenon
    <2>4. Meanings[s] = UNION {Joined(s, k, Meanings) : k \in {}}
      BY <2>2, <2>3, MeaningsAre, Zenon DEF Meant
    <2> QED
      BY <2>1, <2>4, Zenon
  <1> QED
    BY <1>1 DEF Dead

\* A character that is spelt out stands for itself.
LEMMA CharReads ==
  ASSUME NEW u \in Seq(Int), Spells(u), Ordinary(u[1])
  PROVE  Reads(u, u)
  <1>1. Len(u) \in Lengths /\ Len(u) <= 4
    <2>1. Len(u) = 1 \/ Len(u) = 2 \/ Len(u) = 3 \/ Len(u) = 4
      BY SMT DEF Spells, Spelled
    <2>2. Len(u) \in Lengths
      BY <2>1, Zenon DEF Lengths
    <2>3. Len(u) <= 4
      <3>1. 1 <= 4 /\ 2 <= 4 /\ 3 <= 4 /\ 4 <= 4
        OBVIOUS
      <3> QED
        BY <2>1, <3>1, Zenon
    <2> QED
      BY <2>2, <2>3
  <1>2. WellFormed(u)
    BY SpellsWellFormed
  <1>3. u[1] >= 32 /\ u[1] \notin {Quote, Backslash}
    BY DEF Ordinary
  <1>4. Denoted(u) = {u}
    BY <1>1, <1>2, <1>3, Zenon DEF Denoted
  <1> QED
    BY <1>1, <1>4, OneUnit

\* An escape of one letter stands for one byte.
LEMMA EscapeReads ==
  ASSUME NEW b \in DOMAIN Escape
  PROVE  Reads(<<92, b>>, <<Escape[b]>>)
  <1>1. b \in Nat /\ Escape[b] \in Nat
    BY Escapes
  <1>2. PICK e \in Nat : e = Escape[b]
    BY <1>1
  <1>3. PICK u \in Seq(Int) : u = <<92, b>> /\ Len(u) = 2 /\ u[1] = 92 /\ u[2] = b
    <2>1. PICK x \in Int : x = b
      BY <1>1
    <2>2. <<92, x>> \in Seq(Int) /\ Len(<<92, x>>) = 2 /\ <<92, x>>[1] = 92 /\ <<92, x>>[2] = x
      OBVIOUS
    <2> QED
      BY <2>1, <2>2, Zenon
  <1>4. <<e>> \in Seq(Int)
    OBVIOUS
  <1>5. ~(u[1] \notin {Quote, Backslash}) /\ u[1] = Backslash
    BY <1>3 DEF Quote, Backslash
  <1>6. Denoted(u) = {<<e>>}
    BY <1>2, <1>3, <1>5, Zenon DEF Denoted
  <1>7. Len(u) \in Lengths
    BY <1>3 DEF Lengths
  <1>8. Reads(u, <<e>>)
    BY <1>4, <1>6, <1>7, OneUnit
  <1> QED
    BY <1>2, <1>3, <1>8, Zenon

\* An escape of UTF-16 that is no surrogate stands for its character.
LEMMA UnitReads ==
  ASSUME NEW u \in Seq(Int), Len(u) = 6, UnitAt(u, 0), ScalarValue(CodeAt(u, 0))
  PROVE  Reads(u, Utf8(CodeAt(u, 0)))
  <1>1. IsUnit(u) /\ CodeUnit(u) = CodeAt(u, 0)
    BY UnitWhole
  <1>2. Utf8(CodeAt(u, 0)) \in Seq(Int)
    BY CodeAtNat, Utf8Seq, Zenon
  <1>3. ~(Len(u) <= 4) /\ Len(u) # 2 /\ Len(u) \in Lengths
    BY DEF Lengths
  <1>4. Denoted(u) = {Utf8(CodeAt(u, 0))}
    BY <1>1, <1>3, Zenon DEF Denoted
  <1> QED
    BY <1>2, <1>3, <1>4, OneUnit

\* A pair of surrogates stands for one character.
LEMMA PairReads ==
  ASSUME NEW u \in Seq(Int), Len(u) = 12, PairAt(u)
  PROVE  Reads(u, Utf8(Paired(u)))
  <1>1. IsPair(u)
    BY PairWhole
  <1>2. Utf8(Paired(u)) \in Seq(Int)
    BY <1>1, PairedNat, Utf8Seq, Zenon
  <1>3. ~(Len(u) <= 4) /\ Len(u) # 2 /\ Len(u) # 6 /\ Len(u) \in Lengths
    BY DEF Lengths
  <1>4. ~IsUnit(u)
    BY <1>3, Zenon DEF IsUnit
  <1>5. Denoted(u) = {Utf8(Paired(u))}
    BY <1>1, <1>3, <1>4, Zenon DEF Denoted
  <1> QED
    BY <1>2, <1>3, <1>5, OneUnit

\* What can begin with a backslash.
LEMMA BackslashDenotes ==
  ASSUME NEW s \in Seq(Int), NEW n \in Lengths, s[1] = 92, Denotes(s, n)
  PROVE  \/ n = 2 /\ s[2] \in DOMAIN Escape
         \/ n = 6 /\ UnitAt(s, 0) /\ ScalarValue(CodeAt(s, 0))
         \/ n = 12 /\ PairAt(s)
  <1>1. ~Ordinary(s[1])
    BY DEF Ordinary, Backslash
  <1> QED
    BY <1>1, Zenon DEF Denotes, PairAt

\* What does not begin with a backslash is a character of UTF-8.
LEMMA OtherDenotes ==
  ASSUME NEW s \in Seq(Int), NEW n \in Lengths, s[1] # 92, Denotes(s, n)
  PROVE  n <= 4 /\ Spelled(s, n) /\ Ordinary(s[1])
  <1>1. s[1] # Backslash
    BY DEF Backslash
  <1>2. 0 + 1 = 1
    OBVIOUS
  <1> QED
    BY <1>1, <1>2, Zenon DEF Denotes, UnitAt

\* The bytes at which scan_string() gives up at once.
LEMMA HopelessFirst ==
  ASSUME NEW b \in Int, b # 92, ~Span(194, b, 244), Span(0, b, 127) => ~Ordinary(b)
  PROVE  Hopeless(<<b>>)
  <1> SUFFICES ASSUME NEW s \in Seq(Int), NEW n \in Lengths, Starts(<<b>>, s), n <= Len(s), Denotes(s, n)
               PROVE  FALSE
    BY DEF Hopeless
  <1>1. s[1] = b
    BY DEF Starts
  <1>2. Spelled(s, n) /\ Ordinary(s[1])
    BY <1>1, OtherDenotes
  <1>3. Span(0, s[1], 127) \/ Span(194, s[1], 244)
    BY SMT, <1>1, <1>2 DEF Spelled, Span
  <1> QED
    BY <1>1, <1>2, <1>3, Zenon

\* A backslash and a byte that is no escape.
LEMMA HopelessEscape ==
  ASSUME NEW b \in Int, b # 117, b \notin DOMAIN Escape
  PROVE  Hopeless(<<92, b>>)
  <1> SUFFICES ASSUME NEW s \in Seq(Int), NEW n \in Lengths, Starts(<<92, b>>, s), n <= Len(s), Denotes(s, n)
               PROVE  FALSE
    BY DEF Hopeless
  <1>1. s[1] = 92 /\ s[2] = b
    BY DEF Starts
  <1>2. UnitAt(s, 0) => s[2] = 117
    <2>1. 0 + 2 = 2
      OBVIOUS
    <2> QED
      BY <2>1, Zenon DEF UnitAt
  <1> QED
    BY <1>1, <1>2, BackslashDenotes, ZenonT(60) DEF PairAt

\* The bytes of one and of a second escape of UTF-16, one by one.
LEMMA UnitDigits ==
  ASSUME NEW s
  PROVE  /\ UnitAt(s, 0) => /\ s[1] = 92 /\ s[2] = 117
                            /\ s[3] \in HexDigit /\ s[4] \in HexDigit /\ s[5] \in HexDigit /\ s[6] \in HexDigit
         /\ UnitAt(s, 6) => /\ s[7] = 92 /\ s[8] = 117
                            /\ s[9] \in HexDigit /\ s[10] \in HexDigit /\ s[11] \in HexDigit /\ s[12] \in HexDigit
  <1>1. /\ 0 + 1 = 1 /\ 0 + 2 = 2 /\ 0 + 3 = 3 /\ 0 + 4 = 4 /\ 0 + 5 = 5 /\ 0 + 6 = 6
        /\ 6 + 1 = 7 /\ 6 + 2 = 8 /\ 6 + 3 = 9 /\ 6 + 4 = 10 /\ 6 + 5 = 11 /\ 6 + 6 = 12
    OBVIOUS
  <1> QED
    BY <1>1, ZenonT(60) DEF UnitAt, Backslash

\* An escape of UTF-16 with a byte that is no hexadecimal digit.
LEMMA HopelessHex ==
  ASSUME NEW r \in Seq(Int), Len(r) \in 3..6, r[1] = 92, r[2] = 117, r[Len(r)] \notin HexDigit
  PROVE  Hopeless(r)
  <1> SUFFICES ASSUME NEW s \in Seq(Int), NEW n \in Lengths, Starts(r, s), n <= Len(s), Denotes(s, n)
               PROVE  FALSE
    BY DEF Hopeless
  <1>1. s[1] = 92 /\ s[2] = 117 /\ s[Len(r)] \notin HexDigit
    <2>1. 1 \in 1..Len(r) /\ 2 \in 1..Len(r) /\ Len(r) \in 1..Len(r)
      OBVIOUS
    <2>2. s[1] = r[1] /\ s[2] = r[2] /\ s[Len(r)] = r[Len(r)]
      BY <2>1, Zenon DEF Starts
    <2> QED
      BY <2>2, Zenon
  <1>2. ~UnitAt(s, 0)
    <2>1. Len(r) = 3 \/ Len(r) = 4 \/ Len(r) = 5 \/ Len(r) = 6
      OBVIOUS
    <2> QED
      BY <1>1, <2>1, UnitDigits, Zenon
  <1>3. 117 \notin DOMAIN Escape
    BY Escapes
  <1> QED
    BY <1>1, <1>2, <1>3, BackslashDenotes, Zenon DEF PairAt

\* What begins like r has the same escapes of UTF-16 as far as r goes.
LEMMA StartsUnit ==
  ASSUME NEW r \in Seq(Int), NEW s \in Seq(Int), Starts(r, s)
  PROVE  /\ Len(r) >= 6 => (UnitAt(s, 0) <=> UnitAt(r, 0)) /\ CodeAt(s, 0) = CodeAt(r, 0)
         /\ Len(r) >= 12 => (UnitAt(s, 6) <=> UnitAt(r, 6)) /\ CodeAt(s, 6) = CodeAt(r, 6)
  <1>1. Len(r) >= 6 => SixSame(s, 0, r, 0)
    BY SMTT(60) DEF Starts, SixSame
  <1>2. Len(r) >= 12 => SixSame(s, 6, r, 6)
    <2> SUFFICES ASSUME Len(r) >= 12 PROVE SixSame(s, 6, r, 6)
      OBVIOUS
    <2>1. \A i \in 7..12 : s[i] = r[i]
      BY DEF Starts
    <2>2. s[7] = r[7] /\ s[8] = r[8] /\ s[9] = r[9] /\ s[10] = r[10] /\ s[11] = r[11] /\ s[12] = r[12]
      BY <2>1
    <2>3. 6 + 1 = 7 /\ 6 + 2 = 8 /\ 6 + 3 = 9 /\ 6 + 4 = 10 /\ 6 + 5 = 11 /\ 6 + 6 = 12
      OBVIOUS
    <2> QED
      BY <2>2, <2>3, Zenon DEF SixSame
  <1>3. Len(r) >= 6 => SameAt(s, 0, r, 0)
    BY <1>1, SameUnit
  <1>4. Len(r) >= 12 => SameAt(s, 6, r, 6)
    BY <1>2, SameUnit
  <1> QED
    BY <1>3, <1>4, Zenon DEF SameAt

\* The second half of a pair cannot come first.
LEMMA HopelessLow ==
  ASSUME NEW r \in Seq(Int), Len(r) = 6, UnitAt(r, 0), Low(CodeAt(r, 0))
  PROVE  Hopeless(r)
  <1> SUFFICES ASSUME NEW s \in Seq(Int), NEW n \in Lengths, Starts(r, s), n <= Len(s), Denotes(s, n)
               PROVE  FALSE
    BY DEF Hopeless
  <1>1. UnitAt(s, 0) /\ CodeAt(s, 0) = CodeAt(r, 0)
    <2>1. Len(r) >= 6
      OBVIOUS
    <2> QED
      BY <2>1, StartsUnit, Zenon
  <1>2. PICK c \in Nat : c = CodeAt(r, 0)
    BY CodeAtNat, Zenon
  <1>3. ~ScalarValue(c) /\ ~High(c)
    BY SMT, <1>2 DEF ScalarValue, High, Low
  <1>4. s[1] = 92 /\ s[2] = 117 /\ 117 \notin DOMAIN Escape
    BY <1>1, UnitDigits, Escapes
  <1> QED
    BY <1>1, <1>2, <1>3, <1>4, BackslashDenotes, Zenon DEF PairAt

\* The first half has to be followed by the second.
LEMMA HopelessHigh ==
  ASSUME NEW r \in Seq(Int), Len(r) \in 7..12, UnitAt(r, 0), High(CodeAt(r, 0)),
         \/ Len(r) = 7 /\ r[7] # 92
         \/ Len(r) = 8 /\ r[8] # 117
         \/ Len(r) \in 9..12 /\ r[Len(r)] \notin HexDigit
         \/ Len(r) = 12 /\ UnitAt(r, 6) /\ ~Low(CodeAt(r, 6))
  PROVE  Hopeless(r)
  <1> SUFFICES ASSUME NEW s \in Seq(Int), NEW n \in Lengths, Starts(r, s), n <= Len(s), Denotes(s, n)
               PROVE  FALSE
    BY DEF Hopeless
  <1>1. UnitAt(s, 0) /\ CodeAt(s, 0) = CodeAt(r, 0)
    <2>1. Len(r) >= 6
      <3>1. \A k \in 7..12 : k >= 6
        OBVIOUS
      <3> QED
        BY <3>1, Zenon
    <2> QED
      BY <2>1, StartsUnit, Zenon
  <1>2. PICK c \in Nat : c = CodeAt(r, 0)
    BY CodeAtNat, Zenon
  <1>3. ~ScalarValue(c)
    BY SMT, <1>2 DEF ScalarValue, High
  <1>4. s[1] = 92 /\ s[2] = 117 /\ 117 \notin DOMAIN Escape
    BY <1>1, UnitDigits, Escapes
  <1>5. UnitAt(s, 6) /\ Low(CodeAt(s, 6))
    BY <1>1, <1>2, <1>3, <1>4, BackslashDenotes, Zenon DEF PairAt
  <1>6. /\ Len(r) >= 7 => s[7] = r[7]
        /\ Len(r) >= 8 => s[8] = r[8]
        /\ s[Len(r)] = r[Len(r)]
    BY SMTT(60) DEF Starts
  <1>11. /\ s[7] = 92 /\ s[8] = 117
         /\ s[9] \in HexDigit /\ s[10] \in HexDigit /\ s[11] \in HexDigit /\ s[12] \in HexDigit
    BY <1>5, UnitDigits, Zenon
  <1> HIDE DEF HexDigit
  <1>7. CASE Len(r) = 7 /\ r[7] # 92
    BY <1>11, <1>6, <1>7
  <1>8. CASE Len(r) = 8 /\ r[8] # 117
    BY <1>11, <1>6, <1>8
  <1>9. CASE Len(r) \in 9..12 /\ r[Len(r)] \notin HexDigit
    <2>1. Len(r) = 9 \/ Len(r) = 10 \/ Len(r) = 11 \/ Len(r) = 12
      BY <1>9
    <2> QED
      BY <1>11, <1>6, <1>9, <2>1, ZenonT(60)
  <1>10. CASE Len(r) = 12 /\ UnitAt(r, 6) /\ ~Low(CodeAt(r, 6))
    <2>1. Len(r) >= 12
      BY <1>10
    <2> QED
      BY <1>5, <1>10, <2>1, StartsUnit, Zenon
  <1> QED
    BY <1>7, <1>8, <1>9, <1>10

\* The ranges of next_byte_in_range(), case by case.
LEMMA TailCases ==
  ASSUME NEW b \in Int, Span(194, b, 244)
  PROVE  \/ Span(194, b, 223) /\ Tails(b) = <<Continuation>>
         \/ b = 224 /\ Tails(b) = <<160..191, Continuation>>
         \/ Span(225, b, 239) /\ b # 237 /\ Tails(b) = <<Continuation, Continuation>>
         \/ b = 237 /\ Tails(b) = <<128..159, Continuation>>
         \/ b = 240 /\ Tails(b) = <<144..191, Continuation, Continuation>>
         \/ Span(241, b, 243) /\ Tails(b) = <<Continuation, Continuation, Continuation>>
         \/ b = 244 /\ Tails(b) = <<128..143, Continuation, Continuation>>
  <1> HIDE DEF Continuation
  <1>1. CASE Span(194, b, 223)
    <2>1. b \in 194..223
      BY SMT, <1>1 DEF Span
    <2>2. b # 224 /\ b \notin (225..236) \cup {238, 239} /\ b # 237 /\ b # 240 /\ b \notin 241..243 /\ b # 244
      BY SMT, <1>1 DEF Span
    <2>3. Tails(b) = <<Continuation>>
      BY SMT, <2>1, <2>2 DEF Tails
    <2> QED
      BY <1>1, <2>3
  <1>2. CASE Span(225, b, 239) /\ b # 237
    <2>1. b \in (225..236) \cup {238, 239}
      BY SMT, <1>2 DEF Span
    <2>2. b # 224 /\ b \notin 194..223 /\ b # 237 /\ b # 240 /\ b \notin 241..243 /\ b # 244
      BY SMT, <1>2 DEF Span
    <2>3. Tails(b) = <<Continuation, Continuation>>
      BY SMT, <2>1, <2>2 DEF Tails
    <2> QED
      BY <1>2, <2>3
  <1>3. CASE Span(241, b, 243)
    <2>1. b \in 241..243
      BY SMT, <1>3 DEF Span
    <2>2. b # 224 /\ b \notin 194..223 /\ b \notin (225..236) \cup {238, 239} /\ b # 237 /\ b # 240 /\ b # 244
      BY SMT, <1>3 DEF Span
    <2>3. Tails(b) = <<Continuation, Continuation, Continuation>>
      BY SMT, <2>1, <2>2 DEF Tails
    <2> QED
      BY <1>3, <2>3
  <1>4. CASE b = 224
    <2>1. Tails(224) = <<160..191, Continuation>>
      BY SMT DEF Tails
    <2> QED
      BY <1>4, <2>1
  <1>5. CASE b = 237
    <2>1. Tails(237) = <<128..159, Continuation>>
      BY SMT DEF Tails
    <2> QED
      BY <1>5, <2>1
  <1>6. CASE b = 240
    <2>1. Tails(240) = <<144..191, Continuation, Continuation>>
      BY SMT DEF Tails
    <2> QED
      BY <1>6, <2>1
  <1>7. CASE b = 244
    <2>1. Tails(244) = <<128..143, Continuation, Continuation>>
      BY SMT DEF Tails
    <2> QED
      BY <1>7, <2>1
  <1>8. \/ Span(194, b, 223) \/ (Span(225, b, 239) /\ b # 237) \/ Span(241, b, 243)
        \/ b = 224 \/ b = 237 \/ b = 240 \/ b = 244
    BY SMT DEF Span
  <1> QED
    BY <1>1, <1>2, <1>3, <1>4, <1>5, <1>6, <1>7, <1>8

\* The byte that may come second.
Second(b, x) == /\ IsTail(x)
                /\ b = 224 => x >= 160
                /\ b = 237 => x <= 159
                /\ b = 240 => x >= 144
                /\ b = 244 => x <= 143

\* The number of bytes that begin with b.
Bytes(b) == IF b < 224 THEN 2 ELSE IF b < 240 THEN 3 ELSE 4

\* What is expected behind b: A is the set of the bytes that may come second.
Behind1(b, A) ==
  /\ \A x \in Int : (x \in A <=> Second(b, x))
  /\ \/ Bytes(b) = 2 /\ Tails(b) = <<A>>
     \/ Bytes(b) = 3 /\ Tails(b) = <<A, Continuation>>
     \/ Bytes(b) = 4 /\ Tails(b) = <<A, Continuation, Continuation>>

\* Tails() is the table of the bytes that may follow a first byte, one by one.
LEMMA TailSets ==
  ASSUME NEW b \in Int, Span(194, b, 244)
  PROVE  \E A : Behind1(b, A)
  <1>1. CASE Span(194, b, 223) /\ Tails(b) = <<Continuation>>
    <2> DEFINE A == Continuation
    <2>1. \A x \in Int : (x \in A <=> Second(b, x))
      BY SMT, <1>1 DEF Second, IsTail, Span, Continuation
    <2>2. Bytes(b) = 2
      BY SMT, <1>1 DEF Bytes, Span
    <2>3. Tails(b) = <<A>>
      BY <1>1
    <2> HIDE DEF A
    <2> QED
      BY <2>1, <2>2, <2>3, Zenon DEF Behind1
  <1>2. CASE b = 224 /\ Tails(b) = <<160..191, Continuation>>
    <2> DEFINE A == 160..191
    <2>1. \A x \in Int : (x \in A <=> Second(b, x))
      BY SMT, <1>2 DEF Second, IsTail, Span, Continuation
    <2>2. Bytes(b) = 3
      BY SMT, <1>2 DEF Bytes, Span
    <2>3. Tails(b) = <<A, Continuation>>
      BY <1>2
    <2> HIDE DEF A
    <2> QED
      BY <2>1, <2>2, <2>3, Zenon DEF Behind1
  <1>3. CASE Span(225, b, 239) /\ b # 237 /\ Tails(b) = <<Continuation, Continuation>>
    <2> DEFINE A == Continuation
    <2>1. \A x \in Int : (x \in A <=> Second(b, x))
      BY SMT, <1>3 DEF Second, IsTail, Span, Continuation
    <2>2. Bytes(b) = 3
      BY SMT, <1>3 DEF Bytes, Span
    <2>3. Tails(b) = <<A, Continuation>>
      BY <1>3
    <2> HIDE DEF A
    <2> QED
      BY <2>1, <2>2, <2>3, Zenon DEF Behind1
  <1>4. CASE b = 237 /\ Tails(b) = <<128..159, Continuation>>
    <2> DEFINE A == 128..159
    <2>1. \A x \in Int : (x \in A <=> Second(b, x))
      BY SMT, <1>4 DEF Second, IsTail, Span, Continuation
    <2>2. Bytes(b) = 3
      BY SMT, <1>4 DEF Bytes, Span
    <2>3. Tails(b) = <<A, Continuation>>
      BY <1>4
    <2> HIDE DEF A
    <2> QED
      BY <2>1, <2>2, <2>3, Zenon DEF Behind1
  <1>5. CASE b = 240 /\ Tails(b) = <<144..191, Continuation, Continuation>>
    <2> DEFINE A == 144..191
    <2>1. \A x \in Int : (x \in A <=> Second(b, x))
      BY SMT, <1>5 DEF Second, IsTail, Span, Continuation
    <2>2. Bytes(b) = 4
      BY SMT, <1>5 DEF Bytes, Span
    <2>3. Tails(b) = <<A, Continuation, Continuation>>
      BY <1>5
    <2> HIDE DEF A
    <2> QED
      BY <2>1, <2>2, <2>3, Zenon DEF Behind1
  <1>6. CASE Span(241, b, 243) /\ Tails(b) = <<Continuation, Continuation, Continuation>>
    <2> DEFINE A == Continuation
    <2>1. \A x \in Int : (x \in A <=> Second(b, x))
      BY SMT, <1>6 DEF Second, IsTail, Span, Continuation
    <2>2. Bytes(b) = 4
      BY SMT, <1>6 DEF Bytes, Span
    <2>3. Tails(b) = <<A, Continuation, Continuation>>
      BY <1>6
    <2> HIDE DEF A
    <2> QED
      BY <2>1, <2>2, <2>3, Zenon DEF Behind1
  <1>7. CASE b = 244 /\ Tails(b) = <<128..143, Continuation, Continuation>>
    <2> DEFINE A == 128..143
    <2>1. \A x \in Int : (x \in A <=> Second(b, x))
      BY SMT, <1>7 DEF Second, IsTail, Span, Continuation
    <2>2. Bytes(b) = 4
      BY SMT, <1>7 DEF Bytes, Span
    <2>3. Tails(b) = <<A, Continuation, Continuation>>
      BY <1>7
    <2> HIDE DEF A
    <2> QED
      BY <2>1, <2>2, <2>3, Zenon DEF Behind1
  <1> QED
    BY <1>1, <1>2, <1>3, <1>4, <1>5, <1>6, <1>7, TailCases

\* The same for the length of Tails() and each of its sets.
LEMMA TailLengths ==
  ASSUME NEW b \in Int, Span(194, b, 244)
  PROVE  /\ \E S : Tails(b) \in Seq(S)
         /\ Len(Tails(b)) = Bytes(b) - 1
         /\ \A x \in Int : (x \in Tails(b)[1] <=> Second(b, x))
         /\ \A i \in 2..Len(Tails(b)) : Tails(b)[i] = Continuation
         /\ Bytes(b) \in 2..4
  <1>1. PICK A : Behind1(b, A)
    BY TailSets
  <1>2. \A x \in Int : (x \in A <=> Second(b, x))
    BY <1>1, Zenon DEF Behind1
  <1>3. CASE Bytes(b) = 2 /\ Tails(b) = <<A>>
    <2> HIDE DEF Continuation
    <2>1. Tails(b) \in Seq({A}) /\ Len(Tails(b)) = 1 /\ Tails(b)[1] = A
      BY <1>3
    <2>2. \E S : Tails(b) \in Seq(S)
      BY <2>1, Zenon
    <2>3. Len(Tails(b)) = Bytes(b) - 1 /\ Bytes(b) \in 2..4
      BY <1>3, <2>1
    <2>4. \A i \in 2..Len(Tails(b)) : Tails(b)[i] = Continuation
      BY <2>1
    <2>5. \A x \in Int : (x \in Tails(b)[1] <=> Second(b, x))
      BY <1>2, <2>1, Zenon
    <2> QED
      BY <2>2, <2>3, <2>4, <2>5
  <1>4. CASE Bytes(b) = 3 /\ Tails(b) = <<A, Continuation>>
    <2> HIDE DEF Continuation
    <2>1. /\ Tails(b) \in Seq({A, Continuation}) /\ Len(Tails(b)) = 2 /\ Tails(b)[1] = A
          /\ Tails(b)[2] = Continuation
      BY <1>4
    <2>2. \E S : Tails(b) \in Seq(S)
      BY <2>1, Zenon
    <2>3. Len(Tails(b)) = Bytes(b) - 1 /\ Bytes(b) \in 2..4
      BY <1>4, <2>1
    <2>4. \A i \in 2..Len(Tails(b)) : Tails(b)[i] = Continuation
      BY <2>1
    <2>5. \A x \in Int : (x \in Tails(b)[1] <=> Second(b, x))
      BY <1>2, <2>1, Zenon
    <2> QED
      BY <2>2, <2>3, <2>4, <2>5
  <1>5. CASE Bytes(b) = 4 /\ Tails(b) = <<A, Continuation, Continuation>>
    <2> HIDE DEF Continuation
    <2>1. /\ Tails(b) \in Seq({A, Continuation}) /\ Len(Tails(b)) = 3 /\ Tails(b)[1] = A
          /\ Tails(b)[2] = Continuation /\ Tails(b)[3] = Continuation
      BY <1>5
    <2>2. \E S : Tails(b) \in Seq(S)
      BY <2>1, Zenon
    <2>3. Len(Tails(b)) = Bytes(b) - 1 /\ Bytes(b) \in 2..4
      BY <1>5, <2>1
    <2>4. \A i \in 2..Len(Tails(b)) : Tails(b)[i] = Continuation
      BY <2>1
    <2>5. \A x \in Int : (x \in Tails(b)[1] <=> Second(b, x))
      BY <1>2, <2>1, Zenon
    <2> QED
      BY <2>2, <2>3, <2>4, <2>5
  <1> QED
    BY <1>1, <1>3, <1>4, <1>5 DEF Behind1

\* The bytes behind the first are those that are expected.
Fits(s, n) == \A i \in 2..n : s[i] \in Tails(s[1])[i - 1]

\* Bytes are a character of UTF-8 if next_byte_in_range() accepts them all, and no sooner.
LEMMA SpelledFits ==
  ASSUME NEW s \in Seq(Int), NEW n \in 2..4, n <= Len(s), Span(194, s[1], 244)
  PROVE  Spelled(s, n) <=> n = Bytes(s[1]) /\ Fits(s, n)
  <1>1. s[1] \in Int /\ s[2] \in Int /\ (n >= 3 => s[3] \in Int) /\ (n >= 4 => s[4] \in Int)
    OBVIOUS
  <1>2. PICK b \in Int : b = s[1]
    BY <1>1
  <1>3. Span(194, b, 244)
    BY <1>2
  <1>4. /\ Len(Tails(b)) = Bytes(b) - 1 /\ Bytes(b) \in 2..4
        /\ \A x \in Int : (x \in Tails(b)[1] <=> Second(b, x))
        /\ \A i \in 2..Len(Tails(b)) : Tails(b)[i] = Continuation
    BY <1>3, TailLengths
  <1>5. \A x \in Int : (x \in Continuation <=> IsTail(x))
    BY SMT DEF Continuation, IsTail, Span
  <1>6. ASSUME n = Bytes(b)
        PROVE  Fits(s, n) <=> /\ Second(b, s[2])
                              /\ n >= 3 => IsTail(s[3])
                              /\ n >= 4 => IsTail(s[4])
    <2>1. \A i \in 2..n : i = 2 \/ (i = 3 /\ n >= 3) \/ (i = 4 /\ n >= 4)
      OBVIOUS
    <2>2. 2 \in 2..n /\ (n >= 3 => 3 \in 2..n) /\ (n >= 4 => 4 \in 2..n) /\ 2 - 1 = 1 /\ 3 - 1 = 2 /\ 4 - 1 = 3
      OBVIOUS
    <2>3. Fits(s, n) <=> /\ s[2] \in Tails(b)[1]
                         /\ n >= 3 => s[3] \in Tails(b)[2]
                         /\ n >= 4 => s[4] \in Tails(b)[3]
      BY <1>2, <2>1, <2>2, Zenon DEF Fits
    <2>4. (n >= 3 => Tails(b)[2] = Continuation) /\ (n >= 4 => Tails(b)[3] = Continuation)
      BY <1>4, <1>6, SMTT(60)
    <2> HIDE DEF Continuation
    <2> QED
      BY <1>1, <1>4, <1>5, <2>3, <2>4, Zenon
  <1>7. Spelled(s, n) <=> /\ n = Bytes(b) /\ Second(b, s[2])
                          /\ n >= 3 => IsTail(s[3])
                          /\ n >= 4 => IsTail(s[4])
    <2>1. CASE n = 2
      BY SMT, <1>1, <1>2, <1>3, <2>1 DEF Spelled, Bytes, Second, Span, IsTail
    <2>2. CASE n = 3
      BY SMT, <1>1, <1>2, <1>3, <2>2 DEF Spelled, Bytes, Second, Span, IsTail
    <2>3. CASE n = 4
      BY SMT, <1>1, <1>2, <1>3, <2>3 DEF Spelled, Bytes, Second, Span, IsTail
    <2> QED
      BY <2>1, <2>2, <2>3
  <1> QED
    BY <1>2, <1>6, <1>7, Zenon

\* One byte behind a sequence.
LEMMA Appended ==
  ASSUME NEW r \in Seq(Int), NEW b \in Int
  PROVE  /\ Append(r, b) \in Seq(Int) /\ Len(Append(r, b)) = Len(r) + 1
         /\ \A i \in 1..Len(r) : Append(r, b)[i] = r[i]
         /\ Append(r, b)[Len(r) + 1] = b
         /\ \A p \in Seq(Int) : Append(p \o r, b) = p \o Append(r, b)
  <1>1. /\ Append(r, b) \in Seq(Int) /\ Len(Append(r, b)) = Len(r) + 1
        /\ \A i \in 1..Len(r) : Append(r, b)[i] = r[i]
        /\ Append(r, b)[Len(r) + 1] = b
    OBVIOUS
  <1>2. ASSUME NEW p \in Seq(Int)
        PROVE  Append(p \o r, b) = p \o Append(r, b)
    <2>1. \A x \in Seq(Int) : Append(x, b) = x \o <<b>>
      BY AppendIsConcat
    <2>2. <<b>> \in Seq(Int) /\ p \o r \in Seq(Int)
      OBVIOUS
    <2>3. (p \o r) \o <<b>> = p \o (r \o <<b>>)
      BY <2>2, Joins
    <2> QED
      BY <2>1, <2>2, <2>3, Zenon
  <1> QED
    BY <1>1, <1>2

\* What is expected is the rest of full, behind its first k elements.
Awaits(exp, full, k) ==
  /\ \E S : exp \in Seq(S)
  /\ Len(exp) = Len(full) - k
  /\ \A i \in 1..Len(exp) : exp[i] = full[k + i]

\* At first everything is expected.
LEMMA AwaitsAll ==
  ASSUME NEW S, NEW full \in Seq(S)
  PROVE  Awaits(full, full, 0)
  BY DEF Awaits

\* When the next one has come, the rest is expected.
LEMMA AwaitsNext ==
  ASSUME NEW exp, NEW full, NEW k \in Nat, Len(full) \in Nat, Awaits(exp, full, k), k < Len(full)
  PROVE  /\ Head(exp) = full[k + 1] /\ Len(exp) = Len(full) - k
         /\ Awaits(Tail(exp), full, k + 1)
  <1>1. PICK S : exp \in Seq(S)
    BY DEF Awaits
  <1>2. Len(exp) = Len(full) - k /\ \A i \in 1..Len(exp) : exp[i] = full[k + i]
    BY DEF Awaits
  <1>3. exp # <<>> /\ Len(exp) > 0 /\ Len(exp) \in Nat
    BY <1>1, <1>2
  <1>4. Head(exp) = exp[1] /\ Tail(exp) \in Seq(S) /\ Len(Tail(exp)) = Len(exp) - 1
        /\ \A i \in 1..Len(Tail(exp)) : Tail(exp)[i] = exp[i + 1]
    BY <1>1, <1>3
  <1>5. Head(exp) = full[k + 1]
    BY <1>2, <1>3, <1>4
  <1>6. \A i \in 1..Len(Tail(exp)) : Tail(exp)[i] = full[(k + 1) + i]
    <2> TAKE i \in 1..Len(Tail(exp))
    <2>1. i + 1 \in 1..Len(exp) /\ k + (i + 1) = (k + 1) + i
      BY <1>3, <1>4
    <2> QED
      BY <1>2, <1>4, <2>1
  <1>7. Len(Tail(exp)) = Len(full) - (k + 1)
    BY <1>2, <1>4
  <1>8. Awaits(Tail(exp), full, k + 1)
    BY <1>4, <1>6, <1>7, Zenon DEF Awaits
  <1> QED
    BY <1>2, <1>5, <1>8

-----------------------------------------------------------------------------
(* Strings: characters that are not read to their end.                      *)

\* The first bytes of a character of UTF-8.
Led(r) == /\ r # <<>> /\ Span(194, r[1], 244)
          /\ Len(r) < Bytes(r[1]) /\ Fits(r, Len(r))

\* The first byte of a character of UTF-8.
LEMMA LedFirst ==
  ASSUME NEW b \in Int, Span(194, b, 244)
  PROVE  Led(<<b>>) /\ Len(<<b>>) = 1 /\ Awaits(Tails(b), Tails(b), 0)
  <1>1. Bytes(b) \in 2..4 /\ \E S : Tails(b) \in Seq(S)
    BY TailLengths
  <1>2. <<b>> # <<>> /\ <<b>>[1] = b /\ Len(<<b>>) = 1 /\ Len(<<b>>) < Bytes(b)
    BY <1>1
  <1>3. Fits(<<b>>, Len(<<b>>))
    BY <1>2 DEF Fits
  <1>4. Awaits(Tails(b), Tails(b), 0)
    BY <1>1, AwaitsAll
  <1> QED
    BY <1>2, <1>3, <1>4, Zenon DEF Led

\* How much of a character can have been read.
LEMMA LedLength ==
  ASSUME NEW r \in Seq(Int), Led(r)
  PROVE  /\ r[1] \in Int /\ Len(r) \in 1..3 /\ Len(r) < Bytes(r[1]) /\ Bytes(r[1]) \in 2..4
         /\ Len(Tails(r[1])) = Bytes(r[1]) - 1
  <1>1. r # <<>> /\ Span(194, r[1], 244) /\ Len(r) < Bytes(r[1])
    BY DEF Led
  <1>2. r[1] \in Int /\ Len(r) \in Nat /\ Len(r) > 0
    BY <1>1
  <1>3. Bytes(r[1]) \in 2..4 /\ Len(Tails(r[1])) = Bytes(r[1]) - 1
    BY <1>1, <1>2, TailLengths
  <1>4. Len(r) \in 1..3
    <2>1. PICK k \in 2..4 : k = Bytes(r[1])
      BY <1>3
    <2>2. PICK m \in Nat : m = Len(r)
      BY <1>2
    <2>3. m < k /\ m > 0
      BY <1>1, <1>2, <2>1, <2>2, Zenon
    <2>4. m \in 1..3
      BY <2>3
    <2> QED
      BY <2>2, <2>4, Zenon
  <1> QED
    BY <1>1, <1>2, <1>3, <1>4, Zenon

\* The next byte fits.
LEMMA LedGrows ==
  ASSUME NEW r \in Seq(Int), NEW b \in Int, Led(r), b \in Tails(r[1])[Len(r)]
  PROVE  \/ Len(r) + 1 < Bytes(r[1]) /\ Led(Append(r, b)) /\ Append(r, b)[1] = r[1]
         \/ Len(r) + 1 = Bytes(r[1]) /\ Reads(Append(r, b), Append(r, b))
  <1>1. /\ r[1] \in Int /\ Len(r) \in 1..3 /\ Len(r) < Bytes(r[1]) /\ Bytes(r[1]) \in 2..4
    BY LedLength
  <1>2. PICK u \in Seq(Int) : /\ u = Append(r, b) /\ Len(u) = Len(r) + 1
                              /\ \A i \in 1..Len(r) : u[i] = r[i]
                              /\ u[Len(r) + 1] = b
    BY Appended
  <1>3. u[1] = r[1] /\ u # <<>>
    BY <1>1, <1>2
  <1>4. Fits(u, Len(u))
    <2> SUFFICES ASSUME NEW i \in 2..Len(u)
                 PROVE  u[i] \in Tails(u[1])[i - 1]
      BY DEF Fits
    <2>1. CASE i = Len(r) + 1
      <3>1. i - 1 = Len(r)
        BY <2>1, <1>1
      <3> QED
        BY <1>2, <1>3, <2>1, <3>1
    <2>2. CASE i # Len(r) + 1
      <3>1. i \in 2..Len(r) /\ u[i] = r[i]
        BY <1>1, <1>2, <2>2
      <3>2. r[i] \in Tails(r[1])[i - 1]
        BY <3>1, Zenon DEF Led, Fits
      <3> QED
        BY <1>3, <3>1, <3>2
    <2> QED
      BY <2>1, <2>2
  <1>5. Span(194, u[1], 244)
    BY <1>3 DEF Led
  <1>6. CASE Len(r) + 1 < Bytes(r[1])
    <2>1. Led(u)
      BY <1>2, <1>3, <1>4, <1>5, <1>6 DEF Led
    <2> QED
      BY <1>2, <1>3, <1>6, <2>1
  <1>7. CASE Len(r) + 1 = Bytes(r[1])
    <2>1. Len(u) \in 2..4 /\ Len(u) = Bytes(u[1]) /\ Len(u) <= Len(u)
      BY <1>1, <1>2, <1>3, <1>7
    <2>2. Spells(u)
      BY <1>4, <1>5, <2>1, SpelledFits DEF Spells
    <2>3. Ordinary(u[1])
      BY SMT, <1>1, <1>3, <1>5 DEF Ordinary, Span, Quote, Backslash
    <2>4. Reads(u, u)
      BY <2>2, <2>3, CharReads
    <2> QED
      BY <1>2, <1>7, <2>4
  <1>8. Len(r) + 1 < Bytes(r[1]) \/ Len(r) + 1 = Bytes(r[1])
    BY <1>1
  <1> QED
    BY <1>6, <1>7, <1>8

\* The next byte does not fit.
LEMMA HopelessTail ==
  ASSUME NEW r \in Seq(Int), NEW b \in Int, Led(r), b \notin Tails(r[1])[Len(r)]
  PROVE  Hopeless(Append(r, b))
  <1>1. /\ r[1] \in Int /\ Len(r) \in 1..3 /\ Len(r) < Bytes(r[1]) /\ Bytes(r[1]) \in 2..4
    BY LedLength
  <1>2. PICK u \in Seq(Int) : /\ u = Append(r, b) /\ Len(u) = Len(r) + 1
                              /\ \A i \in 1..Len(r) : u[i] = r[i]
                              /\ u[Len(r) + 1] = b
    BY Appended
  <1> SUFFICES ASSUME NEW s \in Seq(Int), NEW n \in Lengths, Starts(u, s), n <= Len(s), Denotes(s, n)
               PROVE  FALSE
    BY <1>2 DEF Hopeless
  <1>3. s[1] = r[1] /\ s[Len(r) + 1] = b
    <2>1. 1 \in 1..Len(u) /\ Len(r) + 1 \in 1..Len(u) /\ 1 \in 1..Len(r)
      BY <1>1, <1>2
    <2> QED
      <3>1. s[1] = u[1] /\ s[Len(r) + 1] = u[Len(r) + 1]
        BY <2>1, Zenon DEF Starts
      <3> QED
        BY <1>2, <2>1, <3>1, Zenon
  <1>4. Span(194, s[1], 244) /\ s[1] # 92 /\ ~Span(0, s[1], 127)
    <2>1. Span(194, r[1], 244)
      BY DEF Led
    <2> QED
      BY SMTT(60), <1>1, <1>3, <2>1 DEF Span
  <1>5. n <= 4 /\ Spelled(s, n)
    BY <1>4, OtherDenotes
  <1>6. n \in 2..4
    <2>1. n # 1
      BY <1>4, <1>5 DEF Spelled
    <2> QED
      BY <1>5, <2>1 DEF Lengths
  <1>7. n = Bytes(s[1]) /\ Fits(s, n)
    BY <1>4, <1>5, <1>6, SpelledFits
  <1>8. Len(r) + 1 \in 2..n /\ (Len(r) + 1) - 1 = Len(r)
    BY <1>1, <1>3, <1>7
  <1>9. s[Len(r) + 1] \in Tails(s[1])[(Len(r) + 1) - 1]
    BY <1>7, <1>8, Zenon DEF Fits
  <1> QED
    BY <1>3, <1>8, <1>9

\* The first n digits of the four of an escape of UTF-16, and their value.
Value(r, k, n) ==
  IF n = 0 THEN 0
  ELSE IF n = 1 THEN Hex(r[k + 3])
  ELSE IF n = 2 THEN Hex(r[k + 3]) * 16 + Hex(r[k + 4])
  ELSE (Hex(r[k + 3]) * 16 + Hex(r[k + 4])) * 16 + Hex(r[k + 5])

\* From its k-th byte on r is the beginning of an escape, of which n digits are read.
Ascending(r, k, n, c) ==
  /\ Len(r) = k + 2 + n
  /\ r[k + 1] = Backslash /\ r[k + 2] = 117
  /\ n > 0 => r[k + 3] \in HexDigit
  /\ n > 1 => r[k + 4] \in HexDigit
  /\ n > 2 => r[k + 5] \in HexDigit
  /\ c = Value(r, k, n)

\* r begins with the first half of a pair.
HighUnit(r, c) == Len(r) >= 6 /\ UnitAt(r, 0) /\ c = CodeAt(r, 0) /\ High(c)

\* u is r and b behind it.
Extends(u, r, b) == /\ u \in Seq(Int) /\ r \in Seq(Int) /\ b \in Int
                    /\ Len(u) = Len(r) + 1 /\ u[Len(r) + 1] = b
                    /\ \A i \in 1..Len(r) : u[i] = r[i]

\* Appending extends.
LEMMA ExtendsAppend ==
  ASSUME NEW r \in Seq(Int), NEW b \in Int
  PROVE  Extends(Append(r, b), r, b)
  BY Appended, Zenon DEF Extends

\* The value of the digits that were read is a natural number.
LEMMA AscendingNat ==
  ASSUME NEW r, NEW k, NEW n \in 0..3, NEW c, Ascending(r, k, n, c)
  PROVE  c \in Nat
  <1>1. \A a, d, e \in Nat : a * 16 + d \in Nat /\ (a * 16 + d) * 16 + e \in Nat
    OBVIOUS
  <1>2. /\ n > 0 => Hex(r[k + 3]) \in Nat
        /\ n > 1 => Hex(r[k + 4]) \in Nat
        /\ n > 2 => Hex(r[k + 5]) \in Nat
    BY HexNat, ZenonT(60) DEF Ascending
  <1>3. CASE n = 0
    BY <1>3 DEF Ascending, Value
  <1>4. CASE n = 1
    <2>1. 1 # 0 /\ n > 0
      BY <1>4
    <2>2. c = Hex(r[k + 3])
      BY <1>4, <2>1, Zenon DEF Ascending, Value
    <2> QED
      BY <1>2, <2>1, <2>2, Zenon
  <1>5. CASE n = 2
    <2>1. 2 # 0 /\ 2 # 1 /\ n > 0 /\ n > 1
      BY <1>5
    <2>2. c = Hex(r[k + 3]) * 16 + Hex(r[k + 4])
      BY <1>5, <2>1, Zenon DEF Ascending, Value
    <2> QED
      BY <1>1, <1>2, <2>1, <2>2, Zenon
  <1>6. CASE n = 3
    <2>1. 3 # 0 /\ 3 # 1 /\ 3 # 2 /\ n > 0 /\ n > 1 /\ n > 2
      BY <1>6
    <2>2. c = (Hex(r[k + 3]) * 16 + Hex(r[k + 4])) * 16 + Hex(r[k + 5])
      BY <1>6, <2>1, Zenon DEF Ascending, Value
    <2> QED
      BY <1>1, <1>2, <2>1, <2>2, Zenon
  <1> QED
    BY <1>3, <1>4, <1>5, <1>6

\* One digit more.
LEMMA AscendingStep ==
  ASSUME NEW r, NEW u, NEW b \in HexDigit, NEW k \in {0, 6}, NEW n \in 0..3, NEW c,
         Extends(u, r, b), Ascending(r, k, n, c)
  PROVE  /\ c * 16 + Hex(b) \in Nat
         /\ n < 3 => Ascending(u, k, n + 1, c * 16 + Hex(b))
         /\ n = 3 => Len(u) = k + 6 /\ UnitAt(u, k) /\ CodeAt(u, k) = c * 16 + Hex(b)
  <1> HIDE DEF HexDigit
  <1>1. c \in Nat /\ Hex(b) \in Nat
    BY AscendingNat, HexNat
  <1>2. /\ Len(r) = k + 2 + n /\ r[k + 1] = Backslash /\ r[k + 2] = 117
        /\ n > 0 => r[k + 3] \in HexDigit
        /\ n > 1 => r[k + 4] \in HexDigit
        /\ n > 2 => r[k + 5] \in HexDigit
        /\ c = Value(r, k, n)
    BY DEF Ascending
  <1>3. /\ Len(u) = k + 2 + (n + 1) /\ u[k + 3 + n] = b
        /\ \A i \in 1..(k + 2 + n) : u[i] = r[i]
    <2>1. Len(r) + 1 = k + 2 + (n + 1) /\ Len(r) + 1 = k + 3 + n
      BY <1>2
    <2>2. Len(u) = Len(r) + 1 /\ u[Len(r) + 1] = b /\ \A i \in 1..Len(r) : u[i] = r[i]
      BY Zenon DEF Extends
    <2> QED
      BY <1>2, <2>1, <2>2, Zenon
  <1>4. u[k + 1] = r[k + 1] /\ u[k + 2] = r[k + 2]
    <2>1. k + 1 \in 1..(k + 2 + n) /\ k + 2 \in 1..(k + 2 + n)
      OBVIOUS
    <2> QED
      BY <1>3, <2>1, Zenon
  <1>5. /\ n > 0 => u[k + 3] = r[k + 3]
        /\ n > 1 => u[k + 4] = r[k + 4]
        /\ n > 2 => u[k + 5] = r[k + 5]
    <2>1. /\ n > 0 => k + 3 \in 1..(k + 2 + n)
          /\ n > 1 => k + 4 \in 1..(k + 2 + n)
          /\ n > 2 => k + 5 \in 1..(k + 2 + n)
      OBVIOUS
    <2> QED
      BY <1>3, <2>1, Zenon
  <1>6. CASE n = 0
    <2>1. u[k + 3] = b /\ c = 0 /\ c * 16 + Hex(b) = Hex(b)
      <3>1. k + 3 + 0 = k + 3 /\ c = 0
        BY <1>2, <1>6 DEF Value
      <3> QED
        BY <1>1, <1>3, <1>6, <3>1
    <2>2. Ascending(u, k, 1, Hex(b))
      <3>1. 1 > 0 /\ ~(1 > 1) /\ ~(1 > 2) /\ 1 # 0 /\ n + 1 = 1
        BY <1>6
      <3> QED
        BY <1>2, <1>3, <1>4, <2>1, <3>1, Zenon DEF Ascending, Value
    <2>3. n + 1 = 1 /\ n # 3
      BY <1>6
    <2> QED
      BY <1>1, <2>1, <2>2, <2>3
  <1>7. CASE n = 1
    <2>1. u[k + 4] = b /\ c = Hex(r[k + 3])
      <3>1. k + 3 + 1 = k + 4 /\ c = Hex(r[k + 3])
        BY <1>2, <1>7 DEF Value
      <3> QED
        BY <1>3, <1>7, <3>1
    <2>2. Ascending(u, k, 2, c * 16 + Hex(b))
      <3>1. 2 > 0 /\ 2 > 1 /\ ~(2 > 2) /\ 2 # 0 /\ 2 # 1 /\ n + 1 = 2 /\ n > 0
        BY <1>7
      <3> QED
        BY <1>2, <1>3, <1>4, <1>5, <2>1, <3>1, Zenon DEF Ascending, Value
    <2>3. n + 1 = 2 /\ n # 3 /\ c * 16 + Hex(b) \in Nat
      BY <1>1, <1>7
    <2> QED
      BY <2>2, <2>3
  <1>8. CASE n = 2
    <2>1. u[k + 5] = b /\ c = Hex(r[k + 3]) * 16 + Hex(r[k + 4])
      <3>1. k + 3 + 2 = k + 5
        OBVIOUS
      <3>2. c = Hex(r[k + 3]) * 16 + Hex(r[k + 4])
        BY <1>2, <1>8 DEF Value
      <3> QED
        BY <1>3, <1>8, <3>1, <3>2
    <2>2. Ascending(u, k, 3, c * 16 + Hex(b))
      <3>1. 3 > 0 /\ 3 > 1 /\ 3 > 2 /\ 3 # 0 /\ 3 # 1 /\ 3 # 2 /\ n + 1 = 3 /\ n > 0 /\ n > 1
        BY <1>8
      <3> QED
        BY <1>2, <1>3, <1>4, <1>5, <2>1, <3>1, Zenon DEF Ascending, Value
    <2>3. n + 1 = 3 /\ n # 3 /\ c * 16 + Hex(b) \in Nat
      BY <1>1, <1>8
    <2> QED
      BY <2>2, <2>3
  <1>9. CASE n = 3
    <2>1. u[k + 6] = b /\ c = (Hex(r[k + 3]) * 16 + Hex(r[k + 4])) * 16 + Hex(r[k + 5])
      <3>1. k + 3 + 3 = k + 6
        OBVIOUS
      <3>2. c = (Hex(r[k + 3]) * 16 + Hex(r[k + 4])) * 16 + Hex(r[k + 5])
        BY <1>2, <1>9 DEF Value
      <3> QED
        BY <1>3, <1>9, <3>1, <3>2
    <2>2. UnitAt(u, k) /\ CodeAt(u, k) = c * 16 + Hex(b)
      <3>1. n > 0 /\ n > 1 /\ n > 2
        BY <1>9
      <3> QED
        BY <1>2, <1>3, <1>4, <1>5, <2>1, <3>1, Zenon DEF UnitAt, CodeAt
    <2>3. ~(n < 3) /\ c * 16 + Hex(b) \in Nat /\ k + 2 + (n + 1) = k + 6
      BY <1>1, <1>9
    <2> QED
      BY <1>3, <2>2, <2>3
  <1> QED
    BY <1>6, <1>7, <1>8, <1>9

\* A first surrogate stays one when more is read.
LEMMA HighUnitStays ==
  ASSUME NEW r, NEW u, NEW b, NEW c, Extends(u, r, b), HighUnit(r, c)
  PROVE  HighUnit(u, c)
  <1>1. r \in Seq(Int) /\ u \in Seq(Int) /\ Starts(r, u)
    BY DEF Extends, Starts
  <1>2. Len(r) >= 6 /\ Len(u) >= 6
    BY DEF HighUnit, Extends
  <1>3. (UnitAt(u, 0) <=> UnitAt(r, 0)) /\ CodeAt(u, 0) = CodeAt(r, 0)
    BY <1>1, <1>2, StartsUnit
  <1> QED
    BY <1>2, <1>3, Zenon DEF HighUnit

InHex(r, cp, n) ==
  /\ cp \in Seq(Nat)
  /\ \/ Len(cp) = 1 /\ Ascending(r, 0, n, cp[1])
     \/ Len(cp) = 2 /\ HighUnit(r, cp[1]) /\ Ascending(r, 6, n, cp[2])

\* What announces the second half of a pair.
LowStart == <<{Backslash}, {117}>>

InLow(r, cp, n) ==
  /\ cp \in Seq(Nat) /\ Len(cp) = 1 /\ HighUnit(r, cp[1])
  /\ Len(r) = 6 + n
  /\ n = 1 => r[7] = 92

\* In each state of scan_string(), r is what has been read of the character at hand.
Partial(state, r, cp, exp) ==
  \/ state = "string" /\ r = <<>>
  \/ state = "tail" /\ Led(r) /\ Awaits(exp, Tails(r[1]), Len(r) - 1)
  \/ state = "escape" /\ r = <<92>>
  \/ state = "hex" /\ \E n \in 0..3 : Awaits(exp, FourDigits, n) /\ InHex(r, cp, n)
  \/ state = "low" /\ \E n \in 0..1 : Awaits(exp, LowStart, n) /\ InLow(r, cp, n)

Buffered(state, buffer, B, r) == buffer = IF state = "tail" THEN B \o r ELSE B

\* inner was read behind the quote: whole characters, for which B stands, and r.
Cut(state, inner, buffer, cp, exp, P, B, r) ==
  /\ inner = P \o r /\ Reads(P, B) /\ r \in Seq(Int)
  /\ Buffered(state, buffer, B, r)
  /\ Partial(state, r, cp, exp)
InText(state, inner, buffer, cp, exp) ==
  \E P, B, r \in Seq(Int) : Cut(state, inner, buffer, cp, exp, P, B, r)

\* A byte behind a text is a byte behind its last part.
LEMMA CutHas ==
  ASSUME NEW inner, NEW P \in Seq(Int), NEW r \in Seq(Int), inner = P \o r, NEW b \in Int
  PROVE  /\ inner \in Seq(Int) /\ Append(inner, b) = P \o Append(r, b)
         /\ Extends(Append(r, b), r, b) /\ Append(r, b) \in Seq(Int)
  <1>2. inner \in Seq(Int)
    BY Joins
  <1>3. Append(inner, b) = P \o Append(r, b) /\ Append(r, b) \in Seq(Int)
    BY Appended
  <1> QED
    BY <1>2, <1>3, ExtendsAppend

\* The character at hand goes on.
LEMMA TextGoes ==
  ASSUME NEW state, NEW inner, NEW buffer, NEW cp, NEW exp, NEW P, NEW B, NEW r,
         Cut(state, inner, buffer, cp, exp, P, B, r), NEW b \in Int,
         NEW state2, NEW buffer2, NEW cp2, NEW exp2,
         Partial(state2, Append(r, b), cp2, exp2), Buffered(state2, buffer2, B, Append(r, b))
  PROVE  InText(state2, Append(inner, b), buffer2, cp2, exp2)
  <1>1. /\ P \in Seq(Int) /\ B \in Seq(Int) /\ Append(r, b) \in Seq(Int)
        /\ Append(inner, b) = P \o Append(r, b)
    <2>1. P \in Seq(Int) /\ B \in Seq(Int) /\ r \in Seq(Int) /\ inner = P \o r
      BY Zenon DEF Cut, Reads
    <2> QED
      BY <2>1, CutHas, ZenonT(60)
  <1>2. Cut(state2, Append(inner, b), buffer2, cp2, exp2, P, B, Append(r, b))
    BY <1>1, Zenon DEF Cut
  <1> QED
    BY <1>1, <1>2, Zenon DEF InText

\* It is complete.
LEMMA TextEnds ==
  ASSUME NEW state, NEW inner, NEW buffer, NEW cp, NEW exp, NEW P, NEW B, NEW r,
         Cut(state, inner, buffer, cp, exp, P, B, r), NEW b \in Int,
         NEW c, Reads(Append(r, b), c), NEW cp2, NEW exp2
  PROVE  InText("string", Append(inner, b), B \o c, cp2, exp2)
  <1>1. /\ P \in Seq(Int) /\ B \in Seq(Int) /\ Append(r, b) \in Seq(Int) /\ c \in Seq(Int)
        /\ Append(inner, b) = P \o Append(r, b)
    <2>1. c \in Seq(Int)
      BY Zenon DEF Reads
    <2> QED
      <3>1. P \in Seq(Int) /\ B \in Seq(Int) /\ r \in Seq(Int) /\ inner = P \o r
        BY Zenon DEF Cut, Reads
      <3>2. Append(r, b) \in Seq(Int) /\ Append(inner, b) = P \o Append(r, b)
        BY <3>1, CutHas, ZenonT(60)
      <3> QED
        BY <2>1, <3>1, <3>2, Zenon
  <1>2. Reads(P \o Append(r, b), B \o c)
    BY ReadsMore DEF Cut
  <1>3. /\ P \o Append(r, b) \in Seq(Int) /\ B \o c \in Seq(Int) /\ <<>> \in Seq(Int)
        /\ (P \o Append(r, b)) \o <<>> = P \o Append(r, b)
    <2>1. P \o Append(r, b) \in Seq(Int) /\ B \o c \in Seq(Int)
      BY <1>2, Zenon DEF Reads
    <2>2. <<>> \in Seq(Int)
      OBVIOUS
    <2> QED
      BY <2>1, <2>2, JoinsEmpty
  <1>4. Cut("string", Append(inner, b), B \o c, cp2, exp2, P \o Append(r, b), B \o c, <<>>)
    <2>1. "string" # "tail"
      OBVIOUS
    <2> QED
      BY <1>1, <1>2, <1>3, <2>1, Zenon DEF Cut, Partial, Buffered
  <1> QED
    BY <1>3, <1>4, Zenon DEF InText

\* No string goes on like this.
LEMMA TextDead ==
  ASSUME NEW state, NEW inner, NEW buffer, NEW cp, NEW exp, NEW P, NEW B, NEW r,
         Cut(state, inner, buffer, cp, exp, P, B, r), NEW b \in Int,
         Hopeless(Append(r, b))
  PROVE  Dead(Append(inner, b))
  <1>1. /\ Append(r, b) \in Seq(Int) /\ Append(inner, b) = P \o Append(r, b) /\ Extends(Append(r, b), r, b)
    <2>1. P \in Seq(Int) /\ B \in Seq(Int) /\ r \in Seq(Int) /\ inner = P \o r
      BY Zenon DEF Cut, Reads
    <2> QED
      BY <2>1, CutHas, ZenonT(60)
  <1>2. Append(r, b) # <<>>
    <2>1. Len(Append(r, b)) = Len(r) + 1 /\ Len(r) \in Nat
      BY <1>1 DEF Extends
    <2> QED
      BY <1>1, <2>1
  <1>3. Dead(Append(r, b))
    BY <1>1, <1>2, DeadWhere
  <1>4. Dead(P \o Append(r, b))
    BY <1>3, DeadBehind DEF Cut
  <1> QED
    BY <1>1, <1>4, Zenon

-----------------------------------------------------------------------------
(* Strings: one byte more, state by state.                                  *)

\* A byte in scan_string(): what was read stays a text and a beginning, or becomes what no text begins with.
LEMMA StringStep ==
  ASSUME NEW inner, NEW buffer, NEW cp, NEW exp, InText("string", inner, buffer, cp, exp), NEW b \in Int
  PROVE  /\ inner \in Seq(Int) /\ Meanings[inner] = {buffer}
         /\ b \in Plain => InText("string", Append(inner, b), buffer \o <<b>>, cp, exp)
         /\ b \in 194..244 => InText("tail", Append(inner, b), buffer \o <<b>>, cp, Tails(b))
         /\ b = Backslash => InText("escape", Append(inner, b), buffer, cp, exp)
         /\ b \notin {Quote, Backslash} /\ b \notin Plain /\ b \notin 194..244 => Dead(Append(inner, b))
  <1>1. PICK P \in Seq(Int), B \in Seq(Int), r \in Seq(Int) : Cut("string", inner, buffer, cp, exp, P, B, r)
    BY Zenon DEF InText
  <1>2. "string" # "tail" /\ "string" # "escape" /\ "string" # "hex" /\ "string" # "low" /\ "tail" # "escape"
    OBVIOUS
  <1>3. r = <<>> /\ buffer = B
    BY <1>1, <1>2, Zenon DEF Cut, Partial, Buffered
  <1>4. inner = P /\ Reads(P, B)
    <2>1. inner = P \o r /\ Reads(P, B)
      BY <1>1 DEF Cut
    <2> QED
      BY <1>3, <2>1, JoinsEmpty
  <1>5. Append(r, b) = <<b>> /\ <<b>> \in Seq(Int) /\ Len(<<b>>) = 1 /\ <<b>>[1] = b
    BY <1>3
  <1>6. ASSUME b \in Plain
        PROVE  InText("string", Append(inner, b), buffer \o <<b>>, cp, exp)
    <2>1. Span(0, b, 127) /\ Ordinary(b)
      BY SMT, <1>6 DEF Plain, Span, Ordinary
    <2>2. Spells(<<b>>) /\ Ordinary(<<b>>[1])
      BY <1>5, <2>1, Zenon DEF Spells, Spelled
    <2>3. Reads(Append(r, b), <<b>>)
      BY <1>5, <2>2, CharReads
    <2> QED
      BY <1>1, <1>3, <2>3, TextEnds
  <1>7. ASSUME b \in 194..244
        PROVE  InText("tail", Append(inner, b), buffer \o <<b>>, cp, Tails(b))
    <2>1. Span(194, b, 244)
      BY SMT, <1>7 DEF Span
    <2>2. Led(<<b>>) /\ Awaits(Tails(b), Tails(b), 0)
      BY <2>1, LedFirst
    <2>3. 1 - 1 = 0
      OBVIOUS
    <2>4. Partial("tail", Append(r, b), cp, Tails(b))
      BY <1>5, <2>2, <2>3, Zenon DEF Partial
    <2>5. Buffered("tail", buffer \o <<b>>, B, Append(r, b))
      BY <1>3, <1>5, Zenon DEF Buffered
    <2> QED
      BY <1>1, <2>4, <2>5, TextGoes
  <1>8. ASSUME b = Backslash
        PROVE  InText("escape", Append(inner, b), buffer, cp, exp)
    <2>1. Append(r, b) = <<92>>
      BY <1>5, <1>8 DEF Backslash
    <2>2. Partial("escape", Append(r, b), cp, exp)
      BY <2>1, Zenon DEF Partial
    <2>3. Buffered("escape", buffer, B, Append(r, b))
      BY <1>2, <1>3, Zenon DEF Buffered
    <2> QED
      BY <1>1, <2>2, <2>3, TextGoes
  <1>9. ASSUME b \notin {Quote, Backslash}, b \notin Plain, b \notin 194..244
        PROVE  Dead(Append(inner, b))
    <2>1. b # 92 /\ ~Span(194, b, 244) /\ (Span(0, b, 127) => ~Ordinary(b))
      BY SMT, <1>9 DEF Plain, Span, Ordinary, Quote, Backslash
    <2>2. Hopeless(Append(r, b))
      BY <1>5, <2>1, HopelessFirst
    <2> QED
      BY <1>1, <2>2, TextDead
  <1>10. inner \in Seq(Int) /\ Meanings[inner] = {buffer}
    BY <1>3, <1>4, ReadsAll
  <1> QED
    BY <1>6, <1>7, <1>8, <1>9, <1>10

\* The same for a byte in next_byte_in_range().
LEMMA TailStep ==
  ASSUME NEW inner, NEW buffer, NEW cp, NEW exp, InText("tail", inner, buffer, cp, exp), NEW b \in Int
  PROVE  /\ inner \in Seq(Int) /\ Len(exp) \in Nat /\ Len(exp) > 0
         /\ b \in Head(exp) /\ Len(exp) > 1 => InText("tail", Append(inner, b), buffer \o <<b>>, cp, Tail(exp))
         /\ b \in Head(exp) /\ Len(exp) = 1 => InText("string", Append(inner, b), buffer \o <<b>>, cp, Tail(exp))
         /\ b \notin Head(exp) => Dead(Append(inner, b))
  <1>1. PICK P \in Seq(Int), B \in Seq(Int), r \in Seq(Int) : Cut("tail", inner, buffer, cp, exp, P, B, r)
    BY Zenon DEF InText
  <1>2. "tail" # "string" /\ "tail" # "escape" /\ "tail" # "hex" /\ "tail" # "low"
    OBVIOUS
  <1>3. /\ Led(r) /\ Awaits(exp, Tails(r[1]), Len(r) - 1) /\ buffer = B \o r /\ inner = P \o r
    BY <1>1, <1>2, Zenon DEF Cut, Partial, Buffered
  <1>4. /\ r[1] \in Int /\ Len(r) \in 1..3 /\ Len(r) < Bytes(r[1]) /\ Bytes(r[1]) \in 2..4
        /\ Len(Tails(r[1])) = Bytes(r[1]) - 1
    BY <1>3, LedLength
  <1>5. PICK full : full = Tails(r[1])
    OBVIOUS
  <1>6. PICK k \in Nat : k = Len(r) - 1 /\ k + 1 = Len(r)
    BY <1>4, SMTT(60)
  <1>7. PICK m \in 2..4 : m = Bytes(r[1])
    BY <1>4
  <1>8. Len(full) = m - 1 /\ k + 1 < m /\ k < Len(full) /\ Len(full) \in Nat
    <2>1. k + 1 < m /\ Len(full) = m - 1
      BY <1>4, <1>5, <1>6, <1>7, Zenon
    <2> QED
      BY <2>1
  <1>9. Awaits(exp, full, k)
    BY <1>3, <1>5, <1>6, Zenon
  <1>10. Head(exp) = full[k + 1] /\ Len(exp) = Len(full) - k /\ Awaits(Tail(exp), full, k + 1)
    BY <1>8, <1>9, AwaitsNext
  <1>11. Len(exp) = m - (k + 1) /\ Len(exp) \in Nat /\ Len(exp) > 0
    BY <1>8, <1>10
  <1>12. Head(exp) = Tails(r[1])[Len(r)]
    BY <1>5, <1>6, <1>10, Zenon
  <1>13. inner \in Seq(Int)
    BY <1>3, Joins
  <1>14. buffer \o <<b>> = B \o Append(r, b)
    <2>1. (B \o r) \o <<b>> = B \o (r \o <<b>>) /\ r \o <<b>> = Append(r, b)
      <3>1. <<b>> \in Seq(Int)
        OBVIOUS
      <3>2. r \o <<b>> = Append(r, b)
        BY AppendIsConcat
      <3> QED
        BY <3>1, <3>2, Joins, SMTT(60)
    <2> QED
      BY <1>3, <2>1, Zenon
  <1>15. ASSUME b \in Head(exp), Len(exp) > 1
         PROVE  InText("tail", Append(inner, b), buffer \o <<b>>, cp, Tail(exp))
    <2>1. k + 1 + 1 < m /\ k + 1 + 1 # m
      BY <1>11, <1>15
    <2>2. Led(Append(r, b)) /\ Append(r, b)[1] = r[1]
      <3>1. Len(r) + 1 # Bytes(r[1])
        BY <1>6, <1>7, <2>1, Zenon
      <3> QED
        BY <1>3, <1>12, <1>15, <3>1, LedGrows
    <2>3. Len(Append(r, b)) - 1 = k + 1
      BY <1>6
    <2>4. Awaits(Tail(exp), Tails(Append(r, b)[1]), Len(Append(r, b)) - 1)
      BY <1>5, <1>10, <2>2, <2>3, Zenon
    <2>5. Partial("tail", Append(r, b), cp, Tail(exp))
      BY <2>2, <2>4, Zenon DEF Partial
    <2>6. Buffered("tail", buffer \o <<b>>, B, Append(r, b))
      BY <1>14, Zenon DEF Buffered
    <2> QED
      BY <1>1, <2>5, <2>6, TextGoes
  <1>16. ASSUME b \in Head(exp), Len(exp) = 1
         PROVE  InText("string", Append(inner, b), buffer \o <<b>>, cp, Tail(exp))
    <2>1. ~(k + 1 + 1 < m)
      <3>1. m - (k + 1) = 1
        BY <1>11, <1>16, Zenon
      <3> QED
        BY <3>1
    <2>2. ~(Len(r) + 1 < Bytes(r[1]))
      BY <1>6, <1>7, <2>1, Zenon
    <2>3. Reads(Append(r, b), Append(r, b))
      BY <1>3, <1>12, <1>16, <2>2, LedGrows
    <2>4. InText("string", Append(inner, b), B \o Append(r, b), cp, Tail(exp))
      BY <1>1, <2>3, TextEnds
    <2> QED
      BY <1>14, <2>4, Zenon
  <1>17. ASSUME b \notin Head(exp)
         PROVE  Dead(Append(inner, b))
    <2>1. Hopeless(Append(r, b))
      BY <1>3, <1>12, <1>17, HopelessTail
    <2> QED
      BY <1>1, <2>1, TextDead
  <1> QED
    BY <1>11, <1>13, <1>15, <1>16, <1>17

\* The same for a byte behind a backslash.
LEMMA EscapeStep ==
  ASSUME NEW inner, NEW buffer, NEW cp, NEW exp, InText("escape", inner, buffer, cp, exp), NEW b \in Int
  PROVE  /\ inner \in Seq(Int)
         /\ b \in DOMAIN Escape => InText("string", Append(inner, b), buffer \o <<Escape[b]>>, cp, exp)
         /\ b = 117 => InText("hex", Append(inner, b), buffer, <<0>>, FourDigits)
         /\ b # 117 /\ b \notin DOMAIN Escape => Dead(Append(inner, b))
  <1>1. PICK P \in Seq(Int), B \in Seq(Int), r \in Seq(Int) : Cut("escape", inner, buffer, cp, exp, P, B, r)
    BY Zenon DEF InText
  <1>2. "escape" # "tail" /\ "escape" # "string" /\ "escape" # "hex" /\ "escape" # "low" /\ "hex" # "tail"
    OBVIOUS
  <1>3. r = <<92>> /\ buffer = B /\ inner = P \o r
    BY <1>1, <1>2, Zenon DEF Cut, Partial, Buffered
  <1>4. Append(r, b) = <<92, b>>
    <2>1. /\ <<92, b>> \in Seq(Int) /\ Len(<<92, b>>) = 2 /\ <<92, b>>[1] = 92 /\ <<92, b>>[2] = b
          /\ Len(r) = 1 /\ r[1] = 92
      BY <1>3
    <2>2. /\ Append(r, b) \in Seq(Int) /\ Len(Append(r, b)) = 2
          /\ Append(r, b)[1] = 92 /\ Append(r, b)[2] = b
      <3>1. /\ Append(r, b) \in Seq(Int) /\ Len(Append(r, b)) = Len(r) + 1
            /\ \A i \in 1..Len(r) : Append(r, b)[i] = r[i]
            /\ Append(r, b)[Len(r) + 1] = b
        BY Appended
      <3>2. 1 \in 1..1 /\ 1 + 1 = 2
        OBVIOUS
      <3> QED
        BY <2>1, <3>1, <3>2, ZenonT(60)
    <2>3. \A i \in 1..2 : i = 1 \/ i = 2
      OBVIOUS
    <2>4. \A i \in 1..2 : Append(r, b)[i] = <<92, b>>[i]
      BY <2>1, <2>2, <2>3, Zenon
    <2> HIDE <1>3
    <2> QED
      BY <2>1, <2>2, <2>4, SeqEqual, ZenonT(60)
  <1>5. inner \in Seq(Int)
    BY <1>3, Joins
  <1>6. ASSUME b \in DOMAIN Escape
        PROVE  InText("string", Append(inner, b), buffer \o <<Escape[b]>>, cp, exp)
    <2>1. Reads(Append(r, b), <<Escape[b]>>)
      BY <1>4, <1>6, EscapeReads, Zenon
    <2>2. InText("string", Append(inner, b), B \o <<Escape[b]>>, cp, exp)
      BY <1>1, <2>1, TextEnds
    <2> QED
      BY <1>3, <2>2, Zenon
  <1>7. ASSUME b = 117
        PROVE  InText("hex", Append(inner, b), buffer, <<0>>, FourDigits)
    <2>1. PICK u \in Seq(Int) : u = Append(r, b) /\ Len(u) = 2 /\ u[1] = Backslash /\ u[2] = 117
      <3>1. /\ <<92, 117>> \in Seq(Int) /\ Len(<<92, 117>>) = 2
            /\ <<92, 117>>[1] = Backslash /\ <<92, 117>>[2] = 117
        BY DEF Backslash
      <3>2. <<92, 117>> = Append(r, b)
        BY <1>4, <1>7, Zenon
      <3> QED
        BY <3>1, <3>2, ZenonT(60)
    <2>2. Len(u) = 0 + 2 + 0 /\ u[0 + 1] = Backslash /\ u[0 + 2] = 117 /\ ~(0 > 0) /\ ~(0 > 1) /\ ~(0 > 2)
      BY <2>1
    <2>3. Ascending(u, 0, 0, 0)
      BY <2>2, Zenon DEF Ascending, Value
    <2>4. <<0>> \in Seq(Nat) /\ Len(<<0>>) = 1 /\ <<0>>[1] = 0 /\ 0 \in 0..3
      OBVIOUS
    <2>5. InHex(u, <<0>>, 0)
      BY <2>3, <2>4, Zenon DEF InHex
    <2>6. Awaits(FourDigits, FourDigits, 0)
      <3>1. FourDigits \in Seq({HexDigit})
        <4> HIDE DEF HexDigit
        <4> QED
          BY DEF FourDigits
      <3> QED
        BY <3>1, AwaitsAll
    <2>7. Partial("hex", Append(r, b), <<0>>, FourDigits)
      BY <2>1, <2>4, <2>5, <2>6, Zenon DEF Partial
    <2>8. Buffered("hex", buffer, B, Append(r, b))
      BY <1>2, <1>3, Zenon DEF Buffered
    <2> QED
      BY <1>1, <2>7, <2>8, TextGoes
  <1>8. ASSUME b # 117, b \notin DOMAIN Escape
        PROVE  Dead(Append(inner, b))
    <2>1. Hopeless(Append(r, b))
      BY <1>4, <1>8, HopelessEscape, Zenon
    <2> QED
      BY <1>1, <2>1, TextDead
  <1> QED
    BY <1>5, <1>6, <1>7, <1>8

\* Four hexadecimal digits are not more.
Wide(c) == c <= 65535

\* Four digits give no more than 65535.
LEMMA CodeAtBound ==
  ASSUME NEW s, NEW k, UnitAt(s, k)
  PROVE  Wide(CodeAt(s, k))
  <1>1. /\ Hex(s[k + 3]) \in 0..15 /\ Hex(s[k + 4]) \in 0..15
        /\ Hex(s[k + 5]) \in 0..15 /\ Hex(s[k + 6]) \in 0..15
    BY HexInts, ZenonT(60) DEF UnitAt
  <1>2. \A x, y, z, w \in 0..15 : Wide(((x * 16 + y) * 16 + z) * 16 + w)
    BY SMT DEF Wide
  <1> QED
    BY <1>1, <1>2, Zenon DEF CodeAt

\* An escape of UTF-16 that is broken off.
LEMMA HexBad ==
  ASSUME NEW r, NEW u, NEW b, NEW cp, NEW n \in 0..3,
         InHex(r, cp, n), Extends(u, r, b), b \notin HexDigit
  PROVE  Hopeless(u)
  <1>1. /\ u \in Seq(Int) /\ Len(u) = Len(r) + 1 /\ u[Len(u)] = b /\ Starts(r, u)
        /\ r \in Seq(Int)
    BY DEF Extends, Starts
  <1>2. CASE Len(cp) = 1 /\ Ascending(r, 0, n, cp[1])
    <2>1. Len(r) = 2 + n /\ r[1] = 92 /\ r[2] = 117
      BY <1>2 DEF Ascending, Backslash
    <2>2. Len(u) \in 3..6
      BY <1>1, <2>1
    <2>3. u[1] = 92 /\ u[2] = 117
      <3>1. 1 \in 1..Len(r) /\ 2 \in 1..Len(r)
        BY <2>1
      <3> QED
        <4>1. u[1] = r[1] /\ u[2] = r[2]
          BY <1>1, <3>1, Zenon DEF Starts
        <4> QED
          BY <2>1, <4>1, Zenon
    <2>4. u[Len(u)] \notin HexDigit
      BY <1>1, Zenon
    <2> QED
      BY <1>1, <2>2, <2>3, <2>4, HopelessHex
  <1>3. CASE Len(cp) = 2 /\ HighUnit(r, cp[1]) /\ Ascending(r, 6, n, cp[2])
    <2>1. Len(r) = 8 + n
      BY <1>3 DEF Ascending
    <2>2. Len(u) \in 7..12 /\ Len(u) \in 9..12
      BY <1>1, <2>1
    <2>3. HighUnit(u, cp[1])
      BY <1>3, HighUnitStays
    <2>4. UnitAt(u, 0) /\ High(CodeAt(u, 0))
      BY <2>3, Zenon DEF HighUnit
    <2>5. u[Len(u)] \notin HexDigit
      BY <1>1, Zenon
    <2> QED
      BY <1>1, <2>2, <2>4, <2>5, HopelessHigh
  <1> QED
    BY <1>2, <1>3 DEF InHex

\* The only element set anew.
LEMMA OneExcept ==
  ASSUME NEW cp \in Seq(Nat), NEW c \in Nat, Len(cp) = 1
  PROVE  \E d \in Seq(Nat) : d = [cp EXCEPT ![1] = c] /\ Len(d) = 1 /\ d[1] = c
  <1>1. [cp EXCEPT ![1] = c] \in Seq(Nat) /\ Len([cp EXCEPT ![1] = c]) = 1 /\ [cp EXCEPT ![1] = c][1] = c
    OBVIOUS
  <1> QED
    BY <1>1, Zenon

\* The second element set anew.
LEMMA SecondSet ==
  ASSUME NEW cp \in Seq(Nat), NEW c \in Nat, 2 \in 1..Len(cp)
  PROVE  /\ [cp EXCEPT ![2] = c] \in Seq(Nat) /\ Len([cp EXCEPT ![2] = c]) = Len(cp)
         /\ \A j \in 1..Len(cp) : [cp EXCEPT ![2] = c][j] = IF j = 2 THEN c ELSE cp[j]
  <1>1. [cp EXCEPT ![2] = c] \in Seq(Nat)
    OBVIOUS
  <1>2. Len([cp EXCEPT ![2] = c]) = Len(cp)
    OBVIOUS
  <1>3. DOMAIN cp = 1..Len(cp)
    OBVIOUS
  <1>4. \A j \in 1..Len(cp) : [cp EXCEPT ![2] = c][j] = IF j = 2 THEN c ELSE cp[j]
    BY <1>3, Zenon
  <1> QED
    BY <1>1, <1>2, <1>4, Zenon

\* The second of two elements set anew.
LEMMA TwoExcept ==
  ASSUME NEW cp \in Seq(Nat), NEW c \in Nat, Len(cp) = 2
  PROVE  \E d \in Seq(Nat) : d = [cp EXCEPT ![2] = c] /\ Len(d) = 2 /\ d[2] = c /\ d[1] = cp[1]
  <1>1. 1 \in 1..Len(cp) /\ 2 \in 1..Len(cp) /\ 1 # 2
    OBVIOUS
  <1>2. /\ [cp EXCEPT ![2] = c] \in Seq(Nat) /\ Len([cp EXCEPT ![2] = c]) = Len(cp)
        /\ \A j \in 1..Len(cp) : [cp EXCEPT ![2] = c][j] = IF j = 2 THEN c ELSE cp[j]
    BY <1>1, SecondSet
  <1>3. [cp EXCEPT ![2] = c][1] = cp[1] /\ [cp EXCEPT ![2] = c][2] = c
    BY <1>1, <1>2, Zenon
  <1> QED
    BY <1>2, <1>3, Zenon

\* One number behind a sequence of numbers.
LEMMA AppendedNat ==
  ASSUME NEW s \in Seq(Nat), NEW c \in Nat
  PROVE  /\ Append(s, c) \in Seq(Nat) /\ Len(Append(s, c)) = Len(s) + 1
         /\ \A i \in 1..Len(s) : Append(s, c)[i] = s[i]
         /\ Append(s, c)[Len(s) + 1] = c
  OBVIOUS

\* A second number behind a first.
LEMMA TwoOf ==
  ASSUME NEW cp \in Seq(Nat), NEW c \in Nat, Len(cp) = 1
  PROVE  \E d \in Seq(Nat) : d = Append(cp, c) /\ Len(d) = 2 /\ d[1] = cp[1] /\ d[2] = c
  <1>1. /\ Append(cp, c) \in Seq(Nat) /\ Len(Append(cp, c)) = Len(cp) + 1
        /\ \A i \in 1..Len(cp) : Append(cp, c)[i] = cp[i]
        /\ Append(cp, c)[Len(cp) + 1] = c
    BY AppendedNat
  <1>2. 1 \in 1..Len(cp) /\ Len(cp) + 1 = 2
    OBVIOUS
  <1>3. Append(cp, c)[1] = cp[1] /\ Append(cp, c)[2] = c
    BY <1>1, <1>2, Zenon
  <1> QED
    BY <1>1, <1>2, <1>3, Zenon

\* A digit of get_codepoint() that is not the last one.
LEMMA HexMore ==
  ASSUME NEW r, NEW u, NEW b \in HexDigit, NEW cp, NEW n \in 0..2,
         InHex(r, cp, n), Extends(u, r, b)
  PROVE  InHex(u, [cp EXCEPT ![Len(cp)] = cp[Len(cp)] * 16 + Hex(b)], n + 1)
  <1> HIDE DEF HexDigit
  <1>1. n \in 0..3 /\ n < 3 /\ 0 \in {0, 6} /\ 6 \in {0, 6}
    OBVIOUS
  <1>2. CASE Len(cp) = 1 /\ Ascending(r, 0, n, cp[1])
    <2>1. PICK c \in Nat : c = cp[1] * 16 + Hex(b) /\ Ascending(u, 0, n + 1, c)
      BY <1>1, <1>2, AscendingStep
    <2>2. PICK d \in Seq(Nat) : d = [cp EXCEPT ![1] = c] /\ Len(d) = 1 /\ d[1] = c
      <3>1. cp \in Seq(Nat) /\ Len(cp) = 1
        BY <1>2 DEF InHex
      <3> QED
        BY <3>1, OneExcept
    <2>3. InHex(u, d, n + 1)
      BY <2>1, <2>2, Zenon DEF InHex
    <2> QED
      BY <1>2, <2>1, <2>2, <2>3, Zenon
  <1>3. CASE Len(cp) = 2 /\ HighUnit(r, cp[1]) /\ Ascending(r, 6, n, cp[2])
    <2>1. PICK c \in Nat : c = cp[2] * 16 + Hex(b) /\ Ascending(u, 6, n + 1, c)
      BY <1>1, <1>3, AscendingStep
    <2>2. PICK d \in Seq(Nat) : d = [cp EXCEPT ![2] = c] /\ Len(d) = 2 /\ d[2] = c /\ d[1] = cp[1]
      <3>1. cp \in Seq(Nat) /\ Len(cp) = 2
        BY <1>3 DEF InHex
      <3> QED
        BY <3>1, TwoExcept
    <2>4. HighUnit(u, d[1])
      BY <1>3, <2>2, HighUnitStays
    <2>3. InHex(u, d, n + 1)
      BY <2>1, <2>2, <2>4, Zenon DEF InHex
    <2> QED
      BY <1>3, <2>1, <2>2, <2>3, Zenon
  <1> QED
    BY <1>2, <1>3 DEF InHex

\* The code point of two surrogates, as get_codepoint() leaves it to scan_string().
Combined(first, c) == first * 1024 + c - 56613888

\* The last digit: a first surrogate, a character, a pair, or what nothing begins with.
LEMMA HexLast ==
  ASSUME NEW r, NEW u, NEW b \in HexDigit, NEW cp, InHex(r, cp, 3), Extends(u, r, b),
         NEW c, c = cp[Len(cp)] * 16 + Hex(b)
  PROVE  /\ Len(cp) \in {1, 2}
         /\ Len(cp) = 1 /\ High(c) => InLow(u, <<c>>, 0)
         /\ Len(cp) = 1 /\ Low(c) => Hopeless(u)
         /\ Len(cp) = 1 /\ ~High(c) /\ ~Low(c) => Reads(u, Utf8(c))
         /\ Len(cp) = 2 /\ ~Low(c) => Hopeless(u)
         /\ Len(cp) = 2 /\ Low(c) => Reads(u, Utf8(Combined(cp[1], c)))
  <1> HIDE DEF HexDigit
  <1>1. 3 \in 0..3 /\ 0 \in {0, 6} /\ 6 \in {0, 6} /\ 0 + 6 = 6 /\ 6 + 6 = 12
    OBVIOUS
  <1>2. u \in Seq(Int)
    BY DEF Extends
  <1>3. CASE Len(cp) = 1 /\ Ascending(r, 0, 3, cp[1])
    <2>1. c \in Nat /\ Len(u) = 6 /\ UnitAt(u, 0) /\ CodeAt(u, 0) = c
      BY <1>1, <1>3, AscendingStep
    <2>2. Wide(c)
      BY <2>1, CodeAtBound, Zenon
    <2>3. ASSUME High(c)
          PROVE  InLow(u, <<c>>, 0)
      <3>1. <<c>> \in Seq(Nat) /\ Len(<<c>>) = 1 /\ <<c>>[1] = c
        BY <2>1
      <3>2. HighUnit(u, c)
        <4>1. Len(u) >= 6
          BY <2>1
        <4> QED
          BY <2>1, <2>3, <4>1, Zenon DEF HighUnit
      <3>3. Len(u) = 6 + 0 /\ 0 # 1
        BY <2>1
      <3> QED
        BY <3>1, <3>2, <3>3, Zenon DEF InLow
    <2>4. ASSUME Low(c)
          PROVE  Hopeless(u)
      BY <1>2, <2>1, <2>4, HopelessLow
    <2>5. ASSUME ~High(c), ~Low(c)
          PROVE  Reads(u, Utf8(c))
      <3>1. ScalarValue(c)
        BY SMT, <2>1, <2>2, <2>5 DEF ScalarValue, High, Low, Wide
      <3> QED
        BY <1>2, <2>1, <3>1, UnitReads
    <2>6. Len(cp) # 2 /\ Len(cp) \in {1, 2}
      BY <1>3
    <2> QED
      BY <2>3, <2>4, <2>5, <2>6, Zenon
  <1>4. CASE Len(cp) = 2 /\ HighUnit(r, cp[1]) /\ Ascending(r, 6, 3, cp[2])
    <2>1. c \in Nat /\ Len(u) = 12 /\ UnitAt(u, 6) /\ CodeAt(u, 6) = c
      BY <1>1, <1>4, AscendingStep
    <2>2. HighUnit(u, cp[1])
      BY <1>4, HighUnitStays
    <2>3. UnitAt(u, 0) /\ cp[1] = CodeAt(u, 0) /\ High(CodeAt(u, 0))
      BY <2>2, Zenon DEF HighUnit
    <2>4. ASSUME ~Low(c)
          PROVE  Hopeless(u)
      <3>1. Len(u) \in 7..12
        BY <2>1
      <3> QED
        BY <1>2, <2>1, <2>3, <2>4, <3>1, HopelessHigh
    <2>5. ASSUME Low(c)
          PROVE  Reads(u, Utf8(Combined(cp[1], c)))
      <3>1. PairAt(u)
        BY <2>1, <2>3, <2>5, Zenon DEF PairAt
      <3>2. Paired(u) = 65536 + 1024 * (CodeAt(u, 0) - 55296) + CodeAt(u, 6) - 56320
        BY SMT, <1>2, <2>1, PairWhole
      <3>3. PICK h \in Nat : h = CodeAt(u, 0)
        BY <2>3, CodeAtNat, Zenon
      <3>4. 65536 + 1024 * (h - 55296) + c - 56320 = Combined(h, c)
        BY SMT, <2>1 DEF Combined
      <3>5. Paired(u) = Combined(cp[1], c)
        BY SMT, <2>1, <2>3, <3>2, <3>3, <3>4
      <3>6. Reads(u, Utf8(Paired(u)))
        BY <1>2, <2>1, <3>1, PairReads
      <3> QED
        BY <3>5, <3>6, Zenon
    <2>6. Len(cp) # 1 /\ Len(cp) \in {1, 2}
      BY <1>4
    <2> QED
      BY <2>4, <2>5, <2>6
  <1> QED
    BY <1>3, <1>4 DEF InHex

\* A first surrogate that no second one follows.
LEMMA LowBad ==
  ASSUME NEW r, NEW u, NEW b, NEW cp, NEW n \in 0..1, InLow(r, cp, n), Extends(u, r, b),
         n = 0 => b # 92, n = 1 => b # 117
  PROVE  Hopeless(u)
  <1>1. u \in Seq(Int) /\ Len(u) = Len(r) + 1 /\ u[Len(r) + 1] = b
    BY DEF Extends
  <1>2. HighUnit(u, cp[1]) /\ Len(r) = 6 + n
    BY HighUnitStays DEF InLow
  <1>3. UnitAt(u, 0) /\ High(CodeAt(u, 0))
    BY <1>2, Zenon DEF HighUnit
  <1>4. CASE n = 0
    <2>1. Len(u) = 7 /\ u[7] # 92 /\ Len(u) \in 7..12
      BY <1>1, <1>2, <1>4
    <2> QED
      BY <1>1, <1>3, <2>1, HopelessHigh
  <1>5. CASE n = 1
    <2>1. Len(u) = 8 /\ u[8] # 117 /\ Len(u) \in 7..12
      BY <1>1, <1>2, <1>5
    <2> QED
      BY <1>1, <1>3, <2>1, HopelessHigh
  <1> QED
    BY <1>4, <1>5

\* The backslash of the second surrogate.
LEMMA LowBackslash ==
  ASSUME NEW r, NEW u, NEW cp, InLow(r, cp, 0), Extends(u, r, 92)
  PROVE  InLow(u, cp, 1)
  <1>1. u \in Seq(Int) /\ Len(u) = Len(r) + 1 /\ u[Len(r) + 1] = 92
    BY DEF Extends
  <1>2. HighUnit(u, cp[1]) /\ Len(r) = 6 + 0 /\ cp \in Seq(Nat) /\ Len(cp) = 1
    BY HighUnitStays DEF InLow
  <1>3. Len(u) = 6 + 1 /\ u[7] = 92
    BY <1>1, <1>2
  <1> QED
    BY <1>2, <1>3, Zenon DEF InLow

\* The u of the second surrogate.
LEMMA LowU ==
  ASSUME NEW r, NEW u, NEW cp, InLow(r, cp, 1), Extends(u, r, 117)
  PROVE  InHex(u, Append(cp, 0), 0)
  <1>1. u \in Seq(Int) /\ Len(u) = Len(r) + 1 /\ u[Len(r) + 1] = 117
    BY DEF Extends
  <1>2. HighUnit(u, cp[1]) /\ Len(r) = 6 + 1 /\ cp \in Seq(Nat) /\ Len(cp) = 1
    BY HighUnitStays DEF InLow
  <1>3. Len(r) = 7 /\ r[7] = 92 /\ u[7] = r[7]
    <2>1. Len(r) = 7 /\ 7 \in 1..7
      BY <1>2
    <2>2. r[7] = 92
      BY DEF InLow
    <2> QED
      BY <2>1, <2>2, ZenonT(60) DEF Extends
  <1>4. Len(u) = 8 /\ u[8] = 117
    BY <1>1, <1>3
  <1>5. Len(u) = 6 + 2 + 0 /\ u[6 + 1] = Backslash /\ u[6 + 2] = 117 /\ ~(0 > 0) /\ ~(0 > 1) /\ ~(0 > 2)
    BY <1>3, <1>4 DEF Backslash
  <1>6. Ascending(u, 6, 0, 0)
    BY <1>5, Zenon DEF Ascending, Value
  <1>7. PICK d \in Seq(Nat) : d = Append(cp, 0) /\ Len(d) = 2 /\ d[1] = cp[1] /\ d[2] = 0
    <2>1. 0 \in Nat /\ cp \in Seq(Nat) /\ Len(cp) = 1
      BY <1>2
    <2> QED
      BY <2>1, TwoOf
  <1>8. InHex(u, d, 0)
    BY <1>2, <1>6, <1>7, Zenon DEF InHex
  <1> QED
    BY <1>7, <1>8, Zenon

\* The digits after an escaped u.
LEMMA HexStep ==
  ASSUME NEW inner, NEW buffer, NEW cp, NEW exp, InText("hex", inner, buffer, cp, exp), NEW b \in Int,
         NEW c, c = Last(cp) * 16 + Hex(b)
  PROVE  /\ inner \in Seq(Int) /\ Len(exp) \in Nat /\ Len(exp) > 0 /\ Head(exp) = HexDigit
         /\ b \notin HexDigit => Dead(Append(inner, b))
         /\ b \in HexDigit /\ Len(exp) > 1 =>
              InText("hex", Append(inner, b), buffer, [cp EXCEPT ![Len(cp)] = c], Tail(exp))
         /\ b \in HexDigit /\ Len(exp) = 1 =>
              /\ Len(cp) \in {1, 2}
              /\ Len(cp) = 1 /\ High(c) => InText("low", Append(inner, b), buffer, <<c>>, LowStart)
              /\ Len(cp) = 1 /\ Low(c) => Dead(Append(inner, b))
              /\ Len(cp) = 2 /\ ~Low(c) => Dead(Append(inner, b))
              /\ Len(cp) = 2 /\ Low(c) =>
                   \A cp2, exp2 : InText("string", Append(inner, b), buffer \o Utf8(Combined(cp[1], c)), cp2, exp2)
              /\ Len(cp) = 1 /\ ~High(c) /\ ~Low(c) =>
                   \A cp2, exp2 : InText("string", Append(inner, b), buffer \o Utf8(c), cp2, exp2)
  <1> HIDE DEF HexDigit
  <1>1. PICK P \in Seq(Int), B \in Seq(Int), r \in Seq(Int) : Cut("hex", inner, buffer, cp, exp, P, B, r)
    BY Zenon DEF InText
  <1>2. "hex" # "tail" /\ "hex" # "string" /\ "hex" # "escape" /\ "hex" # "low" /\ "low" # "tail"
    OBVIOUS
  <1>3. PICK n \in 0..3 : Awaits(exp, FourDigits, n) /\ InHex(r, cp, n)
    BY <1>1, <1>2, Zenon DEF Cut, Partial
  <1>4. buffer = B /\ inner = P \o r
    BY <1>1, <1>2, Zenon DEF Cut, Buffered
  <1>5. inner \in Seq(Int)
    BY <1>4, Joins
  <1>6. Extends(Append(r, b), r, b)
    BY ExtendsAppend
  <1>7. Len(FourDigits) = 4 /\ \A k \in 1..4 : FourDigits[k] = HexDigit
    BY DEF FourDigits
  <1>8. /\ n \in Nat /\ n < Len(FourDigits) /\ Len(FourDigits) \in Nat /\ n + 1 \in 1..4 /\ 4 - n > 0 /\ 4 - n \in Nat
        /\ (4 - n > 1 => n \in 0..2) /\ (4 - n = 1 => n = 3)
    BY <1>7
  <1>9. Head(exp) = FourDigits[n + 1] /\ Len(exp) = Len(FourDigits) - n /\ Awaits(Tail(exp), FourDigits, n + 1)
    BY <1>3, <1>8, AwaitsNext
  <1>10. Head(exp) = HexDigit /\ Len(exp) = 4 - n /\ Len(exp) \in Nat /\ Len(exp) > 0
    BY <1>7, <1>8, <1>9, Zenon
  <1>11. c = cp[Len(cp)] * 16 + Hex(b)
    BY DEF Last
  <1>12. ASSUME b \notin HexDigit
         PROVE  Dead(Append(inner, b))
    <2>1. Hopeless(Append(r, b))
      BY <1>3, <1>6, <1>12, HexBad
    <2> QED
      BY <1>1, <2>1, TextDead
  <1>13. ASSUME b \in HexDigit, Len(exp) > 1
         PROVE  InText("hex", Append(inner, b), buffer, [cp EXCEPT ![Len(cp)] = c], Tail(exp))
    <2>1. n \in 0..2
      BY <1>8, <1>10, <1>13, Zenon
    <2>2. InHex(Append(r, b), [cp EXCEPT ![Len(cp)] = cp[Len(cp)] * 16 + Hex(b)], n + 1)
      BY <1>3, <1>6, <1>13, <2>1, HexMore
    <2>3. n + 1 \in 0..3
      BY <2>1
    <2>4. Partial("hex", Append(r, b), [cp EXCEPT ![Len(cp)] = c], Tail(exp))
      BY <1>9, <1>11, <2>2, <2>3, Zenon DEF Partial
    <2>5. Buffered("hex", buffer, B, Append(r, b))
      BY <1>2, <1>4, Zenon DEF Buffered
    <2> QED
      BY <1>1, <2>4, <2>5, TextGoes
  <1>14. ASSUME b \in HexDigit, Len(exp) = 1
         PROVE  /\ Len(cp) \in {1, 2}
                /\ Len(cp) = 1 /\ High(c) => InText("low", Append(inner, b), buffer, <<c>>, LowStart)
                /\ Len(cp) = 1 /\ Low(c) => Dead(Append(inner, b))
                /\ Len(cp) = 2 /\ ~Low(c) => Dead(Append(inner, b))
                /\ Len(cp) = 2 /\ Low(c) =>
                     \A cp2, exp2 : InText("string", Append(inner, b), buffer \o Utf8(Combined(cp[1], c)), cp2, exp2)
                /\ Len(cp) = 1 /\ ~High(c) /\ ~Low(c) =>
                     \A cp2, exp2 : InText("string", Append(inner, b), buffer \o Utf8(c), cp2, exp2)
    <2>1. n = 3
      BY <1>8, <1>10, <1>14, Zenon
    <2>2. InHex(r, cp, 3)
      BY <1>3, <2>1, Zenon
    <2>3. /\ Len(cp) \in {1, 2}
          /\ Len(cp) = 1 /\ High(c) => InLow(Append(r, b), <<c>>, 0)
          /\ Len(cp) = 1 /\ Low(c) => Hopeless(Append(r, b))
          /\ Len(cp) = 1 /\ ~High(c) /\ ~Low(c) => Reads(Append(r, b), Utf8(c))
          /\ Len(cp) = 2 /\ ~Low(c) => Hopeless(Append(r, b))
          /\ Len(cp) = 2 /\ Low(c) => Reads(Append(r, b), Utf8(Combined(cp[1], c)))
      BY <1>6, <1>11, <1>14, <2>2, HexLast
    <2>4. ASSUME Hopeless(Append(r, b))
          PROVE  Dead(Append(inner, b))
      BY <1>1, <2>4, TextDead
    <2>5. ASSUME NEW u, Reads(Append(r, b), u)
          PROVE  \A cp2, exp2 : InText("string", Append(inner, b), buffer \o u, cp2, exp2)
      <3> TAKE cp2, exp2
      <3>1. InText("string", Append(inner, b), B \o u, cp2, exp2)
        BY <1>1, <2>5, TextEnds
      <3> QED
        BY <1>4, <3>1, Zenon
    <2>6. ASSUME InLow(Append(r, b), <<c>>, 0)
          PROVE  InText("low", Append(inner, b), buffer, <<c>>, LowStart)
      <3>1. LowStart \in Seq({{Backslash}, {117}}) /\ 0 \in 0..1
        BY DEF LowStart
      <3>2. Awaits(LowStart, LowStart, 0)
        BY <3>1, AwaitsAll
      <3>3. Partial("low", Append(r, b), <<c>>, LowStart)
        BY <2>6, <3>1, <3>2, Zenon DEF Partial
      <3>4. Buffered("low", buffer, B, Append(r, b))
        BY <1>2, <1>4, Zenon DEF Buffered
      <3> QED
        BY <1>1, <3>3, <3>4, TextGoes
    <2> QED
      BY <2>3, <2>4, <2>5, <2>6, Zenon
  <1> QED
    BY <1>5, <1>10, <1>12, <1>13, <1>14, Zenon

\* What announces the second half of a pair.
LEMMA LowStep ==
  ASSUME NEW inner, NEW buffer, NEW cp, NEW exp, InText("low", inner, buffer, cp, exp), NEW b \in Int
  PROVE  /\ inner \in Seq(Int) /\ Len(exp) \in Nat /\ Len(exp) > 0
         /\ b \notin Head(exp) => Dead(Append(inner, b))
         /\ b \in Head(exp) /\ Len(exp) > 1 => InText("low", Append(inner, b), buffer, cp, Tail(exp))
         /\ b \in Head(exp) /\ Len(exp) = 1 =>
              InText("hex", Append(inner, b), buffer, Append(cp, 0), FourDigits)
  <1>1. PICK P \in Seq(Int), B \in Seq(Int), r \in Seq(Int) : Cut("low", inner, buffer, cp, exp, P, B, r)
    BY Zenon DEF InText
  <1>2. "low" # "tail" /\ "low" # "string" /\ "low" # "escape" /\ "low" # "hex" /\ "hex" # "tail"
    OBVIOUS
  <1>3. PICK n \in 0..1 : Awaits(exp, LowStart, n) /\ InLow(r, cp, n)
    BY <1>1, <1>2, Zenon DEF Cut, Partial
  <1>4. buffer = B /\ inner = P \o r
    BY <1>1, <1>2, Zenon DEF Cut, Buffered
  <1>5. inner \in Seq(Int)
    BY <1>4, Joins
  <1>6. Extends(Append(r, b), r, b)
    BY ExtendsAppend
  <1>7. Len(LowStart) = 2 /\ LowStart[1] = {92} /\ LowStart[2] = {117}
    BY DEF LowStart, Backslash
  <1>15. /\ n \in Nat /\ n < Len(LowStart) /\ Len(LowStart) \in Nat /\ 2 - n > 0 /\ 2 - n \in Nat
    BY <1>7
  <1>8. /\ (2 - n > 1 => n = 0) /\ (2 - n = 1 => n = 1)
        /\ (n = 0 => n + 1 = 1) /\ (n = 1 => n + 1 = 2) /\ (n = 0 \/ n = 1) /\ ~(n = 0 /\ n = 1)
    BY <1>7
  <1>9. Head(exp) = LowStart[n + 1] /\ Len(exp) = Len(LowStart) - n /\ Awaits(Tail(exp), LowStart, n + 1)
    BY <1>3, <1>15, AwaitsNext
  <1>10. /\ Len(exp) = 2 - n /\ Len(exp) \in Nat /\ Len(exp) > 0
         /\ n = 0 => Head(exp) = {92}
         /\ n = 1 => Head(exp) = {117}
    <2>1. Len(exp) = 2 - n /\ Len(exp) \in Nat /\ Len(exp) > 0
      BY <1>7, <1>15, <1>9, ZenonT(60)
    <2>2. n = 0 => Head(exp) = {92}
      BY <1>7, <1>8, <1>9, ZenonT(60)
    <2>3. n = 1 => Head(exp) = {117}
      BY <1>7, <1>8, <1>9, Zenon
    <2> QED
      BY <2>1, <2>2, <2>3
  <1>11. /\ n = 0 /\ b = 92 => InLow(Append(r, b), cp, 1)
         /\ n = 1 /\ b = 117 => InHex(Append(r, b), Append(cp, 0), 0)
    <2>1. ASSUME n = 0, b = 92
          PROVE  InLow(Append(r, b), cp, 1)
      <3>1. InLow(r, cp, 0) /\ Extends(Append(r, b), r, 92)
        BY <1>3, <1>6, <2>1, Zenon
      <3> QED
        BY <3>1, LowBackslash
    <2>2. ASSUME n = 1, b = 117
          PROVE  InHex(Append(r, b), Append(cp, 0), 0)
      <3>1. InLow(r, cp, 1) /\ Extends(Append(r, b), r, 117)
        BY <1>3, <1>6, <2>2, Zenon
      <3> QED
        BY <3>1, LowU
    <2> QED
      BY <2>1, <2>2
  <1>12. ASSUME b \notin Head(exp)
         PROVE  Dead(Append(inner, b))
    <2>1. (n = 0 => b # 92) /\ (n = 1 => b # 117)
      BY <1>10, <1>12
    <2>2. Hopeless(Append(r, b))
      BY <1>3, <1>6, <2>1, LowBad
    <2> QED
      BY <1>1, <2>2, TextDead
  <1>13. ASSUME b \in Head(exp), Len(exp) > 1
         PROVE  InText("low", Append(inner, b), buffer, cp, Tail(exp))
    <2>1. n = 0
      BY <1>8, <1>10, <1>13, Zenon
    <2>2. b = 92
      BY <1>10, <1>13, <2>1
    <2>3. n + 1 = 1 /\ 1 \in 0..1
      BY <2>1
    <2>4. Partial("low", Append(r, b), cp, Tail(exp))
      BY <1>9, <1>11, <2>1, <2>2, <2>3, Zenon DEF Partial
    <2>5. Buffered("low", buffer, B, Append(r, b))
      BY <1>2, <1>4, Zenon DEF Buffered
    <2> QED
      BY <1>1, <2>4, <2>5, TextGoes
  <1>14. ASSUME b \in Head(exp), Len(exp) = 1
         PROVE  InText("hex", Append(inner, b), buffer, Append(cp, 0), FourDigits)
    <2>1. n = 1
      BY <1>8, <1>10, <1>14, Zenon
    <2>2. b = 117
      BY <1>10, <1>14, <2>1
    <2>3. 0 \in 0..3
      OBVIOUS
    <2>4. Awaits(FourDigits, FourDigits, 0)
      <3>1. FourDigits \in Seq({HexDigit})
        <4> HIDE DEF HexDigit
        <4> QED
          BY DEF FourDigits
      <3> QED
        BY <3>1, AwaitsAll
    <2>5. Partial("hex", Append(r, b), Append(cp, 0), FourDigits)
      BY <1>11, <2>1, <2>2, <2>3, <2>4, Zenon DEF Partial
    <2>6. Buffered("hex", buffer, B, Append(r, b))
      BY <1>2, <1>4, Zenon DEF Buffered
    <2> QED
      BY <1>1, <2>5, <2>6, TextGoes
  <1> QED
    BY <1>5, <1>10, <1>12, <1>13, <1>14, Zenon

\* Nothing has been read yet.
LEMMA TextBegins ==
  ASSUME NEW cp, NEW exp
  PROVE  InText("string", <<>>, <<>>, cp, exp)
  <1>1. Reads(<<>>, <<>>) /\ <<>> \o <<>> = <<>> /\ <<>> \in Seq(Int) /\ "string" # "tail"
    <2>1. <<>> \in Seq(Int) /\ "string" # "tail"
      OBVIOUS
    <2> QED
      BY <2>1, ReadsNothing, JoinsEmpty
  <1>2. Cut("string", <<>>, <<>>, cp, exp, <<>>, <<>>, <<>>)
    BY <1>1, Zenon DEF Cut, Partial, Buffered
  <1> QED
    BY <1>1, <1>2, Zenon DEF InText
=============================================================================
