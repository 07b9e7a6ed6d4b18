------------------------ MODULE ProtocolCodecProofs ------------------------
(***************************************************************************)
(* Proofs about ProtocolCodec, for any size of a byte, of the fields and   *)
(* of a payload, and streams and pieces of any length.                     *)
(***************************************************************************)
EXTENDS ProtocolCodec, Induction, SequenceTheorems

-----------------------------------------------------------------------------
(* Numbers as bytes.                                                        *)

LEMMA Parameters ==
  /\ Base \in Nat /\ Base > 1 /\ HeaderSize \in Nat /\ HeaderSize > 0 /\ IdSize \in Nat /\ IdSize > 0
  /\ MAX_PAYLOAD_SIZE \in Nat /\ FIXED_BODY_SIZE \in Nat /\ MAX_BODY_SIZE \in Nat
  /\ FIXED_BODY_SIZE = 2 + IdSize /\ MAX_BODY_SIZE = MAX_PAYLOAD_SIZE + FIXED_BODY_SIZE
  /\ HeaderSize + MAX_BODY_SIZE <= Largest(HeaderSize)
  BY CodecAssumption DEF FIXED_BODY_SIZE, MAX_BODY_SIZE

\* What the beginnings of a number's bytes are worth.
Worth(f, bytes) == f = [i \in 0..Len(bytes) |-> IF i = 0 THEN 0 ELSE f[i - 1] * Base + bytes[i]]

LEMMA Product == \A a, b \in Nat : a * b \in Nat
  OBVIOUS

LEMMA ValueWorth ==
  ASSUME NEW bytes \in Seq(Nat)
  PROVE  \E f \in [0..Len(bytes) -> Nat] : Worth(f, bytes) /\ Value(bytes) = f[Len(bytes)]
  <1> DEFINE n == Len(bytes)
             step == [p \in (1..n) \X Nat |-> p[2] * Base + bytes[p[1]]]
  <1>1. n \in Nat /\ \A i \in 1..n : bytes[i] \in Nat
    OBVIOUS
  <1>2. step \in [(1..n) \X Nat -> Nat]
    BY <1>1, Parameters
  <1>3. \E f \in [0..n -> Nat] : f[0] = 0 /\ \A i \in 1..n : f[i] = step[<<i, f[i - 1]>>]
    <2> HIDE DEF step, n
    <2>1. step \in Steps(n, Nat)
      BY <1>2 DEF Steps
    <2>2. \E f : Recursive(f, n, Nat, 0, step)
      BY <1>1, <2>1, Recursion
    <2> QED
      BY <2>2 DEF Recursive
  <1>4. PICK f \in [0..n -> Nat] : f[0] = 0 /\ \A i \in 1..n : f[i] = step[<<i, f[i - 1]>>]
    BY <1>3
  <1>5. \A i \in 1..n : f[i] = f[i - 1] * Base + bytes[i]
    <2> TAKE i \in 1..n
    <2>1. i - 1 \in 0..n
      BY <1>1
    <2>2. f[i - 1] \in Nat
      BY <1>4, <2>1
    <2>3. <<i, f[i - 1]>> \in (1..n) \X Nat
      BY <2>2
    <2>4. step[<<i, f[i - 1]>>] = f[i - 1] * Base + bytes[i]
      BY <2>3
    <2> HIDE DEF step
    <2> QED
      BY <1>4, <2>4
  <1>6. Worth(f, bytes)
    BY <1>1, <1>4, <1>5 DEF Worth
  <1> DEFINE g == CHOOSE g : Worth(g, bytes)
  <1>7. Worth(g, bytes)
    BY <1>6
  <1>8. Value(bytes) = g[n]
    BY DEF Value, Worth
  <1> HIDE DEF g
  <1>9. g[0] = 0 /\ \A i \in 1..n : g[i] = g[i - 1] * Base + bytes[i]
    BY <1>1, <1>7 DEF Worth
  <1>10. 0..n \subseteq {i \in 0..n : g[i] \in Nat}
    <2> DEFINE C == {i \in 0..n : g[i] \in Nat}
    <2>1. 0 \in C
      BY <1>1, <1>9
    <2>2. \A k \in 0..n : k \in C /\ k < n => k + 1 \in C
      <3> SUFFICES ASSUME NEW k \in 0..n, g[k] \in Nat, k < n PROVE g[k + 1] \in Nat
        OBVIOUS
      <3>1. k + 1 \in 1..n /\ (k + 1) - 1 = k
        BY <1>1
      <3>2. g[k + 1] = g[k] * Base + bytes[k + 1] /\ bytes[k + 1] \in Nat
        BY <1>1, <1>9, <3>1
      <3>3. g[k] * Base \in Nat
        BY Product, Parameters
      <3> QED
        BY <3>2, <3>3
    <2> HIDE DEF C
    <2>3. 0..n \subseteq C
      BY <1>1, <2>1, <2>2, Upwards
    <2> QED
      BY <2>3 DEF C
  <1>11. g \in [0..n -> Nat]
    BY <1>7, <1>10 DEF Worth
  <1> QED
    BY <1>7, <1>8, <1>11

LEMMA ValueNat ==
  ASSUME NEW bytes \in Seq(Nat)
  PROVE  Value(bytes) \in Nat
  BY ValueWorth

LEMMA LargestNat == Largest(HeaderSize) \in Nat
  <1>1. [i \in 1..HeaderSize |-> Base - 1] \in Seq(Nat)
    BY Parameters
  <1> QED
    BY <1>1, ValueNat DEF Largest

LEMMA Fits ==
  ASSUME NEW n \in Nat, n <= HeaderSize + MAX_BODY_SIZE
  PROVE  Unsigned(n) = n
  <1>1. n < Largest(HeaderSize) + 1
    BY Parameters, LargestNat
  <1>2. \A m \in Nat : n < m => n % m = n
    OBVIOUS
  <1> QED
    BY <1>1, <1>2, LargestNat DEF Unsigned

LEMMA DivMod ==
  ASSUME NEW a \in Nat, NEW d \in Byte
  PROVE  (a * Base + d) \div Base = a /\ (a * Base + d) % Base = d
  <1>1. \A b \in Nat \ {0} : \A c \in Nat : \A e \in 0..(b - 1) : (c * b + e) \div b = c
    OBVIOUS
  <1>2. \A b \in Nat \ {0} : \A c \in Nat : \A e \in 0..(b - 1) : (c * b + e) % b = e
    OBVIOUS
  <1> QED
    BY <1>1, <1>2, Parameters DEF Byte

\* What is left of a number when its last bytes are taken off.
Rests(f, v, n) == f = [i \in 0..n |-> IF i = n THEN v ELSE f[i + 1] \div Base]

\* A number's bytes are those it was made of.
LEMMA BytesOfValue ==
  ASSUME NEW bytes \in Seq(Byte)
  PROVE  Bytes(Value(bytes), Len(bytes)) = bytes
  <1> DEFINE n == Len(bytes)
  <1>1. n \in Nat /\ bytes \in [1..n -> Byte] /\ bytes \in Seq(Nat)
    BY Parameters DEF Byte
  <1>2. PICK f \in [0..n -> Nat] : Worth(f, bytes) /\ Value(bytes) = f[n]
    BY <1>1, ValueWorth
  <1> HIDE DEF n
  <1>3. \A i \in 1..n : f[i] = f[i - 1] * Base + bytes[i]
    <2> TAKE i \in 1..n
    <2>1. i \in 0..Len(bytes) /\ i # 0
      BY <1>1 DEF n
    <2> QED
      BY <1>2, <2>1, Zenon DEF Worth
  <1>4. \A i \in 1..n : f[i - 1] = f[i] \div Base /\ f[i] % Base = bytes[i]
    <2> TAKE i \in 1..n
    <2>1. i - 1 \in 0..n
      BY <1>1
    <2>2. f[i - 1] \in Nat /\ bytes[i] \in Byte
      BY <1>1, <1>2, <2>1
    <2> QED
      BY <1>3, <2>2, DivMod
  <1> DEFINE g == CHOOSE g : Rests(g, Value(bytes), n)
  <1>5. Rests(f, Value(bytes), n)
    <2>1. \A i \in 0..n : i # n => f[i] = f[i + 1] \div Base
      <3> SUFFICES ASSUME NEW i \in 0..n, i # n PROVE f[i] = f[i + 1] \div Base
        OBVIOUS
      <3>1. i + 1 \in 1..n /\ (i + 1) - 1 = i
        BY <1>1
      <3> QED
        BY <1>4, <3>1
    <2> QED
      BY <1>2, <2>1 DEF Rests
  <1>6. Rests(g, Value(bytes), n)
    BY <1>5
  <1>7. Bytes(Value(bytes), n) = [i \in 1..n |-> g[i] % Base]
    BY DEF Bytes, Rests
  <1> HIDE DEF g
  <1>8. \A i \in 0..n : g[i] = f[i]
    <2> DEFINE C == {i \in 0..n : g[i] = f[i]}
    <2>1. \A k \in 0..n : (\A j \in 0..n : k < j => j \in C) => k \in C
      <3> SUFFICES ASSUME NEW k \in 0..n, \A j \in 0..n : k < j => g[j] = f[j]
                   PROVE  g[k] = f[k]
        OBVIOUS
      <3>1. CASE k = n
        BY <1>1, <1>2, <1>6, <3>1 DEF Rests
      <3>2. CASE k # n
        <4>1. k + 1 \in 0..n /\ k < k + 1
          BY <1>1, <3>2
        <4>2. g[k] = g[k + 1] \div Base
          BY <1>6, <3>2 DEF Rests
        <4>3. f[k] = f[k + 1] \div Base
          BY <1>5, <3>2 DEF Rests
        <4> QED
          BY <4>1, <4>2, <4>3
      <3> QED
        BY <3>1, <3>2
    <2> HIDE DEF C
    <2>2. 0..n \subseteq C
      BY <1>1, <2>1, Downwards
    <2> QED
      BY <2>2 DEF C
  <1>9. \A i \in 1..n : g[i] % Base = bytes[i]
    BY <1>1, <1>4, <1>8
  <1>10. [i \in 1..n |-> g[i] % Base] = bytes
    BY <1>1, <1>9
  <1> QED
    BY <1>7, <1>10 DEF n

-----------------------------------------------------------------------------
(* An iteration of decode().                                                *)

\* A message is complete at offset at, and where it ends.
Complete(buf, at) == ~HeaderMissing(buf, at) /\ ~InvalidLength(BodyLength(buf, at)) /\ ~BodyMissing(buf, at)
After(buf, at) == at + HeaderSize + BodyLength(buf, at)

LEMMA Slice ==
  ASSUME NEW S, NEW s \in Seq(S), NEW i \in Nat, NEW j \in Nat, i <= j, j <= Len(s)
  PROVE  /\ SubSeq(s, i + 1, j) \in Seq(S)
         /\ Len(SubSeq(s, i + 1, j)) = j - i
         /\ \A k \in 1..(j - i) : SubSeq(s, i + 1, j)[k] = s[i + k]
  <1>1. Len(s) \in Nat /\ \A k \in 1..Len(s) : s[k] \in S
    OBVIOUS
  <1>2. \A k \in (i + 1)..j : k \in 1..Len(s)
    BY <1>1
  <1>3. SubSeq(s, i + 1, j) = [k \in 1..(j - i) |-> s[i + k]]
    BY <1>1
  <1>4. \A k \in 1..(j - i) : s[i + k] \in S
    BY <1>1
  <1>5. j - i \in Nat
    OBVIOUS
  <1> QED
    BY <1>3, <1>4, <1>5

LEMMA ByteNat == Byte \subseteq Nat
  BY Parameters DEF Byte

LEMMA NatBytes ==
  ASSUME NEW s \in Seq(Byte)
  PROVE  s \in Seq(Nat)
  BY Parameters DEF Byte

\* When the length is valid, BodyMissing() is about numbers that do not wrap.
LEMMA Header ==
  ASSUME NEW buf \in Seq(Byte), NEW at \in 0..Len(buf), ~HeaderMissing(buf, at)
  PROVE  /\ at + HeaderSize <= Len(buf)
         /\ BodyLength(buf, at) \in Nat
         /\ ~InvalidLength(BodyLength(buf, at)) =>
              /\ BodyLength(buf, at) \in FIXED_BODY_SIZE..MAX_BODY_SIZE
              /\ BodyMissing(buf, at) <=> Len(buf) < After(buf, at)
  <1>1. Len(buf) \in Nat /\ at + HeaderSize <= Len(buf) /\ at + HeaderSize \in Nat
    BY Parameters DEF HeaderMissing
  <1>2. SubSeq(buf, at + 1, at + HeaderSize) \in Seq(Nat)
    <2>1. SubSeq(buf, at + 1, at + HeaderSize) \in Seq(Byte)
      BY <1>1, Slice, Parameters
    <2> QED
      BY <2>1, NatBytes
  <1>3. BodyLength(buf, at) \in Nat
    BY <1>2, ValueNat DEF BodyLength
  <1>4. ASSUME ~InvalidLength(BodyLength(buf, at))
        PROVE  /\ BodyLength(buf, at) \in FIXED_BODY_SIZE..MAX_BODY_SIZE
               /\ BodyMissing(buf, at) <=> Len(buf) < After(buf, at)
    <2>1. BodyLength(buf, at) \in FIXED_BODY_SIZE..MAX_BODY_SIZE
      BY <1>3, <1>4, Parameters DEF InvalidLength
    <2>2. Unsigned(HeaderSize + BodyLength(buf, at)) = HeaderSize + BodyLength(buf, at)
      BY <2>1, Fits, Parameters
    <2>3. BodyMissing(buf, at) <=> Len(buf) - at < HeaderSize + BodyLength(buf, at)
      BY <2>2 DEF BodyMissing, Incomplete
    <2> QED
      BY <1>1, <1>3, <2>1, <2>3, Parameters DEF After
  <1> QED
    BY <1>1, <1>3, <1>4

LEMMA Bounds ==
  ASSUME NEW buf \in Seq(Byte), NEW at \in 0..Len(buf), Complete(buf, at)
  PROVE  /\ BodyLength(buf, at) \in FIXED_BODY_SIZE..MAX_BODY_SIZE
         /\ After(buf, at) \in 0..Len(buf) /\ at < After(buf, at)
         /\ at + HeaderSize <= Len(buf)
  <1>1. /\ BodyLength(buf, at) \in FIXED_BODY_SIZE..MAX_BODY_SIZE
        /\ After(buf, at) <= Len(buf) \/ ~(Len(buf) \in Nat /\ After(buf, at) \in Nat)
        /\ at + HeaderSize <= Len(buf)
    BY Header DEF Complete
  <1>2. After(buf, at) \in Nat /\ at < After(buf, at)
    BY <1>1, Parameters DEF After
  <1> QED
    BY <1>1, <1>2

\* What an iteration does depends on later offsets only.
LEMMA Local ==
  ASSUME NEW buf \in Seq(Byte), NEW at \in 0..Len(buf), NEW g, NEW h,
         \A i \in 0..Len(buf) : at < i => g[i] = h[i]
  PROVE  Iteration(buf, g, at) = Iteration(buf, h, at)
  <1>1. CASE Complete(buf, at)
    <2>1. g[at + HeaderSize + BodyLength(buf, at)] = h[at + HeaderSize + BodyLength(buf, at)]
      BY <1>1, Bounds DEF After
    <2> QED
      BY <2>1 DEF Iteration
  <1>2. CASE ~Complete(buf, at)
    BY <1>2 DEF Iteration, Complete
  <1> QED
    BY <1>1, <1>2

LEMMA Unfold ==
  ASSUME NEW buf \in Seq(Byte)
  PROVE  From(buf) = [at \in 0..Len(buf) |-> Iteration(buf, From(buf), at)]
  <1> DEFINE n == Len(buf)
             Does(g, k) == \A at \in 0..n : k <= at => g[at] = Iteration(buf, g, at)
             C == {k \in 0..n : \E g : Does(g, k)}
  <1>0. n \in Nat
    OBVIOUS
  <1>1. \A k \in 0..n : (\A j \in 0..n : k < j => j \in C) => k \in C
    <2> SUFFICES ASSUME NEW k \in 0..n, \A j \in 0..n : k < j => j \in C
                 PROVE  k \in C
      OBVIOUS
    <2>1. \E g : \A at \in 0..n : k < at => g[at] = Iteration(buf, g, at)
      <3>1. CASE k = n
        BY <3>1
      <3>2. CASE k # n
        <4>1. k + 1 \in 0..n /\ k < k + 1
          BY <3>2
        <4>2. PICK g : Does(g, k + 1)
          BY <4>1
        <4> QED
          BY <4>2
      <3> QED
        BY <3>1, <3>2
    <2>2. PICK g : \A at \in 0..n : k < at => g[at] = Iteration(buf, g, at)
      BY <2>1
    <2>3. PICK h : h = [at \in 0..n |-> IF at = k THEN Iteration(buf, g, k) ELSE g[at]]
      OBVIOUS
    <2>4. \A at \in 0..n : k < at => h[at] = g[at]
      BY <2>3
    <2>5. h[k] = Iteration(buf, g, k)
      BY <2>3
    <2>6. \A at \in 0..n : k <= at => h[at] = Iteration(buf, h, at)
      <3> SUFFICES ASSUME NEW at \in 0..n, k <= at PROVE h[at] = Iteration(buf, h, at)
        OBVIOUS
      <3>1. \A i \in 0..Len(buf) : at < i => g[i] = h[i]
        BY <2>4
      <3>2. Iteration(buf, g, at) = Iteration(buf, h, at)
        BY <3>1, Local
      <3>3. h[at] = Iteration(buf, g, at)
        BY <2>2, <2>4, <2>5
      <3> QED
        BY <3>2, <3>3
    <2> QED
      BY <2>6
  <1>2. 0 \in C
    <2>1. 0..n \subseteq C
      <3> HIDE DEF C, n
      <3> QED
        BY <1>0, <1>1, Downwards
    <2> QED
      BY <1>0, <2>1
  <1>3. PICK g : Does(g, 0)
    BY <1>2
  <1>4. PICK f : f = [at \in 0..n |-> g[at]]
    OBVIOUS
  <1>5. f = [at \in 0..n |-> Iteration(buf, f, at)]
    <2> SUFFICES ASSUME NEW at \in 0..n PROVE g[at] = Iteration(buf, f, at)
      BY <1>4
    <2>1. \A i \in 0..Len(buf) : at < i => g[i] = f[i]
      BY <1>4
    <2>2. Iteration(buf, g, at) = Iteration(buf, f, at)
      BY <2>1, Local
    <2> QED
      BY <1>3, <2>2
  <1> QED
    BY <1>5 DEF From
-----------------------------------------------------------------------------
(* Pieces of a sequence.                                                    *)

LEMMA SliceOfSlice ==
  ASSUME NEW S, NEW s \in Seq(S), NEW i \in Nat, NEW j \in Nat, i <= j, j <= Len(s),
         NEW a \in Nat, NEW b \in Nat, a <= b, b <= j - i
  PROVE  SubSeq(SubSeq(s, i + 1, j), a + 1, b) = SubSeq(s, i + a + 1, i + b)
  <1>1. PICK t : t = SubSeq(s, i + 1, j)
    OBVIOUS
  <1>2. t \in Seq(S) /\ Len(t) = j - i /\ \A k \in 1..(j - i) : t[k] = s[i + k]
    BY <1>1, Slice
  <1>3. /\ SubSeq(t, a + 1, b) \in Seq(S)
        /\ Len(SubSeq(t, a + 1, b)) = b - a
        /\ \A k \in 1..(b - a) : SubSeq(t, a + 1, b)[k] = t[a + k]
    BY <1>2, Slice
  <1>4. Len(s) \in Nat /\ i + a \in Nat /\ i + b \in Nat /\ i + a <= i + b /\ i + b <= Len(s)
    OBVIOUS
  <1>5. /\ SubSeq(s, i + a + 1, i + b) \in Seq(S)
        /\ Len(SubSeq(s, i + a + 1, i + b)) = (i + b) - (i + a)
        /\ \A k \in 1..((i + b) - (i + a)) : SubSeq(s, i + a + 1, i + b)[k] = s[i + a + k]
    BY <1>4, Slice
  <1>6. \A k \in 1..(b - a) : SubSeq(t, a + 1, b)[k] = SubSeq(s, i + a + 1, i + b)[k]
    <2> TAKE k \in 1..(b - a)
    <2>1. a + k \in 1..(j - i) /\ (i + b) - (i + a) = b - a /\ i + (a + k) = i + a + k
      OBVIOUS
    <2>2. SubSeq(t, a + 1, b)[k] = s[i + (a + k)]
      BY <1>2, <1>3, <2>1
    <2>3. SubSeq(s, i + a + 1, i + b)[k] = s[i + a + k]
      BY <1>5, <2>1
    <2> QED
      BY <2>1, <2>2, <2>3
  <1>7. Len(SubSeq(t, a + 1, b)) = Len(SubSeq(s, i + a + 1, i + b))
    BY <1>3, <1>5
  <1>8. SubSeq(t, a + 1, b) = SubSeq(s, i + a + 1, i + b)
    BY <1>3, <1>5, <1>6, <1>7, SeqEqual
  <1> QED
    BY <1>1, <1>8

LEMMA JoinSlices ==
  ASSUME NEW S, NEW s \in Seq(S), NEW i \in Nat, NEW j \in Nat, NEW k \in Nat,
         i <= j, j <= k, k <= Len(s)
  PROVE  SubSeq(s, i + 1, j) \o SubSeq(s, j + 1, k) = SubSeq(s, i + 1, k)
  <1>1. Len(s) \in Nat
    OBVIOUS
  <1>2. i + 1 \in 1..(Len(s) + 1) /\ j \in ((i + 1) - 1)..Len(s) /\ k \in j..Len(s)
    BY <1>1
  <1> QED
    BY <1>2, ConcatAdjacentSubSeq

LEMMA JoinPrefix ==
  ASSUME NEW S, NEW s \in Seq(S), NEW j \in Nat, NEW k \in Nat, j <= k, k <= Len(s)
  PROVE  SubSeq(s, 1, j) \o SubSeq(s, j + 1, k) = SubSeq(s, 1, k)
  <1>1. Len(s) \in Nat
    OBVIOUS
  <1>2. 1 \in 1..(Len(s) + 1) /\ j \in (1 - 1)..Len(s) /\ k \in j..Len(s)
    BY <1>1
  <1> QED
    BY <1>2, ConcatAdjacentSubSeq

-----------------------------------------------------------------------------
(* A message.                                                               *)

Fields == [version : Byte, type : Byte, request_id : Nat,
           payload : {p \in Seq(Byte) : Len(p) <= MAX_PAYLOAD_SIZE}]
Request == {m \in Fields : Encode(m) \in Seq(Byte)}

LEMMA ParseParts ==
  ASSUME NEW buf \in Seq(Byte), NEW at \in 0..Len(buf), Complete(buf, at)
  PROVE  LET m == Parse(buf, at, BodyLength(buf, at))
             id == SubSeq(buf, at + HeaderSize + 2 + 1, at + HeaderSize + FIXED_BODY_SIZE)
         IN /\ m \in Fields
            /\ FIXED_BODY_SIZE + Len(m.payload) = BodyLength(buf, at)
            /\ <<m.version, m.type>> = SubSeq(buf, at + HeaderSize + 1, at + HeaderSize + 2)
            /\ id \in Seq(Byte) /\ Len(id) = IdSize
            /\ m.request_id = Value(id)
            /\ m.payload = SubSeq(buf, at + HeaderSize + FIXED_BODY_SIZE + 1, After(buf, at))
  <1>1. PICK L : L = BodyLength(buf, at)
    OBVIOUS
  <1>2. PICK H : H = at + HeaderSize
    OBVIOUS
  <1>3. /\ L \in Nat /\ H \in Nat /\ FIXED_BODY_SIZE <= L /\ L <= MAX_BODY_SIZE
        /\ H + L = After(buf, at) /\ H + L <= Len(buf) /\ Len(buf) \in Nat
    <2>1. L \in FIXED_BODY_SIZE..MAX_BODY_SIZE /\ After(buf, at) \in 0..Len(buf) /\ Len(buf) \in Nat
      BY <1>1, Bounds
    <2>2. After(buf, at) = H + L
      BY <1>1, <1>2 DEF After
    <2> QED
      BY <1>2, <2>1, <2>2, Parameters
  <1>4. PICK body : body = SubSeq(buf, H + 1, H + L)
    OBVIOUS
  <1>5. H <= H + L /\ H + L \in Nat /\ (H + L) - H = L
    BY <1>3
  <1>6. body \in Seq(Byte) /\ Len(body) = L /\ \A k \in 1..L : body[k] = buf[H + k]
    BY <1>3, <1>4, <1>5, Slice
  <1>7. PICK id : id = SubSeq(body, 3, FIXED_BODY_SIZE)
    OBVIOUS
  <1>8. PICK p : p = SubSeq(body, FIXED_BODY_SIZE + 1, L)
    OBVIOUS
  <1>9. id \in Seq(Byte) /\ Len(id) = IdSize
    <2>1. 2 + 1 = 3 /\ 2 <= FIXED_BODY_SIZE /\ FIXED_BODY_SIZE - 2 = IdSize
      BY Parameters
    <2> QED
      BY <1>3, <1>6, <1>7, <2>1, Slice, Parameters
  <1>10. p \in Seq(Byte) /\ Len(p) = L - FIXED_BODY_SIZE /\ Len(p) <= MAX_PAYLOAD_SIZE
    BY <1>3, <1>6, <1>8, Slice, Parameters
  <1>11. id = SubSeq(buf, H + 2 + 1, H + FIXED_BODY_SIZE)
    <2>1. 2 + 1 = 3 /\ 2 <= FIXED_BODY_SIZE /\ FIXED_BODY_SIZE <= (H + L) - H
      BY <1>3, Parameters
    <2>2. SubSeq(SubSeq(buf, H + 1, H + L), 2 + 1, FIXED_BODY_SIZE) = SubSeq(buf, H + 2 + 1, H + FIXED_BODY_SIZE)
      BY <1>3, <1>5, <2>1, SliceOfSlice, Parameters
    <2> QED
      BY <1>4, <1>7, <2>1, <2>2
  <1>12. p = SubSeq(buf, H + FIXED_BODY_SIZE + 1, H + L)
    <2>1. SubSeq(SubSeq(buf, H + 1, H + L), FIXED_BODY_SIZE + 1, L) = SubSeq(buf, H + FIXED_BODY_SIZE + 1, H + L)
      BY <1>3, <1>5, SliceOfSlice, Parameters
    <2> QED
      BY <1>4, <1>8, <2>1
  <1>13. body[1] = buf[H + 1] /\ body[2] = buf[H + 2] /\ body[1] \in Byte /\ body[2] \in Byte
    <2>1. 1 \in 1..L /\ 2 \in 1..L
      BY <1>3, Parameters
    <2> QED
      BY <1>6, <2>1
  <1>14. <<body[1], body[2]>> = SubSeq(buf, H + 1, H + 2)
    <2>1. H <= H + 2 /\ H + 2 \in Nat /\ H + 2 <= Len(buf) /\ (H + 2) - H = 2
      BY <1>3, Parameters
    <2>2. PICK t : t = SubSeq(buf, H + 1, H + 2)
      OBVIOUS
    <2>3. t \in Seq(Byte) /\ Len(t) = 2 /\ \A k \in 1..2 : t[k] = buf[H + k]
      BY <1>3, <2>1, <2>2, Slice
    <2>4. t[1] = buf[H + 1] /\ t[2] = buf[H + 2]
      BY <2>3
    <2>5. t = <<t[1], t[2]>>
      BY <2>3
    <2> QED
      BY <1>13, <2>2, <2>4, <2>5
  <1>15. PICK m : m = Parse(buf, at, L)
    OBVIOUS
  <1>16. m = [version |-> body[1], type |-> body[2], request_id |-> Value(id), payload |-> p]
    BY <1>2, <1>4, <1>7, <1>8, <1>15 DEF Parse
  <1>17. Value(id) \in Nat
    BY <1>9, NatBytes, ValueNat
  <1>18. m \in Fields /\ FIXED_BODY_SIZE + Len(m.payload) = L
    <2>1. p \in {q \in Seq(Byte) : Len(q) <= MAX_PAYLOAD_SIZE}
      BY <1>10
    <2>2. m \in Fields
      BY <1>13, <1>16, <1>17, <2>1 DEF Fields
    <2>3. m.payload = p
      BY <1>16
    <2> QED
      BY <1>3, <1>10, <2>2, <2>3, Parameters
  <1>19. /\ m.version = body[1] /\ m.type = body[2] /\ m.request_id = Value(id) /\ m.payload = p
    BY <1>16
  <1> HIDE DEF Fields
  <1> QED
    BY <1>1, <1>2, <1>3, <1>9, <1>11, <1>12, <1>14, <1>15, <1>18, <1>19

\* What decode() makes of a complete message, encode() makes it of again.
LEMMA EncodeParse ==
  ASSUME NEW buf \in Seq(Byte), NEW at \in 0..Len(buf), Complete(buf, at)
  PROVE  Encode(Parse(buf, at, BodyLength(buf, at))) = SubSeq(buf, at + 1, After(buf, at))
  <1>1. PICK H : H = at + HeaderSize
    OBVIOUS
  <1>2. PICK E : E = After(buf, at)
    OBVIOUS
  <1>3. /\ H \in Nat /\ E \in Nat /\ at \in Nat /\ at <= H /\ H <= H + 2 /\ H + 2 <= H + FIXED_BODY_SIZE
        /\ H + FIXED_BODY_SIZE <= E /\ E <= Len(buf) /\ Len(buf) \in Nat /\ H - at = HeaderSize
        /\ H + 2 \in Nat /\ H + FIXED_BODY_SIZE \in Nat /\ at <= H + 2
        /\ at <= H + FIXED_BODY_SIZE /\ H <= Len(buf) /\ H + 2 <= Len(buf) /\ H + FIXED_BODY_SIZE <= Len(buf)
    <2>1. /\ BodyLength(buf, at) \in FIXED_BODY_SIZE..MAX_BODY_SIZE
          /\ After(buf, at) \in 0..Len(buf) /\ Len(buf) \in Nat
      BY Bounds
    <2>2. E = H + BodyLength(buf, at)
      BY <1>1, <1>2 DEF After
    <2> QED
      BY <1>1, <1>2, <2>1, <2>2, Parameters
  <1>4. PICK m : m = Parse(buf, at, BodyLength(buf, at))
    OBVIOUS
  <1>5. PICK id : id = SubSeq(buf, H + 2 + 1, H + FIXED_BODY_SIZE)
    OBVIOUS
  <1>6. /\ FIXED_BODY_SIZE + Len(m.payload) = BodyLength(buf, at)
        /\ <<m.version, m.type>> = SubSeq(buf, H + 1, H + 2)
        /\ id \in Seq(Byte) /\ Len(id) = IdSize /\ m.request_id = Value(id)
        /\ m.payload = SubSeq(buf, H + FIXED_BODY_SIZE + 1, E)
    BY <1>1, <1>2, <1>4, <1>5, ParseParts
  <1>7. Bytes(m.request_id, IdSize) = id
    BY <1>6, BytesOfValue
  <1>8. Bytes(Unsigned(FIXED_BODY_SIZE + Len(m.payload)), HeaderSize) = SubSeq(buf, at + 1, H)
    <2>1. BodyLength(buf, at) \in Nat /\ BodyLength(buf, at) <= HeaderSize + MAX_BODY_SIZE
      BY Bounds, Parameters
    <2>2. Unsigned(FIXED_BODY_SIZE + Len(m.payload)) = BodyLength(buf, at)
      BY <1>6, <2>1, Fits
    <2>3. PICK t : t = SubSeq(buf, at + 1, H)
      OBVIOUS
    <2>4. t \in Seq(Byte) /\ Len(t) = HeaderSize
      BY <1>3, <2>3, Slice
    <2>5. BodyLength(buf, at) = Value(t)
      BY <1>1, <2>3 DEF BodyLength
    <2> QED
      BY <2>2, <2>3, <2>4, <2>5, BytesOfValue
  <1>9. Encode(m) = SubSeq(buf, at + 1, H) \o SubSeq(buf, H + 1, H + 2)
                    \o SubSeq(buf, H + 2 + 1, H + FIXED_BODY_SIZE)
                    \o SubSeq(buf, H + FIXED_BODY_SIZE + 1, E)
    BY <1>5, <1>6, <1>7, <1>8 DEF Encode
  <1>10. SubSeq(buf, at + 1, H) \o SubSeq(buf, H + 1, H + 2) = SubSeq(buf, at + 1, H + 2)
    BY <1>3, JoinSlices
  <1>11. SubSeq(buf, at + 1, H + 2) \o SubSeq(buf, H + 2 + 1, H + FIXED_BODY_SIZE)
         = SubSeq(buf, at + 1, H + FIXED_BODY_SIZE)
    BY <1>3, JoinSlices
  <1>12. SubSeq(buf, at + 1, H + FIXED_BODY_SIZE) \o SubSeq(buf, H + FIXED_BODY_SIZE + 1, E)
         = SubSeq(buf, at + 1, E)
    BY <1>3, JoinSlices
  <1> QED
    BY <1>2, <1>4, <1>9, <1>10, <1>11, <1>12

-----------------------------------------------------------------------------
(* Sequences put together.                                                  *)

\* f[i] is what the first i elements of ss make together.
Accumulates(f, ss, S) ==
  /\ f \in [0..Len(ss) -> Seq(S)]
  /\ f[0] = <<>>
  /\ \A i \in 1..Len(ss) : f[i] = f[i - 1] \o ss[i]

Concatenations(g, ss) == g = [i \in 1..Len(ss) |-> IF i = 1 THEN ss[i] ELSE g[i - 1] \o ss[i]]

LEMMA SomeAccumulation ==
  ASSUME NEW S, NEW ss \in Seq(Seq(S))
  PROVE  \E f : Accumulates(f, ss, S)
  <1> DEFINE n == Len(ss)
             T == Seq(S)
             step == [p \in (1..n) \X T |-> p[2] \o ss[p[1]]]
  <1>1. n \in Nat /\ <<>> \in T /\ \A i \in 1..n : ss[i] \in T
    BY EmptySeq, LenProperties, ElementOfSeq
  <1>2. \A a, b \in T : a \o b \in T
    BY ConcatProperties
  <1> HIDE DEF T, n
  <1>3. step \in [(1..n) \X T -> T]
    BY <1>1, <1>2
  <1>4. \A i \in 1..n : \A a \in T : step[<<i, a>>] = a \o ss[i]
    OBVIOUS
  <1> HIDE DEF step
  <1>5. \E f : Recursive(f, n, T, <<>>, step)
    BY <1>1, <1>3, Recursion DEF Steps
  <1>6. PICK f : Recursive(f, n, T, <<>>, step)
    BY <1>5
  <1>7. f \in [0..n -> T] /\ f[0] = <<>> /\ \A i \in 1..n : f[i] = step[<<i, f[i - 1]>>]
    BY <1>6 DEF Recursive
  <1>8. \A i \in 1..n : f[i] = f[i - 1] \o ss[i]
    <2> TAKE i \in 1..n
    <2>1. i - 1 \in 0..n
      BY <1>1
    <2>2. f[i - 1] \in T
      BY <1>7, <2>1
    <2> QED
      BY <1>4, <1>7, <2>2
  <1> QED
    BY <1>7, <1>8 DEF Accumulates, n, T

LEMMA Flattened ==
  ASSUME NEW S, NEW ss \in Seq(Seq(S)), NEW f, Accumulates(f, ss, S)
  PROVE  FlattenSeq(ss) = f[Len(ss)]
  <1> DEFINE n == Len(ss)
  <1>1. n \in Nat /\ \A i \in 1..n : ss[i] \in Seq(S)
    OBVIOUS
  <1>2. CASE n = 0
    <2>1. FlattenSeq(ss) = ss /\ ss = <<>>
      BY <1>2 DEF FlattenSeq
    <2> QED
      BY <1>2, <2>1 DEF Accumulates
  <1>3. CASE n # 0
    <2>1. f[1] = ss[1]
      <3>1. 1 \in 1..n /\ 1 - 1 = 0
        BY <1>1, <1>3
      <3>2. f[1] = <<>> \o ss[1]
        BY <3>1 DEF Accumulates
      <3> QED
        BY <1>1, <3>1, <3>2, ConcatEmptySeq
    <2>2. PICK h : h = [i \in 1..n |-> f[i]]
      OBVIOUS
    <2>3. Concatenations(h, ss)
      <3>1. \A i \in 1..n : h[i] = IF i = 1 THEN ss[i] ELSE h[i - 1] \o ss[i]
        <4> TAKE i \in 1..n
        <4>1. CASE i = 1
          BY <2>1, <2>2, <4>1
        <4>2. CASE i # 1
          <5>1. i - 1 \in 1..n
            BY <1>1, <4>2
          <5> QED
            BY <2>2, <4>2, <5>1 DEF Accumulates
        <4> QED
          BY <4>1, <4>2
      <3> QED
        BY <2>2, <3>1 DEF Concatenations
    <2> DEFINE g == CHOOSE g : Concatenations(g, ss)
    <2>4. Concatenations(g, ss)
      BY <2>3
    <2>5. FlattenSeq(ss) = g[n]
      BY <1>3 DEF FlattenSeq, Concatenations
    <2> HIDE DEF g, n
    <2>6. \A i \in 1..n : g[i] = IF i = 1 THEN ss[i] ELSE g[i - 1] \o ss[i]
      BY <2>4 DEF Concatenations, n
    <2> DEFINE C == {i \in 0..n : i # 0 => g[i] = f[i]}
    <2>7. 0 \in C
      BY <1>1
    <2>8. \A k \in 0..n : k \in C /\ k < n => k + 1 \in C
      <3> SUFFICES ASSUME NEW k \in 0..n, k # 0 => g[k] = f[k], k < n
                   PROVE  g[k + 1] = f[k + 1] /\ k + 1 \in 0..n
        OBVIOUS
      <3>1. k + 1 \in 1..n /\ (k + 1) - 1 = k /\ k + 1 \in 0..n
        BY <1>1
      <3>2. CASE k = 0
        BY <2>1, <2>6, <3>1, <3>2
      <3>3. CASE k # 0
        <4>1. f[k + 1] = f[k] \o ss[k + 1]
          BY <3>1 DEF Accumulates, n
        <4>2. k + 1 # 1
          BY <3>3
        <4>3. g[k + 1] = g[k] \o ss[k + 1]
          BY <2>6, <3>1, <4>2
        <4> QED
          BY <3>1, <3>3, <4>1, <4>3
      <3> QED
        BY <3>2, <3>3
    <2> HIDE DEF C
    <2>9. n \in C
      <3>1. 0..n \subseteq C
        BY <1>1, <2>7, <2>8, Upwards
      <3> QED
        BY <1>1, <3>1
    <2> QED
      BY <1>3, <2>5, <2>9 DEF C, n
  <1> QED
    BY <1>2, <1>3

LEMMA FlattenType ==
  ASSUME NEW S, NEW ss \in Seq(Seq(S))
  PROVE  FlattenSeq(ss) \in Seq(S)
  <1>1. PICK f : Accumulates(f, ss, S)
    BY SomeAccumulation
  <1>2. FlattenSeq(ss) = f[Len(ss)]
    BY <1>1, Flattened
  <1>3. Len(ss) \in 0..Len(ss)
    OBVIOUS
  <1>4. f[Len(ss)] \in Seq(S)
    BY <1>1, <1>3, Zenon DEF Accumulates
  <1> QED
    BY <1>2, <1>4

LEMMA FlattenConcat ==
  ASSUME NEW S, NEW a \in Seq(Seq(S)), NEW b \in Seq(Seq(S))
  PROVE  FlattenSeq(a \o b) = FlattenSeq(a) \o FlattenSeq(b)
  <1> DEFINE T == Seq(S)
             m == Len(a)
             n == Len(b)
  <1>1. m \in Nat /\ n \in Nat
    OBVIOUS
  <1>2. /\ a \o b \in Seq(T) /\ Len(a \o b) = m + n
        /\ \A i \in 1..m : (a \o b)[i] = a[i]
        /\ \A i \in 1..n : (a \o b)[m + i] = b[i]
    BY ConcatProperties
  <1>3. \A i \in 1..n : b[i] \in T
    OBVIOUS
  <1>4. PICK f : Accumulates(f, a, S)
    BY SomeAccumulation
  <1>5. PICK g : Accumulates(g, b, S)
    BY SomeAccumulation
  <1>6. PICK h : Accumulates(h, a \o b, S)
    BY <1>2, SomeAccumulation
  <1>7. FlattenSeq(a) = f[m] /\ FlattenSeq(b) = g[n] /\ FlattenSeq(a \o b) = h[m + n]
    BY <1>2, <1>4, <1>5, <1>6, Flattened
  <1>8. /\ f \in [0..m -> T] /\ f[0] = <<>> /\ \A i \in 1..m : f[i] = f[i - 1] \o a[i]
        /\ g \in [0..n -> T] /\ g[0] = <<>> /\ \A i \in 1..n : g[i] = g[i - 1] \o b[i]
        /\ h[0] = <<>> /\ \A i \in 1..(m + n) : h[i] = h[i - 1] \o (a \o b)[i]
    BY <1>2, <1>4, <1>5, <1>6 DEF Accumulates
  <1>9. /\ \A t \in T : t \o <<>> = t
        /\ \A r, s, t \in T : (r \o s) \o t = r \o (s \o t)
    BY ConcatEmptySeq, ConcatAssociative
  <1>10. PICK ab : ab = a \o b
    OBVIOUS
  <1> HIDE DEF T, m, n
  <1>11. h[m] = f[m]
    <2> DEFINE C == {i \in 0..m : h[i] = f[i]}
    <2>1. 0 \in C
      BY <1>1, <1>8
    <2>2. \A k \in 0..m : k \in C /\ k < m => k + 1 \in C
      <3> SUFFICES ASSUME NEW k \in 0..m, h[k] = f[k], k < m
                   PROVE  h[k + 1] = f[k + 1] /\ k + 1 \in 0..m
        OBVIOUS
      <3>1. k + 1 \in 1..m /\ (k + 1) - 1 = k /\ k + 1 \in 0..m /\ k + 1 \in 1..(m + n)
        BY <1>1
      <3>2. h[k + 1] = h[k] \o ab[k + 1] /\ f[k + 1] = f[k] \o a[k + 1] /\ ab[k + 1] = a[k + 1]
        BY <1>2, <1>8, <1>10, <3>1
      <3> QED
        BY <3>1, <3>2
    <2> HIDE DEF C
    <2>3. m \in C
      <3>1. 0..m \subseteq C
        BY <1>1, <2>1, <2>2, Upwards
      <3> QED
        BY <1>1, <3>1
    <2> QED
      BY <2>3 DEF C
  <1>12. h[m + n] = f[m] \o g[n]
    <2> DEFINE C == {i \in 0..n : h[m + i] = f[m] \o g[i]}
    <2>0. f[m] \in T
      BY <1>1, <1>8
    <2>1. 0 \in C
      <3>1. m + 0 = m
        BY <1>1
      <3>2. f[m] \o <<>> = f[m]
        BY <1>9, <2>0
      <3>3. h[m + 0] = f[m] \o g[0]
        BY <1>8, <1>11, <3>1, <3>2
      <3>4. 0 \in 0..n
        BY <1>1
      <3> QED
        BY <3>3, <3>4, Zenon
    <2>2. \A k \in 0..n : k \in C /\ k < n => k + 1 \in C
      <3> SUFFICES ASSUME NEW k \in 0..n, h[m + k] = f[m] \o g[k], k < n
                   PROVE  h[m + (k + 1)] = f[m] \o g[k + 1] /\ k + 1 \in 0..n
        OBVIOUS
      <3>1. /\ k + 1 \in 1..n /\ (k + 1) - 1 = k /\ k + 1 \in 0..n
            /\ m + (k + 1) \in 1..(m + n) /\ (m + (k + 1)) - 1 = m + k
        BY <1>1
      <3>2. h[m + (k + 1)] = h[m + k] \o b[k + 1]
        BY <1>2, <1>8, <3>1
      <3>3. g[k + 1] = g[k] \o b[k + 1] /\ g[k] \in T /\ b[k + 1] \in T
        BY <1>3, <1>8, <3>1
      <3>4. (f[m] \o g[k]) \o b[k + 1] = f[m] \o (g[k] \o b[k + 1])
        BY <1>9, <2>0, <3>3, Zenon
      <3>5. h[m + (k + 1)] = f[m] \o g[k + 1]
        BY <3>2, <3>3, <3>4
      <3> QED
        BY <3>1, <3>5
    <2> HIDE DEF C
    <2>3. n \in C
      <3>1. 0..n \subseteq C
        BY <1>1, <2>1, <2>2, Upwards
      <3> QED
        BY <1>1, <3>1
    <2> QED
      BY <2>3 DEF C
  <1> QED
    BY <1>7, <1>12

LEMMA FlattenOne ==
  ASSUME NEW S, NEW s \in Seq(S)
  PROVE  FlattenSeq(<<s>>) = s
  <1>1. <<s>> \in Seq(Seq(S)) /\ Len(<<s>>) = 1
    OBVIOUS
  <1>2. PICK f : Accumulates(f, <<s>>, S)
    BY <1>1, SomeAccumulation
  <1>3. f[1] = f[0] \o s /\ f[0] = <<>>
    <2>1. 1 \in 1..Len(<<s>>) /\ 1 - 1 = 0 /\ <<s>>[1] = s
      OBVIOUS
    <2> QED
      BY <1>2, <2>1 DEF Accumulates
  <1> QED
    BY <1>1, <1>2, <1>3, Flattened, ConcatEmptySeq

LEMMA ParseRequest ==
  ASSUME NEW buf \in Seq(Byte), NEW at \in 0..Len(buf), Complete(buf, at)
  PROVE  Parse(buf, at, BodyLength(buf, at)) \in Request
  <1>1. Parse(buf, at, BodyLength(buf, at)) \in Fields
    BY ParseParts
  <1>2. at \in Nat /\ After(buf, at) \in Nat /\ at <= After(buf, at) /\ After(buf, at) <= Len(buf)
    BY Bounds
  <1>3. SubSeq(buf, at + 1, After(buf, at)) \in Seq(Byte)
    BY <1>2, Slice
  <1> QED
    BY <1>1, <1>3, EncodeParse DEF Request

-----------------------------------------------------------------------------
(* What the loop of decode() does from an offset on.                        *)

Invalid(buf, at) == ~HeaderMissing(buf, at) /\ InvalidLength(BodyLength(buf, at))
Verdict(buf, at) == IF Invalid(buf, at) THEN "INVALID_LENGTH" ELSE "NEED_MORE_DATA"

Encodings(rs) == [i \in DOMAIN rs |-> Encode(rs[i])]

Results == [status : {"NEED_MORE_DATA", "INVALID_LENGTH"}, out : Seq(Request), read_index : Nat]

LEMMA Stops ==
  ASSUME NEW buf \in Seq(Byte), NEW at \in 0..Len(buf), ~Complete(buf, at)
  PROVE  From(buf)[at] = Stop(at, Verdict(buf, at))
  <1>1. From(buf)[at] = Iteration(buf, From(buf), at)
    BY Unfold
  <1>2. PICK f : f = From(buf)
    OBVIOUS
  <1>3. Iteration(buf, f, at) = Stop(at, Verdict(buf, at))
    BY DEF Iteration, Complete, Verdict, Invalid
  <1> QED
    BY <1>1, <1>2, <1>3

LEMMA Continues ==
  ASSUME NEW buf \in Seq(Byte), NEW at \in 0..Len(buf), Complete(buf, at)
  PROVE  From(buf)[at] = [From(buf)[After(buf, at)] EXCEPT
                            !.out = <<Parse(buf, at, BodyLength(buf, at))>> \o @]
  <1>1. From(buf)[at] = Iteration(buf, From(buf), at)
    BY Unfold
  <1>2. PICK f : f = From(buf)
    OBVIOUS
  <1>3. Iteration(buf, f, at) = [f[After(buf, at)] EXCEPT
                                   !.out = <<Parse(buf, at, BodyLength(buf, at))>> \o @]
    BY DEF Iteration, Complete, After
  <1> QED
    BY <1>1, <1>2, <1>3

LEMMA Encoded ==
  ASSUME NEW out \in Seq(Request)
  PROVE  Encodings(out) \in Seq(Seq(Byte)) /\ Len(Encodings(out)) = Len(out)
  <1>1. Len(out) \in Nat /\ DOMAIN out = 1..Len(out)
    OBVIOUS
  <1>2. \A i \in 1..Len(out) : Encode(out[i]) \in Seq(Byte)
    BY ElementOfSeq DEF Request
  <1>3. PICK e : e = Encodings(out)
    OBVIOUS
  <1>4. e = [i \in 1..Len(out) |-> Encode(out[i])]
    BY <1>1, <1>3 DEF Encodings
  <1>5. e \in Seq(Seq(Byte)) /\ Len(e) = Len(out)
    BY <1>1, <1>2, <1>4
  <1> QED
    BY <1>3, <1>5

LEMMA EncodedConcat ==
  ASSUME NEW a \in Seq(Request), NEW b \in Seq(Request)
  PROVE  Encodings(a \o b) = Encodings(a) \o Encodings(b)
  <1>1. PICK c : c = a \o b
    OBVIOUS
  <1>2. c \in Seq(Request)
    BY <1>1, ConcatProperties
  <1>3. /\ Len(a) \in Nat /\ Len(b) \in Nat /\ Len(c) = Len(a) + Len(b)
        /\ \A i \in 1..Len(a) + Len(b) : c[i] = IF i <= Len(a) THEN a[i] ELSE b[i - Len(a)]
    BY <1>1, ConcatProperties, LenProperties
  <1>4. PICK ea : ea = Encodings(a)
    OBVIOUS
  <1>5. PICK eb : eb = Encodings(b)
    OBVIOUS
  <1>6. PICK ec : ec = Encodings(c)
    OBVIOUS
  <1>7. /\ ea \in Seq(Seq(Byte)) /\ Len(ea) = Len(a)
        /\ eb \in Seq(Seq(Byte)) /\ Len(eb) = Len(b)
        /\ ec \in Seq(Seq(Byte)) /\ Len(ec) = Len(a) + Len(b)
    BY <1>2, <1>3, <1>4, <1>5, <1>6, Encoded
  <1>8. /\ \A i \in 1..Len(a) : ea[i] = Encode(a[i])
        /\ \A i \in 1..Len(b) : eb[i] = Encode(b[i])
        /\ \A i \in 1..Len(a) + Len(b) : ec[i] = Encode(c[i])
    BY <1>2, <1>3, <1>4, <1>5, <1>6, LenProperties DEF Encodings
  <1>9. /\ ea \o eb \in Seq(Seq(Byte))
        /\ Len(ea \o eb) = Len(a) + Len(b)
        /\ \A i \in 1..Len(a) + Len(b) : (ea \o eb)[i] = IF i <= Len(a) THEN ea[i] ELSE eb[i - Len(a)]
    <2>1. /\ ea \o eb \in Seq(Seq(Byte))
          /\ Len(ea \o eb) = Len(ea) + Len(eb)
          /\ \A i \in 1..Len(ea) + Len(eb) :
               (ea \o eb)[i] = IF i <= Len(ea) THEN ea[i] ELSE eb[i - Len(ea)]
      <3>1. ea \in Seq(Seq(Byte)) /\ eb \in Seq(Seq(Byte))
        BY <1>7
      <3> QED
        BY <3>1, ConcatProperties
    <2> QED
      BY <1>7, <2>1
  <1>10. \A i \in 1..Len(a) + Len(b) : ec[i] = (ea \o eb)[i]
    <2> TAKE i \in 1..Len(a) + Len(b)
    <2>1. CASE i <= Len(a)
      <3>1. i \in 1..Len(a)
        BY <1>3, <2>1
      <3> QED
        BY <1>3, <1>8, <1>9, <2>1, <3>1
    <2>2. CASE ~(i <= Len(a))
      <3>1. i - Len(a) \in 1..Len(b)
        BY <1>3, <2>2
      <3> QED
        BY <1>3, <1>8, <1>9, <2>2, <3>1
    <2> QED
      BY <2>1, <2>2
  <1>11. ec = ea \o eb
    BY <1>7, <1>9, <1>10, SeqEqual
  <1> QED
    BY <1>1, <1>4, <1>5, <1>6, <1>11

LEMMA EncodedOne ==
  ASSUME NEW m \in Request
  PROVE  <<m>> \in Seq(Request) /\ FlattenSeq(Encodings(<<m>>)) = Encode(m)
  <1>1. <<m>> \in Seq(Request) /\ DOMAIN <<m>> = 1..1 /\ <<m>>[1] = m
    OBVIOUS
  <1>2. Encode(m) \in Seq(Byte)
    BY DEF Request
  <1>3. PICK e : e = Encode(m)
    OBVIOUS
  <1>4. Encodings(<<m>>) = <<e>>
    BY <1>1, <1>3 DEF Encodings
  <1> QED
    BY <1>1, <1>2, <1>3, <1>4, FlattenOne

\* What decode() has put out is what it has passed over.
Result(buf, at, r) ==
  /\ r \in Results
  /\ r.read_index \in at..Len(buf)
  /\ ~Complete(buf, r.read_index)
  /\ r.status = Verdict(buf, r.read_index)
  /\ FlattenSeq(Encodings(r.out)) = SubSeq(buf, at + 1, r.read_index)

LEMMA Nothing ==
  /\ <<>> \in Seq(Request)
  /\ FlattenSeq(Encodings(<<>>)) = <<>>
  <1>1. <<>> \in Seq(Request) /\ Len(<<>>) = 0
    OBVIOUS
  <1>2. Encodings(<<>>) \in Seq(Seq(Byte)) /\ Len(Encodings(<<>>)) = 0
    BY <1>1, Encoded
  <1>3. Encodings(<<>>) = <<>>
    BY <1>2, EmptySeq
  <1> QED
    BY <1>1, <1>3 DEF FlattenSeq

LEMMA Decodes ==
  ASSUME NEW buf \in Seq(Byte)
  PROVE  \A at \in 0..Len(buf) : Result(buf, at, From(buf)[at])
  <1> DEFINE n == Len(buf)
             C == {at \in 0..n : Result(buf, at, From(buf)[at])}
  <1>1. n \in Nat
    OBVIOUS
  <1>2. ASSUME NEW at \in 0..n, \A j \in 0..n : at < j => j \in C
        PROVE  Result(buf, at, From(buf)[at])
    <2>1. CASE ~Complete(buf, at)
      <3>1. PICK r : r = From(buf)[at]
        OBVIOUS
      <3>2. r = [status |-> Verdict(buf, at), out |-> <<>>, read_index |-> at]
        BY <2>1, <3>1, Stops DEF Stop
      <3>3. Verdict(buf, at) \in {"NEED_MORE_DATA", "INVALID_LENGTH"}
        BY DEF Verdict
      <3>4. r.status = Verdict(buf, at) /\ r.out = <<>> /\ r.read_index = at
        BY <3>2
      <3>5. r \in Results
        BY <1>1, <3>2, <3>3, Nothing DEF Results
      <3>6. SubSeq(buf, at + 1, at) = <<>>
        BY <1>1, SubSeqEmpty
      <3>7. r.read_index \in at..Len(buf)
        BY <1>1, <3>4
      <3> QED
        BY <2>1, <3>1, <3>4, <3>5, <3>6, <3>7, Nothing DEF Result
    <2>2. CASE Complete(buf, at)
      <3>1. PICK e : e = After(buf, at)
        OBVIOUS
      <3>2. e \in 0..n /\ at < e /\ at \in Nat /\ e \in Nat /\ at <= e /\ e <= n
        BY <1>1, <2>2, <3>1, Bounds
      <3>3. PICK m : m = Parse(buf, at, BodyLength(buf, at))
        OBVIOUS
      <3>4. m \in Request /\ Encode(m) = SubSeq(buf, at + 1, e)
        BY <2>2, <3>1, <3>3, ParseRequest, EncodeParse
      <3>5. PICK s : s = From(buf)[e]
        OBVIOUS
      <3>6. Result(buf, e, s)
        BY <1>2, <3>2, <3>5
      <3>7. PICK r : r = From(buf)[at]
        OBVIOUS
      <3>8. r = [s EXCEPT !.out = <<m>> \o @]
        BY <2>2, <3>1, <3>3, <3>5, <3>7, Continues
      <3>9. s \in Results
        BY <3>6 DEF Result
      <3>10. <<m>> \in Seq(Request) /\ FlattenSeq(Encodings(<<m>>)) = Encode(m)
        BY <3>4, EncodedOne
      <3>11. s.out \in Seq(Request) /\ s.read_index \in Nat
        BY <3>9 DEF Results
      <3>12. <<m>> \o s.out \in Seq(Request)
        BY <3>10, <3>11, ConcatProperties
      <3>13. r \in Results
        BY <3>8, <3>9, <3>12 DEF Results
      <3>14. r.status = s.status /\ r.read_index = s.read_index /\ r.out = <<m>> \o s.out
        BY <3>8, <3>9 DEF Results
      <3>15. FlattenSeq(Encodings(r.out)) = SubSeq(buf, at + 1, r.read_index)
        <4>1. PICK a : a = Encodings(<<m>>)
          OBVIOUS
        <4>2. PICK b : b = Encodings(s.out)
          OBVIOUS
        <4>3. a \in Seq(Seq(Byte)) /\ b \in Seq(Seq(Byte))
          BY <3>10, <3>11, <4>1, <4>2, Encoded
        <4>4. Encodings(r.out) = a \o b
          BY <3>10, <3>11, <3>14, <4>1, <4>2, EncodedConcat
        <4>5. FlattenSeq(a \o b) = FlattenSeq(a) \o FlattenSeq(b)
          BY <4>3, FlattenConcat
        <4>6. FlattenSeq(a) = SubSeq(buf, at + 1, e)
          BY <3>4, <3>10, <4>1
        <4>7. FlattenSeq(b) = SubSeq(buf, e + 1, s.read_index) /\ s.read_index \in e..Len(buf)
          BY <3>6, <4>2 DEF Result
        <4>8. SubSeq(buf, at + 1, e) \o SubSeq(buf, e + 1, s.read_index) = SubSeq(buf, at + 1, s.read_index)
          <5>1. e <= s.read_index /\ s.read_index <= Len(buf)
            BY <1>1, <3>2, <3>11, <4>7
          <5> QED
            BY <3>2, <3>11, <5>1, JoinSlices
        <4> QED
          BY <3>14, <4>4, <4>5, <4>6, <4>7, <4>8
      <3>16. r.read_index \in at..Len(buf)
        BY <1>1, <3>2, <3>6, <3>14 DEF Result
      <3> QED
        BY <3>6, <3>7, <3>13, <3>14, <3>15, <3>16 DEF Result
    <2> QED
      BY <2>1, <2>2
  <1>3. 0..n \subseteq C
    <2>1. \A at \in 0..n : (\A j \in 0..n : at < j => j \in C) => at \in C
      BY <1>2
    <2> HIDE DEF C, n
    <2> QED
      BY <1>1, <2>1, Downwards
  <1> QED
    BY <1>3

-----------------------------------------------------------------------------
(* A buffer that is a part of a longer one.                                 *)

Within(buf, s, p) ==
  /\ buf \in Seq(Byte) /\ s \in Seq(Byte) /\ p \in Nat
  /\ p + Len(buf) <= Len(s)
  /\ \A j \in 1..Len(buf) : s[p + j] = buf[j]

LEMMA SameSlice ==
  ASSUME NEW buf, NEW s, NEW p \in Nat, NEW i \in Nat, NEW j \in Nat,
         Within(buf, s, p), i <= j, j <= Len(buf)
  PROVE  SubSeq(s, p + i + 1, p + j) = SubSeq(buf, i + 1, j)
  <1>1. /\ buf \in Seq(Byte) /\ s \in Seq(Byte) /\ p \in Nat /\ Len(buf) \in Nat /\ Len(s) \in Nat
        /\ p + Len(buf) <= Len(s) /\ \A k \in 1..Len(buf) : s[p + k] = buf[k]
    BY LenProperties DEF Within
  <1>2. p + i \in Nat /\ p + j \in Nat /\ p + i <= p + j /\ p + j <= Len(s) /\ (p + j) - (p + i) = j - i
    BY <1>1
  <1>3. PICK t : t = SubSeq(s, p + i + 1, p + j)
    OBVIOUS
  <1>4. PICK u : u = SubSeq(buf, i + 1, j)
    OBVIOUS
  <1>5. t \in Seq(Byte) /\ Len(t) = j - i /\ \A k \in 1..(j - i) : t[k] = s[p + i + k]
    BY <1>1, <1>2, <1>3, Slice
  <1>6. u \in Seq(Byte) /\ Len(u) = j - i /\ \A k \in 1..(j - i) : u[k] = buf[i + k]
    BY <1>1, <1>4, Slice
  <1>7. \A k \in 1..(j - i) : t[k] = u[k]
    <2> TAKE k \in 1..(j - i)
    <2>1. i + k \in 1..Len(buf) /\ p + (i + k) = p + i + k
      BY <1>1
    <2> QED
      BY <1>1, <1>5, <1>6, <2>1
  <1>8. t = u
    BY <1>5, <1>6, <1>7, SeqEqual
  <1> QED
    BY <1>3, <1>4, <1>8

LEMMA SamePrefix ==
  ASSUME NEW buf, NEW s, NEW p \in Nat, NEW j \in Nat, Within(buf, s, p), j <= Len(buf)
  PROVE  SubSeq(s, p + 1, p + j) = SubSeq(buf, 1, j)
  <1>1. PICK i \in Nat : i = 0
    OBVIOUS
  <1>2. i <= j
    BY <1>1
  <1>3. SubSeq(s, p + i + 1, p + j) = SubSeq(buf, i + 1, j)
    BY <1>2, SameSlice
  <1>4. p + i + 1 = p + 1 /\ i + 1 = 1
    BY <1>1
  <1> QED
    BY <1>3, <1>4

LEMMA SameHeader ==
  ASSUME NEW buf, NEW s, NEW p \in Nat, NEW i \in 0..Len(buf),
         Within(buf, s, p), ~HeaderMissing(buf, i)
  PROVE  /\ p + i \in 0..Len(s) /\ ~HeaderMissing(s, p + i)
         /\ BodyLength(s, p + i) = BodyLength(buf, i)
  <1>1. /\ buf \in Seq(Byte) /\ s \in Seq(Byte) /\ p \in Nat /\ Len(buf) \in Nat /\ Len(s) \in Nat
        /\ p + Len(buf) <= Len(s)
    BY LenProperties DEF Within
  <1>2. i \in Nat /\ i + HeaderSize \in Nat /\ i <= i + HeaderSize /\ i + HeaderSize <= Len(buf)
    BY <1>1, Header, Parameters
  <1>3. p + i \in 0..Len(s) /\ ~HeaderMissing(s, p + i)
    BY <1>1, <1>2, Parameters DEF HeaderMissing
  <1>4. SubSeq(s, p + i + 1, p + (i + HeaderSize)) = SubSeq(buf, i + 1, i + HeaderSize)
    <2>1. PICK j \in Nat : j = i + HeaderSize
      BY <1>2
    <2>2. i \in Nat /\ i <= j /\ j <= Len(buf)
      BY <1>2, <2>1
    <2>3. SubSeq(s, p + i + 1, p + j) = SubSeq(buf, i + 1, j)
      BY <2>2, SameSlice
    <2> QED
      BY <2>1, <2>3
  <1>5. p + (i + HeaderSize) = p + i + HeaderSize
    BY <1>1, <1>2, Parameters
  <1> QED
    BY <1>3, <1>4, <1>5 DEF BodyLength

LEMMA SameMessage ==
  ASSUME NEW buf, NEW s, NEW p \in Nat, NEW i \in 0..Len(buf),
         Within(buf, s, p), Complete(buf, i)
  PROVE  /\ p + i \in 0..Len(s) /\ Complete(s, p + i)
         /\ After(s, p + i) = p + After(buf, i)
         /\ Parse(s, p + i, BodyLength(s, p + i)) = Parse(buf, i, BodyLength(buf, i))
  <1>1. /\ buf \in Seq(Byte) /\ s \in Seq(Byte) /\ p \in Nat /\ Len(buf) \in Nat /\ Len(s) \in Nat
        /\ p + Len(buf) <= Len(s)
    BY LenProperties DEF Within
  <1>2. p + i \in 0..Len(s) /\ ~HeaderMissing(s, p + i) /\ BodyLength(s, p + i) = BodyLength(buf, i)
    BY SameHeader DEF Complete
  <1>3. PICK L : L = BodyLength(buf, i)
    OBVIOUS
  <1>4. L \in Nat /\ i \in Nat /\ i + HeaderSize + L = After(buf, i) /\ After(buf, i) <= Len(buf)
    BY <1>1, <1>3, Bounds, Parameters DEF After
  <1>5. After(s, p + i) = p + i + HeaderSize + L
    BY <1>2, <1>3 DEF After
  <1>6. p + i + HeaderSize + L = p + (i + HeaderSize + L)
    BY <1>1, <1>4, Parameters
  <1>7. After(s, p + i) = p + After(buf, i) /\ After(s, p + i) \in Nat /\ After(s, p + i) <= Len(s)
    BY <1>1, <1>4, <1>5, <1>6, Parameters
  <1>8. ~InvalidLength(BodyLength(s, p + i))
    BY <1>2 DEF Complete
  <1>9. ~BodyMissing(s, p + i)
    BY <1>1, <1>2, <1>7, <1>8, Header
  <1>10. Complete(s, p + i)
    BY <1>2, <1>8, <1>9 DEF Complete
  <1>11. SubSeq(s, p + i + HeaderSize + 1, p + i + HeaderSize + L)
         = SubSeq(buf, i + HeaderSize + 1, i + HeaderSize + L)
    <2>1. i + HeaderSize \in Nat /\ i + HeaderSize + L \in Nat /\ i + HeaderSize <= i + HeaderSize + L
      BY <1>4, Parameters
    <2>2. p + (i + HeaderSize) = p + i + HeaderSize
      BY <1>1, <1>4, Parameters
    <2>3. SubSeq(s, p + (i + HeaderSize) + 1, p + (i + HeaderSize + L))
          = SubSeq(buf, i + HeaderSize + 1, i + HeaderSize + L)
      <3>1. PICK j \in Nat : j = i + HeaderSize
        BY <2>1
      <3>2. PICK k \in Nat : k = i + HeaderSize + L
        BY <2>1
      <3>3. j <= k /\ k <= Len(buf)
        BY <1>4, <2>1, <3>1, <3>2
      <3>4. SubSeq(s, p + j + 1, p + k) = SubSeq(buf, j + 1, k)
        BY <3>3, SameSlice
      <3> QED
        BY <3>1, <3>2, <3>4
    <2> QED
      BY <1>6, <2>2, <2>3
  <1>12. Parse(s, p + i, L) = Parse(buf, i, L)
    BY <1>11 DEF Parse
  <1> QED
    BY <1>2, <1>3, <1>7, <1>10, <1>12

\* At the end of the longer one, what is missing in one is missing in the other.
LEMMA SameEnd ==
  ASSUME NEW buf, NEW s, NEW p \in Nat, NEW i \in 0..Len(buf),
         Within(buf, s, p), p + Len(buf) = Len(s)
  PROVE  /\ Complete(s, p + i) <=> Complete(buf, i)
         /\ Invalid(s, p + i) <=> Invalid(buf, i)
  <1>1. Len(buf) \in Nat /\ p \in Nat /\ Len(s) - (p + i) = Len(buf) - i
    BY LenProperties DEF Within
  <1>2. HeaderMissing(s, p + i) <=> HeaderMissing(buf, i)
    BY <1>1 DEF HeaderMissing
  <1>3. ~HeaderMissing(buf, i) => BodyLength(s, p + i) = BodyLength(buf, i)
    BY SameHeader
  <1> QED
    BY <1>1, <1>2, <1>3 DEF Complete, Invalid, BodyMissing

\* a is what follows b, with out before it.
Follows(a, out, b) == a.status = b.status /\ a.read_index = b.read_index /\ a.out = out \o b.out

LEMMA Passes ==
  ASSUME NEW buf, NEW s, NEW p \in Nat, Within(buf, s, p)
  PROVE  \A i \in 0..Len(buf) :
           Follows(From(s)[p + i], From(buf)[i].out, From(s)[p + From(buf)[i].read_index])
  <1> DEFINE n == Len(buf)
             Good(i) == Follows(From(s)[p + i], From(buf)[i].out, From(s)[p + From(buf)[i].read_index])
             C == {i \in 0..n : Good(i)}
  <1>1. buf \in Seq(Byte) /\ s \in Seq(Byte) /\ p \in Nat /\ n \in Nat /\ Len(s) \in Nat /\ p + n <= Len(s)
    BY LenProperties DEF Within
  <1>2. \A i \in 0..n : From(s)[p + i] \in Results
    BY <1>1, Decodes DEF Result
  <1>3. ASSUME NEW i \in 0..n, \A j \in 0..n : i < j => Good(j)
        PROVE  Good(i)
    <2>1. PICK r : r = From(buf)[i]
      OBVIOUS
    <2>2. PICK a : a = From(s)[p + i]
      OBVIOUS
    <2>3. CASE ~Complete(buf, i)
      <3>1. r.out = <<>> /\ r.read_index = i
        <4>1. r = [status |-> Verdict(buf, i), out |-> <<>>, read_index |-> i]
          BY <1>1, <2>1, <2>3, Stops DEF Stop
        <4> QED
          BY <4>1
      <3>2. a.out \in Seq(Request)
        BY <1>2, <2>2 DEF Results
      <3>3. a.out = <<>> \o a.out
        BY <3>2, ConcatEmptySeq
      <3> QED
        BY <2>1, <2>2, <3>1, <3>3 DEF Follows
    <2>4. CASE Complete(buf, i)
      <3>1. PICK e : e = After(buf, i)
        OBVIOUS
      <3>2. e \in 0..n /\ i < e
        BY <1>1, <2>4, <3>1, Bounds
      <3>3. PICK m : m = Parse(buf, i, BodyLength(buf, i))
        OBVIOUS
      <3>4. m \in Request
        BY <1>1, <2>4, <3>3, ParseRequest
      <3>5. PICK q : q = From(buf)[e]
        OBVIOUS
      <3>6. PICK b : b = From(s)[p + e]
        OBVIOUS
      <3>7. r = [q EXCEPT !.out = <<m>> \o @]
        BY <1>1, <2>1, <2>4, <3>1, <3>3, <3>5, Continues
      <3>8. a = [b EXCEPT !.out = <<m>> \o @]
        <4>1. PICK k : k = p + i
          OBVIOUS
        <4>2. /\ k \in 0..Len(s) /\ Complete(s, k) /\ After(s, k) = p + e
              /\ Parse(s, k, BodyLength(s, k)) = m
          BY <2>4, <3>1, <3>3, <4>1, SameMessage
        <4>3. From(s)[k] = [From(s)[After(s, k)] EXCEPT
                              !.out = <<Parse(s, k, BodyLength(s, k))>> \o @]
          BY <1>1, <4>2, Continues
        <4> QED
          BY <2>2, <3>6, <4>1, <4>2, <4>3
      <3>9. q \in Results /\ b \in Results
        BY <1>1, <1>2, <3>2, <3>5, <3>6, Decodes DEF Result
      <3>10. /\ r.read_index = q.read_index /\ r.out = <<m>> \o q.out
             /\ a.status = b.status /\ a.read_index = b.read_index /\ a.out = <<m>> \o b.out
        BY <3>7, <3>8, <3>9 DEF Results
      <3>11. PICK c : c = From(s)[p + q.read_index]
        OBVIOUS
      <3>12. Follows(b, q.out, c)
        BY <1>3, <3>2, <3>5, <3>6, <3>11
      <3>13. c \in Results
        <4>1. q.read_index \in 0..n
          BY <1>1, <3>2, <3>5, Decodes DEF Result
        <4> QED
          BY <1>2, <3>11, <4>1
      <3>14. q.out \in Seq(Request) /\ c.out \in Seq(Request) /\ <<m>> \in Seq(Request)
        BY <3>4, <3>9, <3>13, EncodedOne DEF Results
      <3>15. (<<m>> \o q.out) \o c.out = <<m>> \o (q.out \o c.out)
        <4>1. PICK mm : mm = <<m>>
          OBVIOUS
        <4>2. PICK x : x = q.out
          OBVIOUS
        <4>3. PICK y : y = c.out
          OBVIOUS
        <4>4. mm \in Seq(Request) /\ x \in Seq(Request) /\ y \in Seq(Request)
          BY <3>14, <4>1, <4>2, <4>3
        <4>5. (mm \o x) \o y = mm \o (x \o y)
          BY <4>4, ConcatAssociative
        <4> QED
          BY <4>1, <4>2, <4>3, <4>5
      <3>16. Follows(a, r.out, c)
        BY <3>10, <3>12, <3>15 DEF Follows
      <3> QED
        BY <2>1, <2>2, <3>10, <3>11, <3>16
    <2> QED
      BY <2>3, <2>4
  <1>4. 0..n \subseteq C
    <2>1. \A i \in 0..n : (\A j \in 0..n : i < j => j \in C) => i \in C
      BY <1>3
    <2> HIDE DEF C, n
    <2> QED
      BY <1>1, <2>1, Downwards
  <1> QED
    BY <1>4

-----------------------------------------------------------------------------
(* The stream.                                                              *)

\* Whatever comes after R, decoding it all from the start is to put out q and to
\* go on from offset p.
Ahead(R, q, p) == \A e \in Seq(Byte) : Follows(From(R \o e)[0], q, From(R \o e)[p])

\* R arrived, q was made of its first p bytes, and B is the rest of it.
Open(R, B, q, p) ==
  /\ R \in Seq(Byte) /\ B \in Seq(Byte) /\ q \in Seq(Request) /\ p \in Nat
  /\ Within(B, R, p) /\ p + Len(B) = Len(R)
  /\ ~Complete(R, p) /\ ~Invalid(R, p)
  /\ FlattenSeq(Encodings(q)) = SubSeq(R, 1, p)
  /\ Ahead(R, q, p)

\* The state of a connection between two pieces.
DInv ==
  /\ received \in Seq(Byte) /\ input_buffer \in Seq(Byte) /\ requests \in Seq(Request)
  /\ closed \in BOOLEAN
  /\ closed => Loop(received).status = "INVALID_LENGTH"
  /\ ~closed => Open(received, input_buffer, requests, Len(received) - Len(input_buffer))

LEMMA WithinConcat ==
  ASSUME NEW B, NEW R, NEW p \in Nat, NEW x \in Seq(Byte), NEW e \in Seq(Byte),
         Within(B, R, p), p + Len(B) = Len(R)
  PROVE  Within(B \o x, (R \o x) \o e, p)
  <1>1. /\ B \in Seq(Byte) /\ R \in Seq(Byte) /\ Len(B) \in Nat /\ Len(R) \in Nat
        /\ Len(x) \in Nat /\ Len(e) \in Nat
        /\ \A j \in 1..Len(B) : R[p + j] = B[j]
    BY LenProperties DEF Within
  <1>2. PICK c : c = B \o x
    OBVIOUS
  <1>3. PICK d : d = R \o x
    OBVIOUS
  <1>4. PICK s : s = d \o e
    OBVIOUS
  <1>5. /\ c \in Seq(Byte) /\ Len(c) = Len(B) + Len(x)
        /\ \A i \in 1..Len(B) + Len(x) : c[i] = IF i <= Len(B) THEN B[i] ELSE x[i - Len(B)]
    BY <1>1, <1>2, ConcatProperties
  <1>6. /\ d \in Seq(Byte) /\ Len(d) = Len(R) + Len(x)
        /\ \A i \in 1..Len(R) + Len(x) : d[i] = IF i <= Len(R) THEN R[i] ELSE x[i - Len(R)]
    BY <1>1, <1>3, ConcatProperties
  <1>7. /\ s \in Seq(Byte) /\ Len(s) = Len(d) + Len(e)
        /\ \A i \in 1..Len(d) + Len(e) : s[i] = IF i <= Len(d) THEN d[i] ELSE e[i - Len(d)]
    <2>1. d \in Seq(Byte)
      BY <1>6
    <2> QED
      BY <1>4, <2>1, ConcatProperties
  <1>8. \A j \in 1..Len(c) : s[p + j] = c[j]
    <2> TAKE j \in 1..Len(c)
    <2>1. p + j \in 1..Len(d) + Len(e) /\ p + j <= Len(d) /\ p + j \in 1..Len(R) + Len(x)
      BY <1>1, <1>5, <1>6
    <2>2. s[p + j] = d[p + j]
      BY <1>7, <2>1
    <2>3. CASE j <= Len(B)
      <3>1. p + j <= Len(R) /\ j \in 1..Len(B) /\ j \in 1..Len(B) + Len(x)
        BY <1>1, <2>3
      <3> QED
        BY <1>1, <1>5, <1>6, <2>1, <2>2, <2>3, <3>1
    <2>4. CASE ~(j <= Len(B))
      <3>1. j \in 1..Len(B) + Len(x)
        BY <1>5
      <3>2. Len(B) \in Nat /\ Len(R) \in Nat /\ Len(x) \in Nat /\ p + Len(B) = Len(R)
        BY <1>1
      <3>3. ~(p + j <= Len(R)) /\ p + j - Len(R) = j - Len(B)
        BY <2>4, <3>1, <3>2
      <3>4. d[p + j] = x[p + j - Len(R)]
        BY <1>6, <2>1, <3>3
      <3>5. c[j] = x[j - Len(B)]
        BY <1>5, <2>4, <3>1
      <3> QED
        BY <2>2, <3>3, <3>4, <3>5
    <2> QED
      BY <2>3, <2>4
  <1>9. p + Len(c) <= Len(s)
    BY <1>1, <1>5, <1>6, <1>7
  <1>10. Within(c, s, p)
    BY <1>5, <1>7, <1>8, <1>9 DEF Within
  <1> QED
    BY <1>2, <1>3, <1>4, <1>10

LEMMA FollowsOn ==
  ASSUME NEW a, NEW b, NEW c \in Results, NEW q \in Seq(Request), NEW o \in Seq(Request),
         Follows(a, q, b), Follows(b, o, c)
  PROVE  Follows(a, q \o o, c)
  <1>1. PICK y : y = c.out
    OBVIOUS
  <1>2. y \in Seq(Request)
    BY <1>1 DEF Results
  <1>3. (q \o o) \o y = q \o (o \o y)
    BY <1>2, ConcatAssociative
  <1> QED
    BY <1>1, <1>3 DEF Follows

\* Decoding what is left with a new piece behind it is to go on with the stream.
LEMMA Piece ==
  ASSUME NEW R, NEW B, NEW q, NEW p \in Nat, NEW x \in Seq(Byte), Open(R, B, q, p)
  PROVE  LET r == Loop(B \o x) IN
         /\ Loop(R \o x).status = r.status
         /\ r.status # "INVALID_LENGTH" =>
              Open(R \o x, Leftover(B \o x, r.read_index), q \o r.out, p + r.read_index)
  <1>1. /\ R \in Seq(Byte) /\ B \in Seq(Byte) /\ q \in Seq(Request) /\ Within(B, R, p)
        /\ p + Len(B) = Len(R) /\ Ahead(R, q, p) /\ Len(B) \in Nat /\ Len(R) \in Nat /\ Len(x) \in Nat
        /\ FlattenSeq(Encodings(q)) = SubSeq(R, 1, p)
    BY LenProperties DEF Open
  <1>2. PICK buf : buf = B \o x
    OBVIOUS
  <1>3. PICK s : s = R \o x
    OBVIOUS
  <1>4. buf \in Seq(Byte) /\ s \in Seq(Byte) /\ Len(buf) = Len(B) + Len(x) /\ Len(s) = Len(R) + Len(x)
    BY <1>1, <1>2, <1>3, ConcatProperties
  <1>5. \A e \in Seq(Byte) : Within(buf, s \o e, p)
    BY <1>1, <1>2, <1>3, WithinConcat
  <1>6. s \o <<>> = s /\ <<>> \in Seq(Byte)
    BY <1>4, ConcatEmptySeq, EmptySeq
  <1>7. Within(buf, s, p) /\ p + Len(buf) = Len(s)
    <2>1. Within(buf, s, p)
      BY <1>5, <1>6
    <2>2. Len(B) \in Nat /\ Len(R) \in Nat /\ Len(x) \in Nat /\ p + Len(B) = Len(R)
      BY <1>1
    <2>3. Len(buf) = Len(B) + Len(x) /\ Len(s) = Len(R) + Len(x)
      BY <1>4
    <2>4. p + Len(buf) = Len(s)
      BY <2>2, <2>3
    <2> QED
      BY <2>1, <2>4
  <1>8. PICK r : r = From(buf)[0]
    OBVIOUS
  <1>9. Len(buf) \in Nat /\ 0 \in 0..Len(buf)
    BY <1>4, LenProperties
  <1>10. Result(buf, 0, r)
    BY <1>4, <1>8, <1>9, Decodes
  <1>11. PICK k \in Nat : k = r.read_index
    BY <1>10 DEF Result, Results
  <1>12. PICK o : o = r.out
    OBVIOUS
  <1>13. /\ r \in Results /\ k \in 0..Len(buf) /\ k \in Nat /\ k <= Len(buf) /\ o \in Seq(Request)
         /\ ~Complete(buf, k) /\ r.status = Verdict(buf, k)
         /\ FlattenSeq(Encodings(o)) = SubSeq(buf, 1, k)
    <2>1. k \in 0..Len(buf) /\ r \in Results
      BY <1>10, <1>11 DEF Result
    <2>2. o \in Seq(Request)
      BY <1>12, <2>1 DEF Results
    <2>3. 0 + 1 = 1
      OBVIOUS
    <2>4. FlattenSeq(Encodings(o)) = SubSeq(buf, 1, k)
      BY <1>10, <1>11, <1>12, <2>3 DEF Result
    <2> QED
      BY <1>9, <1>10, <1>11, <2>1, <2>2, <2>4 DEF Result
  <1>14. PICK pk \in Nat : pk = p + k
    BY <1>13
  <1>15. pk \in 0..Len(s) /\ pk <= Len(s) /\ p <= pk
    BY <1>7, <1>9, <1>13, <1>14
  <1>16. Ahead(s, q \o o, pk)
    <2> SUFFICES ASSUME NEW e \in Seq(Byte)
                 PROVE  Follows(From(s \o e)[0], q \o o, From(s \o e)[pk])
      BY DEF Ahead
    <2>1. x \o e \in Seq(Byte) /\ R \o (x \o e) = s \o e /\ s \o e \in Seq(Byte)
      <3>1. x \o e \in Seq(Byte) /\ s \o e \in Seq(Byte)
        BY <1>4, ConcatProperties
      <3>2. (R \o x) \o e = R \o (x \o e)
        <4>1. R \in Seq(Byte)
          BY <1>1
        <4> QED
          BY <4>1, ConcatAssociative
      <3> QED
        BY <1>3, <3>1, <3>2
    <2>2. PICK t : t = s \o e
      OBVIOUS
    <2>3. t \in Seq(Byte) /\ Len(t) = Len(s) + Len(e) /\ Len(e) \in Nat
      BY <1>4, <2>2, ConcatProperties, LenProperties
    <2>4. Follows(From(t)[0], q, From(t)[p])
      BY <1>1, <2>1, <2>2 DEF Ahead
    <2>5. Within(buf, t, p) /\ p + 0 = p
      BY <1>5, <2>2
    <2>6. Follows(From(t)[p + 0], o, From(t)[p + k])
      BY <1>8, <1>9, <1>11, <1>12, <2>5, Passes
    <2>7. Follows(From(t)[p], o, From(t)[pk])
      BY <1>14, <2>5, <2>6
    <2>8. From(t)[pk] \in Results
      <3>1. pk \in 0..Len(t)
        BY <1>4, <1>15, <2>3
      <3> QED
        BY <2>3, <3>1, Decodes DEF Result
    <2> QED
      BY <1>1, <1>13, <2>2, <2>4, <2>7, <2>8, FollowsOn
  <1>17. ~Complete(s, pk) /\ (Invalid(s, pk) <=> Invalid(buf, k))
    BY <1>7, <1>13, <1>14, SameEnd
  <1>18. Loop(s).status = r.status
    <2>1. Follows(From(s)[0], q \o o, From(s)[pk])
      BY <1>6, <1>16 DEF Ahead
    <2>2. From(s)[pk] = [status |-> Verdict(s, pk), out |-> <<>>, read_index |-> pk]
      BY <1>4, <1>15, <1>17, Stops DEF Stop
    <2>3. From(s)[pk].status = Verdict(s, pk)
      BY <2>2
    <2>4. Verdict(s, pk) = Verdict(buf, k)
      BY <1>17 DEF Verdict
    <2> QED
      BY <1>13, <2>1, <2>3, <2>4 DEF Follows, Loop
  <1>19. ASSUME r.status # "INVALID_LENGTH"
         PROVE  Open(s, Leftover(buf, k), q \o o, pk)
    <2>1. PICK l : l = Leftover(buf, k)
      OBVIOUS
    <2>2. l \in Seq(Byte) /\ Len(l) = Len(buf) - k /\ \A i \in 1..(Len(buf) - k) : l[i] = buf[k + i]
      <3>1. l = SubSeq(buf, k + 1, Len(buf))
        BY <2>1 DEF Leftover
      <3>2. PICK n \in Nat : n = Len(buf)
        BY <1>9
      <3>3. k <= n /\ n <= Len(buf)
        BY <1>13, <3>2
      <3>4. /\ SubSeq(buf, k + 1, n) \in Seq(Byte)
            /\ Len(SubSeq(buf, k + 1, n)) = n - k
            /\ \A i \in 1..(n - k) : SubSeq(buf, k + 1, n)[i] = buf[k + i]
        BY <1>4, <3>3, Slice
      <3> QED
        BY <3>1, <3>2, <3>4
    <2>3. pk + Len(l) = Len(s)
      <3>1. Len(buf) \in Nat /\ Len(s) \in Nat /\ k \in 0..Len(buf) /\ p + Len(buf) = Len(s)
        BY <1>1, <1>4, <1>7, <1>9, <1>13
      <3>2. Len(l) = Len(buf) - k
        BY <2>2
      <3> QED
        BY <1>14, <3>1, <3>2
    <2>4. Within(l, s, pk)
      <3>1. \A i \in 1..Len(l) : s[pk + i] = l[i]
        <4> TAKE i \in 1..Len(l)
        <4>1. k + i \in 1..Len(buf) /\ pk + i = p + (k + i) /\ i \in 1..(Len(buf) - k)
          BY <1>9, <1>13, <1>14, <2>2
        <4>2. s[p + (k + i)] = buf[k + i]
          BY <1>7, <4>1 DEF Within
        <4> QED
          BY <2>2, <4>1, <4>2
      <3>2. pk + Len(l) <= Len(s)
        BY <1>1, <1>4, <2>3
      <3> QED
        BY <1>4, <2>2, <3>1, <3>2 DEF Within
    <2>5. ~Invalid(s, pk)
      BY <1>13, <1>17, <1>19 DEF Verdict
    <2>6. q \o o \in Seq(Request)
      BY <1>1, <1>13, ConcatProperties
    <2>7. FlattenSeq(Encodings(q \o o)) = SubSeq(s, 1, pk)
      <3>1. PICK a : a = Encodings(q)
        OBVIOUS
      <3>2. PICK b : b = Encodings(o)
        OBVIOUS
      <3>3. a \in Seq(Seq(Byte)) /\ b \in Seq(Seq(Byte)) /\ Encodings(q \o o) = a \o b
        BY <1>1, <1>13, <3>1, <3>2, Encoded, EncodedConcat
      <3>4. FlattenSeq(a \o b) = FlattenSeq(a) \o FlattenSeq(b)
        BY <3>3, FlattenConcat
      <3>5. SubSeq(R, 1, p) = SubSeq(s, 1, p)
        <4>1. Within(R, s, 0)
          <5>1. \A i \in 1..Len(R) : s[0 + i] = R[i]
            BY <1>1, <1>3, ConcatProperties
          <5>2. 0 + Len(R) <= Len(s)
            BY <1>1, <1>4
          <5> QED
            BY <1>1, <1>4, <5>1, <5>2 DEF Within
        <4>2. p <= Len(R)
          BY <1>1
        <4>3. PICK z \in Nat : z = 0
          OBVIOUS
        <4>4. SubSeq(s, z + 1, z + p) = SubSeq(R, 1, p)
          BY <4>1, <4>2, <4>3, SamePrefix
        <4>5. z + 1 = 1 /\ z + p = p
          BY <4>3
        <4> QED
          BY <4>4, <4>5
      <3>6. SubSeq(buf, 1, k) = SubSeq(s, p + 1, pk)
        BY <1>7, <1>13, <1>14, SamePrefix
      <3>7. SubSeq(s, 1, p) \o SubSeq(s, p + 1, pk) = SubSeq(s, 1, pk)
        BY <1>4, <1>15, JoinPrefix
      <3> QED
        BY <1>1, <1>13, <3>1, <3>2, <3>3, <3>4, <3>5, <3>6, <3>7
    <2> QED
      BY <1>4, <1>16, <1>17, <2>1, <2>2, <2>3, <2>4, <2>5, <2>6, <2>7 DEF Open
  <1> QED
    BY <1>2, <1>3, <1>8, <1>11, <1>12, <1>14, <1>18, <1>19 DEF Loop

-----------------------------------------------------------------------------
(* The theorems.                                                            *)

LEMMA Starts == Init => DInv
  <1> SUFFICES ASSUME Init PROVE DInv
    OBVIOUS
  <1>1. <<>> \in Seq(Byte) /\ <<>> \in Seq(Request) /\ Len(<<>>) = 0
    OBVIOUS
  <1>2. Within(<<>>, <<>>, 0) /\ 0 + Len(<<>>) = Len(<<>>)
    BY <1>1 DEF Within
  <1>3. HeaderMissing(<<>>, 0)
    BY <1>1, Parameters DEF HeaderMissing
  <1>4. FlattenSeq(Encodings(<<>>)) = SubSeq(<<>>, 1, 0)
    <2>1. SubSeq(<<>>, 1, 0) = <<>>
      BY SubSeqEmpty
    <2> QED
      BY <2>1, Nothing
  <1>5. Ahead(<<>>, <<>>, 0)
    <2> SUFFICES ASSUME NEW e \in Seq(Byte)
                 PROVE  Follows(From(<<>> \o e)[0], <<>>, From(<<>> \o e)[0])
      BY DEF Ahead
    <2>1. <<>> \o e = e /\ 0 \in 0..Len(e)
      BY ConcatEmptySeq, LenProperties
    <2>2. PICK f : f = From(e)[0]
      OBVIOUS
    <2>3. f \in Results
      BY <2>1, <2>2, Decodes DEF Result
    <2>4. f.out \in Seq(Request)
      BY <2>3 DEF Results
    <2>5. <<>> \o f.out = f.out
      BY <2>4, ConcatEmptySeq
    <2> QED
      BY <2>1, <2>2, <2>5 DEF Follows
  <1>6. Open(<<>>, <<>>, <<>>, 0)
    BY <1>1, <1>2, <1>3, <1>4, <1>5 DEF Open, Complete, Invalid
  <1>7. received = <<>> /\ input_buffer = <<>> /\ requests = <<>> /\ closed = FALSE
    BY DEF Init
  <1>8. Len(received) - Len(input_buffer) = 0
    BY <1>1, <1>7
  <1> QED
    BY <1>1, <1>6, <1>7, <1>8 DEF DInv

LEMMA Keeps == DInv /\ [Next]_vars => DInv'
  <1> SUFFICES ASSUME DInv, [Next]_vars PROVE DInv'
    OBVIOUS
  <1>1. CASE UNCHANGED vars
    BY <1>1 DEF vars, DInv
  <1>2. ASSUME NEW n \in 1..MaxPiece, NEW piece \in [1..n -> Byte], Receive(piece)
        PROVE  DInv'
    <2>1. piece \in Seq(Byte)
      BY CodecAssumption
    <2>2. PICK p : p = Len(received) - Len(input_buffer)
      OBVIOUS
    <2>3. ~closed /\ Open(received, input_buffer, requests, p)
      BY <1>2, <2>2 DEF Receive, DInv
    <2>4. p \in Nat /\ received \in Seq(Byte) /\ input_buffer \in Seq(Byte) /\ requests \in Seq(Request)
      BY <2>3 DEF Open
    <2>5. PICK buf : buf = input_buffer \o piece
      OBVIOUS
    <2>6. PICK r : r = Loop(buf)
      OBVIOUS
    <2>7. /\ Loop(received \o piece).status = r.status
          /\ r.status # "INVALID_LENGTH" =>
               Open(received \o piece, Leftover(buf, r.read_index), requests \o r.out, p + r.read_index)
      BY <2>1, <2>3, <2>4, <2>5, <2>6, Piece
    <2>8. received' = received \o piece
      BY <1>2 DEF Receive
    <2>9. received' \in Seq(Byte) /\ buf \in Seq(Byte)
      BY <2>1, <2>4, <2>5, <2>8, ConcatProperties
    <2>10. CASE r.status = "INVALID_LENGTH"
      <3>1. closed' = TRUE /\ input_buffer' = buf /\ requests' = requests
        BY <1>2, <2>5, <2>6, <2>10 DEF Receive
      <3>2. Loop(received').status = "INVALID_LENGTH"
        BY <2>7, <2>8, <2>10
      <3> QED
        BY <2>4, <2>9, <3>1, <3>2 DEF DInv
    <2>11. CASE r.status # "INVALID_LENGTH"
      <3>1. /\ closed' = FALSE /\ input_buffer' = Leftover(buf, r.read_index)
            /\ requests' = requests \o r.out
        BY <1>2, <2>5, <2>6, <2>11 DEF Receive
      <3>2. PICK pk : pk = p + r.read_index
        OBVIOUS
      <3>3. Open(received', input_buffer', requests', pk)
        BY <2>7, <2>8, <2>11, <3>1, <3>2
      <3>4. /\ pk \in Nat /\ input_buffer' \in Seq(Byte) /\ requests' \in Seq(Request)
            /\ pk + Len(input_buffer') = Len(received')
        BY <3>3 DEF Open
      <3>5. Len(received') - Len(input_buffer') = pk
        <4>1. Len(input_buffer') \in Nat /\ Len(received') \in Nat
          BY <2>9, <3>4, LenProperties
        <4> QED
          BY <3>4, <4>1
      <3> QED
        BY <2>9, <3>1, <3>3, <3>4, <3>5 DEF DInv
    <2> QED
      BY <2>10, <2>11
  <1> QED
    BY <1>1, <1>2 DEF Next

LEMMA Decoding == Spec => []DInv
  BY Starts, Keeps, PTL DEF Spec

\* An open connection, at its first byte that is not decoded.
LEMMA Waiting ==
  ASSUME DInv, ~closed
  PROVE  \E p \in Nat : /\ Open(received, input_buffer, requests, p)
                        /\ ~Complete(input_buffer, 0) /\ ~Invalid(input_buffer, 0)
                        /\ 0 \in 0..Len(input_buffer)
  <1>1. PICK p : p = Len(received) - Len(input_buffer)
    OBVIOUS
  <1>2. Open(received, input_buffer, requests, p)
    BY <1>1 DEF DInv
  <1>3. /\ p \in Nat /\ Within(input_buffer, received, p) /\ p + Len(input_buffer) = Len(received)
        /\ ~Complete(received, p) /\ ~Invalid(received, p) /\ input_buffer \in Seq(Byte)
    BY <1>2 DEF Open
  <1>4. 0 \in 0..Len(input_buffer) /\ p + 0 = p
    BY <1>3, LenProperties
  <1>5. PICK i \in 0..Len(input_buffer) : i = 0
    BY <1>4
  <1>6. /\ Complete(received, p + i) <=> Complete(input_buffer, i)
        /\ Invalid(received, p + i) <=> Invalid(input_buffer, i)
    BY <1>3, SameEnd
  <1> QED
    BY <1>2, <1>3, <1>4, <1>5, <1>6

\* The requests of a connection that is open and what waits in its buffer are,
\* encoded again, every byte that arrived: decodeAndEnqueue() loses none, changes
\* none and reads none twice, however the stream was cut into pieces.
THEOREM NothingOfTheStreamLost == Spec => []Lossless
  <1>1. DInv => Lossless
    <2> SUFFICES ASSUME DInv, ~closed
                 PROVE  received = FlattenSeq(Encodings(requests)) \o input_buffer
      BY DEF Lossless, Encodings
    <2>1. PICK p \in Nat : Open(received, input_buffer, requests, p)
      BY Waiting
    <2>2. PICK R : R = received
      OBVIOUS
    <2>3. PICK B : B = input_buffer
      OBVIOUS
    <2>4. /\ R \in Seq(Byte) /\ B \in Seq(Byte) /\ Within(B, R, p) /\ p + Len(B) = Len(R)
          /\ FlattenSeq(Encodings(requests)) = SubSeq(R, 1, p)
      BY <2>1, <2>2, <2>3 DEF Open
    <2>5. PICK n \in Nat : n = Len(B)
      BY <2>4, LenProperties
    <2>6. PICK k \in Nat : k = p + n
      OBVIOUS
    <2>7. B = SubSeq(R, p + 1, k)
      <3>1. SubSeq(R, p + 1, p + n) = SubSeq(B, 1, n)
        <4>1. n <= Len(B)
          BY <2>5
        <4> QED
          BY <2>4, <4>1, SamePrefix
      <3>2. SubSeq(B, 1, n) = B
        BY <2>4, <2>5, SubSeqFull
      <3> QED
        BY <2>6, <3>1, <3>2
    <2>8. SubSeq(R, 1, p) \o SubSeq(R, p + 1, k) = SubSeq(R, 1, k)
      <3>1. p <= k /\ k <= Len(R)
        BY <2>4, <2>5, <2>6
      <3> QED
        BY <2>4, <3>1, JoinPrefix
    <2>9. SubSeq(R, 1, k) = R
      BY <2>4, <2>5, <2>6, SubSeqFull
    <2> QED
      BY <2>2, <2>3, <2>4, <2>7, <2>8, <2>9
  <1> QED
    BY <1>1, Decoding, PTL

\* The requests of a connection, and whether it is closed for an invalid length,
\* depend on the bytes that arrived and not on the pieces that recv() returned.
THEOREM CutsDoNotMatter == Spec => []PiecesDoNotMatter
  <1>1. DInv => PiecesDoNotMatter
    <2> SUFFICES ASSUME DInv PROVE PiecesDoNotMatter
      OBVIOUS
    <2>1. CASE closed
      BY <2>1 DEF DInv, PiecesDoNotMatter
    <2>2. CASE ~closed
      <3>1. PICK p \in Nat : Open(received, input_buffer, requests, p)
        BY <2>2, Waiting
      <3>2. PICK R : R = received
        OBVIOUS
      <3>3. PICK q : q = requests
        OBVIOUS
      <3>4. /\ R \in Seq(Byte) /\ q \in Seq(Request) /\ ~Complete(R, p) /\ ~Invalid(R, p)
            /\ Ahead(R, q, p) /\ p + Len(input_buffer) = Len(R) /\ input_buffer \in Seq(Byte)
        BY <3>1, <3>2, <3>3 DEF Open
      <3>5. p \in 0..Len(R)
        BY <3>4, LenProperties
      <3>6. R \o <<>> = R /\ <<>> \in Seq(Byte) /\ q \o <<>> = q
        <4>1. R \in Seq(Byte) /\ q \in Seq(Request)
          BY <3>4
        <4> QED
          BY <4>1, ConcatEmptySeq, EmptySeq
      <3>7. Follows(From(R)[0], q, From(R)[p])
        BY <3>4, <3>6 DEF Ahead
      <3>8. From(R)[p] = [status |-> "NEED_MORE_DATA", out |-> <<>>, read_index |-> p]
        BY <3>4, <3>5, Stops DEF Stop, Verdict
      <3>9. From(R)[p].status = "NEED_MORE_DATA" /\ From(R)[p].out = <<>>
        BY <3>8
      <3>10. Loop(R).status = "NEED_MORE_DATA" /\ Loop(R).out = q
        BY <3>6, <3>7, <3>9 DEF Follows, Loop
      <3> QED
        BY <2>2, <3>2, <3>3, <3>10 DEF PiecesDoNotMatter
    <2> QED
      BY <2>1, <2>2
  <1> QED
    BY <1>1, Decoding, PTL

\* What decodeAndEnqueue() leaves in the buffer of an open connection is the
\* beginning of one message that may still become complete.
THEOREM NoMessageWaits == Spec => []Prompt
  <1>1. DInv => Prompt
    <2> SUFFICES ASSUME DInv, ~closed
                 PROVE  /\ \A i \in DOMAIN requests : Len(requests[i].payload) <= MAX_PAYLOAD_SIZE
                        /\ Len(input_buffer) < HeaderSize + MAX_BODY_SIZE
                        /\ Len(input_buffer) >= HeaderSize =>
                             /\ BodyLength(input_buffer, 0) \in FIXED_BODY_SIZE..MAX_BODY_SIZE
                             /\ Len(input_buffer) < HeaderSize + BodyLength(input_buffer, 0)
      BY DEF Prompt
    <2>1. \A i \in DOMAIN requests : Len(requests[i].payload) <= MAX_PAYLOAD_SIZE
      <3> SUFFICES ASSUME NEW i \in DOMAIN requests
                   PROVE  Len(requests[i].payload) <= MAX_PAYLOAD_SIZE
        OBVIOUS
      <3>1. requests \in Seq(Request)
        BY DEF DInv
      <3>2. PICK m : m = requests[i]
        OBVIOUS
      <3>3. m \in Request
        BY <3>1, <3>2
      <3>4. m.payload \in {p \in Seq(Byte) : Len(p) <= MAX_PAYLOAD_SIZE}
        BY <3>3 DEF Request, Fields
      <3> QED
        BY <3>2, <3>4
    <2>2. PICK B : B = input_buffer
      OBVIOUS
    <2>3. B \in Seq(Byte) /\ Len(B) \in Nat /\ ~Complete(B, 0) /\ ~Invalid(B, 0) /\ 0 \in 0..Len(B)
      BY <2>2, Waiting, LenProperties DEF DInv
    <2>4. CASE Len(B) < HeaderSize
      BY <2>1, <2>2, <2>3, <2>4, Parameters
    <2>5. CASE ~(Len(B) < HeaderSize)
      <3>1. ~HeaderMissing(B, 0)
        BY <2>3, <2>5, Parameters DEF HeaderMissing
      <3>2. ~InvalidLength(BodyLength(B, 0)) /\ BodyMissing(B, 0)
        BY <2>3, <3>1 DEF Complete, Invalid
      <3>3. BodyLength(B, 0) \in FIXED_BODY_SIZE..MAX_BODY_SIZE /\ Len(B) < After(B, 0)
        BY <2>3, <3>1, <3>2, Header
      <3>4. Len(B) < HeaderSize + BodyLength(B, 0)
        BY <3>3, Parameters DEF After
      <3>5. Len(B) < HeaderSize + MAX_BODY_SIZE
        BY <2>3, <3>3, <3>4, Parameters
      <3> QED
        BY <2>1, <2>2, <3>3, <3>4, <3>5
    <2> QED
      BY <2>4, <2>5
  <1> QED
    BY <1>1, Decoding, PTL

=============================================================================
