----------------------------- MODULE Induction -----------------------------
(***************************************************************************)
(* Induction over sets of numbers, and that functions defined recursively  *)
(* are what their definitions say.                                         *)
(*                                                                         *)
(* All of it follows from the fact that a finite set has no injection onto *)
(* a part of itself.  Nothing is a parameter but sets and functions, so    *)
(* that every lemma can be used as it stands.                              *)
(***************************************************************************)
EXTENDS Integers, FiniteSetTheorems, TLAPS

\* A set that contains 0 and with each number the next one contains n: a finite set has no injection onto a part of itself.
LEMMA Reaches ==
  ASSUME NEW n \in Nat, NEW C \in SUBSET (0..n), 0 \in C, \A k \in C : k < n => k + 1 \in C
  PROVE  n \in C
  <1> SUFFICES ASSUME n \notin C PROVE FALSE
    OBVIOUS
  <1> DEFINE next == [k \in C |-> k + 1]
  <1>1. IsFiniteSet(C)
    <2>1. IsFiniteSet(0..n)
      BY FS_Interval
    <2> QED
      BY <2>1, FS_Subset
  <1>2. next \in Injection(C, C)
    BY DEF Injection, IsInjective
  <1>3. next \in Surjection(C, C)
    BY <1>1, <1>2, FS_Injection
  <1>4. PICK k \in C : next[k] = 0
    BY <1>3 DEF Surjection
  <1> QED
    BY <1>4

\* Induction from 0 to n.
LEMMA Upwards ==
  ASSUME NEW n \in Nat, NEW C, 0 \in C, \A k \in 0..n : k \in C /\ k < n => k + 1 \in C
  PROVE  0..n \subseteq C
  <1> SUFFICES ASSUME NEW m \in 0..n PROVE m \in C
    OBVIOUS
  <1> DEFINE D == C \cap (0..m)
  <1>1. D \in SUBSET (0..m) /\ 0 \in D
    OBVIOUS
  <1>2. \A k \in D : k < m => k + 1 \in D
    OBVIOUS
  <1>3. m \in D
    <2> HIDE DEF D
    <2> QED
      BY <1>1, <1>2, Reaches
  <1> QED
    BY <1>3

\* Induction from n to 0.
LEMMA Downwards ==
  ASSUME NEW n \in Nat, NEW C,
         \A k \in 0..n : (\A j \in 0..n : k < j => j \in C) => k \in C
  PROVE  0..n \subseteq C
  <1> DEFINE D == {k \in 0..n : \A j \in 0..n : n - k <= j => j \in C}
  <1>1. 0 \in D
    <2>1. n \in C
      OBVIOUS
    <2> QED
      BY <2>1
  <1>2. \A k \in 0..n : k \in D /\ k < n => k + 1 \in D
    <2> SUFFICES ASSUME NEW k \in D, k < n PROVE k + 1 \in D
      OBVIOUS
    <2>1. \A j \in 0..n : n - (k + 1) < j => j \in C
      OBVIOUS
    <2>2. n - (k + 1) \in 0..n
      OBVIOUS
    <2>3. n - (k + 1) \in C
      BY <2>1, <2>2
    <2> QED
      BY <2>1, <2>3
  <1>3. 0..n \subseteq D
    <2> HIDE DEF D
    <2> QED
      BY <1>1, <1>2, Upwards
  <1>4. n \in D
    BY <1>3
  <1> QED
    BY <1>4

Steps(n, S) == [(1..n) \X S -> S]

\* f is defined by its value at 0 and by its value at i from that at i - 1.
Recursive(f, n, S, base, step) ==
  /\ f \in [0..n -> S]
  /\ f[0] = base
  /\ \A i \in 1..n : f[i] = step[<<i, f[i - 1]>>]

\* A function that is defined from its value before exists.
LEMMA Recursion ==
  ASSUME NEW n \in Nat, NEW S, NEW base \in S, NEW step \in Steps(n, S)
  PROVE  \E f : Recursive(f, n, S, base, step)
  <1> USE DEF Steps
  <1> DEFINE Upto(k) == {f \in [0..k -> S] : /\ f[0] = base
                                             /\ \A i \in 1..k : f[i] = step[<<i, f[i - 1]>>]}
             C == {k \in 0..n : Upto(k) # {}}
  <1>1. 0 \in C
    <2>1. [i \in 0..0 |-> base] \in Upto(0)
      OBVIOUS
    <2> QED
      BY <2>1
  <1>2. \A k \in 0..n : k \in C /\ k < n => k + 1 \in C
    <2> SUFFICES ASSUME NEW k \in 0..n, k \in C, k < n PROVE k + 1 \in C
      OBVIOUS
    <2>1. PICK f \in Upto(k) : TRUE
      OBVIOUS
    <2>2. f \in [0..k -> S] /\ f[0] = base /\ \A i \in 1..k : f[i] = step[<<i, f[i - 1]>>]
      OBVIOUS
    <2> DEFINE g == [i \in 0..(k + 1) |-> IF i = k + 1 THEN step[<<k + 1, f[k]>>] ELSE f[i]]
    <2>3. step[<<k + 1, f[k]>>] \in S
      <3>1. <<k + 1, f[k]>> \in (1..n) \X S
        BY <2>2
      <3> QED
        BY <3>1
    <2>4. g \in [0..(k + 1) -> S] /\ g[0] = base
      BY <2>2, <2>3
    <2>5. \A i \in 1..(k + 1) : g[i] = step[<<i, g[i - 1]>>]
      <3> TAKE i \in 1..(k + 1)
      <3>1. CASE i = k + 1
        <4>1. g[k + 1] = step[<<k + 1, f[k]>>] /\ g[k] = f[k]
          OBVIOUS
        <4>2. i - 1 = k
          BY <3>1
        <4> QED
          BY <3>1, <4>1, <4>2
      <3>2. CASE i # k + 1
        <4>1. i \in 1..k /\ i - 1 \in 0..k /\ g[i] = f[i] /\ g[i - 1] = f[i - 1]
          BY <3>2
        <4> QED
          BY <2>2, <4>1
      <3> QED
        BY <3>1, <3>2
    <2> HIDE DEF g
    <2>6. g \in Upto(k + 1)
      BY <2>4, <2>5
    <2>7. k + 1 \in 0..n
      OBVIOUS
    <2> HIDE DEF Upto
    <2> QED
      BY <2>6, <2>7
  <1>3. n \in C
    <2> HIDE DEF C
    <2> QED
      BY <1>1, <1>2, Upwards
  <1> QED
    BY <1>3 DEF Recursive

-----------------------------------------------------------------------------
(* Functions defined by recursion on the size of their arguments.           *)

\* step gives the value at d of a function that is known at what is smaller.
ByTheSmaller(D, B, size, step) ==
  /\ size \in [D -> Nat]
  /\ step \in [D \X [D -> B] -> B]
  /\ \A d \in D : \A f, g \in [D -> B] :
       (\A e \in D : size[e] < size[d] => f[e] = g[e]) => step[<<d, f>>] = step[<<d, g>>]

\* f is defined at what is smaller than n.
Below(f, D, B, size, step, n) == f \in [D -> B] /\ \A d \in D : size[d] < n => f[d] = step[<<d, f>>]

\* Two functions that satisfy an equation below two bounds agree below the smaller one.
LEMMA BelowOnce ==
  ASSUME NEW D, NEW B, NEW size, NEW step, ByTheSmaller(D, B, size, step), NEW m \in Nat, NEW n \in Nat,
         NEW f, NEW g, Below(f, D, B, size, step, m), Below(g, D, B, size, step, n), m <= n,
         NEW d \in D, size[d] < m
  PROVE  f[d] = g[d]
  <1> DEFINE C == {k \in 0..m : \A e \in D : size[e] < k => f[e] = g[e]}
  <1>1. size \in [D -> Nat] /\ f \in [D -> B] /\ g \in [D -> B]
    BY DEF ByTheSmaller, Below
  <1>2. 0 \in C
    <2>1. \A e \in D : ~(size[e] < 0)
      BY <1>1
    <2> QED
      BY <2>1
  <1>3. \A k \in 0..m : k \in C /\ k < m => k + 1 \in C
    <2> SUFFICES ASSUME NEW k \in 0..m, k \in C, k < m, NEW e \in D, size[e] < k + 1
                 PROVE  f[e] = g[e]
      OBVIOUS
    <2>1. size[e] \in Nat /\ size[e] <= k
      BY <1>1
    <2>2. \A c \in D : size[c] < size[e] => f[c] = g[c]
      <3> SUFFICES ASSUME NEW c \in D, size[c] < size[e] PROVE f[c] = g[c]
        OBVIOUS
      <3>1. size[c] < k
        BY <1>1, <2>1
      <3> QED
        BY <3>1
    <2>3. step[<<e, f>>] = step[<<e, g>>]
      BY <1>1, <2>2 DEF ByTheSmaller
    <2>4. f[e] = step[<<e, f>>] /\ g[e] = step[<<e, g>>]
      BY <2>1 DEF Below
    <2> QED
      BY <2>3, <2>4
  <1>4. m \in C
    <2> HIDE DEF C
    <2> QED
      BY <1>2, <1>3, Upwards
  <1> QED
    BY <1>4

\* Below each bound there is one.
LEMMA BelowAll ==
  ASSUME NEW D, NEW B, NEW b \in B, NEW size, NEW step, ByTheSmaller(D, B, size, step), NEW n \in Nat
  PROVE  \E f : Below(f, D, B, size, step, n)
  <1> DEFINE C == {k \in 0..n : \E f : Below(f, D, B, size, step, k)}
  <1>1. size \in [D -> Nat] /\ step \in [D \X [D -> B] -> B]
    BY DEF ByTheSmaller
  <1>2. 0 \in C
    <2> DEFINE f == [d \in D |-> b]
    <2>1. f \in [D -> B] /\ \A d \in D : ~(size[d] < 0)
      BY <1>1
    <2>2. Below(f, D, B, size, step, 0)
      BY <2>1 DEF Below
    <2> QED
      BY <2>2
  <1>3. \A k \in 0..n : k \in C /\ k < n => k + 1 \in C
    <2> SUFFICES ASSUME NEW k \in 0..n, k \in C, k < n PROVE \E g : Below(g, D, B, size, step, k + 1)
      OBVIOUS
    <2>1. PICK f : Below(f, D, B, size, step, k)
      OBVIOUS
    <2>2. PICK g : g = [d \in D |-> step[<<d, f>>]]
      OBVIOUS
    <2>3. f \in [D -> B]
      BY <2>1 DEF Below
    <2>4. g \in [D -> B] /\ \A d \in D : g[d] = step[<<d, f>>]
      BY <1>1, <2>2, <2>3
    <2>5. ASSUME NEW d \in D, size[d] < k + 1
          PROVE  g[d] = step[<<d, g>>]
      <3>1. \A e \in D : size[e] < size[d] => f[e] = g[e]
        <4> SUFFICES ASSUME NEW e \in D, size[e] < size[d] PROVE f[e] = g[e]
          OBVIOUS
        <4>1. size[e] < k
          BY <1>1, <2>5
        <4>2. f[e] = step[<<e, f>>]
          BY <2>1, <4>1 DEF Below
        <4> QED
          BY <2>4, <4>2
      <3>2. step[<<d, f>>] = step[<<d, g>>]
        BY <2>3, <2>4, <3>1 DEF ByTheSmaller
      <3> QED
        BY <2>4, <3>2
    <2> QED
      BY <2>4, <2>5 DEF Below
  <1>4. n \in C
    <2> HIDE DEF C
    <2> QED
      BY <1>2, <1>3, Upwards
  <1> QED
    BY <1>4

\* f is defined everywhere.
Solves(f, D, B, step) == f \in [D -> B] /\ \A d \in D : f[d] = step[<<d, f>>]

\* An equation that gives a value from the values at smaller arguments has a solution.
LEMMA WellFounded ==
  ASSUME NEW D, NEW B, NEW b \in B, NEW size, NEW step, ByTheSmaller(D, B, size, step)
  PROVE  \E h : Solves(h, D, B, step)
  <1>1. size \in [D -> Nat] /\ step \in [D \X [D -> B] -> B]
    BY DEF ByTheSmaller
  <1> DEFINE F(n) == CHOOSE f : Below(f, D, B, size, step, n)
             h == [d \in D |-> F(size[d] + 1)[d]]
  <1>2. \A n \in Nat : Below(F(n), D, B, size, step, n)
    <2> SUFFICES ASSUME NEW n \in Nat PROVE Below(F(n), D, B, size, step, n)
      OBVIOUS
    <2>1. \E f : Below(f, D, B, size, step, n)
      BY BelowAll
    <2> QED
      BY <2>1, Zenon
  <1> HIDE DEF F
  <1>3. \A n \in Nat : F(n) \in [D -> B]
    BY <1>2 DEF Below
  <1>4. h \in [D -> B] /\ \A d \in D : h[d] = F(size[d] + 1)[d]
    BY <1>1, <1>3
  <1> HIDE DEF h
  <1>5. ASSUME NEW d \in D
        PROVE  h[d] = step[<<d, h>>]
    <2>1. PICK n \in Nat : n = size[d] + 1
      BY <1>1
    <2>2. Below(F(n), D, B, size, step, n) /\ F(n) \in [D -> B]
      BY <1>2, <1>3
    <2>3. \A e \in D : size[e] < size[d] => F(n)[e] = h[e]
      <3> SUFFICES ASSUME NEW e \in D, size[e] < size[d] PROVE F(n)[e] = h[e]
        OBVIOUS
      <3>1. PICK m \in Nat : m = size[e] + 1
        BY <1>1
      <3>2. m <= n /\ size[e] < m
        BY <1>1, <2>1, <3>1
      <3>3. Below(F(m), D, B, size, step, m)
        BY <1>2
      <3>4. F(m)[e] = F(n)[e]
        BY <2>2, <3>2, <3>3, BelowOnce
      <3> QED
        BY <1>4, <3>1, <3>4
    <2>4. step[<<d, F(n)>>] = step[<<d, h>>]
      BY <1>4, <2>2, <2>3 DEF ByTheSmaller
    <2>5. F(n)[d] = step[<<d, F(n)>>]
      <3>1. size[d] < n
        BY <1>1, <2>1
      <3> QED
        BY <2>2, <3>1 DEF Below
    <2> QED
      BY <1>4, <2>1, <2>4, <2>5
  <1> QED
    BY <1>4, <1>5 DEF Solves
=============================================================================
