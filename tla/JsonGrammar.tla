---------------------------- MODULE JsonGrammar ----------------------------
(***************************************************************************)
(* What a number is in JSON.  A byte is its number.                        *)
(***************************************************************************)
EXTENDS Integers, Sequences, SequencesExt

Zero == 48
Digit == 48..57
Blank == {9, 10, 13, 32}

\* A number: an integer, perhaps a fraction, perhaps an exponent.
Digits(s) == s # <<>> /\ \A i \in DOMAIN s : s[i] \in Digit
Whole(s) == /\ Digits(s)
            /\ Len(s) > 1 => s[1] # Zero
Exponent(s) == \/ s = <<>>
               \/ s[1] \in {69, 101} /\ Digits(Tail(s))
               \/ Len(s) > 2 /\ s[1] \in {69, 101} /\ s[2] \in {43, 45} /\ Digits(Tail(Tail(s)))
Fraction(s) == s = <<>> \/ (s[1] = 46 /\ Digits(Tail(s)))
IsNumber(s) ==
  LET u == IF s # <<>> /\ s[1] = 45 THEN Tail(s) ELSE s IN
  \E i \in 0..Len(u), j \in 0..Len(u) :
     /\ i <= j
     /\ Whole(SubSeq(u, 1, i)) /\ Fraction(SubSeq(u, i + 1, j)) /\ Exponent(SubSeq(u, j + 1, Len(u)))

\* No fraction and no exponent.
Integral(s) == \A i \in DOMAIN s : s[i] \in Digit \cup {45}
=============================================================================
