---------------------------- MODULE JsonNumbers ----------------------------
(***************************************************************************)
(* Numbers as the binary formats of nlohmann's json hold them.  A 64-bit   *)
(* number is its eight bytes, the most significant first, so that nothing  *)
(* is lost that a conversion between widths or signs in C++ would keep.    *)
(*                                                                         *)
(***************************************************************************)
EXTENDS Integers, Sequences, SequencesExt

\* The last bytes, and a word from fewer bytes, unsigned or signed.
LastBytes(x, width) == SubSeq(x, Len(x) - width + 1, Len(x))
Filled(bytes, fill) == [i \in 1..(8 - Len(bytes)) |-> fill] \o bytes
ZeroExtended(bytes) == Filled(bytes, 0)
SignExtended(bytes) == Filled(bytes, IF bytes[1] > 127 THEN 255 ELSE 0)

IsNegative(x) == x[1] > 127

\* -1 - x.
Complement(x) == [i \in 1..8 |-> 255 - x[i]]

\* -x, which is the same for the smallest integer.
Negated(x) == LET nonzero == {i \in 1..8 : x[i] # 0} IN
              [i \in 1..8 |-> IF i \in nonzero /\ \A j \in nonzero : j <= i THEN 256 - x[i]
                             ELSE IF \E j \in nonzero : j > i THEN 255 - x[i] ELSE 0]
MinInteger == <<128, 0, 0, 0, 0, 0, 0, 0>>

FitsUnsigned(x, width) == ZeroExtended(LastBytes(x, width)) = x
FitsSigned(x, width) == SignExtended(LastBytes(x, width)) = x

\* A small number as a word and back; numbers that are no small ones are not told apart.
WordOf(n) == ZeroExtended(<<n \div 16777216, (n \div 65536) % 256, (n \div 256) % 256, n % 256>>)
Huge == 2 ^ 30
Small(x) == IF FitsUnsigned(x, 4) /\ x[5] < 64
            THEN ((x[5] * 256 + x[6]) * 256 + x[7]) * 256 + x[8] ELSE Huge

\* A word times 10 plus a digit, of which the ninth byte from the right is the overflow, and
\* a word divided by 10.
TimesTen(x, digit) ==
  FoldRight(LAMBDA byte, r : <<(10 * byte + r[1]) \div 256>> \o <<(10 * byte + r[1]) % 256>> \o Tail(r),
            x, <<digit>>)
DividedByTen(x) ==
  FoldLeft(LAMBDA r, byte : [rest |-> (256 * r.rest + byte) % 10,
                             quotient |-> Append(r.quotient, (256 * r.rest + byte) \div 10)],
           [rest |-> 0, quotient |-> <<>>], x)

\* The decimal digits of a word as the serializer writes them.
RECURSIVE DigitsOf(_)
DigitsOf(x) == LET d == DividedByTen(x) IN
               IF d.quotient = WordOf(0) THEN <<48 + d.rest>> ELSE Append(DigitsOf(d.quotient), 48 + d.rest)

\* The word that decimal digits stand for, of nine bytes or more if it has no room in eight.
WordOfDigits(digits) ==
  FoldLeft(LAMBDA x, d : IF Len(x) > 8 THEN x
                         ELSE LET y == TimesTen(x, d - 48) IN IF y[1] = 0 THEN Tail(y) ELSE y,
           WordOf(0), digits)

-----------------------------------------------------------------------------
(* Floats: the bits of a double.  Any NaN is one.                           *)

NotANumber == <<127, 248, 0, 0, 0, 0, 0, 0>>
Infinity == <<127, 240, 0, 0, 0, 0, 0, 0>>

\* Sign, exponent and the upper 23 bits of the mantissa as a double, and of one.
Double(sign, exponent, mantissa) ==
  IF exponent = 2047 /\ mantissa # 0 THEN NotANumber
  ELSE <<128 * sign + (exponent \div 16), 16 * (exponent % 16) + (mantissa \div 524288),
         (mantissa \div 2048) % 256, (mantissa \div 8) % 256, 32 * (mantissa % 8), 0, 0, 0>>
SignOf(x) == x[1] \div 128
ExponentOf(x) == 16 * (x[1] % 128) + (x[2] \div 16)
MantissaOf(x) == (((x[2] % 16) * 256 + x[3]) * 256 + x[4]) * 8 + (x[5] \div 32)

\* Whether the mantissa ends where a float's does.
Short23(x) == x[5] % 32 = 0 /\ x[6] = 0 /\ x[7] = 0 /\ x[8] = 0

IsNan(x) == ExponentOf(x) = 2047 /\ (MantissaOf(x) # 0 \/ ~Short23(x))
IsInf(x) == ExponentOf(x) = 2047 /\ ~IsNan(x)
DoubleOf(bytes) == IF IsNan(bytes) THEN NotANumber ELSE bytes

\* A number without leading zeros in its bits: how far it has to be shifted.
Shift(mantissa, bits) == CHOOSE k \in 0..bits : mantissa * 2 ^ k \in 2 ^ bits..(2 ^ (bits + 1) - 1)

\* A small exponent and mantissa of some bits as a double: floats (8, 23) and halves (5, 10).
Widened(sign, exponent, mantissa, width, bits) ==
  LET bias == 2 ^ (width - 1) - 1
      up == 2 ^ (23 - bits)
  IN IF exponent = 2 ^ width - 1 THEN Double(sign, 2047, mantissa * up)
     ELSE IF exponent # 0 THEN Double(sign, exponent - bias + 1023, mantissa * up)
     ELSE IF mantissa = 0 THEN Double(sign, 0, 0)
     ELSE LET k == Shift(mantissa, bits) IN
          Double(sign, 1024 - bias - k, (mantissa * 2 ^ k - 2 ^ bits) * up)

DoubleOfFloat(b) ==
  Widened(b[1] \div 128, 2 * (b[1] % 128) + (b[2] \div 128), ((b[2] % 128) * 256 + b[3]) * 256 + b[4], 8, 23)
DoubleOfHalf(b) == Widened(b[1] \div 128, (b[1] % 128) \div 4, (b[1] % 4) * 256 + b[2], 5, 10)

\* static_cast<float>() of a double that a float can hold.
FloatOf(x) ==
  LET e == ExponentOf(x) - 896
      m == IF e > 0 THEN MantissaOf(x) ELSE (2 ^ 23 + MantissaOf(x)) \div 2 ^ (1 - e)
      exponent == IF e > 0 THEN e ELSE 0
  IN IF IsInf(x) \/ IsNan(x) THEN <<128 * SignOf(x) + 127, 128 + (m \div 65536), 0, 0>>
     ELSE IF e < -22 THEN <<128 * SignOf(x), 0, 0, 0>>
     ELSE <<128 * SignOf(x) + (exponent \div 2), 128 * (exponent % 2) + (m \div 65536),
            (m \div 256) % 256, m % 256>>

\* static_cast<double>(static_cast<float>(x)) == x, of finite numbers in the range of a float.
IsFloat(x) == ExponentOf(x) <= 1150 /\ DoubleOfFloat(FloatOf(x)) = x
=============================================================================
