-------------------------------- MODULE Numbers --------------------------------
(***************************************************************************)
(* The numbers the runtime helpers work on, at a scale TLC can enumerate:  *)
(* a byte has ByteBits bits, a v128 is a pair of words of WordBytes bytes, *)
(* an integer of w bytes is a natural number below 2^(w bytes), and a      *)
(* float of w bytes is the same kind of number read as sign, ExpBits bits  *)
(* of exponent and mantissa.  In the real code ByteBits = 8 and            *)
(* WordBytes = 8.                                                          *)
(*                                                                         *)
(* What a call delivers is a sequence: one number, the two words of a      *)
(* v128, or a negative number that names the trap.                         *)
(***************************************************************************)
EXTENDS Integers, Sequences, FiniteSets

CONSTANTS ByteBits, WordBytes, ExpBits

ASSUME NumbersAssumption ==
  /\ {ByteBits, WordBytes, ExpBits} \subseteq Nat \ {0}
  /\ WordBytes % 4 = 0

Bits(w) == w * ByteBits
Mod(w)  == 2^Bits(w)
Ones(w) == Mod(w) - 1
Half(w) == Mod(w) \div 2

\* A Go conversion to uintN, and the reading of an uintN as an intN.
Wrap(w, x)   == x % Mod(w)
Signed(w, x) == IF x >= Half(w) THEN x - Mod(w) ELSE x

\* The low half of a product: the two readings of a factor agree on it, and
\* the signed one keeps the product small.
Times(w, x, y) == Wrap(w, Signed(w, x) * Signed(w, y))

Words   == 0..Mod(WordBytes) - 1
Vectors == Words \X Words

\* The sum of F(0) .. F(n - 1).
SumOf(n, F(_)) == LET s[k \in 0..n] == IF k = 0 THEN 0 ELSE s[k - 1] + F(k - 1) IN s[n]

\* What a call delivers when it does not deliver a value.
IntOverflow  == <<-1>>
DivideByZero == <<-2>>
InvalidConv  == <<-3>>
OutOfBounds  == <<-4>>

(***************************************************************************)
(* Floats.  A value is counted in units of the least positive one, so that *)
(* it is an integer; One(w) units make 1.0.  An infinity is a value larger *)
(* than every finite one.                                                  *)
(***************************************************************************)
ManBits(w) == Bits(w) - 1 - ExpBits
ExpTop     == 2^ExpBits - 1
Magnitude(w, x) == x % Half(w)
Exponent(w, x)  == Magnitude(w, x) \div 2^ManBits(w)
Mantissa(w, x)  == x % 2^ManBits(w)
Negative(w, x)  == x >= Half(w)

IsNaN(w, x) == Exponent(w, x) = ExpTop /\ Mantissa(w, x) # 0

Quiet(w) == 2^(ManBits(w) - 1)
IsQuiet(w, x) == Mantissa(w, x) >= Quiet(w)

One(w) == 2^(2^(ExpBits - 1) - 2 + ManBits(w))

Value(w, x) ==
  LET size == IF Exponent(w, x) = 0 THEN Mantissa(w, x)
              ELSE (2^ManBits(w) + Mantissa(w, x)) * 2^(Exponent(w, x) - 1)
  IN  IF Negative(w, x) THEN -size ELSE size

\* The value without its fraction, as an integer.
Whole(w, x) ==
  IF Negative(w, x) THEN -((-Value(w, x)) \div One(w)) ELSE Value(w, x) \div One(w)
================================================================================
