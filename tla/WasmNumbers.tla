------------------------------ MODULE WasmNumbers ------------------------------
(***************************************************************************)
(* What WebAssembly says the numeric instructions deliver: the reference   *)
(* the helpers of src/internal/codegen/helpers are compared with.  A v128  *)
(* is a string of bytes, the low byte of the first word first, and a lane  *)
(* is the little-endian number in its bytes; a result is described lane by *)
(* lane, in integers without width, and cut to the lane at the end.  The   *)
(* specification lets a NaN result be any quiet NaN.                       *)
(***************************************************************************)
EXTENDS Numbers

VectorBytes == 2 * WordBytes

ByteOf(v, k) == (v[k \div WordBytes + 1] \div Mod(k % WordBytes)) % Mod(1)

LaneOf(w, v, i) == SumOf(w, LAMBDA j : ByteOf(v, i * w + j) * Mod(j))

LaneCount(w) == VectorBytes \div w

IntOf(w, sign, x) == IF sign = "s" THEN Signed(w, x) ELSE x

Clamp(w, sign, n) ==
  LET low  == IF sign = "s" THEN -Half(w) ELSE 0
      high == IF sign = "s" THEN Half(w) - 1 ELSE Ones(w)
  IN  Wrap(w, IF n < low THEN low ELSE IF n > high THEN high ELSE n)

BitOf(x, k) == (x \div 2^k) % 2

Truth(w, holds) == IF holds THEN Ones(w) ELSE 0

Compared(rel, x, y) ==
  CASE rel = "eq" -> x = y
    [] rel = "ne" -> x # y
    [] rel = "lt" -> x < y
    [] rel = "gt" -> x > y
    [] rel = "le" -> x <= y
    [] rel = "ge" -> x >= y

FloatCompared(w, rel, x, y) ==
  IF IsNaN(w, x) \/ IsNaN(w, y) THEN rel = "ne"
  ELSE Compared(rel, Value(w, x), Value(w, y))

\* Two's complement arithmetic of a lane, on its integer readings.
Arithmetic(w, op, sign, x, y) ==
  LET m == IntOf(w, sign, x)
      n == IntOf(w, sign, y)
  IN  CASE op = "add" -> Wrap(w, m + n)
        [] op = "sub" -> Wrap(w, m - n)
        [] op = "mul" -> Wrap(w, Signed(w, x) * Signed(w, y))
        [] op = "min" -> Wrap(w, IF m <= n THEN m ELSE n)
        [] op = "max" -> Wrap(w, IF m >= n THEN m ELSE n)
        [] op = "add_sat" -> Clamp(w, sign, m + n)
        [] op = "sub_sat" -> Clamp(w, sign, m - n)
        [] op = "avgr" -> m + n - (m + n) \div 2
        [] op = "abs" -> Wrap(w, IF Signed(w, x) < 0 THEN -Signed(w, x) ELSE x)
        [] op = "neg" -> Wrap(w, -x)

\* The rounded product of two fractions, saturated.
Fraction(w, x, y) ==
  Clamp(w, "s", (2 * Signed(w, x) * Signed(w, y) + Half(w)) \div Mod(w))

Shifted(w, op, x, n) ==
  LET s == n % Bits(w)
  IN  CASE op = "shl"   -> Wrap(w, x * 2^s)
        [] op = "shr_s" -> Wrap(w, Signed(w, x) \div 2^s)
        [] op = "shr_u" -> x \div 2^s
        [] op = "rotl"  -> (x % 2^(Bits(w) - s)) * 2^s + x \div 2^(Bits(w) - s)
        [] op = "rotr"  -> (x % 2^s) * 2^(Bits(w) - s) + x \div 2^s

\* Division rounds towards zero; the remainder has the sign of the dividend.
Quotient(m, n) == LET q == (IF m < 0 THEN -m ELSE m) \div (IF n < 0 THEN -n ELSE n)
                  IN  IF (m < 0) # (n < 0) THEN -q ELSE q

Divided(w, op, sign, x, y) ==
  LET m == IntOf(w, sign, x)
      n == IntOf(w, sign, y)
  IN  IF n = 0 THEN DivideByZero
      ELSE IF op = "rem" THEN <<Wrap(w, m - n * Quotient(m, n))>>
      ELSE IF Quotient(m, n) = Half(w) /\ sign = "s" THEN IntOverflow
      ELSE <<Wrap(w, Quotient(m, n))>>

\* A float as an integer of i bytes, when its whole part is one.
Converted(f, i, sign, x) ==
  IF IsNaN(f, x) THEN InvalidConv
  ELSE IF \/ Exponent(f, x) = ExpTop
          \/ IntOf(i, sign, Wrap(i, Whole(f, x))) # Whole(f, x)
       THEN IntOverflow
       ELSE <<Wrap(i, Whole(f, x))>>

Saturated(f, i, sign, x) == IF IsNaN(f, x) THEN 0 ELSE Clamp(i, sign, Whole(f, x))

\* r may be the minimum or the maximum of x and y: a quiet NaN if either is
\* one, and a zero of the right sign when both are zeros.
MayBeExtreme(w, op, x, y, r) ==
  IF IsNaN(w, x) \/ IsNaN(w, y) THEN IsNaN(w, r) /\ IsQuiet(w, r)
  ELSE LET pick == IF Value(w, x) # Value(w, y)
                   THEN IF (Value(w, x) < Value(w, y)) = (op = "min") THEN x ELSE y
                   ELSE IF Negative(w, x) = (op = "min") THEN x ELSE y
       IN  r = pick

\* The pseudo minimum and maximum: what the comparison of y with x selects.
PseudoExtreme(w, op, x, y) ==
  IF FloatCompared(w, IF op = "pmin" THEN "lt" ELSE "gt", y, x) THEN y ELSE x
================================================================================
