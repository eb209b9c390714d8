-------------------------------- MODULE Scalars --------------------------------
(***************************************************************************)
(* The scalar numeric helpers (src/internal/codegen/helpers/helpers.go):   *)
(* division with its traps, shifts, conversions of floats, minima and      *)
(* maxima.  w, f and i are widths in bytes; the 32-bit helper and its      *)
(* 64-bit twin are one definition.  RotateLeft is Go's; the float          *)
(* arithmetic and rounding that is one call of Go's is left out.           *)
(***************************************************************************)
EXTENDS Numbers

\* Go's / and % on signed integers: towards zero.
Abs(n)     == IF n < 0 THEN -n ELSE n
GoDiv(m, n) == IF (m < 0) = (n < 0) THEN Abs(m) \div Abs(n) ELSE -(Abs(m) \div Abs(n))
GoRem(m, n) == IF m < 0 THEN -(Abs(m) % Abs(n)) ELSE Abs(m) % Abs(n)

DivS(w, x, y) ==
  LET m == Signed(w, x)
      n == Signed(w, y)
  IN  IF n = -1 /\ m = -Half(w) THEN IntOverflow
      ELSE IF n = 0 THEN DivideByZero
      ELSE <<Wrap(w, GoDiv(m, n))>>

DivU(w, x, y) == IF y = 0 THEN DivideByZero ELSE <<x \div y>>

RemS(w, x, y) ==
  LET n == Signed(w, y)
  IN  IF n = 0 THEN DivideByZero
      ELSE IF n = -1 THEN <<0>>
      ELSE <<Wrap(w, GoRem(Signed(w, x), n))>>

RemU(w, x, y) == IF y = 0 THEN DivideByZero ELSE <<x % y>>

\* The count is masked to the width, a power of two: uint32(y) & 31.
RotateLeft(w, x, k) ==
  LET s == k % Bits(w) IN (x % 2^(Bits(w) - s)) * 2^s + x \div 2^(Bits(w) - s)

Shift(w, op, x, y) ==
  LET s == y % Bits(w)
  IN  CASE op = "shl"   -> Wrap(w, x * 2^s)
        [] op = "shr_s" -> Wrap(w, Signed(w, x) \div 2^s)
        [] op = "shr_u" -> x \div 2^s
        [] op = "rotl"  -> RotateLeft(w, x, s)
        [] op = "rotr"  -> RotateLeft(w, x, -s)

\* int32(int8(x)) and its like: the low bytes with their sign.
ExtendS(from, to, x) == Wrap(to, Signed(from, Wrap(from, x)))

\* f32_min .. f64_max; math.NaN() is a quiet NaN.
GoNaN(w) == ExpTop * 2^ManBits(w) + Quiet(w)

FloatMin(w, x, y) ==
  IF IsNaN(w, x) \/ IsNaN(w, y) THEN GoNaN(w)
  ELSE IF Value(w, x) < Value(w, y) THEN x
  ELSE IF Value(w, y) < Value(w, x) THEN y
  ELSE IF Value(w, x) = 0 THEN IF Negative(w, x) THEN x ELSE y
  ELSE x

FloatMax(w, x, y) ==
  IF IsNaN(w, x) \/ IsNaN(w, y) THEN GoNaN(w)
  ELSE IF Value(w, x) > Value(w, y) THEN x
  ELSE IF Value(w, y) > Value(w, x) THEN y
  ELSE IF Value(w, x) = 0 THEN IF Negative(w, x) THEN y ELSE x
  ELSE x

\* abs, neg and copysign touch the sign bit only.
FloatSign(w, op, x, y) ==
  CASE op = "abs" -> Magnitude(w, x)
    [] op = "neg" -> Wrap(w, x + Half(w))
    [] op = "copysign" -> Magnitude(w, x) + (IF Negative(w, y) THEN Half(w) ELSE 0)

\* f32_copysign goes through float64, and the conversion quiets a NaN.
f32_copysign(w, x, y) ==
  FloatSign(w, "copysign", IF IsNaN(w, x) /\ ~IsQuiet(w, x) THEN x + Quiet(w) ELSE x, y)

FloatCompare(w, rel, x, y) ==
  LET nan == IsNaN(w, x) \/ IsNaN(w, y)
      m == Value(w, x)
      n == Value(w, y)
      holds == CASE rel = "eq" -> ~nan /\ m = n
                 [] rel = "ne" -> nan \/ m # n
                 [] rel = "lt" -> ~nan /\ m < n
                 [] rel = "gt" -> ~nan /\ m > n
                 [] rel = "le" -> ~nan /\ m <= n
                 [] rel = "ge" -> ~nan /\ m >= n
  IN  IF holds THEN 1 ELSE 0

(***************************************************************************)
(* Float to integer, trapping.  The bounds are floats: low and high units  *)
(* of the least float, both exclusive unless said otherwise.               *)
(***************************************************************************)
TruncBetween(f, i, x, inside) ==
  IF IsNaN(f, x) THEN InvalidConv
  ELSE IF ~inside THEN IntOverflow
  ELSE <<Wrap(i, Whole(f, x))>>

\* The next float below -2^(n-1), of an integer type of more bits than the
\* mantissa has: -2147483904.0 for i32.trunc_f32_s.
BelowMin(f, i) == -(Half(i) + Half(i) \div 2^ManBits(f)) * One(f)

\* i32.trunc_f32_s, i64.trunc_f32_s
TruncNarrowS(f, i, x) ==
  TruncBetween(f, i, x, Value(f, x) > BelowMin(f, i) /\ Value(f, x) < Half(i) * One(f))

\* Mutant: the closed bound the comment at helpers.go:437 tells of.
TruncWideSClosed(f, i, x) ==
  TruncBetween(f, i, x, Value(f, x) >= -Half(i) * One(f) /\ Value(f, x) < Half(i) * One(f))

\* i32.trunc_f64_s
TruncWideS(f, i, x) ==
  TruncBetween(f, i, x, Value(f, x) > -(Half(i) + 1) * One(f) /\ Value(f, x) < Half(i) * One(f))

\* i64.trunc_f64_s
TruncEqualS(f, i, x) ==
  TruncBetween(f, i, x, Value(f, x) >= -Half(i) * One(f) /\ Value(f, x) < Half(i) * One(f))

\* i32.trunc_f32_u, i32.trunc_f64_u, i64.trunc_f32_u, i64.trunc_f64_u
TruncU(f, i, x) ==
  TruncBetween(f, i, x, Value(f, x) > -One(f) /\ Value(f, x) < Mod(i) * One(f))

TruncSatS(f, i, x) ==
  IF IsNaN(f, x) THEN 0
  ELSE IF Value(f, x) <= -Half(i) * One(f) THEN Half(i)
  ELSE IF Value(f, x) >= Half(i) * One(f) THEN Half(i) - 1
  ELSE Wrap(i, Whole(f, x))

TruncSatU(f, i, x) ==
  IF IsNaN(f, x) \/ Value(f, x) <= 0 THEN 0
  ELSE IF Value(f, x) >= Mod(i) * One(f) THEN Ones(i)
  ELSE Whole(f, x)
================================================================================
