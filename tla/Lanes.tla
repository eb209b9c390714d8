--------------------------------- MODULE Lanes ---------------------------------
(***************************************************************************)
(* The lane operations of WebAssembly's vectors as the transpiled program  *)
(* computes them (src/internal/codegen/helpers/simd_scalar.go): a vector   *)
(* is taken apart into an array of lanes, a loop makes each lane of the    *)
(* result, and the array is put together again; the operations on 64-bit   *)
(* lanes work on the two words themselves.                                 *)
(*                                                                         *)
(* I8 ... F64 are the widths of the lanes in bytes.  The floating-point    *)
(* operations that are one call of Go's arithmetic or math package (add,   *)
(* sqrt, ceil, ...) and the f16 conversion are left out.                   *)
(*                                                                         *)
(* The second half is how the helpers reach the linear memory.             *)
(***************************************************************************)
EXTENDS Numbers, Bitwise

CONSTANTS I8, I16, I32, I64, F32, F64

ASSUME LanesAssumption ==
  /\ {I8, I16, I32, I64, F32, F64} \subseteq 1..WordBytes
  /\ I16 = 2 * I8 /\ I32 = 2 * I16 /\ I64 = WordBytes

PerWord(w) == WordBytes \div w
Count(w)   == 2 * PerWord(w)
Indices(w) == 0..Count(w) - 1

\* The lanes of a vector: r[i] = uintN(v[i / n] >> (bits * (i % n))).
ToLanes(w, v) ==
  [i \in Indices(w) |->
     Wrap(w, v[i \div PerWord(w) + 1] \div 2^(Bits(w) * (i % PerWord(w))))]

\* Mutant: the lanes of a word go in from the top.
FromLanesTop(w, r) ==
  LET word(k) == SumOf(PerWord(w), LAMBDA i : r[k * PerWord(w) + PerWord(w) - 1 - i] * 2^(Bits(w) * i))
  IN  <<word(0), word(1)>>

\* The vector of an array of lanes: v[i / n] |= uint64(x) << (bits * (i % n)).
FromLanes(w, r) ==
  LET word(k) == SumOf(PerWord(w), LAMBDA i : r[k * PerWord(w) + i] * 2^(Bits(w) * i))
  IN  <<word(0), word(1)>>

\* simdBoolLane64, and the ^uintN(0) of the comparison loops.
BoolLane(w, holds) == IF holds THEN Ones(w) ELSE 0

\* simdSatI8, simdSatI16, simdSatI16From32: the clamps, into the bits of a lane.
SatS(w, x) ==
  IF x > Half(w) - 1 THEN Half(w) - 1 ELSE IF x < -Half(w) THEN Half(w) ELSE Wrap(w, x)

SatU(w, x) == IF x > Ones(w) THEN Ones(w) ELSE IF x < 0 THEN 0 ELSE Wrap(w, x)

(***************************************************************************)
(* Shuffles, splats and single lanes.                                      *)
(***************************************************************************)
simd_i8x16_shuffle(a, b, pat) ==
  LET ab == ToLanes(I8, a)
      bb == ToLanes(I8, b)
      pb == ToLanes(I8, pat)
  IN  FromLanes(I8, [i \in Indices(I8) |->
        IF pb[i] < Count(I8) THEN ab[pb[i]]
        ELSE IF pb[i] < 2 * Count(I8) THEN bb[pb[i] - Count(I8)] ELSE 0])

simd_i8x16_swizzle(a, s) ==
  LET ab == ToLanes(I8, a)
      sb == ToLanes(I8, s)
  IN  FromLanes(I8, [i \in Indices(I8) |-> IF sb[i] < Count(I8) THEN ab[sb[i]] ELSE 0])

Splat(w, x) ==
  IF w = WordBytes THEN <<x, x>> ELSE FromLanes(w, [i \in Indices(w) |-> Wrap(w, x)])

\* The lane as an integer of the type the instruction pushes.
ExtractLane(w, sign, v, lane) ==
  LET x == IF w = WordBytes THEN v[lane + 1] ELSE ToLanes(w, v)[lane]
  IN  IF sign = "s" THEN Wrap(WordBytes, Signed(w, x)) ELSE x

ReplaceLane(w, v, lane, x) ==
  IF w = WordBytes THEN [v EXCEPT ![lane + 1] = x]
  ELSE FromLanes(w, [ToLanes(w, v) EXCEPT ![lane] = Wrap(w, x)])

(***************************************************************************)
(* Operations on the bits of the words.                                    *)
(***************************************************************************)
WordNot(x) == Ones(WordBytes) - x

V128Bits(op, a, b, c) ==
  LET word(x, y, z) ==
        CASE op = "not"       -> WordNot(x)
          [] op = "and"       -> x & y
          [] op = "andnot"    -> x & WordNot(y)
          [] op = "or"        -> x | y
          [] op = "xor"       -> x ^^ y
          [] op = "bitselect" -> (x & z) | (y & WordNot(z))
  IN  <<word(a[1], b[1], c[1]), word(a[2], b[2], c[2])>>

simd_v128_any_true(a) == IF a[1] | a[2] # 0 THEN 1 ELSE 0

(***************************************************************************)
(* Comparisons: all ones where the relation holds.                         *)
(***************************************************************************)
Relates(rel, x, y) ==
  CASE rel = "eq" -> x = y
    [] rel = "ne" -> x # y
    [] rel = "lt" -> x < y
    [] rel = "gt" -> x > y
    [] rel = "le" -> x <= y
    [] rel = "ge" -> x >= y

Read(w, sign, x) == IF sign = "s" THEN Signed(w, x) ELSE x

CompareLanes(w, rel, sign, a, b) ==
  LET av == ToLanes(w, a)
      bv == ToLanes(w, b)
  IN  FromLanes(w, [i \in Indices(w) |->
        BoolLane(w, Relates(rel, Read(w, sign, av[i]), Read(w, sign, bv[i])))])

I8Compare(rel, sign, a, b)  == CompareLanes(I8, rel, sign, a, b)
I16Compare(rel, sign, a, b) == CompareLanes(I16, rel, sign, a, b)
I32Compare(rel, sign, a, b) == CompareLanes(I32, rel, sign, a, b)

I64Compare(rel, sign, a, b) ==
  LET lane(x, y) == BoolLane(I64, Relates(rel, Read(I64, sign, x), Read(I64, sign, y)))
  IN  <<lane(a[1], b[1]), lane(a[2], b[2])>>

\* Go's comparison of floats: a NaN is different from everything.
FloatRelates(w, rel, x, y) ==
  IF IsNaN(w, x) \/ IsNaN(w, y) THEN rel = "ne"
  ELSE Relates(rel, Value(w, x), Value(w, y))

F32Compare(rel, a, b) ==
  LET av == ToLanes(F32, a)
      bv == ToLanes(F32, b)
  IN  FromLanes(F32, [i \in Indices(F32) |->
        BoolLane(F32, FloatRelates(F32, rel, av[i], bv[i]))])

F64Compare(rel, a, b) ==
  <<BoolLane(F64, FloatRelates(F64, rel, a[1], b[1])),
    BoolLane(F64, FloatRelates(F64, rel, a[2], b[2]))>>

(***************************************************************************)
(* Integer arithmetic.                                                     *)
(***************************************************************************)
ArithLane(w, op, sign, x, y) ==
  LET m == Read(w, sign, x)
      n == Read(w, sign, y)
  IN  CASE op = "add" -> Wrap(w, x + y)
        [] op = "sub" -> Wrap(w, x - y)
        [] op = "mul" -> Times(w, x, y)
        [] op = "min" -> IF m < n THEN x ELSE y
        [] op = "max" -> IF m > n THEN x ELSE y
        [] op = "abs" -> Wrap(w, IF Signed(w, x) < 0 THEN -Signed(w, x) ELSE Signed(w, x))
        [] op = "neg" -> Wrap(w, -x)

ArithLanes(w, op, sign, a, b) ==
  LET av == ToLanes(w, a)
      bv == ToLanes(w, b)
  IN  FromLanes(w, [i \in Indices(w) |-> ArithLane(w, op, sign, av[i], bv[i])])

I8Arith(op, sign, a, b)  == ArithLanes(I8, op, sign, a, b)
I16Arith(op, sign, a, b) == ArithLanes(I16, op, sign, a, b)
I32Arith(op, sign, a, b) == ArithLanes(I32, op, sign, a, b)

I64Arith(op, a, b) ==
  <<ArithLane(I64, op, "s", a[1], b[1]), ArithLane(I64, op, "s", a[2], b[2])>>

\* all_true returns at the first zero lane; bitmask collects the sign bits.
TestLanes(w, op, a) ==
  LET av == ToLanes(w, a)
  IN  IF op = "all_true" THEN IF \E i \in Indices(w) : av[i] = 0 THEN 0 ELSE 1
      ELSE SumOf(Count(w), LAMBDA i : IF Signed(w, av[i]) < 0 THEN 2^i ELSE 0)

I8Test(op, a)  == TestLanes(I8, op, a)
I16Test(op, a) == TestLanes(I16, op, a)
I32Test(op, a) == TestLanes(I32, op, a)

I64Test(op, a) ==
  IF op = "all_true" THEN IF a[1] # 0 /\ a[2] # 0 THEN 1 ELSE 0
  ELSE (IF Signed(I64, a[1]) < 0 THEN 1 ELSE 0) + (IF Signed(I64, a[2]) < 0 THEN 2 ELSE 0)

\* Mutant: the count of a shift is not taken modulo the lane.
ShiftLaneFar(w, op, x, sh) ==
  IF sh < 0 \/ sh >= Bits(w) THEN 0 ELSE
  CASE op = "shl"   -> Wrap(w, x * 2^sh)
    [] op = "shr_s" -> Wrap(w, Signed(w, x) \div 2^sh)
    [] op = "shr_u" -> x \div 2^sh

\* sh := uint(s) % bits, then the lane shifted.
ShiftLane(w, op, x, s) ==
  LET sh == s % Bits(w)
  IN  CASE op = "shl"   -> Wrap(w, x * 2^sh)
        [] op = "shr_s" -> Wrap(w, Signed(w, x) \div 2^sh)
        [] op = "shr_u" -> x \div 2^sh

ShiftLanes(w, op, a, s) ==
  LET av == ToLanes(w, a) IN FromLanes(w, [i \in Indices(w) |-> ShiftLane(w, op, av[i], s)])

I8Shift(op, a, s)  == ShiftLanes(I8, op, a, s)
I16Shift(op, a, s) == ShiftLanes(I16, op, a, s)
I32Shift(op, a, s) == ShiftLanes(I32, op, a, s)
I64Shift(op, a, s) == <<ShiftLane(I64, op, a[1], s), ShiftLane(I64, op, a[2], s)>>

(***************************************************************************)
(* Saturating and rounding arithmetic.                                     *)
(***************************************************************************)
SatLane(w, op, sign, x, y) ==
  CASE op = "add_sat" -> IF sign = "s" THEN SatS(w, Signed(w, x) + Signed(w, y))
                         ELSE SatU(w, x + y)
    [] op = "sub_sat" -> IF sign = "s" THEN SatS(w, Signed(w, x) - Signed(w, y))
                         ELSE SatU(w, x - y)
    [] op = "avgr" -> (x + y + 1) \div 2

SatLanes(w, op, sign, a, b) ==
  LET av == ToLanes(w, a)
      bv == ToLanes(w, b)
  IN  FromLanes(w, [i \in Indices(w) |-> SatLane(w, op, sign, av[i], bv[i])])

I8Sat(op, sign, a, b)  == SatLanes(I8, op, sign, a, b)
I16Sat(op, sign, a, b) == SatLanes(I16, op, sign, a, b)

simd_i8x16_popcnt(a) ==
  LET av == ToLanes(I8, a)
  IN  FromLanes(I8, [i \in Indices(I8) |->
        Cardinality({k \in 0..Bits(I8) - 1 : (av[i] & 2^k) # 0})])

simd_i16x8_q15mulr_sat_s(a, b) ==
  LET av == ToLanes(I16, a)
      bv == ToLanes(I16, b)
  IN  FromLanes(I16, [i \in Indices(I16) |->
        SatS(I16, (Signed(I16, av[i]) * Signed(I16, bv[i]) + Half(I16) \div 2) \div Half(I16))])

(***************************************************************************)
(* Narrowing and widening.                                                 *)
(***************************************************************************)
NarrowLanes(w, sign, a, b) ==
  LET av == ToLanes(2 * w, a)
      bv == ToLanes(2 * w, b)
      half == Count(2 * w)
      sat(x) == IF sign = "s" THEN SatS(w, Signed(2 * w, x)) ELSE SatU(w, Signed(2 * w, x))
  IN  FromLanes(w, [i \in Indices(w) |-> IF i < half THEN sat(av[i]) ELSE sat(bv[i - half])])

I8Narrow(sign, a, b)  == NarrowLanes(I8, sign, a, b)
I16Narrow(sign, a, b) == NarrowLanes(I16, sign, a, b)

\* The lanes of the low or the high half, at twice the width.
Half0(w, half) == IF half = "high" THEN Count(2 * w) ELSE 0

ExtendLanes(w, half, sign, a) ==
  LET av == ToLanes(w, a)
  IN  FromLanes(2 * w, [i \in Indices(2 * w) |->
        Wrap(2 * w, Read(w, sign, av[i + Half0(w, half)]))])

I16Extend(half, sign, a) == ExtendLanes(I8, half, sign, a)
I32Extend(half, sign, a) == ExtendLanes(I16, half, sign, a)
I64Extend(half, sign, a) == ExtendLanes(WordBytes \div 2, half, sign, a)

ExtAddLanes(w, sign, a) ==
  LET av == ToLanes(w, a)
  IN  FromLanes(2 * w, [i \in Indices(2 * w) |->
        Wrap(2 * w, Read(w, sign, av[2 * i]) + Read(w, sign, av[2 * i + 1]))])

I16ExtAdd(sign, a) == ExtAddLanes(I8, sign, a)
I32ExtAdd(sign, a) == ExtAddLanes(I16, sign, a)

ExtMulLanes(w, half, sign, a, b) ==
  LET av == ToLanes(w, a)
      bv == ToLanes(w, b)
      k  == Half0(w, half)
  IN  FromLanes(2 * w, [i \in Indices(2 * w) |->
        Wrap(2 * w, Read(w, sign, av[i + k]) * Read(w, sign, bv[i + k]))])

I16ExtMul(half, sign, a, b) == ExtMulLanes(I8, half, sign, a, b)
I32ExtMul(half, sign, a, b) == ExtMulLanes(I16, half, sign, a, b)
I64ExtMul(half, sign, a, b) == ExtMulLanes(WordBytes \div 2, half, sign, a, b)

simd_i32x4_dot_i16x8_s(a, b) ==
  LET av == ToLanes(I16, a)
      bv == ToLanes(I16, b)
      p(i) == Signed(I16, av[i]) * Signed(I16, bv[i])
  IN  FromLanes(I32, [i \in Indices(I32) |-> Wrap(I32, p(2 * i) + p(2 * i + 1))])

(***************************************************************************)
(* Floats.                                                                 *)
(***************************************************************************)
\* Which NaN a minimum or maximum hands on, and always quiet: the first
\* signalling one, else the first quiet one.
PropNaN(w, a, b) ==
  LET sig(x)   == IsNaN(w, x) /\ ~IsQuiet(w, x)
      hush(x)  == x | Quiet(w)
  IN  IF sig(a) THEN hush(a) ELSE IF sig(b) THEN hush(b)
      ELSE IF IsNaN(w, a) THEN a ELSE b

FMin(w, a, b) ==
  IF IsNaN(w, a) \/ IsNaN(w, b) THEN PropNaN(w, a, b)
  ELSE IF Value(w, a) = Value(w, b) THEN IF Negative(w, a) THEN a ELSE b
  ELSE IF Value(w, a) < Value(w, b) THEN a ELSE b

FMax(w, a, b) ==
  IF IsNaN(w, a) \/ IsNaN(w, b) THEN PropNaN(w, a, b)
  ELSE IF Value(w, a) = Value(w, b) THEN IF Negative(w, a) THEN b ELSE a
  ELSE IF Value(w, a) > Value(w, b) THEN a ELSE b

ExtremeLane(w, op, x, y) ==
  CASE op = "min"  -> FMin(w, x, y)
    [] op = "max"  -> FMax(w, x, y)
    [] op = "pmin" -> IF FloatRelates(w, "lt", y, x) THEN y ELSE x
    [] op = "pmax" -> IF FloatRelates(w, "lt", x, y) THEN y ELSE x

F32Extreme(op, a, b) ==
  LET av == ToLanes(F32, a)
      bv == ToLanes(F32, b)
  IN  FromLanes(F32, [i \in Indices(F32) |-> ExtremeLane(F32, op, av[i], bv[i])])

F64Extreme(op, a, b) ==
  <<ExtremeLane(F64, op, a[1], b[1]), ExtremeLane(F64, op, a[2], b[2])>>

\* u &^ 1 << 31 and u ^ 1 << 31.
SignLane(w, op, x) ==
  IF op = "abs" THEN Magnitude(w, x)
  ELSE IF Negative(w, x) THEN x - Half(w) ELSE x + Half(w)

F32Sign(op, a) ==
  LET u == ToLanes(F32, a) IN FromLanes(F32, [i \in Indices(F32) |-> SignLane(F32, op, u[i])])

F64Sign(op, a) == <<SignLane(F64, op, a[1]), SignLane(F64, op, a[2])>>

\* A 32-bit integer lane beside floats is as wide as an f32.
simdTruncSatI32(f, x) ==
  IF IsNaN(f, x) THEN 0
  ELSE IF Whole(f, x) >= Half(F32) - 1 THEN Half(F32) - 1
  ELSE IF Whole(f, x) <= -Half(F32) THEN Half(F32)
  ELSE Wrap(F32, Whole(f, x))

simdTruncSatU32(f, x) ==
  IF IsNaN(f, x) THEN 0
  ELSE IF Whole(f, x) >= Ones(F32) THEN Ones(F32)
  ELSE IF Whole(f, x) <= 0 THEN 0
  ELSE Wrap(F32, Whole(f, x))

TruncSatLane(f, sign, x) == IF sign = "s" THEN simdTruncSatI32(f, x) ELSE simdTruncSatU32(f, x)

F32TruncSat(sign, a) ==
  LET av == ToLanes(F32, a)
  IN  FromLanes(F32, [i \in Indices(F32) |-> TruncSatLane(F32, sign, av[i])])

\* The two results go to the low half, and the high half is zero.
F64TruncSatZero(sign, a) ==
  FromLanes(F32, [i \in Indices(F32) |-> IF i < 2 THEN TruncSatLane(F64, sign, a[i + 1]) ELSE 0])

(***************************************************************************)
(* How the helpers of src/internal/codegen/helpers/helpers.go reach the    *)
(* linear memory: effective addresses and their checks, the vector loads   *)
(* and stores, and the byte loops of the bulk instructions.                *)
(*                                                                         *)
(* A memory is a function on 0 .. n - 1; size is m.memSize, which a shared *)
(* memory's array may exceed.  The sum of a 32-bit address and a 32-bit    *)
(* offset is computed in 64 bits and does not wrap; 64-bit sums do, at     *)
(* WideMod.  The operators that load return the words of a vector.         *)
(***************************************************************************)
CONSTANT WideMod    \* 2^64

ASSUME AccessesAssumption == WideMod \in Nat \ {0}

NoAddress == -1

\* simdEA, and the slice bounds of the mload, mstore and mcopy helpers.
simdEA(size, addr, offset, n) ==
  IF addr + offset + n > size THEN NoAddress ELSE addr + offset

simdEA64(size, addr, offset, n) ==
  LET ea  == (addr + offset) % WideMod
      end == (ea + n) % WideMod
  IN  IF ea < addr \/ end < ea \/ end > size THEN NoAddress ELSE ea

\* *(*uintN)(p), little-endian, and its counterpart.
ReadInt(mem, ea, n) == SumOf(n, LAMBDA j : mem[ea + j] * Mod(j))

WriteInt(mem, ea, n, x) ==
  [k \in DOMAIN mem |-> IF k \in ea..ea + n - 1 THEN Wrap(1, x \div Mod(k - ea)) ELSE mem[k]]

(***************************************************************************)
(* Vector loads: what is found at ea.                                      *)
(***************************************************************************)
LoadV128(mem, ea) ==
  <<ReadInt(mem, ea, WordBytes), ReadInt(mem, ea + WordBytes, WordBytes)>>

\* load8x8, load16x4, load32x2: out[i * 2w / word] |= uint2w(x) << ...
LoadWiden(mem, ea, w, sign) ==
  FromLanes(2 * w, [i \in Indices(2 * w) |->
    Wrap(2 * w, Read(w, sign, ReadInt(mem, ea + w * i, w)))])

\* simd_m64_widen: one word is loaded and shifted.
LoadWiden64(mem, ea, w, sign) ==
  LET x == ReadInt(mem, ea, WordBytes)
      lane(i) == Wrap(2 * w, Read(w, sign, Wrap(w, x \div 2^(Bits(w) * i))))
  IN  FromLanes(2 * w, [i \in Indices(2 * w) |-> lane(i)])

LoadSplat(mem, ea, w) == FromLanes(w, [i \in Indices(w) |-> ReadInt(mem, ea, w)])

\* The word is the lane times 0x01...01.
LoadSplat64(mem, ea, w) ==
  LET ones == SumOf(PerWord(w), LAMBDA i : 2^(Bits(w) * i))
      word == ReadInt(mem, ea, w) * ones
  IN  <<word, word>>

LoadZero(mem, ea, w) == <<ReadInt(mem, ea, w), 0>>

\* v[i] &^ (ones << sh) | x << sh
LoadLane(mem, ea, w, lane, v) ==
  LET sh == (Bits(w) * lane) % Bits(WordBytes)
      i  == (lane * w) \div WordBytes + 1
      ones == Ones(w) * 2^sh
  IN  [v EXCEPT ![i] = (v[i] & WordNot(ones)) | (ReadInt(mem, ea, w) * 2^sh)]

StoreV128(mem, ea, v) ==
  WriteInt(WriteInt(mem, ea, WordBytes, v[1]), ea + WordBytes, WordBytes, v[2])

StoreLane(mem, ea, w, lane, v) ==
  LET sh == (Bits(w) * lane) % Bits(WordBytes)
      i  == (lane * w) \div WordBytes + 1
  IN  WriteInt(mem, ea, w, Wrap(w, v[i] \div 2^sh))

(***************************************************************************)
(* Bulk instructions, on a slice that has been checked.                    *)
(***************************************************************************)
\* Mutant: byte by byte from the front, so that an overlap is copied again.
CopyBytesForward(mem, dst, src, n) ==
  LET byte[j \in 0..n - 1] ==
        IF src + j \in dst..dst + j - 1 THEN byte[src + j - dst] ELSE mem[src + j]
  IN  [k \in DOMAIN mem |-> IF k \in dst..dst + n - 1 THEN byte[k - dst] ELSE mem[k]]

\* Go's copy: as if the source were read before anything is written.
CopyBytes(mem, dst, src, n) ==
  [k \in DOMAIN mem |-> IF k \in dst..dst + n - 1 THEN mem[src + k - dst] ELSE mem[k]]

\* memoryFill: zeros one by one, another byte by doubling what is filled.
RECURSIVE Doubled(_, _, _, _)
Doubled(mem, dst, filled, n) ==
  IF filled >= n THEN mem
  ELSE Doubled(CopyBytes(mem, dst + filled, dst, IF filled < n - filled THEN filled ELSE n - filled),
               dst, 2 * filled, n)

FillBytes(mem, dst, val, n) ==
  LET v == Wrap(1, val)
  IN  IF v = 0 THEN [k \in DOMAIN mem |-> IF k \in dst..dst + n - 1 THEN 0 ELSE mem[k]]
      ELSE Doubled([mem EXCEPT ![dst] = v], dst, 1, n)

(***************************************************************************)
(* Scalar accesses: mload8s .. mloadF64, mstore8 .. mstoreF64.  A value is *)
(* two words, the low one first, of which an i32 has the first.            *)
(***************************************************************************)
\* Go checks the index against the length of the slice.
SliceEA(mem, addr, offset, n) ==
  IF addr + offset + n > Cardinality(DOMAIN mem) THEN NoAddress ELSE addr + offset

\* int32(int16(x)), int64(int16(x)), int64(uint32(x)) ...
Converted64(w, sign, x) ==
  LET n == Read(w, sign, x) IN <<Wrap(WordBytes, n), IF n < 0 THEN Ones(WordBytes) ELSE 0>>

LoadScalar(mem, ea, t, w, sign) ==
  IF w = 2 * WordBytes THEN LoadV128(mem, ea)
  ELSE SubSeq(Converted64(w, sign, ReadInt(mem, ea, w)), 1, IF t = "i32" THEN 1 ELSE 2)

StoreScalar(mem, ea, w, v) ==
  IF w = 2 * WordBytes THEN StoreV128(mem, ea, v) ELSE WriteInt(mem, ea, w, Wrap(w, v[1]))

(***************************************************************************)
(* Atomic accesses, as one agent makes them (AtomicRmw has several).  A    *)
(* word of WordBytes bytes is the uint32 of the helpers, and the uint64 of *)
(* the twins that differ from theirs in nothing else.  Each core is the    *)
(* pair of what it found and what it leaves in the word.                   *)
(***************************************************************************)
\* wasm_trap_atomic_unaligned
Unaligned == <<-5>>

IsAligned(ea, n) == (ea & (n - 1)) = 0

\* The closures the wrappers pass, in the arithmetic of the word.
AtomicOp(op, old, v) ==
  CASE op = "load" -> old
    [] op \in {"store", "xchg"} -> v
    [] op = "add" -> Wrap(WordBytes, old + v)
    [] op = "sub" -> Wrap(WordBytes, old - v)
    [] op = "and" -> old & v
    [] op = "or"  -> old | v
    [] op = "xor" -> old ^^ v

\* (cur >> shift) & mask, and (cur &^ (mask << shift)) | ((x & mask) << shift)
LaneIn(cur, w, shift) == (cur \div 2^shift) & Ones(w)

WithLane(cur, w, shift, x) == (cur & WordNot(Ones(w) * 2^shift)) | ((x & Ones(w)) * 2^shift)

atomicSubword32(cur, w, shift, op, v) ==
  LET lane == LaneIn(cur, w, shift)
  IN  <<lane, WithLane(cur, w, shift, AtomicOp(op, lane, v))>>

atomicCmpxchgSubword(cur, w, shift, expected, v) ==
  LET lane == LaneIn(cur, w, shift)
  IN  <<lane, IF lane = (expected & Ones(w)) THEN WithLane(cur, w, shift, v) ELSE cur>>

\* The full-width cores.  A contended add gets the new value and takes the
\* operand away again; a subtraction adds the negated operand.
atomicRmwAt(cur, op, v, contended) ==
  LET d    == IF op = "sub" THEN Wrap(WordBytes, -v) ELSE v
      sum  == Wrap(WordBytes, cur + d)
  IN  IF contended /\ op \in {"add", "sub"} THEN <<Wrap(WordBytes, sum - d), sum>>
      ELSE <<cur, AtomicOp(op, cur, v)>>

atomicRmwCmpxchgAt(cur, expected, v) == <<cur, IF cur = expected THEN v ELSE cur>>

\* The core an operation of w bytes takes, of the i32 or the i64 instruction,
\* whose operands are cut to a uint32.
AtomicCore(cur, w, shift, op, expected, v, contended) ==
  LET x == Wrap(WordBytes, v)
      e == Wrap(WordBytes, expected)
  IN  IF w < WordBytes
      THEN IF op = "cmpxchg" THEN atomicCmpxchgSubword(cur, w, shift, e, x)
           ELSE atomicSubword32(cur, w, shift, op, x)
      ELSE IF op = "cmpxchg" THEN atomicRmwCmpxchgAt(cur, e, x)
           ELSE atomicRmwAt(cur, op, x, contended)
================================================================================
