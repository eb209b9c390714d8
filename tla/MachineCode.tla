------------------------------ MODULE MachineCode ------------------------------
(***************************************************************************)
(* The numeric and memory instructions of WebAssembly from the lowering    *)
(* (src/internal/lower/lower.go) to what the Go back end                   *)
(* (src/internal/codegen/emit_ssa.go) and the assembler back ends          *)
(* (src/internal/asmgen/emit_archs.go for amd64, emitarm64.go for arm64)   *)
(* write for them, and a processor that runs it, all bit for bit; AsmEmit  *)
(* models the operations the programs of Compiler are made of on values    *)
(* without width.                                                          *)
(*                                                                         *)
(* An instruction is its type and its name after the dot: i32.div_u is     *)
(* "i32" and "div_u".  Numbers are those of module Numbers; Cells says how *)
(* many bytes of that module a type has.  What an operation delivers is a  *)
(* sequence, as there: <<number>> or the name of a trap.                   *)
(***************************************************************************)
EXTENDS WasmNumbers, Scalars, SequencesExt, Bitwise

CONSTANTS
  Cells,             \* bytes of i8, i16, i32, i64, f32 and f64
  IEEE(_, _, _, _)   \* IEEE(op, w, x, y): a rounded operation on floats of w bytes

IntTypes   == {"i32", "i64"}
FloatTypes == {"f32", "f64"}

\* An integer relation as the comparison and the reading of its operands.
IntRelation == [
  eq |-> <<"eq", "u">>, ne |-> <<"ne", "u">>,
  lt_s |-> <<"lt", "s">>, lt_u |-> <<"lt", "u">>, le_s |-> <<"le", "s">>, le_u |-> <<"le", "u">>,
  gt_s |-> <<"gt", "s">>, gt_u |-> <<"gt", "u">>, ge_s |-> <<"ge", "s">>, ge_u |-> <<"ge", "u">>]

FloatRelations == {"eq", "ne", "lt", "gt", "le", "ge"}
Rounding       == {"ceil", "floor", "trunc", "nearest", "sqrt"}
FloatArith     == {"add", "sub", "mul", "div"}
Counting       == {"clz", "ctz", "popcnt"}
DivRem         == {"div_s", "div_u", "rem_s", "rem_u"}
NarrowSigns    == [extend8_s |-> "i8", extend16_s |-> "i16", extend32_s |-> "i32"]

\* What a memory access moves: the whole type, or a part of an integer.
NarrowLoads  == [load8_u |-> "i8", load8_s |-> "i8", load16_u |-> "i16", load16_s |-> "i16",
                 load32_u |-> "i32", load32_s |-> "i32"]
NarrowStores == [store8 |-> "i8", store16 |-> "i16", store32 |-> "i32"]

LoadCell(t, op)  == IF op \in DOMAIN NarrowLoads THEN NarrowLoads[op] ELSE t
StoreCell(t, op) == IF op \in DOMAIN NarrowStores THEN NarrowStores[op] ELSE t
LoadSign(op)     == IF op \in {"load8_s", "load16_s", "load32_s"} THEN "s" ELSE "u"

\* A conversion, by the type it converts and the reading of the integer.
Conversion == [
  wrap_i64 |-> <<"i64", "">>, extend_i32_s |-> <<"i32", "s">>, extend_i32_u |-> <<"i32", "u">>,
  demote_f64 |-> <<"f64", "">>, promote_f32 |-> <<"f32", "">>,
  convert_i32_s |-> <<"i32", "s">>, convert_i32_u |-> <<"i32", "u">>,
  convert_i64_s |-> <<"i64", "s">>, convert_i64_u |-> <<"i64", "u">>,
  trunc_f32_s |-> <<"f32", "s">>, trunc_f32_u |-> <<"f32", "u">>,
  trunc_f64_s |-> <<"f64", "s">>, trunc_f64_u |-> <<"f64", "u">>,
  trunc_sat_f32_s |-> <<"f32", "s">>, trunc_sat_f32_u |-> <<"f32", "u">>,
  trunc_sat_f64_s |-> <<"f64", "s">>, trunc_sat_f64_u |-> <<"f64", "u">>,
  reinterpret_f32 |-> <<"f32", "">>, reinterpret_f64 |-> <<"f64", "">>,
  reinterpret_i32 |-> <<"i32", "">>, reinterpret_i64 |-> <<"i64", "">>]

Reinterprets == {"reinterpret_f32", "reinterpret_f64", "reinterpret_i32", "reinterpret_i64"}
Extends      == {"extend_i32_s", "extend_i32_u"}
Converts     == {"convert_i32_s", "convert_i32_u", "convert_i64_s", "convert_i64_u"}
Truncates    == {"trunc_f32_s", "trunc_f32_u", "trunc_f64_s", "trunc_f64_u"}
Saturates    == {"trunc_sat_f32_s", "trunc_sat_f32_u", "trunc_sat_f64_s", "trunc_sat_f64_u"}

Unary(t, op) ==
  \/ op \in DOMAIN Conversion \cup DOMAIN NarrowSigns \cup Counting \cup {"eqz"}
  \/ t \in FloatTypes /\ op \in Rounding \cup {"abs", "neg"}

\* What conversion makes a value of type t: the source is of the other kind, or
\* of the other width.
IsInstruction(t, op) ==
  LET from == Conversion[op][1]
      int  == t \in IntTypes
  IN
  CASE op \in {"extend_i32_s", "extend_i32_u", "extend32_s"} -> t = "i64"
    [] op = "wrap_i64" -> t = "i32"
    [] op = "demote_f64" -> t = "f32"
    [] op = "promote_f32" -> t = "f64"
    [] op \in Converts -> ~int
    [] op \in Truncates \cup Saturates -> int
    [] op \in Reinterprets -> <<from, t>> \in {<<"f32", "i32">>, <<"f64", "i64">>, <<"i32", "f32">>, <<"i64", "f64">>}
    [] OTHER -> TRUE

UnaryOps(t) ==
  {op \in DOMAIN Conversion \cup (IF t \in IntTypes THEN DOMAIN NarrowSigns \cup Counting \cup {"eqz"}
                                 ELSE Rounding \cup {"abs", "neg"}) : IsInstruction(t, op)}

LoadsOf(t) ==
  {"load"} \cup (CASE t = "i32" -> {"load8_u", "load8_s", "load16_u", "load16_s"}
                  [] t = "i64" -> DOMAIN NarrowLoads [] OTHER -> {})
StoresOf(t) ==
  {"store"} \cup (CASE t = "i32" -> {"store8", "store16"} [] t = "i64" -> DOMAIN NarrowStores [] OTHER -> {})

AddressType(wide) == IF wide THEN "i64" ELSE "i32"

(***************************************************************************)
(* Arithmetic every implementation shares: the processors and Go follow    *)
(* the IEEE standard, and the same reading of an integer's bits.           *)
(***************************************************************************)
\* The integer n as a float of w bytes: to the nearest, ties to even.
Rounded(w, n) ==
  LET a    == IF n < 0 THEN -n ELSE n
      top  == CHOOSE e \in 0..30 : 2^e <= a /\ a < 2^e + 2^e
      unit == 2^(top - ManBits(w))
      up   == 2 * (a % unit) + ((a \div unit) % 2) > unit
      significand == IF top <= ManBits(w) THEN a * 2^(ManBits(w) - top)
                     ELSE a \div unit + (IF up THEN 1 ELSE 0)
      code == (top + 2^(ExpBits - 1) - 2) * 2^ManBits(w) + significand
      infinity == ExpTop * 2^ManBits(w)
  IN  IF n = 0 THEN 0
      ELSE (IF n < 0 THEN Half(w) ELSE 0) + (IF code > infinity THEN infinity ELSE code)

\* A float of another width: exact, or rounded to the nearest; a NaN is quiet.
Resized(f, t, x) ==
  LET unit == 2^(ManBits(f) - ManBits(t))
      m    == Magnitude(f, x)
      up   == 2 * (m % unit) + ((m \div unit) % 2) > unit
      size == IF f <= t THEN m * 2^(ManBits(t) - ManBits(f))
              ELSE m \div unit + (IF up THEN 1 ELSE 0)
  IN  (IF Negative(f, x) THEN Half(t) ELSE 0)
      + (IF IsNaN(f, x) THEN ExpTop * 2^ManBits(t) + Quiet(t) ELSE size)

LeadingZeros(w, x)  == IF x = 0 THEN Bits(w) ELSE Bits(w) - 1 - CHOOSE k \in 0..Bits(w) - 1 : x \div 2^k = 1
TrailingZeros(w, x) == IF x = 0 THEN Bits(w)
                       ELSE CHOOSE k \in 0..Bits(w) - 1 : x % 2^(k + 1) = 2^k
OnesCount(w, x)     == SumOf(Bits(w), LAMBDA k : BitOf(x, k))

(***************************************************************************)
(* What WebAssembly says: r may be what <<t, op>> delivers for x and y.    *)
(***************************************************************************)
AnyNaN(w, r) == Len(r) = 1 /\ IsNaN(w, r[1]) /\ IsQuiet(w, r[1])

Bit01(holds) == IF holds THEN 1 ELSE 0

MeansInt(t, op, x, y, r) ==
  LET w == Cells[t] IN
  CASE op \in {"add", "sub", "mul"} -> r = <<Arithmetic(w, op, "u", x, y)>>
    [] op = "and" -> r = <<x & y>>
    [] op = "or"  -> r = <<x | y>>
    [] op = "xor" -> r = <<x ^^ y>>
    [] op \in {"shl", "shr_s", "shr_u", "rotl", "rotr"} -> r = <<Shifted(w, op, x, y)>>
    [] op = "div_s" -> r = Divided(w, "div", "s", x, y)
    [] op = "div_u" -> r = Divided(w, "div", "u", x, y)
    [] op = "rem_s" -> r = Divided(w, "rem", "s", x, y)
    [] op = "rem_u" -> r = Divided(w, "rem", "u", x, y)
    [] op \in DOMAIN IntRelation ->
         LET rel == IntRelation[op]
         IN  r = <<Bit01(Compared(rel[1], IntOf(w, rel[2], x), IntOf(w, rel[2], y)))>>
    [] op = "eqz" -> r = <<Bit01(x = 0)>>
    [] op = "clz" -> r = <<Cardinality({k \in 0..Bits(w) - 1 : x < 2^k})>>
    [] op = "ctz" -> r = <<Cardinality({k \in 1..Bits(w) : x % 2^k = 0})>>
    [] op = "popcnt" -> r = <<Cardinality({k \in 0..Bits(w) - 1 : BitOf(x, k) = 1})>>
    [] op \in DOMAIN NarrowSigns ->
         LET n == Cells[NarrowSigns[op]] IN r = <<Wrap(w, Signed(n, Wrap(n, x)))>>

MeansFloat(t, op, x, y, r) ==
  LET w == Cells[t] IN
  CASE op \in FloatArith \cup Rounding -> r = <<IEEE(op, w, x, y)>>
    [] op \in FloatRelations -> r = <<Bit01(FloatCompared(w, op, x, y))>>
    [] op \in {"min", "max"} -> Len(r) = 1 /\ MayBeExtreme(w, op, x, y, r[1])
    [] op \in {"abs", "neg", "copysign"} ->
         /\ Len(r) = 1 /\ Magnitude(w, r[1]) = Magnitude(w, x)
         /\ Negative(w, r[1]) = (CASE op = "abs" -> FALSE
                                   [] op = "neg" -> ~Negative(w, x)
                                   [] op = "copysign" -> Negative(w, y))

MeansConversion(t, op, x, r) ==
  LET from == Cells[Conversion[op][1]]
      sign == Conversion[op][2]
      to   == Cells[t]
  IN
  CASE op \in Reinterprets -> r = <<x>>
    [] op \in Extends \cup {"wrap_i64"} -> r = <<Wrap(to, IntOf(from, sign, x))>>
    [] op \in Converts -> r = <<Rounded(to, IntOf(from, sign, x))>>
    [] op \in {"demote_f64", "promote_f32"} ->
         IF IsNaN(from, x) THEN AnyNaN(to, r) ELSE r = <<Resized(from, to, x)>>
    [] op \in Truncates -> r = Converted(from, to, sign, x)
    [] op \in Saturates -> r = <<Saturated(from, to, sign, x)>>

\* The contents of the linear memory: a pattern without short periods.
Cell(a) == (a + a \div 3 + a \div 16) % Mod(1)
Load(n, a) == SumOf(n, LAMBDA k : Cell(a + k) * Mod(k))

\* A load, a store, and a branch to "then" or "else"; the access is inside the
\* memory.  A store is the address, the number of bytes and their value.
MeansLoad(t, op, base, offset, r) ==
  LET n == Cells[LoadCell(t, op)]
  IN  r = <<Wrap(Cells[t], IntOf(n, LoadSign(op), Load(n, base + offset)))>>

MeansStore(t, op, base, offset, x, r) ==
  LET n == Cells[StoreCell(t, op)]
  IN  r = <<base + offset, n, Wrap(n, x)>>

MeansBranch(t, c, x, y, r) ==
  r = (CASE c.shape = "value" -> x # 0
         [] c.shape = "compare" -> MeansInt(t, c.op, x, y, <<1>>)
         [] c.shape = "test" -> ((x & y) = 0) <=> (c.op = "eq")
         [] c.shape = "and" -> (x & y) # 0)

\* The case the selector x names, or 0.
MeansTable(cases, x, r) ==
  IF r = 0 THEN \A i \in DOMAIN cases : \A k \in DOMAIN cases[i] : cases[i][k] # x
  ELSE \E k \in DOMAIN cases[r] : cases[r][k] = x

MeansInstruction(t, op, x, y, r) ==
  IF op \in DOMAIN Conversion THEN MeansConversion(t, op, x, r)
  ELSE IF t \in IntTypes THEN MeansInt(t, op, x, y, r)
  ELSE MeansFloat(t, op, x, y, r)

(***************************************************************************)
(* Lowering: an SSA operation of the same name, or the call of a helper.   *)
(* eqz is a comparison with the constant 0, gt and ge are lt and le of the *)
(* swapped operands, and the unsigned division has a name of its own.      *)
(***************************************************************************)
SimpleBinary == {"add", "sub", "mul", "and", "or", "xor", "shl", "shr_s", "shr_u"} \cup DOMAIN IntRelation

isSimpleBinary(t, op) == t \in IntTypes /\ op \in SimpleBinary

isGtGe(op) == op \in {"gt_s", "gt_u", "ge_s", "ge_u"}

simpleBinaryOp(op) ==
  CASE op = "gt_s" -> "lt_s" [] op = "gt_u" -> "lt_u"
    [] op = "ge_s" -> "le_s" [] op = "ge_u" -> "le_u"
    [] OTHER -> op

helperBinarySpec(op) ==
  CASE op = "div_u" -> "div_u_s" [] op = "rem_u" -> "rem_u_s" [] OTHER -> op

helperUnarySpec(op) == op

\* The k-th operand: its type, its value, and where the register allocator has
\* put it.
Operand(t, n, at, k) == [t |-> t, value |-> n, at |-> at, loc |-> <<at, k>>]

\* The operation of type t on the operands: what is called, and in which order.
Lowered(t, op, x, y) ==
  IF op = "eqz" THEN [helper |-> FALSE, op |-> "eq", x |-> x, y |-> Operand(t, 0, "const", 1)]
  ELSE IF isSimpleBinary(t, op)
       THEN [helper |-> FALSE, op |-> simpleBinaryOp(op),
             x |-> IF isGtGe(op) THEN y ELSE x, y |-> IF isGtGe(op) THEN x ELSE y]
  ELSE [helper |-> TRUE, x |-> x, y |-> y,
        op |-> IF Unary(t, op) THEN helperUnarySpec(op) ELSE helperBinarySpec(op)]

\* The parameters of a helper and its result.
helperSigs(t, op) ==
  [params |-> IF op \in DOMAIN Conversion THEN <<Conversion[op][1]>>
              ELSE IF Unary(t, op) THEN <<t>> ELSE <<t, t>>,
   ret |-> IF op = "eqz" \/ (t \in FloatTypes /\ op \in FloatRelations) THEN "i32" ELSE t]

(***************************************************************************)
(* The Go functions of the helpers (src/internal/codegen/helpers).         *)
(***************************************************************************)
GoDivRem(w, op, x, y) ==
  CASE op = "div_s" -> DivS(w, x, y) [] op = "div_u_s" -> DivU(w, x, y)
    [] op = "rem_s" -> RemS(w, x, y) [] op = "rem_u_s" -> RemU(w, x, y)

GoConvert(t, op, x) ==
  LET from == Cells[Conversion[op][1]]
      sign == Conversion[op][2]
      to   == Cells[t]
  IN
  CASE op \in Reinterprets -> <<x>>
    [] op \in Extends \cup {"wrap_i64"} -> <<Wrap(to, IntOf(from, sign, x))>>
    [] op \in Converts -> <<Rounded(to, IntOf(from, sign, x))>>
    [] op \in {"demote_f64", "promote_f32"} -> <<Resized(from, to, x)>>
    [] op \in Truncates ->
         IF sign = "u" THEN TruncU(from, to, x)
         ELSE IF Bits(to) > ManBits(from) THEN TruncNarrowS(from, to, x)
         ELSE TruncWideS(from, to, x)
    [] op \in Saturates -> <<IF sign = "u" THEN TruncSatU(from, to, x) ELSE TruncSatS(from, to, x)>>

GoHelper(t, op, x, y) ==
  LET w == Cells[t] IN
  CASE op \in DOMAIN Conversion -> GoConvert(t, op, x)
    [] op \in DOMAIN NarrowSigns -> <<ExtendS(Cells[NarrowSigns[op]], w, x)>>
    [] op = "clz" -> <<LeadingZeros(w, x)>>
    [] op = "ctz" -> <<TrailingZeros(w, x)>>
    [] op = "popcnt" -> <<OnesCount(w, x)>>
    [] op \in {"rotl", "rotr"} -> <<Shift(w, op, x, y)>>
    [] op \in {"div_s", "div_u_s", "rem_s", "rem_u_s"} -> GoDivRem(w, op, x, y)
    [] op \in FloatArith \cup Rounding -> <<IEEE(op, w, x, y)>>
    [] op \in FloatRelations -> <<FloatCompare(w, op, x, y)>>
    [] op = "min" -> <<FloatMin(w, x, y)>>
    [] op = "max" -> <<FloatMax(w, x, y)>>
    [] op = "copysign" /\ t = "f32" -> <<f32_copysign(w, x, y)>>
    [] OTHER -> <<FloatSign(w, op, x, y)>>

(***************************************************************************)
(* The Go back end: an expression on int32 or int64.  A shift count is     *)
(* taken modulo the width, an unsigned operand goes through ui32 or ui64,  *)
(* and a comparison becomes 0 or 1 through b2i32, except in a branch.      *)
(***************************************************************************)
ui(w, n)   == IF n < 0 THEN n + Mod(w) ELSE n
b2i32(b)   == IF b THEN 1 ELSE 0
GoShift(n) == 2^n

\* The Go condition of an integer comparison on signed operands.
emitBoolCond(w, op, m, n) ==
  LET rel == IntRelation[op]
  IN  IF rel[2] = "u" /\ op \notin {"eq", "ne"} THEN Compared(rel[1], ui(w, m), ui(w, n))
      ELSE Compared(rel[1], m, n)

emitShrU(w, m, n) == ui(w, m) \div GoShift(n % Bits(w))

\* binaryDirect, binaryShift, binaryBoolCmp
wrapBinary(w, op, m, n) ==
  CASE op = "add" -> m + n
    [] op = "sub" -> m - n
    [] op = "mul" -> m * n
    [] op = "and" -> ui(w, m) & ui(w, n)
    [] op = "or"  -> ui(w, m) | ui(w, n)
    [] op = "xor" -> ui(w, m) ^^ ui(w, n)
    [] op = "shl" -> m * GoShift(n % Bits(w))
    [] op = "shr_s" -> m \div GoShift(n % Bits(w))
    [] op = "shr_u" -> emitShrU(w, m, n)
    [] OTHER -> b2i32(emitBoolCond(w, op, m, n))

(***************************************************************************)
(* The Go back end's memory accesses: a typed pointer into the memory, its *)
(* element cut out of a store or extended by a load.                       *)
(***************************************************************************)
\* The offset of an access: a constant address is added up as a uint64, any
\* other as a uint32, or as a uint64 in a 64-bit memory.
memOffsetExpr(wide, a, offset) ==
  CASE wide \/ a.at = "const" -> a.value + offset
    [] OTHER -> Wrap(Cells["i32"], a.value + offset)

emitMemLoadExpr(wide, t, op, a, offset) ==
  LET n == Cells[LoadCell(t, op)]
      element == Load(n, memOffsetExpr(wide, a, offset))
  IN  <<Wrap(Cells[t], IF t \in FloatTypes \/ LoadSign(op) = "u" THEN element ELSE Signed(n, element))>>

emitMemStoreStmt(wide, t, op, a, offset, x) ==
  LET n == Cells[StoreCell(t, op)]
  IN  <<memOffsetExpr(wide, a, offset), n, Wrap(n, x)>>

\* What the Go code of an instruction delivers; the cut is the width of Go's
\* result.
GoCode(t, op, x, y) ==
  LET l == Lowered(t, op, x, y)
      w == Cells[t]
  IN  IF l.helper THEN GoHelper(t, l.op, l.x.value, l.y.value)
      ELSE <<Wrap(w, wrapBinary(w, l.op, Signed(w, l.x.value), Signed(w, l.y.value)))>>

\* The Go condition of a branch: a comparison, or any other value against 0.
GoCondition(t, c, x, y) ==
  LET w == Cells[t]
      a == Signed(w, x.value)
      b == Signed(w, y.value)
      l == Lowered(t, c.op, x, y)
  IN
  CASE c.shape = "compare" -> emitBoolCond(w, l.op, Signed(w, l.x.value), Signed(w, l.y.value))
    [] c.shape = "test" -> emitBoolCond(w, c.op, wrapBinary(w, "and", a, b), 0)
    [] c.shape = "and" -> wrapBinary(w, "and", a, b) # 0
    [] c.shape = "value" -> a # 0

\* The Go switch of a br_table.
GoSwitch(x, cases) ==
  IF \E i \in DOMAIN cases : \E k \in DOMAIN cases[i] : cases[i][k] = Signed(Cells[x.t], x.value)
  THEN CHOOSE i \in DOMAIN cases : \E k \in DOMAIN cases[i] : cases[i][k] = Signed(Cells[x.t], x.value)
  ELSE 0

(***************************************************************************)
(* Machine code.                                                           *)
(*                                                                         *)
(* A location is a register, a slot of the frame, an outgoing argument     *)
(* <<"SP", offset>>, an immediate <<"$", n>> or a cell of the linear       *)
(* memory, whose first byte is at address 0: <<"M", disp>> is disp(BX),    *)
(* <<"MX", disp>> is disp(BX)(SI*1) and <<"MR", 0>> is arm64's (R2).  An   *)
(* instruction names its type instead of a suffix: <<"ADD", "i32", s, d>>  *)
(* is ADDL s, d and <<"ADD", "i32", b, a, d>> is ADDW b, a, d.             *)
(* <<"CMP", t, a, b>> compares a with b, whatever the assembler's order.   *)
(***************************************************************************)
Reg(n) == <<n, 0>>
AX == Reg("AX")
BX == Reg("BX")
CX == Reg("CX")
DX == Reg("DX")
SI == Reg("SI")
X0 == Reg("X0")
X1 == Reg("X1")
R0 == Reg("R0")
R1 == Reg("R1")
R2 == Reg("R2")
R3 == Reg("R3")
F0 == Reg("F0")
F1 == Reg("F1")
Home == Reg("home")   \* of the result, and perhaps of the first operand
Slot == <<"dst", 0>>
Imm(n) == <<"$", n>>
Frame(n) == <<"SP", n>>

Registers == {AX, BX, CX, DX, SI, X0, X1, R0, R1, R2, R3, F0, F1}
Homes     == {Home, <<"home", 1>>}
Frames    == {Frame(n) : n \in {0, 4, 8, 12, 16, 20, 24, 28, 32}}
Slots     == {Slot} \cup ({"slot", "const"} \X (0..2)) \cup Frames
AndSlot   == <<"slot", 2>>

Width(t) == Cells[t]

(***************************************************************************)
(* The processor.  skip is the label it is on its way to, out a trap, or   *)
(* what was stored in the memory.                                          *)
(***************************************************************************)
EffectiveAddress(m, l) ==
  Wrap(Width("i64"), CASE l[1] = "M" -> l[2]
                       [] l[1] = "MX" -> m.loc[SI] + l[2]
                       [] l[1] = "MR" -> m.loc[R2])

IsMemory(l) == l[1] \in {"M", "MX", "MR"}

Read(m, t, l) ==
  CASE l[1] = "$" -> Wrap(Width(t), l[2])
    [] IsMemory(l) -> Load(Width(t), EffectiveAddress(m, l))
    [] OTHER -> Wrap(Width(t), m.loc[l])

\* A write of 32 bits clears the rest of a register; one of 8 or 16 bits, or to
\* the frame, leaves the rest.
Put(m, t, l, x) ==
  IF IsMemory(l) THEN [m EXCEPT !.out = <<EffectiveAddress(m, l), Width(t), x>>]
  ELSE [m EXCEPT !.loc[l] = IF l \in Slots \/ t \in {"i8", "i16"} THEN @ - Wrap(Width(t), @) + x ELSE x]

Holds(f, cc) ==
  CASE cc = "EQ" -> f.z
    [] cc = "NE" -> ~f.z
    [] cc = "LT" -> f.n # f.v
    [] cc = "GE" -> f.n = f.v
    [] cc = "LE" -> f.z \/ f.n # f.v
    [] cc = "GT" -> ~f.z /\ f.n = f.v
    [] cc \in {"CS", "LO"} -> f.c
    [] cc \in {"CC", "HS"} -> ~f.c
    [] cc = "LS" -> f.c \/ f.z
    [] cc = "HI" -> ~f.c /\ ~f.z
    [] cc = "MI" -> f.n
    [] cc = "PS" -> f.p
    [] cc = "PC" -> ~f.p

\* c is the borrow of a subtraction: on arm64 the carry is its complement.
IntFlags(w, a, b) ==
  LET d == Wrap(w, a - b)
  IN  [z |-> a = b, c |-> a < b, n |-> d >= Half(w), p |-> FALSE,
       v |-> Signed(w, a) - Signed(w, b) # Signed(w, d)]

FloatFlags(w, a, b, unordered) ==
  IF IsNaN(w, a) \/ IsNaN(w, b) THEN unordered
  ELSE LET less == Value(w, a) < Value(w, b)
       IN  [z |-> Value(w, a) = Value(w, b), c |-> less, n |-> less /\ ~unordered.p, v |-> FALSE, p |-> FALSE]

UnorderedX86 == [z |-> TRUE, c |-> TRUE, n |-> FALSE, v |-> FALSE, p |-> TRUE]
UnorderedArm == [z |-> FALSE, c |-> FALSE, n |-> FALSE, v |-> TRUE, p |-> FALSE]

AluOps == {"ADD", "SUB", "MUL", "AND", "OR", "XOR", "SHL", "SHR", "SAR", "ROL", "ROR"}
FloatOps == [FADD |-> "add", FSUB |-> "sub", FMUL |-> "mul", FDIV |-> "div"]
RoundingMode == <<"nearest", "floor", "ceil", "trunc">>

Alu(op, w, a, b) ==
  CASE op = "ADD" -> Wrap(w, a + b)
    [] op = "SUB" -> Wrap(w, a - b)
    [] op = "MUL" -> Times(w, a, b)
    [] op = "AND" -> a & b
    [] op = "OR"  -> a | b
    [] op = "XOR" -> a ^^ b
    [] op = "SHL" -> Wrap(w, a * 2^(b % Bits(w)))
    [] op = "SHR" -> a \div 2^(b % Bits(w))
    [] op = "SAR" -> Wrap(w, Signed(w, a) \div 2^(b % Bits(w)))
    [] op = "ROL" -> RotateLeft(w, a, b)
    [] op = "ROR" -> RotateLeft(w, a, -b)

\* MINSS and MAXSS deliver the source when a is not strictly better.
Extreme(op, w, s, d) ==
  IF IF op = "MIN" THEN Value(w, d) < Value(w, s) ELSE Value(w, d) > Value(w, s) THEN d ELSE s

UnaryOp(op, w, x) ==
  CASE op = "POPCNT" -> OnesCount(w, x)
    [] op = "BSR" -> Bits(w) - 1 - LeadingZeros(w, x)
    [] op = "BSF" -> TrailingZeros(w, x)
    [] op = "FABS" -> Magnitude(w, x)
    [] op = "FNEG" -> FloatSign(w, "neg", x, x)
    [] op = "SQRT" -> IEEE("sqrt", w, x, x)

\* The divide of amd64: DX:AX by the operand, the fault of the processor when
\* the quotient does not fit.
DivideFault == <<-9>>
Divide(m, i) ==
  LET t == i[2]
      w == Width(t)
      s == i[1] = "IDIV"
      n == IntOf(w, IF s THEN "s" ELSE "u", Read(m, t, DX)) * Mod(w) + Read(m, t, AX)
      d == IntOf(w, IF s THEN "s" ELSE "u", Read(m, t, i[3]))
      q == Quotient(n, d)
  IN  IF d = 0 \/ (IF s THEN q \notin -Half(w)..Half(w) - 1 ELSE q > Ones(w))
      THEN [m EXCEPT !.out = DivideFault]
      ELSE Put(Put(m, t, AX, Wrap(w, q)), t, DX, Wrap(w, n - q * d))

\* The divide of arm64 never faults.
DivideArm(w, signed, a, b) ==
  IF b = 0 THEN 0
  ELSE Wrap(w, Quotient(IntOf(w, IF signed THEN "s" ELSE "u", a), IntOf(w, IF signed THEN "s" ELSE "u", b)))

\* The call of the Go function of a helper: its arguments lie one after the
\* other from the offset bias on, its result at the next multiple of 8.  It may
\* use every register.
AbiSize(t) == IF t \in {"i64", "f64"} THEN 8 ELSE 4
Argument(m, sig, k, bias) == Read(m, sig.params[k], Frame(bias + (k - 1) * AbiSize(sig.params[k])))

\* r is what the function delivers.
Returned(m, sig, bias, r) ==
  LET n == Len(sig.params)
      clobbered == [m EXCEPT !.loc = [l \in DOMAIN m.loc |-> IF l \in Slots THEN m.loc[l] ELSE 7]]
  IN  IF r[1] < 0 THEN [m EXCEPT !.out = r]
      ELSE Put(clobbered, sig.ret, Frame(bias + ((n * AbiSize(sig.params[1]) + 7) \div 8) * 8), r[1])

Call(m, t, op, bias) ==
  LET sig == helperSigs(t, op)
  IN  Returned(m, sig, bias,
               GoHelper(t, op, Argument(m, sig, 1, bias), Argument(m, sig, Len(sig.params), bias)))

Jump(m, taken, label) == IF taken THEN [m EXCEPT !.skip = label] ELSE m

\* One instruction.  Where the width differs, i[2] is <<from, to>>.
Step(m, i) ==
  LET op == i[1]
      t == i[2]
      w == Width(t)
      from == i[2][1]
      to == i[2][2]
      rd(k) == Read(m, t, i[k])
      out == i[Len(i)]
  IN
  CASE m.out # <<>> -> m
    [] m.skip # "" -> IF op = "LABEL" /\ t = m.skip THEN [m EXCEPT !.skip = ""] ELSE m
    [] op = "LABEL" -> m
    [] op = "MOV" -> Put(m, t, out, rd(3))
    [] op = "MOVZX" -> Put(m, to, out, Read(m, from, i[3]))
    [] op = "MOVSX" -> Put(m, to, out, Wrap(Width(to), Signed(Width(from), Read(m, from, i[3]))))
    [] op \in AluOps -> Put(m, t, out, Alu(op, w, rd(4), rd(3)))
    [] op \in DOMAIN FloatOps -> Put(m, t, out, IEEE(FloatOps[op], w, rd(4), rd(3)))
    [] op \in {"MIN", "MAX"} -> Put(m, t, out, Extreme(op, w, rd(3), rd(4)))
    [] op \in {"POPCNT", "BSR", "BSF", "FABS", "FNEG", "SQRT"} -> Put(m, t, out, UnaryOp(op, w, rd(3)))
    [] op = "ROUND" -> Put(m, t, out, IEEE(RoundingMode[i[3] + 1], w, rd(4), rd(4)))
    [] op = "CMP" -> [m EXCEPT !.flags = IntFlags(w, rd(3), rd(4))]
    [] op = "TEST" -> [m EXCEPT !.flags = IntFlags(w, rd(3), 0)]
    [] op = "BT" -> [m EXCEPT !.flags.c = BitOf(rd(4), i[3]) = 1]
    [] op = "UCOMI" -> [m EXCEPT !.flags = FloatFlags(w, rd(3), rd(4), UnorderedX86)]
    [] op = "FCMP" -> [m EXCEPT !.flags = FloatFlags(w, rd(3), rd(4), UnorderedArm)]
    [] op = "SET" -> Put(m, "i8", out, Bit01(Holds(m.flags, t)))
    [] op = "CSET" -> Put(m, "i64", out, Bit01(Holds(m.flags, t)))
    [] op = "J" -> Jump(m, Holds(m.flags, t), out)
    [] op = "JMP" -> Jump(m, TRUE, out)
    [] op = "CBZ" -> Jump(m, rd(3) = 0, out)
    [] op = "CBNZ" -> Jump(m, rd(3) # 0, out)
    [] op = "TBZ" -> Jump(m, BitOf(Read(m, "i64", i[3]), t) = 0, out)
    [] op = "TBNZ" -> Jump(m, BitOf(Read(m, "i64", i[3]), t) = 1, out)
    [] op = "TRAP" -> [m EXCEPT !.out = t]
    [] op = "CDQ" -> Put(m, t, DX, IF Read(m, t, AX) >= Half(w) THEN Ones(w) ELSE 0)
    [] op \in {"IDIV", "DIV"} -> Divide(m, i)
    [] op \in {"SDIV", "UDIV"} -> Put(m, t, out, DivideArm(w, op = "SDIV", rd(4), rd(3)))
    [] op = "MSUB" -> Put(m, t, out, Wrap(w, rd(4) - Times(w, rd(5), rd(3))))
    [] op = "CVT" -> Put(m, to, out, Resized(Width(from), Width(to), Read(m, from, i[3])))
    [] op \in {"SCVT", "UCVT"} ->
         Put(m, to, out, Rounded(Width(to), IntOf(Width(from), IF op = "SCVT" THEN "s" ELSE "u",
                                                   Read(m, from, i[3]))))
    [] op = "CVTT" ->
         LET r == Converted(Width(from), Width(to), "s", Read(m, from, i[3]))
         IN  Put(m, to, out, IF r[1] < 0 THEN Half(Width(to)) ELSE r[1])
    [] op = "CALL" -> Call(m, t, i[3], i[4])

RECURSIVE Run(_, _)
Run(code, m) == IF code = <<>> THEN m ELSE Run(Tail(code), Step(m, Head(code)))

\* Before the instruction: its operands where the register allocator put them,
\* rest in the upper half of whatever a 32-bit value is in, and anywhere else.
Start(args, rest) ==
  LET placed(a) == a.value + (IF a.t \in {"i64", "f64"} THEN 0 ELSE rest * Mod(Width(a.t)))
      held(l) == {a \in args : a.loc = l /\ a.at # "const"}
  IN  [loc |-> [l \in Registers \cup Homes \cup Slots |->
                  IF held(l) = {} THEN rest ELSE placed(CHOOSE a \in held(l) : TRUE)],
       flags |-> UnorderedArm, skip |-> "", out |-> <<>>]

Outcome(m, t, l) == IF m.out # <<>> THEN m.out ELSE <<Read(m, t, l)>>
Delivered(code, args, rest, t, l) == Outcome(Run(code, Start(args, rest)), t, l)

(***************************************************************************)
(* What both back ends share.  t is the type of an operation, x and y are  *)
(* its operands, d is where its result goes: Home or Slot.                 *)
(***************************************************************************)
AluOf == [add |-> "ADD", sub |-> "SUB", mul |-> "MUL", and |-> "AND", or |-> "OR", xor |-> "XOR"]
ShiftOf == [shl |-> "SHL", shr_s |-> "SAR", shr_u |-> "SHR"]
FloatOf == [add |-> "FADD", sub |-> "FSUB", mul |-> "FMUL", div |-> "FDIV"]
ModeOf == [nearest |-> 0, floor |-> 1, ceil |-> 2, trunc |-> 3]
ConditionOf == [eq |-> "EQ", ne |-> "NE", lt_s |-> "LT", lt_u |-> "CS", le_s |-> "LE", le_u |-> "LS"]
OppositeOf == [EQ |-> "NE", NE |-> "EQ", LT |-> "GE", CS |-> "CC", LO |-> "HS", LE |-> "GT", LS |-> "HI", CC |-> "CS"]
BitsOf == [f32 |-> "i32", f64 |-> "i64", i32 |-> "i32", i64 |-> "i64"]

\* The helpers whose call has no frame, so that they have to have an inline
\* lowering on both targets, those that divide, and where the arguments and the
\* result of a called one lie.
helperAlwaysInline(op) ==
  op \in Extends \cup {"extend32_s", "wrap_i64", "abs", "neg", "promote_f32", "demote_f64"}
         \cup Reinterprets \cup FloatRelations \cup FloatArith \cup (Converts \ {"convert_i64_u"})
NoInline == <<<<"TRAP", <<-8>>>>>>
divRemHelper == {"div_s", "div_u_s", "rem_s", "rem_u_s"}

helperABISize(t) == IF t \in {"i64", "f64"} THEN 8 ELSE 4
alignUp(n, to) == ((n + to - 1) \div to) * to
helperArgOffset(params, k) ==
  SumOf(k - 1, LAMBDA i : helperABISize(params[i + 1]))
helperRetOffset(params) == alignUp(helperArgOffset(params, Len(params) + 1), 8)

\* A conditional jump to "then" and a jump to "else", one of them saved when its
\* target is what comes next.
emitCondBranch(jump, inverse, fall) ==
  CASE fall = "else" -> <<Append(jump, "then")>>
    [] fall = "then" -> <<Append(inverse, "else")>>
    [] OTHER -> <<Append(jump, "then"), <<"JMP", "else">>>>

\* The tests of a br_table, one after the other.
CaseLabels == <<"case1", "case2", "case3">>

emitCases(t, r, cases) ==
  FlattenSeq([i \in DOMAIN cases |->
    FlattenSeq([k \in DOMAIN cases[i] |->
      <<<<"CMP", t, r, Imm(cases[i][k])>>, <<"J", "EQ", CaseLabels[i]>>>>])]) \o <<<<"JMP", "default">>>>

(***************************************************************************)
(* How a condition is emitted.  c.shape is "value", a plain operand x;     *)
(* "compare", x c.op y; "test", (x & y) c.op 0, c.zero being where the 0   *)
(* stands; or "and", x & y itself.  The last two test one bit when one     *)
(* operand of the conjunction is a power of two.                           *)
(***************************************************************************)
powerOfTwoBit(a) ==
  IF a.at = "const" /\ \E k \in 0..Bits(Width(a.t)) - 1 : a.value = 2^k
  THEN CHOOSE k \in 0..Bits(Width(a.t)) - 1 : a.value = 2^k ELSE -1

branchFusedBit(x, y) ==
  CASE powerOfTwoBit(y) >= 0 -> [base |-> x, bit |-> powerOfTwoBit(y)]
    [] powerOfTwoBit(y) < 0 /\ powerOfTwoBit(x) >= 0 -> [base |-> y, bit |-> powerOfTwoBit(x)]
    [] OTHER -> [bit |-> -1]

\* before: the conjunction is computed first; and is where it goes, zero the 0.
branchFusedKind(t, c, x, y) ==
  LET fused == branchFusedBit(x, y)
      and   == Operand(t, 0, "slot", 2)
      zero  == Operand(t, 0, "const", 2)
      l     == Lowered(t, c.op, x, y)
      kind(k, before, a, b) == [kind |-> k, before |-> before, x |-> a, y |-> b, op |-> l.op,
                                bit |-> fused.bit, want |-> IF c.shape = "and" THEN "ne" ELSE c.op]
  IN
  CASE c.shape \in {"test", "and"} /\ fused.bit >= 0 -> kind("bit", FALSE, fused.base, fused.base)
    [] c.shape = "test" /\ fused.bit < 0 ->
         IF c.zero = "left" THEN kind("compare", TRUE, zero, and) ELSE kind("compare", TRUE, and, zero)
    [] c.shape = "and" /\ fused.bit < 0 -> kind("value", TRUE, and, and)
    [] c.shape = "compare" -> kind("compare", FALSE, l.x, l.y)
    [] OTHER -> kind("value", FALSE, x, x)

(***************************************************************************)
(* amd64.  An operand is an immediate when it is a constant that fits one; *)
(* any other constant is in its slot.  AX, BX, CX, DX, SI, X0 and X1 are   *)
(* scratch.                                                                *)
(***************************************************************************)
operandSrc(t, a) ==
  LET n == Signed(Width(t), a.value)
  IN  IF /\ a.at = "const" /\ t \in IntTypes
         /\ n \in -Half(Width("i32"))..Half(Width("i32")) - 1
      THEN Imm(n) ELSE a.loc

\* Nothing is emitted for a constant that fits an immediate ...
SkipValue(a) == a.at = "const" /\ operandSrc(a.t, a) # a.loc

\* ... and any other constant is written to its slot.
emitConst(a) ==
  CASE a.at # "const" \/ SkipValue(a) -> <<>>
    [] a.t = "f32" -> <<<<"MOV", "i32", Imm(a.value), a.loc>>>>
    [] OTHER -> <<<<"MOV", "i64", Imm(a.value), AX>>, <<"MOV", "i64", AX, a.loc>>>>

\* The result is in r, and its place is d.
Spill(t, r, d) == IF r = d THEN <<>> ELSE <<<<"MOV", t, r, d>>>>
Into(d, scratch) == IF d = Home THEN d ELSE scratch

emitBinALU(t, op, x, y, d) ==
  LET r == Into(d, AX)
  IN  <<<<"MOV", t, operandSrc(t, x), r>>, <<AluOf[op], t, operandSrc(t, y), r>>>> \o Spill(t, r, d)

emitShift(t, op, x, y, d) ==
  LET r == Into(d, AX)
      count == IF y.at = "const" THEN <<<<ShiftOf[op], t, Imm(y.value % Bits(Width(t))), r>>>>
               ELSE <<<<"MOV", t, operandSrc(t, y), CX>>, <<ShiftOf[op], t, CX, r>>>>
  IN  <<<<"MOV", t, operandSrc(t, x), r>>>> \o count \o Spill(t, r, d)

Compare(t, x, y) == <<<<"MOV", t, operandSrc(t, x), AX>>, <<"CMP", t, AX, operandSrc(t, y)>>>>

emitCmp(t, op, x, y, d) ==
  LET r == Into(d, AX)
  IN  Compare(t, x, y) \o <<<<"SET", ConditionOf[op], AX>>, <<"MOVZX", <<"i8", "i32">>, AX, r>>>>
        \o Spill("i32", r, d)

\* Through AX or X0, with something done there.
Through(t, a, r, code, out, d) == <<<<"MOV", t, operandSrc(a.t, a), r>>>> \o code \o <<<<"MOV", out, r, d>>>>

\* Extend32To64S, Extend32To64U, Trunc64To32
emitExtend(op, x, d) ==
  CASE op = "extend_i32_s" -> <<<<"MOVSX", <<"i32", "i64">>, operandSrc("i32", x), AX>>, <<"MOV", "i64", AX, d>>>>
    [] op = "extend_i32_u" -> Through("i32", x, AX, <<>>, "i64", d)
    [] op = "wrap_i64"     -> Through("i32", x, AX, <<>>, "i32", d)

\* clz and ctz: the bit scan is undefined on 0.
BitScan(t, op, x, d) ==
  LET w == Bits(Width(t))
      scan == IF op = "clz" THEN <<<<"BSR", t, AX, AX>>, <<"MOV", t, Imm(w - 1), CX>>,
                                   <<"SUB", t, AX, CX>>, <<"MOV", t, CX, AX>>>>
              ELSE <<<<"BSF", t, AX, AX>>>>
  IN  Through(t, x, AX, <<<<"TEST", t, AX>>, <<"J", "EQ", "zero">>>> \o scan \o
        <<<<"JMP", "done">>, <<"LABEL", "zero">>, <<"MOV", t, Imm(w), AX>>, <<"LABEL", "done">>>>, t, d)

Rotate(t, op, x, y, d) ==
  Through(t, x, AX, <<<<"MOV", t, operandSrc(t, y), CX>>, <<IF op = "rotl" THEN "ROL" ELSE "ROR", t, CX, AX>>>>, t, d)

\* The divisor is tested first, then what would overflow: a trap for div_s, 0 for
\* rem_s.
DivRemCode(t, op, x, y, d) ==
  LET w == Width(t)
      least == IF t = "i32" THEN <<<<"CMP", t, AX, Imm(-Half(w))>>>>
               ELSE <<<<"MOV", t, Imm(-Half(w)), DX>>, <<"CMP", t, AX, DX>>>>
      first  == <<<<"MOV", t, operandSrc(t, y), CX>>, <<"TEST", t, CX>>, <<"J", "EQ", "zero">>>>
      load   == <<<<"MOV", t, operandSrc(t, x), AX>>>>
      minus1 == <<<<"CMP", t, CX, Imm(-1)>>>>
      signed == <<<<"CDQ", t>>, <<"IDIV", t, CX>>>>
      divide == IF op \in {"div_s", "rem_s"} THEN signed ELSE <<<<"XOR", t, DX, DX>>, <<"DIV", t, CX>>>>
      deliver == <<<<"MOV", t, IF op \in {"div_s", "div_u_s"} THEN AX ELSE DX, d>>, <<"JMP", "done">>>>
      zero   == <<<<"LABEL", "zero">>, <<"TRAP", DivideByZero>>, <<"LABEL", "done">>>>
  IN
  CASE op = "div_s" ->
         first \o load \o minus1 \o <<<<"J", "NE", "go">>>> \o least \o <<<<"J", "EQ", "ovf">>, <<"LABEL", "go">>>>
           \o divide \o deliver \o <<<<"LABEL", "ovf">>, <<"TRAP", IntOverflow>>>> \o zero
    [] op = "rem_s" ->
         first \o minus1 \o <<<<"J", "EQ", "ovf">>>> \o load \o divide \o deliver
           \o <<<<"LABEL", "ovf">>, <<"MOV", t, Imm(0), d>>, <<"JMP", "done">>>> \o zero
    [] OTHER -> first \o load \o divide \o deliver \o zero

\* The sign bit of a float, in an integer register; a 64-bit mask needs one too.
SignBit(t, op, x, d) ==
  LET i == BitsOf[t]
      alu == IF op = "abs" THEN "AND" ELSE "XOR"
      mask == Imm(IF op = "abs" THEN Half(Width(t)) - 1 ELSE Half(Width(t)))
  IN  <<<<"MOV", i, x.loc, AX>>>>
        \o (IF t = "f32" THEN <<<<alu, i, mask, AX>>>>
            ELSE <<<<"MOV", i, mask, CX>>, <<alu, i, CX, AX>>>>)
        \o <<<<"MOV", i, AX, d>>>>

Copysign(t, x, y, d) ==
  LET i == BitsOf[t]
      low  == Imm(Half(Width(t)) - 1)
      high == Imm(Half(Width(t)))
  IN  IF t = "f32"
      THEN <<<<"MOV", i, x.loc, AX>>, <<"AND", i, low, AX>>, <<"MOV", i, y.loc, CX>>, <<"AND", i, high, CX>>,
             <<"OR", i, CX, AX>>, <<"MOV", i, AX, d>>>>
      ELSE <<<<"MOV", i, x.loc, AX>>, <<"MOV", i, low, CX>>, <<"AND", i, CX, AX>>, <<"MOV", i, y.loc, DX>>,
             <<"MOV", i, high, CX>>, <<"AND", i, CX, DX>>, <<"OR", i, DX, AX>>, <<"MOV", i, AX, d>>>>

emitInlineFloatMinMax(t, op, x, y, d) ==
  LET i == BitsOf[t]
  IN  <<<<"MOV", t, x.loc, X0>>, <<"MOV", t, y.loc, X1>>, <<"UCOMI", t, X0, X1>>, <<"J", "PS", "nan">>,
        <<IF op = "min" THEN "MIN" ELSE "MAX", t, X1, X0>>, <<"JMP", "done">>, <<"LABEL", "nan">>,
        <<"MOV", i, Imm(GoNaN(Width(t))), AX>>, <<"MOV", i, AX, X0>>, <<"LABEL", "done">>, <<"MOV", t, X0, d>>>>

emitInlineFloatBin(t, op, x, y, d) ==
  <<<<"MOV", t, x.loc, X0>>, <<FloatOf[op], t, y.loc, X0>>, <<"MOV", t, X0, d>>>>

\* An unordered comparison sets Z, P and C: eq, lt and le also ask for not P, ne
\* accepts P.
emitInlineFloatCmp(t, op, x, y, d) ==
  LET cc == CASE op = "eq" -> "EQ" [] op = "ne" -> "NE" [] op = "lt" -> "CS"
              [] op = "le" -> "LS" [] op = "gt" -> "HI" [] op = "ge" -> "CC"
      fix(p, alu) == <<<<"SET", p, BX>>, <<"MOVZX", <<"i8", "i32">>, BX, BX>>, <<alu, "i32", BX, AX>>>>
  IN  <<<<"MOV", t, x.loc, X0>>, <<"UCOMI", t, X0, y.loc>>, <<"SET", cc, AX>>, <<"MOVZX", <<"i8", "i32">>, AX, AX>>>>
        \o (CASE op \in {"eq", "lt", "le"} -> fix("PC", "AND") [] op = "ne" -> fix("PS", "OR") [] OTHER -> <<>>)
        \o <<<<"MOV", "i32", AX, d>>>>

\* An integer as a float.  A 32-bit unsigned one is a 64-bit signed one; a 64-bit
\* one whose top bit is set is halved, its last bit kept, and doubled again.
ConvertInt(t, op, x, d) ==
  LET cvt == <<<<"SCVT", <<"i64", t>>, AX, X0>>>>
      from == Conversion[op][1]
  IN
  CASE op = "convert_i32_u" -> <<<<"MOV", "i32", operandSrc("i32", x), AX>>>> \o cvt \o <<<<"MOV", t, X0, d>>>>
    [] op = "convert_i64_u" ->
         <<<<"MOV", "i64", operandSrc("i64", x), AX>>, <<"TEST", "i64", AX>>, <<"J", "MI", "neg">>>> \o cvt
           \o <<<<"JMP", "done">>, <<"LABEL", "neg">>, <<"MOV", "i64", AX, CX>>, <<"SHR", "i64", Imm(1), CX>>,
                 <<"AND", "i64", Imm(1), AX>>, <<"OR", "i64", CX, AX>>>> \o cvt
           \o <<<<"FADD", t, X0, X0>>, <<"LABEL", "done">>, <<"MOV", t, X0, d>>>>
    [] OTHER -> <<<<"SCVT", <<from, t>>, operandSrc(from, x), X0>>, <<"MOV", t, X0, d>>>>

emitTruncFloatToInt(t, f, x, d) ==
  <<<<"MOV", f, x.loc, X0>>, <<"CVTT", <<f, t>>, X0, AX>>, <<"MOV", t, AX, d>>>>

\* The helpers with an inline form, each as the wanted sequence.
emitInlineHelper(t, op, x, y, d) ==
  LET f == Conversion[op][1] IN
  CASE op \in {"clz", "ctz"} -> BitScan(t, op, x, d)
    [] op = "popcnt" -> <<<<"POPCNT", t, operandSrc(t, x), AX>>, <<"MOV", t, AX, d>>>>
    [] op \in {"rotl", "rotr"} -> Rotate(t, op, x, y, d)
    [] op \in divRemHelper -> DivRemCode(t, op, x, y, d)
    [] op \in DOMAIN NarrowSigns -> Through(t, x, AX, <<<<"MOVSX", <<NarrowSigns[op], t>>, AX, AX>>>>, t, d)
    [] op \in Extends \cup {"wrap_i64"} -> emitExtend(op, x, d)
    [] op \in Reinterprets -> Through(BitsOf[t], x, AX, <<>>, BitsOf[t], d)
    [] op \in {"abs", "neg"} -> SignBit(t, op, x, d)
    [] op = "copysign" -> Copysign(t, x, y, d)
    [] op = "sqrt" -> <<<<"SQRT", t, x.loc, X0>>, <<"MOV", t, X0, d>>>>
    [] op \in DOMAIN ModeOf -> <<<<"ROUND", t, ModeOf[op], x.loc, X0>>, <<"MOV", t, X0, d>>>>
    [] op \in {"min", "max"} -> emitInlineFloatMinMax(t, op, x, y, d)
    [] op \in FloatArith -> emitInlineFloatBin(t, op, x, y, d)
    [] op \in FloatRelations -> emitInlineFloatCmp(t, op, x, y, d)
    [] op \in {"promote_f32", "demote_f64"} -> <<<<"CVT", <<f, t>>, x.loc, X0>>, <<"MOV", t, X0, d>>>>
    [] op \in Converts -> ConvertInt(t, op, x, d)
    [] op \in Saturates -> emitTruncFloatToInt(t, f, x, d)

\* A helper that is called: its arguments at the start of the frame, its result
\* behind them.  divRemInline: the trap helpers link from this package.
InlineAMD64(op, divRemInline) ==
  /\ op \in divRemHelper => divRemInline
  /\ op \notin Truncates \cup {"trunc_sat_f32_u", "trunc_sat_f64_u"}

emitHelperCall(t, op, x, y, d, divRemInline) ==
  LET sig == helperSigs(t, op)
      result == IF sig.ret \in FloatTypes THEN X0 ELSE AX
      stage(k) ==
        LET a == IF k = 1 THEN x ELSE y
            p == sig.params[k]
            src == operandSrc(p, a)
            r == IF p \in FloatTypes THEN X0 ELSE AX
            to == Frame(helperArgOffset(sig.params, k))
        IN  IF src[1] = "$" THEN <<<<"MOV", p, src, to>>>>
            ELSE <<<<"MOV", p, src, r>>, <<"MOV", p, r, to>>>>
  IN  IF InlineAMD64(op, divRemInline) THEN emitInlineHelper(t, op, x, y, d)
      ELSE IF helperAlwaysInline(op) THEN NoInline
      ELSE FlattenSeq([k \in DOMAIN sig.params |-> stage(k)])
             \o <<<<"CALL", t, op, 0>>, <<"MOV", sig.ret, Frame(helperRetOffset(sig.params)), result>>,
                  <<"MOV", sig.ret, result, d>>>>

\* emitValue, on amd64, for an instruction.
AMD64(t, op, x, y, d, divRemInline) ==
  LET l == Lowered(t, op, x, y) IN
  emitConst(l.x) \o (IF l.y = l.x THEN <<>> ELSE emitConst(l.y)) \o
  (CASE l.helper -> emitHelperCall(t, l.op, l.x, l.y, d, divRemInline)
     [] ~l.helper /\ l.op \in DOMAIN AluOf -> emitBinALU(t, l.op, l.x, l.y, d)
     [] ~l.helper /\ l.op \in DOMAIN ShiftOf -> emitShift(t, l.op, l.x, l.y, d)
     [] ~l.helper /\ l.op \in DOMAIN ConditionOf -> emitCmp(t, l.op, l.x, l.y, d))

\* A copy the register allocator has not made useless.
emitCopy(t, x, d) == emitConst(x) \o Through(t, x, IF t \in FloatTypes THEN X0 ELSE AX, <<>>, t, d)

(***************************************************************************)
(* amd64: memory and branches.  BX holds the start of the memory, which is *)
(* address 0 here.  An address of a 64-bit memory is an i64, others wrap.  *)
(***************************************************************************)
MaxDisp == Half(Width("i32")) - 1

\* The instructions that form the address, and its location.
emitMemAddr(wide, a, offset) ==
  LET off == Signed(Width("i32"), offset)
      total == a.value + offset
      base(t) == <<<<"MOV", t, operandSrc(t, a), SI>>>>
  IN
  CASE wide /\ a.at = "const" ->
         IF total <= MaxDisp THEN [code |-> <<>>, at |-> <<"M", total>>]
         ELSE [code |-> <<<<"MOV", "i64", Imm(total), SI>>>>, at |-> <<"MX", 0>>]
    [] wide /\ a.at # "const" ->
         IF offset <= MaxDisp THEN [code |-> base("i64"), at |-> <<"MX", offset>>]
         ELSE [code |-> base("i64") \o <<<<"MOV", "i64", Imm(offset), AX>>, <<"ADD", "i64", AX, SI>>>>,
               at |-> <<"MX", 0>>]
    [] ~wide /\ a.at = "const" ->
         [code |-> <<>>, at |-> <<"M", Signed(Width("i32"), Wrap(Width("i32"), total))>>]
    [] OTHER ->
         IF off >= 0 THEN [code |-> base("i32"), at |-> <<"MX", off>>]
         ELSE [code |-> base("i32") \o <<<<"ADD", "i32", Imm(off), SI>>>>, at |-> <<"MX", 0>>]

\* A narrow load extends to the width of its result.
emitLoad(wide, t, op, a, offset, d) ==
  LET address == emitMemAddr(wide, a, offset)
      r == Into(d, IF t \in FloatTypes THEN X0 ELSE AX)
      cell == LoadCell(t, op)
      load == CASE cell = t -> <<"MOV", t, address.at, r>>
                [] op = "load32_u" -> <<"MOV", "i32", address.at, r>>
                [] OTHER -> <<IF LoadSign(op) = "s" THEN "MOVSX" ELSE "MOVZX", <<cell, t>>, address.at, r>>
  IN  emitConst(a) \o address.code \o <<load>> \o Spill(t, r, d)

\* A constant is stored as an immediate, cut to the width of the store.
emitStore(wide, t, op, a, offset, x) ==
  LET address == emitMemAddr(wide, a, offset)
      cell == StoreCell(t, op)
      r == IF t \in FloatTypes THEN X0 ELSE AX
      immediate == /\ x.at = "const" /\ t \in IntTypes
                   /\ cell = "i64" => operandSrc(t, x) # x.loc
  IN  emitConst(a) \o emitConst(x) \o address.code
        \o (IF immediate THEN <<<<"MOV", cell, Imm(x.value), address.at>>>>
            ELSE <<<<"MOV", t, operandSrc(t, x), r>>, <<"MOV", cell, r, address.at>>>>)

\* A condition: a plain value, a comparison, or the test of one bit.
emitFusedCmpBranch(t, op, x, y, fall) ==
  LET cc == ConditionOf[op]
  IN  Compare(t, x, y) \o emitCondBranch(<<"J", cc>>, <<"J", OppositeOf[cc]>>, fall)

emitFusedBitTestBranch(t, want, x, bit, fall) ==
  LET cc == IF want = "eq" THEN "CC" ELSE "CS"
  IN  <<<<"MOV", t, operandSrc(t, x), AX>>, <<"BT", t, bit, AX>>>>
        \o emitCondBranch(<<"J", cc>>, <<"J", OppositeOf[cc]>>, fall)

EmitFused(t, k, fall) ==
  CASE k.kind = "bit" -> emitFusedBitTestBranch(t, k.want, k.x, k.bit, fall)
    [] k.kind = "compare" -> emitFusedCmpBranch(t, k.op, k.x, k.y, fall)
    [] k.kind = "value" -> <<<<"MOV", "i32", operandSrc("i32", k.x), AX>>, <<"TEST", "i32", AX>>>>
                             \o emitCondBranch(<<"J", "NE">>, <<"J", "EQ">>, fall)

EmitIfBranch(t, c, x, y, fall) ==
  LET k == branchFusedKind(t, c, x, y)
  IN  (IF k.before THEN AMD64(t, "and", x, y, AndSlot, TRUE) ELSE <<>>)
        \o emitConst(k.x) \o emitConst(k.y) \o EmitFused(t, k, fall)

EmitBrTable(x, cases) ==
  emitConst(x) \o <<<<"MOV", "i32", operandSrc("i32", x), AX>>>> \o emitCases("i32", AX, cases)

(***************************************************************************)
(* arm64.  No operand is an immediate: a constant is in its slot.  R0 to   *)
(* R3, F0 and F1 are scratch.  A 32-bit move into a register extends the   *)
(* sign (MOVW), or clears the rest (MOVWU).  Every result may go Home.     *)
(***************************************************************************)
MOVW(src, r)  == <<"MOVSX", <<"i32", "i64">>, src, r>>
MOVWU(src, r) == <<"MOVZX", <<"i32", "i64">>, src, r>>

Move(t, src, r) == IF t = "i32" /\ r \notin Slots THEN MOVW(src, r) ELSE <<"MOV", t, src, r>>

emitConstARM64(a) ==
  IF a.at # "const" THEN <<>>
  ELSE <<<<"MOV", "i64", Imm(IF a.t \in IntTypes THEN Signed(Width(a.t), a.value) ELSE a.value), R0>>,
         <<"MOV", BitsOf[a.t], R0, a.loc>>>>

emitBinARM64(t, op, x, y, d) ==
  LET r == Into(d, R0)
      i == IF op \in DOMAIN AluOf THEN AluOf[op] ELSE ShiftOf[op]
  IN  <<Move(t, x.loc, R0), Move(t, y.loc, R1), <<i, t, R1, R0, r>>>>
        \o (IF r = d THEN <<>> ELSE <<Move(t, r, d)>>)

CompareARM64(t, x, y) == <<Move(t, x.loc, R0), Move(t, y.loc, R1), <<"CMP", t, R0, R1>>>>
ConditionARM64(op) == IF op = "lt_u" THEN "LO" ELSE ConditionOf[op]

emitCmpARM64(t, op, x, y, d) ==
  LET r == Into(d, R0)
  IN  CompareARM64(t, x, y) \o <<<<"CSET", ConditionARM64(op), r>>>>
        \o (IF r = d THEN <<>> ELSE <<Move("i32", r, d)>>)

\* A float operation, and its result to where it goes.
FloatARM64(t, x, code, d) == <<<<"MOV", x.t, x.loc, F0>>>> \o code \o <<<<"MOV", t, F0, d>>>>

\* The quotient of a divide by 0 is 0 and the overflow wraps: the traps are
\* branches of their own.
emitInlineDivRemARM64(t, op, x, y, d) ==
  LET w == Width(t)
      div == IF op \in {"div_s", "rem_s"} THEN "SDIV" ELSE "UDIV"
      first == <<Move(t, x.loc, R0), Move(t, y.loc, R1), <<"CBZ", t, R1, "zero">>>>
      last == <<Move(t, R0, d), <<"JMP", "done">>>>
      zero == <<<<"LABEL", "zero">>, <<"TRAP", DivideByZero>>, <<"LABEL", "done">>>>
  IN
  first \o
  (CASE op = "div_s" ->
          <<<<"CMP", t, R1, Imm(-1)>>, <<"J", "NE", "go">>, <<"MOV", "i64", Imm(-Half(w)), R2>>,
            <<"CMP", t, R0, R2>>, <<"J", "EQ", "ovf">>, <<"LABEL", "go">>, <<div, t, R1, R0, R0>>>>
            \o last \o <<<<"LABEL", "ovf">>, <<"TRAP", IntOverflow>>>>
     [] op = "div_u_s" -> <<<<div, t, R1, R0, R0>>>> \o last
     [] OTHER -> <<<<div, t, R1, R0, R2>>, <<"MSUB", t, R1, R0, R2, R0>>>> \o last)
  \o zero

FloatConditionARM64 == [eq |-> "EQ", ne |-> "NE", lt |-> "MI", le |-> "LS", gt |-> "GT", ge |-> "GE"]

InlineARM64(op, t, divRemInline) ==
  \/ op \in divRemHelper /\ divRemInline
  \/ op \in FloatRelations /\ t \in FloatTypes
  \/ op \in Extends \cup Reinterprets \cup FloatArith \cup (Converts \ {"convert_i64_u"})
           \cup {"extend32_s", "abs", "neg", "wrap_i64", "promote_f32", "demote_f64"}

emitInlineHelperARM64(t, op, x, y, d) ==
  LET f == x.t
      b == BitsOf[t]
      convert == <<IF Conversion[op][2] = "s" THEN "SCVT" ELSE "UCVT", <<f, t>>, R0, F0>>
  IN
  CASE op \in divRemHelper -> emitInlineDivRemARM64(t, op, x, y, d)
    [] op \in FloatRelations ->
         <<<<"MOV", t, x.loc, F0>>, <<"MOV", t, y.loc, F1>>, <<"FCMP", t, F0, F1>>,
           <<"CSET", FloatConditionARM64[op], R0>>, Move("i32", R0, d)>>
    [] op = "extend_i32_s" -> <<MOVW(x.loc, R0), <<"MOV", "i64", R0, d>>>>
    [] op = "extend_i32_u" -> <<MOVWU(x.loc, R0), <<"MOV", "i64", R0, d>>>>
    [] op = "extend32_s" -> <<<<"MOV", "i64", x.loc, R0>>, MOVW(R0, R0), <<"MOV", "i64", R0, d>>>>
    [] op = "wrap_i64" -> <<MOVWU(x.loc, R0), Move("i32", R0, d)>>
    [] op \in {"reinterpret_f32", "reinterpret_f64"} ->
         <<<<"MOV", f, x.loc, F0>>, <<"MOV", f, F0, R0>>, Move(t, R0, d)>>
    [] op \in {"reinterpret_i32", "reinterpret_i64"} ->
         <<Move(f, x.loc, R0), <<"MOV", t, R0, F0>>, <<"MOV", t, F0, d>>>>
    [] op = "abs" -> FloatARM64(t, x, <<<<"FABS", t, F0, F0>>>>, d)
    [] op = "neg" -> FloatARM64(t, x, <<<<"FNEG", t, F0, F0>>>>, d)
    [] op \in {"promote_f32", "demote_f64"} -> FloatARM64(t, x, <<<<"CVT", <<f, t>>, F0, F0>>>>, d)
    [] op \in FloatArith -> FloatARM64(t, x, <<<<"MOV", t, y.loc, F1>>, <<FloatOf[op], t, F1, F0, F0>>>>, d)
    [] op = "convert_i32_u" -> <<MOVWU(x.loc, R0), convert, <<"MOV", t, F0, d>>>>
    [] op \in Converts \ {"convert_i32_u"} -> <<Move(f, x.loc, R0), convert, <<"MOV", t, F0, d>>>>

\* The arguments of a call lie above the return address.
emitHelperCallARM64(t, op, x, y, d, divRemInline) ==
  LET sig == helperSigs(t, op)
      scratch(p) == IF p \in FloatTypes THEN F0 ELSE R0
      bias == 8
      stage(k) ==
        LET p == sig.params[k]
            r == scratch(p)
        IN  <<Move(p, (IF k = 1 THEN x ELSE y).loc, r),
              Move(p, r, Frame(bias + helperArgOffset(sig.params, k)))>>
      result == Frame(bias + helperRetOffset(sig.params))
  IN  IF InlineARM64(op, t, divRemInline) THEN emitInlineHelperARM64(t, op, x, y, d)
      ELSE IF helperAlwaysInline(op) THEN NoInline
      ELSE FlattenSeq([k \in DOMAIN sig.params |-> stage(k)]) \o <<<<"CALL", t, op, bias>>>>
             \o (IF d = Home THEN <<Move(sig.ret, result, d)>>
                 ELSE <<Move(sig.ret, result, scratch(sig.ret)), Move(sig.ret, scratch(sig.ret), d)>>)

\* emitValue, on arm64, for an instruction.
ARM64(t, op, x, y, d, divRemInline) ==
  LET l == Lowered(t, op, x, y) IN
  emitConstARM64(l.x) \o (IF l.y = l.x THEN <<>> ELSE emitConstARM64(l.y)) \o
  (CASE l.helper -> emitHelperCallARM64(t, l.op, l.x, l.y, d, divRemInline)
     [] ~l.helper /\ l.op \in DOMAIN ConditionOf -> emitCmpARM64(t, l.op, l.x, l.y, d)
     [] OTHER -> emitBinARM64(t, l.op, l.x, l.y, d))

emitCopyARM64(t, x, d) ==
  LET r == IF t \in FloatTypes THEN F0 ELSE R0
  IN  emitConstARM64(x) \o <<Move(t, x.loc, r), Move(t, r, d)>>

\* R2 is the start of the memory, address 0; the sum goes there.
emitMemAddrARM64(wide, a, offset) ==
  LET off == Signed(Width("i32"), offset)
      add(t, n) == IF n = 0 THEN <<>> ELSE <<<<"ADD", t, Imm(n), R3, R3>>>>
  IN  <<<<"MOV", "i64", Imm(0), R2>>>>
        \o (IF wide THEN <<<<"MOV", "i64", a.loc, R3>>>> \o add("i64", offset)
            ELSE <<MOVWU(a.loc, R3)>> \o add("i32", off))
        \o <<<<"ADD", "i64", R3, R2, R2>>>>

emitLoadARM64(wide, t, op, a, offset, d) ==
  LET r == Into(d, IF t \in FloatTypes THEN F0 ELSE R0)
      cell == LoadCell(t, op)
      from == <<"MR", 0>>
      load == CASE t \in FloatTypes \cup {"i64"} /\ cell = t -> <<<<"MOV", t, from, r>>>>
                [] cell = "i32" -> (IF op = "load32_u" THEN <<MOVWU(from, r)>>
                                    ELSE <<MOVW(from, r)>>
                                           \o IF op = "load32_s" THEN <<MOVW(r, r)>> ELSE <<>>)
                [] OTHER -> <<<<IF LoadSign(op) = "s" THEN "MOVSX" ELSE "MOVZX", <<cell, "i64">>, from, r>>>>
  IN  emitConstARM64(a) \o emitMemAddrARM64(wide, a, offset) \o load \o (IF r = d THEN <<>> ELSE <<Move(t, r, d)>>)

emitStoreARM64(wide, t, op, a, offset, x) ==
  LET r == IF t \in FloatTypes THEN F0 ELSE R0
  IN  emitConstARM64(a) \o emitConstARM64(x) \o emitMemAddrARM64(wide, a, offset)
        \o <<Move(t, x.loc, r), <<"MOV", StoreCell(t, op), r, <<"MR", 0>>>>>>

EmitFusedARM64(t, k, fall) ==
  CASE k.kind = "bit" ->
         <<Move(t, k.x.loc, R0)>>
           \o (IF k.want = "eq" THEN emitCondBranch(<<"TBZ", k.bit, R0>>, <<"TBNZ", k.bit, R0>>, fall)
               ELSE emitCondBranch(<<"TBNZ", k.bit, R0>>, <<"TBZ", k.bit, R0>>, fall))
    [] k.kind = "compare" ->
         LET cc == ConditionARM64(k.op)
         IN  CompareARM64(t, k.x, k.y) \o emitCondBranch(<<"J", cc>>, <<"J", OppositeOf[cc]>>, fall)
    [] k.kind = "value" ->
         <<MOVW(k.x.loc, R0)>> \o emitCondBranch(<<"CBNZ", "i32", R0>>, <<"CBZ", "i32", R0>>, fall)

EmitIfBranchARM64(t, c, x, y, fall) ==
  LET k == branchFusedKind(t, c, x, y)
  IN  (IF k.before THEN ARM64(t, "and", x, y, AndSlot, TRUE) ELSE <<>>)
        \o emitConstARM64(k.x) \o emitConstARM64(k.y) \o EmitFusedARM64(t, k, fall)

EmitBrTableARM64(x, cases) ==
  emitConstARM64(x) \o <<MOVW(x.loc, R0)>> \o emitCases("i32", R0, cases)

(***************************************************************************)
(* What the code of each back end delivers.  rest is what the registers    *)
(* and the frame hold besides the operands, fall the target that comes     *)
(* next in the text of a branch.                                           *)
(***************************************************************************)
Targets == {"go", "amd64", "arm64"}

\* The operations whose result may have a register home.
RegHomeEligibleOp(target, t, op) ==
  CASE target = "go" -> FALSE
    [] target = "amd64" -> isSimpleBinary(t, op) \/ op = "eqz"
    [] target = "arm64" -> TRUE

Executed(target, t, op, x, y, d, rest, divRemInline) ==
  LET result == helperSigs(t, op).ret
      type == IF op \in DOMAIN IntRelation THEN "i32" ELSE result
  IN
  IF target = "go" THEN GoCode(t, op, x, y)
  ELSE Delivered(IF target = "amd64" THEN AMD64(t, op, x, y, d, divRemInline)
                 ELSE ARM64(t, op, x, y, d, divRemInline), {x, y}, rest, type, d)

Copied(target, t, x, d, rest) ==
  IF target = "go" THEN <<x.value>>
  ELSE Delivered(IF target = "amd64" THEN emitCopy(t, x, d) ELSE emitCopyARM64(t, x, d), {x}, rest, t, d)

Loaded(target, wide, t, op, a, offset, d, rest) ==
  IF target = "go" THEN emitMemLoadExpr(wide, t, op, a, offset)
  ELSE Delivered(IF target = "amd64" THEN emitLoad(wide, t, op, a, offset, d)
                 ELSE emitLoadARM64(wide, t, op, a, offset, d), {a}, rest, t, d)

Stored(target, wide, t, op, a, offset, x, rest) ==
  IF target = "go" THEN emitMemStoreStmt(wide, t, op, a, offset, x.value)
  ELSE Run(IF target = "amd64" THEN emitStore(wide, t, op, a, offset, x)
           ELSE emitStoreARM64(wide, t, op, a, offset, x), Start({a, x}, rest)).out

\* Where the code of a branch ends up: the label it is on its way to, or behind it.
GoesTo(code, args, rest) == Run(code, Start(args, rest)).skip

Branched(target, t, c, x, y, fall, rest) ==
  IF target = "go" THEN GoCondition(t, c, x, y)
  ELSE GoesTo(IF target = "amd64" THEN EmitIfBranch(t, c, x, y, fall)
              ELSE EmitIfBranchARM64(t, c, x, y, fall), {x, y}, rest)
       \in {"then"} \cup (IF fall = "then" THEN {""} ELSE {})

CaseOf(label) == IF label = "default" THEN 0 ELSE CHOOSE i \in DOMAIN CaseLabels : CaseLabels[i] = label

Switched(target, x, cases, rest) ==
  IF target = "go" THEN GoSwitch(x, cases)
  ELSE CaseOf(GoesTo(IF target = "amd64" THEN EmitBrTable(x, cases) ELSE EmitBrTableARM64(x, cases), {x}, rest))
================================================================================
