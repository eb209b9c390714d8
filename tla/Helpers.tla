-------------------------------- MODULE Helpers --------------------------------
(***************************************************************************)
(* The helpers a transpiled program calls for the instructions Go has no   *)
(* expression for: numbers (Scalars), lanes and memory (Lanes),            *)
(* src/internal/codegen/helpers.  One action per family of helpers; each   *)
(* makes one call, with operands from the sets below, and records what was *)
(* called and what it delivered.                                           *)
(*                                                                         *)
(* A numeric helper neither reads nor writes the instance, so it is called *)
(* in the initial state only, and so is a single access.  Bulk calls, which *)
(* depend on each other, go on up to MaxCalls.                             *)
(* Growing and the order of several threads are the subject of             *)
(* LinearMemory and AtomicRmw; the memory here has a fixed size, below the *)
(* length of its array when it is shared.                                  *)
(***************************************************************************)
EXTENDS Lanes, Scalars, WasmNumbers

CONSTANTS
  Memory0,      \* bytes of the array behind the memory
  Size,         \* m.memSize
  Segments,     \* the passive data segments, a sequence of byte sequences
  SomeVectors, SomeFloatVectors, SomeNumbers, SomeBytes, SomeFloats, SomeDoubles, Shuffles,
  Counts,       \* shift counts
  SomeAddresses, SomeOffsets, WideAddresses, Lengths,
  AtomicOperands, \* of the atomic helpers, some longer than a word
  MaxCalls,     \* bound on the calls of one behaviour
  CodeValues,   \* operands of the instructions of the code actions, by type
  ShortValues,       \* operands of the conversions between integers and floats
  CodeAddresses,     \* addresses and offsets of their memory accesses
  IEEE(_, _, _, _),  \* the rounded float operations, see MachineCode
  EndTop,       \* the greatest uint32, where m.dataEnd stops
  Exceptional   \* whether the calls are made whose helpers are known to differ
                \* from WebAssembly

ASSUME HelpersAssumption ==
  /\ SomeVectors \cup SomeFloatVectors \cup Shuffles \subseteq Vectors
  /\ Len(Memory0) >= Size /\ Size < WideMod
  /\ MaxCalls \in Nat /\ EndTop \in Nat /\ Exceptional \in BOOLEAN

VARIABLES
  mem,     \* m.memory, indexed from 0
  segs,    \* m.dataSegs: a view of each segment, or Nil
  dataEnd, \* m.dataEnd
  call,    \* the last call
  out,     \* what it delivered
  calls    \* how many there were (bounded by MaxCalls)

vars == <<mem, segs, dataEnd, call, out, calls>>

Nil == [dropped |-> TRUE, bytes |-> <<>>]

Init ==
  /\ mem = [k \in 0..Len(Memory0) - 1 |-> Memory0[k + 1]]
  /\ segs = [s \in DOMAIN Segments |-> [dropped |-> FALSE, bytes |-> Segments[s]]]
  /\ dataEnd = 0
  /\ call = [name |-> "none"]
  /\ out = <<>>
  /\ calls = 0

(***************************************************************************)
(* Numbers and lanes.                                                      *)
(***************************************************************************)
Deliver(c, r) ==
  /\ calls' = MaxCalls
  /\ call' = c
  /\ out' = r
  /\ UNCHANGED <<mem, segs, dataEnd>>

\* A call of a numeric helper: what, on lanes or numbers of which width, on what.
NumberCall(what, w, op, sign, args) ==
  [name |-> "numeric", what |-> what, w |-> w, op |-> op, sign |-> sign, args |-> args]

Signs     == {"s", "u"}
Relations == {"eq", "ne", "lt", "gt", "le", "ge"}
Shifts    == {"shl", "shr_s", "shr_u"}

CompareInts == calls = 0 /\ \E rel \in Relations, sign \in Signs, a, b \in SomeVectors :
  /\ rel \in {"eq", "ne"} => sign = "u"
  /\ \/ Deliver(NumberCall("compare", I8, rel, sign, <<a, b>>), I8Compare(rel, sign, a, b))
     \/ Deliver(NumberCall("compare", I16, rel, sign, <<a, b>>), I16Compare(rel, sign, a, b))
     \/ Deliver(NumberCall("compare", I32, rel, sign, <<a, b>>), I32Compare(rel, sign, a, b))

CompareLongs == calls = 0 /\ \E rel \in Relations, a, b \in SomeVectors :
  Deliver(NumberCall("compare", I64, rel, "s", <<a, b>>), I64Compare(rel, "s", a, b))

CompareFloats == calls = 0 /\ \E rel \in Relations, a, b \in SomeFloatVectors :
  \/ Deliver(NumberCall("fcompare", F32, rel, "", <<a, b>>), F32Compare(rel, a, b))
  \/ Deliver(NumberCall("fcompare", F64, rel, "", <<a, b>>), F64Compare(rel, a, b))

Unary == calls = 0 /\ \E a \in SomeVectors :
  \/ \E op \in {"abs", "neg"} :
       \/ Deliver(NumberCall("arith", I8, op, "s", <<a, a>>), I8Arith(op, "s", a, a))
       \/ Deliver(NumberCall("arith", I16, op, "s", <<a, a>>), I16Arith(op, "s", a, a))
       \/ Deliver(NumberCall("arith", I32, op, "s", <<a, a>>), I32Arith(op, "s", a, a))
       \/ Deliver(NumberCall("arith", I64, op, "s", <<a, a>>), I64Arith(op, a, a))
  \/ Deliver(NumberCall("popcnt", I8, "", "", <<a>>), simd_i8x16_popcnt(a))

Binary == calls = 0 /\ \E a, b \in SomeVectors :
  \/ \E op \in {"add", "sub"} :
       Deliver(NumberCall("arith", I8, op, "u", <<a, b>>), I8Arith(op, "u", a, b))
  \/ \E op \in {"add", "sub", "mul"} :
       \/ Deliver(NumberCall("arith", I16, op, "u", <<a, b>>), I16Arith(op, "u", a, b))
       \/ Deliver(NumberCall("arith", I32, op, "u", <<a, b>>), I32Arith(op, "u", a, b))
       \/ Deliver(NumberCall("arith", I64, op, "s", <<a, b>>), I64Arith(op, a, b))
  \/ \E op \in {"min", "max"}, sign \in Signs :
       \/ Deliver(NumberCall("arith", I8, op, sign, <<a, b>>), I8Arith(op, sign, a, b))
       \/ Deliver(NumberCall("arith", I16, op, sign, <<a, b>>), I16Arith(op, sign, a, b))
       \/ Deliver(NumberCall("arith", I32, op, sign, <<a, b>>), I32Arith(op, sign, a, b))
  \/ \E op \in {"add_sat", "sub_sat", "avgr"}, sign \in Signs : (op = "avgr" => sign = "u") /\
       \/ Deliver(NumberCall("arith", I8, op, sign, <<a, b>>), I8Sat(op, sign, a, b))
       \/ Deliver(NumberCall("arith", I16, op, sign, <<a, b>>), I16Sat(op, sign, a, b))
  \/ Deliver(NumberCall("q15mulr", I16, "", "s", <<a, b>>), simd_i16x8_q15mulr_sat_s(a, b))
  \/ Deliver(NumberCall("dot", I32, "", "s", <<a, b>>), simd_i32x4_dot_i16x8_s(a, b))
  \/ Deliver(NumberCall("swizzle", I8, "", "", <<a, b>>), simd_i8x16_swizzle(a, b))

Shuffle == calls = 0 /\ \E a, b \in SomeVectors, pat \in Shuffles :
  Deliver(NumberCall("shuffle", I8, "", "", <<a, b, pat>>), simd_i8x16_shuffle(a, b, pat))

Bitwise == calls = 0 /\ \E op \in {"not", "and", "andnot", "or", "xor", "bitselect"}, a, b, c \in Shuffles :
  Deliver(NumberCall("bits", WordBytes, op, "", <<a, b, c>>), V128Bits(op, a, b, c))

Test == calls = 0 /\ \E a \in SomeVectors :
  \/ Deliver(NumberCall("any_true", WordBytes, "", "", <<a>>), <<simd_v128_any_true(a)>>)
  \/ \E op \in {"all_true", "bitmask"} :
       \/ Deliver(NumberCall("test", I8, op, "", <<a>>), <<I8Test(op, a)>>)
       \/ Deliver(NumberCall("test", I16, op, "", <<a>>), <<I16Test(op, a)>>)
       \/ Deliver(NumberCall("test", I32, op, "", <<a>>), <<I32Test(op, a)>>)
       \/ Deliver(NumberCall("test", I64, op, "", <<a>>), <<I64Test(op, a)>>)

ShiftVectors == calls = 0 /\ \E op \in Shifts, a \in SomeVectors, n \in Counts :
  \/ Deliver(NumberCall("shift", I8, op, "", <<a, n>>), I8Shift(op, a, n))
  \/ Deliver(NumberCall("shift", I16, op, "", <<a, n>>), I16Shift(op, a, n))
  \/ Deliver(NumberCall("shift", I32, op, "", <<a, n>>), I32Shift(op, a, n))
  \/ Deliver(NumberCall("shift", I64, op, "", <<a, n>>), I64Shift(op, a, n))

Widen == calls = 0 /\ \E sign \in Signs, a \in SomeVectors :
  \/ Deliver(NumberCall("extadd", I16, "", sign, <<a>>), I16ExtAdd(sign, a))
  \/ Deliver(NumberCall("extadd", I32, "", sign, <<a>>), I32ExtAdd(sign, a))
  \/ \E half \in {"low", "high"} :
       \/ Deliver(NumberCall("extend", I16, half, sign, <<a>>), I16Extend(half, sign, a))
       \/ Deliver(NumberCall("extend", I32, half, sign, <<a>>), I32Extend(half, sign, a))
       \/ Deliver(NumberCall("extend", I64, half, sign, <<a>>), I64Extend(half, sign, a))

Resize == calls = 0 /\ \E sign \in Signs, a, b \in SomeVectors :
  \/ Deliver(NumberCall("narrow", I8, "", sign, <<a, b>>), I8Narrow(sign, a, b))
  \/ Deliver(NumberCall("narrow", I16, "", sign, <<a, b>>), I16Narrow(sign, a, b))
  \/ \E half \in {"low", "high"} :
       \/ Deliver(NumberCall("extmul", I16, half, sign, <<a, b>>), I16ExtMul(half, sign, a, b))
       \/ Deliver(NumberCall("extmul", I32, half, sign, <<a, b>>), I32ExtMul(half, sign, a, b))
       \/ Deliver(NumberCall("extmul", I64, half, sign, <<a, b>>), I64ExtMul(half, sign, a, b))

Lane == calls = 0 /\ \E w \in {I8, I16, I32, I64}, x \in SomeNumbers, a \in Shuffles, lane \in 0..Count(I8) - 1 :
  \/ lane = 0 /\ Deliver(NumberCall("splat", w, "", "", <<x>>), Splat(w, x))
  \/ lane < Count(w) /\ Deliver(NumberCall("replace", w, "", "", <<a, lane, x>>), ReplaceLane(w, a, lane, x))

Extract == calls = 0 /\ \E w \in {I8, I16, I32, I64}, a \in SomeVectors, sign \in Signs :
  \E lane \in Indices(w) :
    Deliver(NumberCall("extract", w, "", sign, <<a, lane>>), <<ExtractLane(w, sign, a, lane)>>)

Floats == calls = 0 /\ \E a, b \in SomeFloatVectors, op \in {"min", "max", "pmin", "pmax"} :
  \/ Deliver(NumberCall("extreme", F32, op, "", <<a, b>>), F32Extreme(op, a, b))
  \/ Deliver(NumberCall("extreme", F64, op, "", <<a, b>>), F64Extreme(op, a, b))

FloatLanes == calls = 0 /\ \E a \in SomeFloatVectors :
  \/ \E op \in {"abs", "neg"} :
       \/ Deliver(NumberCall("sign", F32, op, "", <<a>>), F32Sign(op, a))
       \/ Deliver(NumberCall("sign", F64, op, "", <<a>>), F64Sign(op, a))
  \/ \E sign \in Signs :
       \/ Deliver(NumberCall("trunc_sat", F32, "", sign, <<a>>), F32TruncSat(sign, a))
       \/ Deliver(NumberCall("trunc_sat", F64, "", sign, <<a>>), F64TruncSatZero(sign, a))

\* A scalar of two bytes stands for an i32 or i64, a float of two bytes for one
\* whose mantissa is shorter than the integer, one of four for a longer one.
ScalarInts == calls = 0 /\ \E x, y \in SomeNumbers :
  \/ Deliver(NumberCall("divide", 2, "div", "s", <<x, y>>), DivS(2, x, y))
  \/ Deliver(NumberCall("divide", 2, "div", "u", <<x, y>>), DivU(2, x, y))
  \/ Deliver(NumberCall("divide", 2, "rem", "s", <<x, y>>), RemS(2, x, y))
  \/ Deliver(NumberCall("divide", 2, "rem", "u", <<x, y>>), RemU(2, x, y))
  \/ \E op \in Shifts \cup {"rotl", "rotr"} :
       Deliver(NumberCall("shift1", 2, op, "", <<x, y>>), <<Shift(2, op, x, y)>>)
  \/ Deliver(NumberCall("extend_s", 1, "", "s", <<x>>), <<ExtendS(1, 2, x)>>)

ScalarFloats == calls = 0 /\ \E x, y \in SomeFloats :
  \/ Deliver(NumberCall("extreme1", 2, "min", "", <<x, y>>), <<FloatMin(2, x, y)>>)
  \/ Deliver(NumberCall("extreme1", 2, "max", "", <<x, y>>), <<FloatMax(2, x, y)>>)
  \/ \E op \in {"abs", "neg", "copysign"} :
       Deliver(NumberCall("sign1", 2, op, "", <<x, y>>), <<FloatSign(2, op, x, y)>>)
  \/ /\ IsNaN(2, x) /\ ~IsQuiet(2, x) => Exceptional
     /\ Deliver(NumberCall("sign1", 2, "copysign", "", <<x, y>>), <<f32_copysign(2, x, y)>>)
  \/ \E rel \in Relations :
       Deliver(NumberCall("fcompare1", 2, rel, "", <<x, y>>), <<FloatCompare(2, rel, x, y)>>)

TruncateFloats == calls = 0 /\ \E x \in 0..Ones(2) :
  \/ Deliver(NumberCall("trunc", 2, "", "s", <<x>>), TruncNarrowS(2, 2, x))
  \/ Deliver(NumberCall("trunc", 2, "", "s", <<x>>), TruncEqualS(2, 2, x))
  \/ Deliver(NumberCall("trunc", 2, "", "u", <<x>>), TruncU(2, 2, x))
  \/ Deliver(NumberCall("trunc_sat1", 2, "", "s", <<x>>), <<TruncSatS(2, 2, x)>>)
  \/ Deliver(NumberCall("trunc_sat1", 2, "", "u", <<x>>), <<TruncSatU(2, 2, x)>>)

TruncateDoubles == calls = 0 /\ \E d \in SomeDoubles :
  \/ Deliver(NumberCall("trunc", 4, "", "s", <<d>>), TruncWideS(4, 2, d))
  \/ Deliver(NumberCall("trunc", 4, "", "u", <<d>>), TruncU(4, 2, d))
  \/ Deliver(NumberCall("trunc_sat1", 4, "", "s", <<d>>), <<TruncSatS(4, 2, d)>>)
  \/ Deliver(NumberCall("trunc_sat1", 4, "", "u", <<d>>), <<TruncSatU(4, 2, d)>>)

(***************************************************************************)
(* Instructions: what the code of each back end delivers for one.  Numbers *)
(* have bytes of two bits here: i32 has 8 bits, i64 and f64 have 16.       *)
(***************************************************************************)
Code == INSTANCE MachineCode WITH
  ByteBits <- 2, WordBytes <- 8, ExpBits <- 4,
  Cells <- [i8 |-> 1, i16 |-> 2, i32 |-> 4, i64 |-> 8, f32 |-> 4, f64 |-> 8]

\* The same with widths in the order of the real ones, the integers short enough
\* to reach the bounds of the floats: i32 has 4 bits and i64 8, between the
\* mantissas of 2 and of 4.
Short == INSTANCE MachineCode WITH
  ByteBits <- 1, WordBytes <- 8, ExpBits <- 4,
  Cells <- [i8 |-> 1, i16 |-> 2, i32 |-> 4, i64 |-> 8, f32 |-> 7, f64 |-> 9]

CodeCall(what, target, t, op, args) ==
  [name |-> "code", what |-> what, target |-> target, t |-> t, op |-> op, args |-> args]

\* Where the register allocator may put two operands and the result: at most one
\* of them is a constant (two are folded), the first may share the register of
\* the result, and the rest of the machine holds zeros or ones.
OperandPlaces == {
  [x |-> "slot", y |-> "slot", d |-> Code!Slot, rest |-> 255],
  [x |-> "home", y |-> "const", d |-> Code!Home, rest |-> 255],
  [x |-> "const", y |-> "home", d |-> Code!Slot, rest |-> 0],
  [x |-> "home", y |-> "home", d |-> Code!Home, rest |-> 0],
  [x |-> "slot", y |-> "const", d |-> Code!Slot, rest |-> 0]}

\* The places of one target, and of an operation: the Go code has none to choose.
PlacesOf(target, t, op) ==
  IF target = "go" THEN {p \in OperandPlaces : p.x = "slot" /\ p.y = "slot"}
  ELSE {p \in OperandPlaces : p.d = Code!Home => Code!RegHomeEligibleOp(target, t, op)}

\* The calls not made unless Exceptional: a signalling NaN through the helper of
\* f32.copysign, and the extremes of zeros of different signs.
Tolerable(target, t, op, x, y) ==
  LET w == Code!Width(t) IN
  \/ Exceptional
  \/ op = "copysign" /\ (t = "f64" \/ target = "amd64" \/ ~Code!IsNaN(w, x) \/ Code!IsQuiet(w, x))
  \/ op \in {"min", "max"} /\ (target # "amd64" \/ {x, y} # {0, Code!Half(w)})
  \/ op \notin {"copysign", "min", "max"}

Operands(t, p, x, y) == <<Code!Operand(t, x, p.x, 0), Code!Operand(t, y, p.y, 1)>>

CodeBinary == calls = 0 /\ \E target \in Code!Targets, t \in DOMAIN CodeValues :
  \E op \in IF t \in Code!IntTypes THEN Code!SimpleBinary \cup Code!DivRem \cup {"rotl", "rotr"}
            ELSE Code!FloatArith \cup Code!FloatRelations \cup {"min", "max", "copysign"} :
  \E p \in PlacesOf(target, t, op), x, y \in CodeValues[t], inline \in BOOLEAN :
    LET o == Operands(t, p, x, y) IN
    /\ inline \/ op \in Code!DivRem
    /\ Tolerable(target, t, op, x, y)
    /\ Deliver(CodeCall("instruction", target, t, op, <<x, y, p, inline>>),
               Code!Executed(target, t, op, o[1], o[2], p.d, p.rest, inline))

\* No constant reaches the bit counts and the conversions of integers on amd64.
Between == Code!Converts \cup Code!Truncates \cup Code!Saturates

CodeUnary == calls = 0 /\ \E target \in Code!Targets, t \in DOMAIN CodeValues : \E op \in Code!UnaryOps(t) \ Between :
  LET from == Code!helperSigs(t, op).params[1] IN
  \E p \in PlacesOf(target, t, op), x \in CodeValues[from] :
    LET a == Code!Operand(from, x, p.x, 0) IN
    /\ p.x = "const" => target # "amd64" \/ from \in Code!FloatTypes
    /\ Deliver(CodeCall("instruction", target, t, op, <<x, x, p>>),
               Code!Executed(target, t, op, a, a, p.d, p.rest, TRUE))

\* The inline trunc_sat of amd64 has the range of its instruction.
CodeConvert == calls = 0 /\ \E target \in Code!Targets, t \in DOMAIN ShortValues : \E op \in Short!UnaryOps(t) \cap Between :
  LET from == Short!Conversion[op][1] IN
  \E p \in PlacesOf(target, t, op), x \in ShortValues[from] :
    LET a == Short!Operand(from, x, p.x, 0) IN
    /\ p.x # "const"
    /\ target = "amd64" /\ op \in {"trunc_sat_f32_s", "trunc_sat_f64_s"} =>
         Exceptional \/ Short!Converted(Short!Width(from), Short!Width(t), "s", x)[1] >= 0
    /\ Deliver(CodeCall("conversion", target, t, op, <<x, p>>),
               Short!Executed(target, t, op, a, a, p.d, p.rest, TRUE))

CodeCopy == calls = 0 /\ \E target \in Code!Targets, t \in DOMAIN CodeValues, p \in OperandPlaces : \E x \in CodeValues[t] :
  /\ p.d = Code!Slot
  /\ Deliver(CodeCall("copy", target, t, "", <<x, p>>),
             Code!Copied(target, t, Code!Operand(t, x, p.x, 0), p.d, p.rest))

\* Accesses inside the memory.  A constant address above the middle of the 32-bit
\* space is displaced by a negative number on amd64 (run folded_address).
Inside(target, wide, at, base, offset) ==
  /\ base + offset + 8 <= 256
  /\ target = "amd64" /\ ~wide /\ at = "const" /\ base + offset >= 128 => Exceptional

CodeLoad == calls = 0 /\
  \E target \in Code!Targets, wide \in BOOLEAN, t \in DOMAIN CodeValues, base, offset \in CodeAddresses :
  \E op \in Code!LoadsOf(t), p \in OperandPlaces :
    /\ Inside(target, wide, p.x, base, offset)
    /\ Deliver(CodeCall("load", target, t, op, <<base, offset, wide, p>>),
               Code!Loaded(target, wide, t, op, Code!Operand(Code!AddressType(wide), base, p.x, 0),
                           offset, p.d, p.rest))

CodeStore == calls = 0 /\
  \E target \in Code!Targets, wide \in BOOLEAN, t \in DOMAIN CodeValues, base, offset \in CodeAddresses :
  \E op \in Code!StoresOf(t), p \in OperandPlaces, x \in CodeValues[t] :
    /\ Inside(target, wide, p.x, base, offset)
    /\ Deliver(CodeCall("store", target, t, op, <<base, offset, x, wide, p>>),
               Code!Stored(target, wide, t, op, Code!Operand(Code!AddressType(wide), base, p.x, 0),
                           offset, Code!Operand(t, x, p.y, 1), p.rest))

Conditions ==
  [shape : {"value", "and"}, op : {"ne"}, zero : {"right"}]
  \cup [shape : {"compare"}, op : DOMAIN Code!IntRelation, zero : {"right"}]
  \cup [shape : {"test"}, op : {"eq", "ne"}, zero : {"left", "right"}]

CodeBranch == calls = 0 /\
  \E target \in Code!Targets, t \in Code!IntTypes, c \in Conditions, p \in OperandPlaces,
     fall \in {"then", "else", "neither"} :
  \E x, y \in CodeValues[t] :
    LET o == Operands(t, p, x, y) IN
    /\ c.shape \in {"value", "and"} => t = "i32"
    /\ c.shape = "value" => p.x # "const"
    /\ Deliver(CodeCall("branch", target, t, "", <<x, y, c, p, fall>>),
               <<Code!Branched(target, t, c, o[1], o[2], fall, p.rest)>>)

\* br_table 0 1 0 2.
Cases == <<<<0, 2>>, <<1>>>>

CodeTable == calls = 0 /\ \E target \in Code!Targets, p \in OperandPlaces : \E x \in CodeValues["i32"] :
  /\ p.x # "const"
  /\ Deliver(CodeCall("table", target, "i32", "", <<x, p>>),
             <<Code!Switched(target, Code!Operand("i32", x, p.x, 0), Cases, p.rest)>>)

(***************************************************************************)
(* Memory: the 32-bit helpers, and with wide the 64-bit ones.              *)
(***************************************************************************)
EffectiveAddress(wide, addr, offset, n) ==
  IF wide THEN simdEA64(Size, addr, offset, n) ELSE simdEA(Size, addr, offset, n)

Access(c) ==
  /\ calls' = MaxCalls
  /\ call' = c
  /\ UNCHANGED <<segs, dataEnd>>

\* A load from ea that makes r of what it finds, a store at ea that makes m of
\* the memory: r and m matter only where there is an address.
LoadCall(c, ea, r) ==
  /\ Access(c)
  /\ out' = IF ea = NoAddress THEN OutOfBounds ELSE r
  /\ UNCHANGED mem

StoreCall(c, ea, m) ==
  /\ Access(c)
  /\ IF ea = NoAddress THEN out' = OutOfBounds /\ UNCHANGED mem
     ELSE out' = <<>> /\ mem' = m

MemoryCall(name, w, sign, lane, v, addr, offset) ==
  [name |-> name, w |-> w, sign |-> sign, lane |-> lane, v |-> v, addr |-> addr, offset |-> offset]

\* The addresses and offsets an instruction of either memory can name.
Places == {<<FALSE, a, o>> : a \in SomeAddresses, o \in SomeOffsets}
          \cup {<<TRUE, a, o>> : a \in WideAddresses, o \in SomeOffsets}

EA(p, n) == EffectiveAddress(p[1], p[2], p[3], n)

simd_v128_load == calls = 0 /\ \E p \in Places :
  LET ea == EA(p, 2 * WordBytes)
  IN  LoadCall(MemoryCall("load", WordBytes, "", 0, <<>>, p[2], p[3]), ea, LoadV128(mem, ea))

simd_v128_load_widen == calls = 0 /\ \E p \in Places, w \in {I8, I16}, sign \in Signs :
  LET ea == EA(p, WordBytes)
  IN  LoadCall(MemoryCall("widen", w, sign, 0, <<>>, p[2], p[3]), ea,
               IF p[1] THEN LoadWiden64(mem, ea, w, sign) ELSE LoadWiden(mem, ea, w, sign))

simd_v128_load_splat == calls = 0 /\ \E p \in Places, w \in {I8, I16, I32} :
  LET ea == EA(p, w)
  IN  LoadCall(MemoryCall("splat", w, "", 0, <<>>, p[2], p[3]), ea,
               IF p[1] THEN LoadSplat64(mem, ea, w) ELSE LoadSplat(mem, ea, w))

simd_v128_load_zero == calls = 0 /\ \E p \in Places, w \in {WordBytes \div 2, WordBytes} :
  LET ea == EA(p, w)
  IN  LoadCall(MemoryCall("zero", w, "", 0, <<>>, p[2], p[3]), ea, LoadZero(mem, ea, w))

simd_v128_load_lane == calls = 0 /\ \E p \in Places, w \in {I8, I16, I64}, v \in Shuffles :
  \E lane \in Indices(w) :
    LET ea == EA(p, w)
    IN  LoadCall(MemoryCall("load_lane", w, "", lane, v, p[2], p[3]), ea,
                 LoadLane(mem, ea, w, lane, v))

simd_v128_store == calls = 0 /\ \E p \in Places, v \in Shuffles :
  LET ea == EA(p, 2 * WordBytes)
  IN  StoreCall(MemoryCall("store", WordBytes, "", 0, v, p[2], p[3]), ea, StoreV128(mem, ea, v))

simd_v128_store_lane == calls = 0 /\ \E p \in Places, w \in {I8, I16, I64}, v \in Shuffles :
  \E lane \in Indices(w) :
    LET ea == EA(p, w)
    IN  StoreCall(MemoryCall("store_lane", w, "", lane, v, p[2], p[3]), ea,
                  StoreLane(mem, ea, w, lane, v))

\* The loads and stores of the first code generator.  A memory whose array is
\* longer than the instance's is shared, and they are not for it.
SliceFits(addr, offset, n) == addr + offset + n \notin Size + 1..Len(Memory0)

ScalarWidths(t) == IF t = "i32" THEN {I8, I16, WordBytes} ELSE {I8, I16, WordBytes, 2 * WordBytes}

ScalarCall(name, t, w, sign, v, addr, offset) ==
  [name |-> name, t |-> t, w |-> w, sign |-> sign, v |-> v, addr |-> addr, offset |-> offset]

mload == calls = 0 /\
  \E t \in Code!IntTypes, sign \in Signs, a \in SomeAddresses, o \in SomeOffsets : \E w \in ScalarWidths(t) :
    LET ea == SliceEA(mem, a, o, w) IN
    /\ SliceFits(a, o, w)
    /\ LoadCall(ScalarCall("iload", t, w, sign, <<>>, a, o), ea, LoadScalar(mem, ea, t, w, sign))

mstore == calls = 0 /\
  \E t \in Code!IntTypes, v \in Shuffles, a \in SomeAddresses, o \in SomeOffsets : \E w \in ScalarWidths(t) :
    LET ea == SliceEA(mem, a, o, w) IN
    /\ SliceFits(a, o, w)
    /\ StoreCall(ScalarCall("istore", t, w, "", v, a, o), ea, StoreScalar(mem, ea, w, v))

\* mcopy32, mcopy64: both ends are checked before the word is moved.
mcopy == calls = 0 /\
  \E src, dst \in SomeAddresses, so, do \in SomeOffsets, w \in {WordBytes, 2 * WordBytes} :
    LET a == SliceEA(mem, src, so, w)
        b == SliceEA(mem, dst, do, w)
    IN  /\ SliceFits(src, so, w) /\ SliceFits(dst, do, w)
        /\ StoreCall([name |-> "copy", dst |-> dst + do, src |-> src + so, n |-> w],
                     IF a = NoAddress THEN NoAddress ELSE b,
                     StoreScalar(mem, b, w, LoadScalar(mem, a, "i64", w, "u")))

\* What an atomic helper delivers: a store nothing, the other i64 forms of less
\* than 64 bits (long) a second word of zeros.
AtomicResult(op, long, old) ==
  CASE op = "store" -> <<>> [] op # "store" /\ long -> <<old, 0>> [] OTHER -> <<old>>

AtomicKinds == {"load", "store", "add", "sub", "and", "or", "xor", "xchg", "cmpxchg"}

Atomic == calls = 0 /\
  \E p \in Places, w \in {I8, I16, WordBytes}, op \in AtomicKinds, long, contended \in BOOLEAN :
  \E v \in AtomicOperands, e \in IF op = "cmpxchg" THEN AtomicOperands ELSE {0} :
    LET ea   == EA(p, w)
        word == ea - (ea % WordBytes)
        core == AtomicCore(ReadInt(mem, word, WordBytes), w, Bits(1) * (ea % WordBytes), op, e, v, contended)
    IN  /\ {v, e} \subseteq Words \/ long
        /\ op = "load" => v = 0
        /\ Access([name |-> "atomic", op |-> op, w |-> w, long |-> long, expected |-> e, v |-> v,
                   addr |-> p[2], offset |-> p[3]])
        /\ IF ea = NoAddress THEN out' = OutOfBounds /\ UNCHANGED mem
           ELSE IF ~IsAligned(ea, w) THEN out' = Unaligned /\ UNCHANGED mem
           ELSE /\ out' = AtomicResult(op, long, core[1])
                /\ mem' = WriteInt(mem, word, WordBytes, core[2])

(***************************************************************************)
(* Bulk memory: n = 0 returns at once, a range outside traps, and else the *)
(* bytes are written.  outside says that some range reaches past its end,  *)
(* as it can even when it is empty.                                        *)
(***************************************************************************)
Bulk(c, outside, written) ==
  /\ calls' = calls + 1
  /\ call' = c
  /\ c.n = 0 /\ outside => Exceptional
  /\ IF c.n = 0 THEN out' = <<>> /\ UNCHANGED mem
     ELSE IF outside THEN out' = OutOfBounds /\ UNCHANGED mem
     ELSE out' = <<>> /\ mem' = written
  /\ UNCHANGED segs

\* end := dst + n reaches past size; in 64 bits the sum may wrap, and n be negative.
Past(at, n, size)   == at + n > size
Past64(at, n, size) ==
  LET end == (at + n) % WideMod IN n >= WideMod \div 2 \/ end < at \/ end > size

memoryFill == calls < MaxCalls /\ \E dst \in SomeAddresses, n \in Lengths, val \in SomeBytes :
  /\ Bulk([name |-> "fill", dst |-> dst, n |-> n, val |-> val],
          Past(dst, n, Size), FillBytes(mem, dst, val, n))
  /\ UNCHANGED dataEnd

memoryFill64 == calls < MaxCalls /\ \E dst \in WideAddresses, n \in Lengths, val \in SomeBytes :
  /\ Bulk([name |-> "fill", dst |-> dst, n |-> n, val |-> val],
          Past64(dst, n, Size), FillBytes(mem, dst, val, n))
  /\ UNCHANGED dataEnd

memoryCopy == calls < MaxCalls /\ \E dst, src \in SomeAddresses, n \in Lengths :
  /\ Bulk([name |-> "copy", dst |-> dst, src |-> src, n |-> n],
          Past(src, n, Size) \/ Past(dst, n, Size), CopyBytes(mem, dst, src, n))
  /\ UNCHANGED dataEnd

memoryCopy64 == calls < MaxCalls /\ \E dst, src \in WideAddresses, n \in Lengths :
  /\ Bulk([name |-> "copy", dst |-> dst, src |-> src, n |-> n],
          Past64(src, n, Size) \/ Past64(dst, n, Size), CopyBytes(mem, dst, src, n))
  /\ UNCHANGED dataEnd

\* The bytes of a segment over the memory (written only where they differ), and
\* the end of the region the segments have reached.
Installed(seg, dst, src, n) ==
  [k \in DOMAIN mem |->
     IF k \in dst..dst + n - 1 THEN segs[seg].bytes[src + k - dst + 1] ELSE mem[k]]

Reached(end) == dataEnd' = IF end > dataEnd THEN end ELSE dataEnd

memoryInit == calls < MaxCalls /\ \E seg \in DOMAIN segs, dst, src \in SomeAddresses, n \in Lengths :
  /\ Bulk([name |-> "init", seg |-> seg, dst |-> dst, src |-> src, n |-> n],
          Past(src, n, Len(segs[seg].bytes)) \/ Past(dst, n, Size),
          Installed(seg, dst, src, n))
  /\ IF n # 0 /\ out' = <<>> THEN Reached(dst + n) ELSE UNCHANGED dataEnd

memoryInit64 == calls < MaxCalls /\
  \E seg \in DOMAIN segs, dst \in WideAddresses, src \in SomeAddresses, n \in Lengths :
  /\ Bulk([name |-> "init", seg |-> seg, dst |-> dst, src |-> src, n |-> n],
          Past(src, n, Len(segs[seg].bytes)) \/ Past64(dst, n, Size),
          Installed(seg, dst, src, n))
  /\ IF n # 0 /\ out' = <<>>
     THEN Reached(IF dst + n >= EndTop THEN EndTop ELSE dst + n) ELSE UNCHANGED dataEnd

\* The view becomes nil, whose length is 0; dropping it again changes nothing.
dataDrop == calls < MaxCalls /\ \E seg \in DOMAIN segs :
  /\ calls' = calls + 1
  /\ call' = [name |-> "drop", seg |-> seg]
  /\ segs' = [segs EXCEPT ![seg] = Nil]
  /\ out' = <<>>
  /\ UNCHANGED <<mem, dataEnd>>

Next ==
  \/ CompareInts \/ CompareLongs \/ CompareFloats \/ Unary \/ Binary \/ Shuffle \/ Bitwise
  \/ Test \/ ShiftVectors \/ Widen \/ Resize \/ Lane \/ Extract \/ Floats \/ FloatLanes
  \/ ScalarInts \/ ScalarFloats \/ TruncateFloats \/ TruncateDoubles
  \/ CodeBinary \/ CodeUnary \/ CodeConvert \/ CodeCopy \/ CodeLoad \/ CodeStore \/ CodeBranch \/ CodeTable
  \/ simd_v128_load \/ simd_v128_load_widen \/ simd_v128_load_splat \/ simd_v128_load_zero
  \/ simd_v128_load_lane \/ simd_v128_store \/ simd_v128_store_lane
  \/ mload \/ mstore \/ mcopy \/ Atomic
  \/ memoryFill \/ memoryFill64 \/ memoryCopy \/ memoryCopy64
  \/ memoryInit \/ memoryInit64 \/ dataDrop

Spec == Init /\ [][Next]_vars

(***************************************************************************)
(* Properties.                                                             *)
(***************************************************************************)
\* Every lane of the vector r is what L says of it.
Lanewise(w, r, L(_)) == \A i \in 0..LaneCount(w) - 1 : LaneOf(w, r, i) = L(i)

\* What WebAssembly says of the scalar instructions.
MeansScalar(c, r) ==
  LET x == c.args[1]
      y == c.args[2]
  IN
  CASE c.what = "divide" -> r = Divided(2, c.op, c.sign, x, y)
    [] c.what = "shift1" -> r = <<Shifted(2, c.op, x, y)>>
    [] c.what = "extend_s" -> r = <<Wrap(2, Signed(1, Wrap(1, x)))>>
    [] c.what = "fcompare1" -> r = <<IF FloatCompared(2, c.op, x, y) THEN 1 ELSE 0>>
    [] c.what = "trunc" -> r = Converted(c.w, 2, c.sign, x)
    [] c.what = "trunc_sat1" -> r = <<Saturated(c.w, 2, c.sign, x)>>
    [] c.what = "extreme1" -> MayBeExtreme(2, c.op, x, y, r[1])
    [] c.what = "sign1" ->
         /\ Magnitude(2, r[1]) = Magnitude(2, x)
         /\ Negative(2, r[1]) = (CASE c.op = "abs" -> FALSE
                                   [] c.op = "neg" -> ~Negative(2, x)
                                   [] c.op = "copysign" -> Negative(2, y))

\* ... of the instructions that make a vector of vectors, lane by lane ...
MeansLanes(c, r) ==
  LET w == c.w
      a(i) == LaneOf(w, c.args[1], i)
      b(i) == LaneOf(w, c.args[2], i)
      n == LaneCount(w)
      \* a lane of half the width, as an integer
      part(v, i) == IntOf(w \div 2, c.sign, LaneOf(w \div 2, c.args[v], i))
      from == IF c.op = "high" THEN n ELSE 0
  IN
  CASE c.what = "compare" ->
         Lanewise(w, r, LAMBDA i : Truth(w, Compared(c.op, IntOf(w, c.sign, a(i)), IntOf(w, c.sign, b(i)))))
    [] c.what = "fcompare" -> Lanewise(w, r, LAMBDA i : Truth(w, FloatCompared(w, c.op, a(i), b(i))))
    [] c.what = "arith" -> Lanewise(w, r, LAMBDA i : Arithmetic(w, c.op, c.sign, a(i), b(i)))
    [] c.what = "q15mulr" -> Lanewise(w, r, LAMBDA i : Fraction(w, a(i), b(i)))
    [] c.what = "shift" -> Lanewise(w, r, LAMBDA i : Shifted(w, c.op, a(i), c.args[2]))
    [] c.what = "swizzle" -> Lanewise(w, r, LAMBDA i : IF b(i) < n THEN a(b(i)) ELSE 0)
    [] c.what = "shuffle" ->
         Lanewise(w, r, LAMBDA i : LET k == LaneOf(w, c.args[3], i) IN
                                   IF k < n THEN a(k) ELSE IF k < 2 * n THEN b(k - n) ELSE 0)
    [] c.what = "dot" ->
         Lanewise(w, r, LAMBDA i : Wrap(w, part(1, 2 * i) * part(2, 2 * i)
                                           + part(1, 2 * i + 1) * part(2, 2 * i + 1)))
    [] c.what = "extadd" -> Lanewise(w, r, LAMBDA i : Wrap(w, part(1, 2 * i) + part(1, 2 * i + 1)))
    [] c.what = "extend" -> Lanewise(w, r, LAMBDA i : Wrap(w, part(1, from + i)))
    [] c.what = "extmul" -> Lanewise(w, r, LAMBDA i : Wrap(w, part(1, from + i) * part(2, from + i)))
    [] c.what = "narrow" ->
         Lanewise(w, r, LAMBDA i :
           Clamp(w, c.sign, IF i < n \div 2 THEN Signed(2 * w, LaneOf(2 * w, c.args[1], i))
                            ELSE Signed(2 * w, LaneOf(2 * w, c.args[2], i - n \div 2))))
    [] c.what = "popcnt" ->
         Lanewise(w, r, LAMBDA i : SumOf(Bits(w), LAMBDA k : BitOf(a(i), k)))
    [] c.what = "splat" -> Lanewise(w, r, LAMBDA i : Wrap(w, c.args[1]))
    [] c.what = "replace" ->
         Lanewise(w, r, LAMBDA i : IF i = c.args[2] THEN Wrap(w, c.args[3]) ELSE a(i))
    [] c.what = "bits" ->
         \A i \in 1..2 : \A k \in 0..Bits(w) - 1 :
           LET bit(j) == BitOf(c.args[j][i], k)
           IN  BitOf(r[i], k) =
                (CASE c.op = "not" -> 1 - bit(1)
                   [] c.op = "and" -> bit(1) * bit(2)
                   [] c.op = "andnot" -> bit(1) * (1 - bit(2))
                   [] c.op = "or"  -> IF bit(1) + bit(2) > 0 THEN 1 ELSE 0
                   [] c.op = "xor" -> (bit(1) + bit(2)) % 2
                   [] c.op = "bitselect" -> IF bit(3) = 1 THEN bit(1) ELSE bit(2))
    [] c.what = "extreme" ->
         \A i \in 0..n - 1 :
           IF c.op \in {"min", "max"} THEN MayBeExtreme(w, c.op, a(i), b(i), LaneOf(w, r, i))
           ELSE LaneOf(w, r, i) = PseudoExtreme(w, c.op, a(i), b(i))
    [] c.what = "sign" ->
         \A i \in 0..n - 1 :
           /\ Magnitude(w, LaneOf(w, r, i)) = Magnitude(w, a(i))
           /\ Negative(w, LaneOf(w, r, i)) = (c.op = "neg" /\ ~Negative(w, a(i)))
    [] c.what = "trunc_sat" ->
         Lanewise(F32, r, LAMBDA i : IF i < n THEN Saturated(w, F32, c.sign, a(i)) ELSE 0)

\* ... and of those that make a number of a vector.
MeansTest(c, r) ==
  LET w == c.w
      a(i) == LaneOf(w, c.args[1], i)
      lanes == 0..LaneCount(w) - 1
  IN
  CASE c.what = "any_true" -> r = <<IF \E i \in lanes : a(i) # 0 THEN 1 ELSE 0>>
    [] c.what = "extract" -> r = <<Wrap(WordBytes, IntOf(w, c.sign, a(c.args[2])))>>
    [] c.what = "test" ->
         r = IF c.op = "all_true" THEN <<IF \A i \in lanes : a(i) # 0 THEN 1 ELSE 0>>
             ELSE <<SumOf(LaneCount(w), LAMBDA i : IF Signed(w, a(i)) < 0 THEN 2^i ELSE 0)>>

\* ... of what the code of an instruction does, on every target and wherever its
\* operands and its result are.
MeansCode(c, r) ==
  LET a == c.args IN
  CASE c.what = "instruction" -> Code!MeansInstruction(c.t, c.op, a[1], a[2], r)
    [] c.what = "conversion" -> Short!MeansConversion(c.t, c.op, a[1], r)
    [] c.what = "copy" -> r = <<a[1]>>
    [] c.what = "load" -> Code!MeansLoad(c.t, c.op, a[1], a[2], r)
    [] c.what = "store" -> Code!MeansStore(c.t, c.op, a[1], a[2], a[3], r)
    [] c.what = "branch" -> Code!MeansBranch(c.t, a[3], a[1], a[2], r[1])
    [] c.what = "table" -> Code!MeansTable(Cases, a[1], r[1])

Scalar == {"divide", "shift1", "extend_s", "fcompare1", "trunc", "trunc_sat1", "extreme1", "sign1"}
Testing == {"any_true", "extract", "test"}

\* What a numeric helper delivers - a number, every lane of a vector, a trap -
\* is what WebAssembly says of its instruction: the conversions at their
\* bounds, saturation, NaNs and signed zeros, shift counts, lane order.  So is
\* what the code of an instruction delivers, in Go and in both machine codes.
PureMeansWasm ==
  /\ call.name = "numeric" =>
       IF call.what \in Scalar THEN MeansScalar(call, out)
       ELSE IF call.what \in Testing THEN MeansTest(call, out)
       ELSE MeansLanes(call, out)
  /\ call.name = "code" => MeansCode(call, out)

\* Memory accesses and bulk instructions are those of a WebAssembly instance:
\* what they deliver, what they leave in the memory and the segments, and when
\* they trap, in 32 and in 64 bits.  The array beyond m.memSize is no part of
\* the instance.
Instance == INSTANCE WasmInstance WITH
  GivenMemory   <- SubSeq(Memory0, 1, Size),
  GivenSegments <- Segments,
  mem  <- [k \in 1..Size |-> mem[k - 1]],
  segs <- [s \in DOMAIN segs |-> segs[s].bytes]

ImplementsWasmInstance == Instance!Spec
================================================================================
