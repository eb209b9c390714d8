--------------------------------- MODULE Wasm ---------------------------------
(***************************************************************************)
(* The module instance a function runs against (linear memory, its size in *)
(* pages, one global, and what the host saw) and what a wasm function body *)
(* means on it: the reference the compiled function is compared with.  The *)
(* source program and the generated code run on the same machine, so that  *)
(* their outcomes can be compared.  A body is a flat sequence of           *)
(* instructions [op, imm], as the decoder hands them to the lowering,      *)
(* closed by the function's own "end".  This is the wasm specification,    *)
(* not code of the repository.                                             *)
(*                                                                         *)
(* Data is scaled: a byte has Byte values, an i32 is two bytes, a v128 is  *)
(* VLen bytes, a page PageBytes bytes.  Address arithmetic wraps at Word   *)
(* and the memory stays below it, as wasmMemHardCap keeps it below 2^32.   *)
(***************************************************************************)
EXTENDS Integers, Sequences, FiniteSets, SequencesExt

CONSTANTS
    Byte, VLen, PageBytes, InitPages, MaxPages,
    Callees    \* the functions of the module a "call_direct" names, by index

Word == Byte * Byte

ASSUME MachineAssumption ==
    /\ {Byte, VLen, PageBytes, InitPages, MaxPages} \subseteq Nat \ {0}
    /\ InitPages <= MaxPages
    /\ MaxPages * PageBytes + VLen < Word

Addresses == 0 .. MaxPages * PageBytes - 1

\* "wild" is an access a valid program never makes: generated code does not
\* check scalar accesses, so nothing is promised of a run that is wild.
Statuses == {"run", "trap", "wild", "fuel"}

\* array counts the relocations of the memory: m.M changes with it.  fuel
\* bounds how long a run is followed.
StartMachine(fuel) ==
    [mem |-> [a \in Addresses |-> a % Byte], pages |-> InitPages, glob |-> 1, log |-> <<>>,
     status |-> "run", array |-> 0, fuel |-> fuel]

Burn(m) == IF m.fuel = 0 THEN [m EXCEPT !.status = "fuel"] ELSE [m EXCEPT !.fuel = @ - 1]

MemSize(m) == m.pages * PageBytes

Signed(w) == IF 2 * w < Word THEN w ELSE w - Word

(* Linear memory.  Scalar accesses are inline dereferences, never checked. *)
InBounds(m, ea, width) == ea + width <= MemSize(m)

Width(op) ==
    CASE op \in {"OpLoad8U", "OpLoad8S", "OpStore8"} -> 1
      [] op \in {"OpLoad32", "OpStore32"}            -> 2
      [] OTHER                                       -> 0

ReadAs(op, m, ea) ==
    CASE op = "OpLoad8U" -> m.mem[ea]
      [] op = "OpLoad8S" -> IF 2 * m.mem[ea] < Byte THEN m.mem[ea]
                            ELSE m.mem[ea] + Word - Byte
      [] op = "OpLoad32" -> m.mem[ea] + Byte * m.mem[ea + 1]

Wild(m) == [m EXCEPT !.status = "wild"]
Trap(m) == [m EXCEPT !.status = "trap"]

Load(op, m, ea) ==
    IF InBounds(m, ea, Width(op)) THEN [m |-> m, v |-> ReadAs(op, m, ea)]
    ELSE [m |-> Wild(m), v |-> 0]

Store(op, m, ea, w) ==
    IF ~InBounds(m, ea, Width(op)) THEN Wild(m)
    ELSE IF op = "OpStore8" THEN [m EXCEPT !.mem[ea] = w % Byte]
    ELSE [m EXCEPT !.mem[ea] = w % Byte, !.mem[ea + 1] = w \div Byte]

(* v128 accesses are helpers that check the unwrapped effective address.   *)
ReadVec(m, ea) == [i \in 1 .. VLen |-> m.mem[ea + i - 1]]

VecLoad(m, ea) ==
    IF InBounds(m, ea, VLen) THEN [m |-> m, v |-> ReadVec(m, ea)]
    ELSE [m |-> Trap(m), v |-> 0]

VecStore(m, ea, vec) ==
    IF ~InBounds(m, ea, VLen) THEN Trap(m)
    ELSE [m EXCEPT !.mem = [a \in Addresses |->
              IF a \in ea .. ea + VLen - 1 THEN vec[a - ea + 1] ELSE @[a]]]

(* memory.grow answers the old page count, or -1 and leaves the size.      *)
Grow(m, delta) ==
    IF m.pages + delta <= MaxPages
    THEN [m |-> [m EXCEPT !.pages = @ + delta, !.array = @ + 1], v |-> m.pages]
    ELSE [m |-> m, v |-> Word - 1]

(* A call leaves the function being compiled: the callee sees memory and   *)
(* the global, and may write both, or grow the memory.                     *)
Call(m, w) ==
    [m |-> [m EXCEPT !.log = Append(@, <<w, m.mem, m.pages, m.glob>>),
                     !.mem[0] = (@ + 1) % Byte, !.array = @ + 1,
                     !.glob   = (@ + 1) % Word],
     v |-> (w + m.mem[1]) % Word]

(* i32.div_u traps on zero; the other operators never do.                  *)
Divide(m, a, b) == IF b = 0 THEN [m |-> Trap(m), v |-> 0] ELSE [m |-> m, v |-> a \div b]

\* i32.ctz: how many of the low bits are zero.
Ctz(w) == Cardinality({k \in 1 .. Word : 2 ^ k <= Word /\ w % (2 ^ k) = 0})

Bool(b) == IF b THEN 1 ELSE 0

Arith(op, a, b) ==
    CASE op = "OpAdd32" -> (a + b) % Word
      [] op = "OpSub32" -> (a - b) % Word
      [] op = "OpEq32"  -> Bool(a = b)
      [] op = "OpNe32"  -> Bool(a # b)
      [] op = "OpLtU32" -> Bool(a < b)
      [] op = "OpLtS32" -> Bool(Signed(a) < Signed(b))

---------------------------------------------------------------------------
(* Programs.                                                               *)

\* FoldLeft by halves, as code is long (DOMAIN has TLC evaluate s first).
InOrder(op(_, _), base, seq) ==
    LET RECURSIVE over(_, _, _)
        over(s, from, to) ==
            IF from > to \/ DOMAIN s # DOMAIN s THEN s
            ELSE IF from = to THEN op(s, seq[from])
            ELSE LET mid == (from + to) \div 2
                 IN  over(over(s, from, mid), mid + 1, to)
    IN  over(base, 1, Len(seq))

\* A function: its body, how many parameters, further locals and results.
Function(body, nparams, nlocals, nresults) ==
    [body |-> body, nparams |-> nparams, nlocals |-> nlocals, nresults |-> nresults]

I(op, imm) == [op |-> op, imm |-> imm]

Opens == {"block", "loop", "if"}

\* Nesting[i] is how many frames are open before instruction i.
Nesting(body) ==
    LET n[i \in 1 .. Len(body)] ==
            IF i = 1 THEN 0
            ELSE n[i - 1] + (CASE body[i - 1].op \in Opens -> 1
                               [] body[i - 1].op = "end"   -> -1
                               [] OTHER                    -> 0)
    IN  n

Closer(body, i, op) ==
    {j \in i + 1 .. Len(body) :
        body[j].op = op /\ Nesting(body)[j] = Nesting(body)[i] + 1}

EndOf(body, i) == CHOOSE j \in Closer(body, i, "end") :
                      \A k \in Closer(body, i, "end") : j <= k

ElseOf(body, i) == {j \in Closer(body, i, "else") : j < EndOf(body, i)}

DropLast(stack, n) == SubSeq(stack, 1, Len(stack) - n)
Top(stack) == stack[Len(stack)]
Under(stack) == stack[Len(stack) - 1]
LastN(stack, n) == SubSeq(stack, Len(stack) - n + 1, Len(stack))

\* A label remembers where a branch to it continues and what it carries.
LabelFor(body, s, i) ==
    LET loop == body[i].op = "loop"
    IN  [cont |-> IF loop THEN i + 1 ELSE EndOf(body, i) + 1, loop |-> loop,
         arity |-> IF loop THEN 0 ELSE body[i].imm, height |-> Len(s.stack)]

Next1(s) == [s EXCEPT !.pc = @ + 1]

BranchTo(s, depth) ==
    LET l == s.labels[Len(s.labels) - depth]
    IN  [s EXCEPT !.pc = l.cont,
                  !.stack = SubSeq(@, 1, l.height) \o LastN(@, l.arity),
                  !.labels = DropLast(@, IF l.loop THEN depth ELSE depth + 1)]

\* pops n operands, pushes the value of r and takes the machine r leaves
Result(s, n, r) == [Next1(s) EXCEPT !.stack = Append(DropLast(@, n), r.v), !.m = r.m]
Push(s, n, v) == Result(s, n, [m |-> s.m, v |-> v])
Effect(s, n, m) == [Next1(s) EXCEPT !.stack = DropLast(@, n), !.m = m]

BinOps == {"OpAdd32", "OpSub32", "OpEq32", "OpNe32", "OpLtU32", "OpLtS32"}
LoadOps == {"OpLoad8U", "OpLoad8S", "OpLoad32"}
StoreOps == {"OpStore8", "OpStore32"}

\* A call of function f on machine m: its parameters, then zeros.
Called(f, args, m) ==
    [pc |-> 1, stack |-> <<>>, labels |-> <<>>, m |-> m,
     loc |-> args \o [i \in 1 .. f.nlocals |-> 0]]

RECURSIVE RunWasm(_, _)

\* The effective address of an access is not wrapped.
Step(body, s) ==
    LET i == body[s.pc]  IN
    LET x == Top(s.stack)  y == Under(s.stack)  IN
    CASE i.op = "const"  -> Push(s, 0, i.imm)
      [] i.op = "get"    -> Push(s, 0, s.loc[i.imm])
      [] i.op = "set"    -> [Effect(s, 1, s.m) EXCEPT !.loc[i.imm] = x]
      [] i.op = "tee"    -> [Next1(s) EXCEPT !.loc[i.imm] = x]
      [] i.op = "drop"   -> Effect(s, 1, s.m)
      [] i.op \in BinOps -> Push(s, 2, Arith(i.op, y, x))
      [] i.op = "eqz"    -> Push(s, 1, Bool(x = 0))
      [] i.op = "ctz"    -> Push(s, 1, Ctz(x))
      [] i.op = "div_u"  -> Result(s, 2, Divide(s.m, y, x))
      [] i.op \in LoadOps  -> Result(s, 1, Load(i.op, s.m, x + i.imm))
      [] i.op \in StoreOps -> Effect(s, 2, Store(i.op, s.m, y + i.imm, x))
      [] i.op = "vload"    -> Result(s, 1, VecLoad(s.m, x + i.imm))
      [] i.op = "vstore"   -> Effect(s, 2, VecStore(s.m, y + i.imm, x))
      [] i.op = "extract"  -> Push(s, 1, x[i.imm])
      [] i.op = "size"   -> Push(s, 0, s.m.pages)
      [] i.op = "grow"   -> Result(s, 1, Grow(s.m, x))
      [] i.op = "gget"   -> Push(s, 0, s.m.glob)
      [] i.op = "gset"   -> Effect(s, 1, [s.m EXCEPT !.glob = x])
      [] i.op = "call"   -> Result(s, 1, Call(s.m, x))
      [] i.op = "call_direct" ->    \* imm: the function called
             LET f == Callees[i.imm]
                 r == RunWasm(f, Called(f, LastN(s.stack, f.nparams), s.m))
             IN  [Effect(s, f.nparams, r.m) EXCEPT !.stack = @ \o r.results]
      [] i.op = "select" ->
             Push(s, 3, IF x # 0 THEN s.stack[Len(s.stack) - 2] ELSE y)
      [] i.op \in {"block", "loop"} ->
             [Next1(s) EXCEPT !.labels = Append(@, LabelFor(body, s, s.pc))]
      [] i.op = "if" ->
             LET t == [s EXCEPT !.stack = DropLast(@, 1)]
                 in == [t EXCEPT !.labels = Append(@, LabelFor(body, t, s.pc))]
             IN  IF x # 0 THEN Next1(in)
                 ELSE IF ElseOf(body, s.pc) # {}
                      THEN [in EXCEPT !.pc = 1 + CHOOSE j \in ElseOf(body, s.pc) : TRUE]
                      ELSE [t EXCEPT !.pc = EndOf(body, s.pc) + 1]
      [] i.op = "else"   -> BranchTo(s, 0)
      [] i.op = "end"    -> [Next1(s) EXCEPT !.labels = DropLast(@, 1)]
      [] i.op = "br"     -> BranchTo(s, i.imm)
      [] i.op = "br_if"  -> LET t == [s EXCEPT !.stack = DropLast(@, 1)]
                            IN  IF x # 0 THEN BranchTo(t, i.imm) ELSE Next1(t)
      [] i.op = "br_table" ->   \* imm: the labels, the default last
             LET k == IF x < Len(i.imm) - 1 THEN x + 1 ELSE Len(i.imm)
             IN  BranchTo([s EXCEPT !.stack = DropLast(@, 1)], i.imm[k])
      [] i.op = "return" -> [s EXCEPT !.pc = Len(body)]
      [] i.op = "unreachable" -> [s EXCEPT !.m = Trap(@)]

\* What an observer sees of a finished run.
Outcome(m, results) ==
    [status |-> m.status, mem |-> m.mem, pages |-> m.pages, glob |-> m.glob, log |-> m.log,
     results |-> IF m.status = "run" THEN results ELSE <<>>]

\* The function run to its end, to a trap, or out of fuel.
RunWasm(f, s) ==
    IF s.m.status = "run" /\ s.pc # Len(f.body)
    THEN LET m == Burn(s.m)
         IN  RunWasm(f, IF m.status = "run" THEN Step(f.body, [s EXCEPT !.m = m])
                        ELSE [s EXCEPT !.m = m])
    ELSE [m |-> s.m,
          results |-> IF s.m.status = "run" THEN LastN(s.stack, f.nresults) ELSE <<>>]

Meaning(f, args, fuel) ==
    LET end == RunWasm(f, Called(f, args, StartMachine(fuel)))
    IN  Outcome(end.m, end.results)
=============================================================================
