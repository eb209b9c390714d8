--------------------------------- MODULE AsmRun ---------------------------------
(***************************************************************************)
(* What the instructions of an assembled function do when they run: the    *)
(* amd64 instruction set as the back end uses it, and Go's stack-based     *)
(* calling convention (src/internal/asmgen/frame.go).  A call keeps no     *)
(* register, and its frame at the bottom of the caller's may be            *)
(* overwritten.                                                            *)
(*                                                                         *)
(* A v128 lies in two halves.  A number is a word, or a half; pointers are *)
(* negative.                                                               *)
(***************************************************************************)
EXTENDS AsmEmit, Execute

ASSUME AsmRunAssumption == VLen = 2

Undefined == -1              \* what nothing wrote
ModulePtr == -2              \* m
BasePtr(m) == -3 - m.array   \* m.M: it moves with the memory

NoFlags == <<Undefined, Undefined>>

\* s: the machine, registers and slots by operand, the pair that was last
\* compared, the arguments and the results.
StartAsm(p, args, m) ==
    [m |-> m, cell |-> <<>>, flags |-> NoFlags, args |-> args,
     results |-> [k \in 1 .. p.fn.results |-> Undefined]]

Cell(s, x) == IF x \in DOMAIN s.cell THEN s.cell[x] ELSE Undefined

Read(s, x) ==
    CASE x[1] \in {"r", "s"} -> Cell(s, x)
      [] x[1] = "i" -> x[2]
      [] x[1] = "p" -> IF x[2] = 0 THEN ModulePtr ELSE s.args[x[2]]
      [] x[1] = "d" -> IF Cell(s, x[3]) < 0 THEN Undefined ELSE (Cell(s, x[3]) + x[2]) % Word
      [] x[1] = "f" -> IF Cell(s, R11) # ModulePtr THEN Undefined
                       ELSE IF x[2] = "M" THEN BasePtr(s.m) ELSE s.m.glob

Lost(s) == [s EXCEPT !.m = Wild(@)]

Write(s, x, w) ==
    CASE x[1] \in {"r", "s"} -> [s EXCEPT !.cell = (x :> w) @@ @]
      [] x[1] = "ret"        -> [s EXCEPT !.results[x[2]] = w]
      [] x[1] = "f"          -> IF w < 0 \/ Cell(s, R11) # ModulePtr THEN Lost(s)
                                ELSE [s EXCEPT !.m.glob = w]

---------------------------------------------------------------------------
(* Memory: the address is not wrapped.                                     *)

Offset(s, x) == x[2] + (IF x[3] THEN Cell(s, SI) ELSE 0)

InReach(s, x) ==
    Cell(s, BX) = BasePtr(s.m) /\ (x[3] => Cell(s, SI) >= 0) /\ Offset(s, x) >= 0

LoadOf(mov) == CASE mov = "MOVL"    -> "OpLoad32"
                 [] mov = "MOVBLZX" -> "OpLoad8U"
                 [] mov = "MOVBLSX" -> "OpLoad8S"

MoveFrom(s, mov, x, dst) ==
    IF x = NilDeref THEN [s EXCEPT !.m = Trap(@)]
    ELSE IF ~InReach(s, x) THEN Lost(s)
    ELSE LET r == Load(LoadOf(mov), s.m, Offset(s, x))
         IN  Write([s EXCEPT !.m = r.m], dst, r.v)

MoveTo(s, mov, src, x) ==
    IF Read(s, src) < 0 \/ ~InReach(s, x) THEN Lost(s)
    ELSE [s EXCEPT !.m = Store(IF mov = "MOVB" THEN "OpStore8" ELSE "OpStore32",
                               @, Offset(s, x), Read(s, src))]

InMemory(x) == x # No /\ x[1] \in {"m", "nil"}

---------------------------------------------------------------------------
(* Arithmetic and comparisons.                                             *)

\* On something undefined, undefined.
Computed(op, a, b) ==
    IF a < 0 \/ b < 0 THEN Undefined
    ELSE Arith(IF op = "ADDL" THEN "OpAdd32" ELSE "OpSub32", a, b)

Alu(s, i) ==
    [Write(s, i[3], Computed(i[1], Read(s, i[3]), Read(s, i[2]))) EXCEPT !.flags = NoFlags]

Divided(s, i) ==
    LET a == Cell(s, AX)
        b == Read(s, i[3])
    IN  IF a < 0 \/ b <= 0 \/ Cell(s, DX) # 0 THEN Lost(s)
        ELSE [s EXCEPT !.cell = (AX :> a \div b) @@ (DX :> a % b) @@ @, !.flags = NoFlags]

Holds(cc, flags) ==
    CASE cc \in {"SETEQ", "JE"}  -> flags[1] = flags[2]
      [] cc \in {"SETNE", "JNE"} -> flags[1] # flags[2]
      [] cc \in {"SETLT", "JLT"} -> Signed(flags[1]) < Signed(flags[2])
      [] cc = "JGE"              -> Signed(flags[1]) >= Signed(flags[2])
      [] cc \in {"SETCS", "JCS"} -> flags[1] < flags[2]
      [] cc = "JCC"              -> flags[1] >= flags[2]

FlagsKnown(s) == s.flags[1] >= 0 /\ s.flags[2] >= 0

\* The rest of AX is what it was.
SetByte(s, i) ==
    IF ~FlagsKnown(s) THEN Lost(s)
    ELSE [s EXCEPT !.cell = (i[3] :> Bool(Holds(i[1], s.flags))) @@ (AX :> Undefined) @@ @]

---------------------------------------------------------------------------
(* Calls.                                                                  *)

Staged32(s, at) == Cell(s, Slot(at))

ArgOf(p, s, a, at) ==
    IF p.fn.val[a].type = "v128" THEN <<Staged32(s, at), Staged32(s, at + 8)>>
    ELSE Staged32(s, at)

Given(p, s, v) ==
    LET x == p.fn.val[v]
        f == CallFrame(p.fn, v)
    IN  /\ x.op # "OpSimdCall" => Staged32(s, 0) = ModulePtr
        /\ \A i \in DOMAIN x.args :
              /\ Staged32(s, f.args[i]) >= 0
              /\ p.fn.val[x.args[i]].type = "v128" => Staged32(s, f.args[i] + 8) >= 0

Callee(p, s, v) ==
    LET x == p.fn.val[v]
        f == CallFrame(p.fn, v)
        a == [i \in DOMAIN x.args |-> ArgOf(p, s, x.args[i], f.args[i])]
    IN  IF x.op = "OpCallDirect" THEN CallDirect([loops |-> <<>>], x, a, s.m)
        ELSE Apply(p.fn, v, a, s.m)

\* What is above the frame of any call stays.
KeptByCall(p, s) ==
    Restrict(s.cell, {x \in DOMAIN s.cell : IsSlot(x) /\ x[2] >= p.area})

Result32(p, v, r) ==
    LET at == CallFrame(p.fn, v).ret
        x  == p.fn.val[v]
    IN  IF Returns(x) = 0 \/ r.m.status # "run" THEN <<>>
        ELSE IF x.type = "v128" THEN (Slot(at) :> r.v[1]) @@ (Slot(at + 8) :> r.v[2])
        ELSE Slot(at) :> r.v

AfterCall(p, s, v, r) ==
    [s EXCEPT !.m = r.m, !.cell = Result32(p, v, r) @@ KeptByCall(p, s), !.flags = NoFlags]

DoCall(p, s, v) ==
    IF v = 0 THEN [s EXCEPT !.m = Trap(@)]
    ELSE IF ~Given(p, s, v) THEN Lost(s)
    ELSE AfterCall(p, s, v, Callee(p, s, v))

---------------------------------------------------------------------------
(* An instruction that does not jump.                                      *)

DoMove(s, i) ==
    IF InMemory(i[2]) THEN MoveFrom(s, i[1], i[2], i[3])
    ELSE IF InMemory(i[3]) THEN MoveTo(s, i[1], i[2], i[3])
    ELSE Write(s, i[3], Read(s, i[2]))

DoOne(p, s, i) ==
    CASE i[1] = "LABEL" -> IF i[2][1] = "L" THEN [s EXCEPT !.m = Burn(@)] ELSE s
      [] i[1] = "CALL"  -> DoCall(p, s, i[2])
      [] i[1] \in {"MOVL", "MOVQ", "MOVB", "MOVBLZX", "MOVBLSX", "LEAL"} -> DoMove(s, i)
      [] i[1] \in {"ADDL", "SUBL"} -> Alu(s, i)
      [] i[1] \in {"XORL", "XORQ"} -> [Write(s, i[3], 0) EXCEPT !.flags = NoFlags]
      [] i[1] = "DIVL"  -> Divided(s, i)
      [] i[1] = "CMPL"  -> [s EXCEPT !.flags = <<Read(s, i[2]), Read(s, i[3])>>]
      [] i[1] = "TESTL" -> [s EXCEPT !.flags = <<Read(s, i[2]), 0>>]
      [] i[1] \in Set   -> SetByte(s, i)

---------------------------------------------------------------------------
(* The function.                                                           *)

\* Where labels stand, and where the next jump or return is.
Linked(plan, code) ==
    LET at(l) == CHOOSE k \in DOMAIN code : code[k][1] = "LABEL" /\ code[k][2] = l
        leaves == {k \in DOMAIN code : code[k][1] \in Jumps \cup {"RET"}}
    IN  [plan |-> plan, code |-> code,
         to   |-> [k \in {j \in leaves : code[j][1] # "RET"} |-> at(code[k][2])],
         stop |-> [k \in DOMAIN code |-> Min({j \in leaves : j >= k} \cup {Len(code) + 1})]]

LinkedWith(plan) == Linked(plan, Assembly(plan))

Assembled(fn) == LinkedWith(Plan(fn))

StraightLine(c, s, from, to) ==
    InOrder(LAMBDA t, i : IF t.m.status = "run" THEN DoOne(c.plan, t, i) ELSE t,
            s, SubSeq(c.code, from, to))

RECURSIVE RunAsm(_, _, _)

LeaveAt(c, s, k) ==
    LET cc == c.code[k][1] IN
    IF cc = "RET"
    THEN IF \E r \in Range(s.results) : r < 0 THEN Halted(Wild(s.m))
         ELSE [m |-> s.m, results |-> s.results]
    ELSE IF cc = "JMP" THEN RunAsm(c, s, c.to[k])
    ELSE IF ~FlagsKnown(s) THEN Halted(Wild(s.m))
    ELSE RunAsm(c, s, IF Holds(cc, s.flags) THEN c.to[k] ELSE k + 1)

RunAsm(c, s, k) ==
    IF k > Len(c.code) THEN Halted(Wild(s.m))
    ELSE LET t == StraightLine(c, s, k, c.stop[k] - 1)
         IN  IF t.m.status # "run" THEN Halted(t.m)
             ELSE IF c.stop[k] > Len(c.code) THEN Halted(Wild(t.m))
             ELSE LeaveAt(c, t, c.stop[k])

RunAssembly(c, args, fuel) ==
    Observed(RunAsm(c, StartAsm(c.plan, args, StartMachine(fuel)), 1))
================================================================================
