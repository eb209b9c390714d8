-------------------------------- MODULE AsmEmit --------------------------------
(***************************************************************************)
(* The amd64 instructions of a planned function, block after block         *)
(* (src/internal/asmgen: emitFunc, emitBlock, emitPhiEdgeCopies,           *)
(* emit_archs.go), and the passes over the text that has been emitted.     *)
(*                                                                         *)
(* An instruction is <<mnemonic, source, destination>>; a jump has its     *)
(* label as source, a label is an instruction of its own.                  *)
(***************************************************************************)
EXTENDS AsmPlan

Reg(r) == <<"r", r>>
Imm(n) == <<"i", n % Word>>
Slot(at) == <<"s", at>>             \* at(SP): slots and staged arguments alike
FrameArg(k) == <<"p", k>>                \* the k-th argument in the caller's frame; 0 is m
Ret(k) == <<"ret", k>>
Field(f) == <<"f", f>>              \* of the module, through the m-cache register
Mem(disp, index) == <<"m", disp, index>>   \* disp(BX), disp(BX)(SI*1)
NilDeref == <<"nil">>
No == <<>>

AX == Reg("AX")
BX == Reg("BX")
CX == Reg("CX")
DX == Reg("DX")
SI == Reg("SI")
R11 == Reg(MCacheReg)

BlockLabel(b) == <<"L", b>>
ThenLabel(b) == <<"then", b>>
ElseLabel(b) == <<"else", b>>
ZeroLabel(v) == <<"zero", v>>
DoneLabel(v) == <<"done", v>>

Label(l) == <<"LABEL", l, No>>
Jump1(cc, l) == <<cc, l, No>>
CallOf(v) == <<"CALL", v, No>>
TrapCall == CallOf(0)

MCachePrime(p) == IF p.mCache THEN <<<<"MOVQ", FrameArg(0), R11>>>> ELSE <<>>

---------------------------------------------------------------------------
(* Values.                                                                 *)

Literal(p, v) == p.fn.val[PeelCopies(p.fn, v)].op = "OpConst32"
ConstOf(p, v) == p.fn.val[PeelCopies(p.fn, v)].aux

\* operandSrc32
Operand(p, v) ==
    LET r == PeelCopies(p.fn, v)
        x == p.fn.val[r]
    IN  CASE x.op = "OpConst32"  -> Imm(x.aux)
          [] x.op = "OpParam"    -> FrameArg(x.aux)
          [] r \in DOMAIN p.home -> Reg(p.home[r])
          [] OTHER               -> Slot(p.at[r])

\* Where the result of v is made, and how it then gets to its slot.
Dest(p, v) == IF v \in DOMAIN p.home THEN Reg(p.home[v]) ELSE AX
Keep(p, v) == IF v \in DOMAIN p.home THEN <<>> ELSE <<<<"MOVL", AX, Slot(p.at[v])>>>>

Through(r, src, dst) == <<<<"MOVL", src, r>>, <<"MOVL", r, dst>>>>
Halves(from, to) == <<<<"MOVQ", Slot(from), AX>>, <<"MOVQ", AX, Slot(to)>>,
                      <<"MOVQ", Slot(from + 8), AX>>, <<"MOVQ", AX, Slot(to + 8)>>>>

EmitBinALU32(p, v, mnemonic) ==
    LET a == p.fn.val[v].args
    IN  <<<<"MOVL", Operand(p, a[1]), Dest(p, v)>>, <<mnemonic, Operand(p, a[2]), Dest(p, v)>>>>
          \o Keep(p, v)

Compare(p, v) ==
    LET a == p.fn.val[v].args
    IN  <<<<"MOVL", Operand(p, a[1]), AX>>, <<"CMPL", AX, Operand(p, a[2])>>>>

EmitCmp32(p, v, set) ==
    IF v \in p.fused THEN <<>>
    ELSE Compare(p, v) \o <<<<set, No, Reg("AL")>>, <<"MOVBLZX", Reg("AL"), Dest(p, v)>>>>
           \o Keep(p, v)

\* BX holds m.M.  A sum that wraps is made before the access, or now.
MemAddr(p, v) ==
    LET base == p.fn.val[v].args[1]
        off  == Signed(p.fn.val[v].aux % Word)
        load == <<<<"MOVL", Operand(p, base), SI>>>>
    IN  IF Literal(p, base)
        THEN [code |-> <<>>, addr |-> Mem(Signed((ConstOf(p, base) + off) % Word), FALSE)]
        ELSE IF off >= 0 THEN [code |-> load, addr |-> Mem(off, TRUE)]
        ELSE [code |-> Append(load, <<"ADDL", Imm(off), SI>>), addr |-> Mem(0, TRUE)]

EmitLoad(p, v, mov) ==
    LET a == MemAddr(p, v)
    IN  <<<<"MOVQ", Field("M"), BX>>>> \o a.code \o <<<<mov, a.addr, Dest(p, v)>>>> \o Keep(p, v)

EmitStore(p, v, mov) ==
    LET a == MemAddr(p, v)
        w == p.fn.val[v].args[2]
        imm == IF mov = "MOVB" THEN Imm(ConstOf(p, w) % Byte) ELSE Imm(ConstOf(p, w))
    IN  <<<<"MOVQ", Field("M"), BX>>>> \o a.code
          \o (IF Literal(p, w) THEN <<<<mov, imm, a.addr>>>>
              ELSE <<<<"MOVL", Operand(p, w), AX>>, <<mov, AX, a.addr>>>>)

\* The argument a of a call, put at offset at.
StageArg(p, a, at) ==
    IF p.fn.val[a].type = "v128" THEN Halves(p.at[PeelCopies(p.fn, a)], at)
    ELSE IF Literal(p, a) THEN <<<<"MOVL", Operand(p, a), Slot(at)>>>>
    ELSE Through(AX, Operand(p, a), Slot(at))

\* m, the arguments, the call, m again, then the result.
EmitCall(p, v) ==
    LET x == p.fn.val[v]
        f == CallFrame(p.fn, v)
        m == IF x.op = "OpSimdCall" THEN <<>> ELSE <<<<"MOVQ", R11, Slot(0)>>>>
        staged == FlattenSeq([i \in DOMAIN x.args |-> StageArg(p, x.args[i], f.args[i])])
        result == IF Returns(x) = 0 \/ v \in p.unused THEN <<>>
                  ELSE IF x.type = "v128" THEN Halves(f.ret, p.at[v])
                  ELSE <<<<"MOVL", Slot(f.ret), Dest(p, v)>>>> \o Keep(p, v)
    IN  m \o staged \o <<CallOf(v)>> \o result \o MCachePrime(p)

EmitDivide(p, v) ==
    LET a == p.fn.val[v].args
    IN  <<<<"MOVL", Operand(p, a[2]), CX>>, <<"TESTL", CX, CX>>, Jump1("JE", ZeroLabel(v)),
          <<"MOVL", Operand(p, a[1]), AX>>, <<"XORL", DX, DX>>, <<"DIVL", No, CX>>,
          <<"MOVL", AX, Slot(p.at[v])>>, Jump1("JMP", DoneLabel(v)),
          Label(ZeroLabel(v)), TrapCall, Label(DoneLabel(v))>>

EmitGlobalSet(p, v) ==
    LET a == p.fn.val[v].args[1]
    IN  IF Literal(p, a) THEN <<<<"MOVL", Operand(p, a), Field("global")>>>>
        ELSE Through(DX, Operand(p, a), Field("global"))

EmitValue(p, v) ==
    LET x == p.fn.val[v] IN
    CASE x.op \in {"OpPhi", "OpConst32", "OpParam"} -> <<>>
      [] x.op = "OpAdd32"   -> EmitBinALU32(p, v, "ADDL")
      [] x.op = "OpSub32"   -> EmitBinALU32(p, v, "SUBL")
      [] x.op = "OpEq32"    -> EmitCmp32(p, v, "SETEQ")
      [] x.op = "OpNe32"    -> EmitCmp32(p, v, "SETNE")
      [] x.op = "OpLtS32"   -> EmitCmp32(p, v, "SETLT")
      [] x.op = "OpLtU32"   -> EmitCmp32(p, v, "SETCS")
      [] x.op = "OpLoad8U"  -> EmitLoad(p, v, "MOVBLZX")
      [] x.op = "OpLoad8S"  -> EmitLoad(p, v, "MOVBLSX")
      [] x.op = "OpLoad32"  -> EmitLoad(p, v, "MOVL")
      [] x.op = "OpStore8"  -> EmitStore(p, v, "MOVB")
      [] x.op = "OpStore32" -> EmitStore(p, v, "MOVL")
      [] x.op = "OpCopy"    -> Through(AX, Operand(p, x.args[1]), Slot(p.at[v]))
      [] x.op = "OpGlobalGet"   -> Through(DX, Field("global"), Slot(p.at[v]))
      [] x.op = "OpGlobalSet"   -> EmitGlobalSet(p, v)
      [] x.op = "OpHelperCall"  -> EmitDivide(p, v)
      [] x.op \in FramedCalls   -> EmitCall(p, v)

---------------------------------------------------------------------------
(* Edges.                                                                  *)

IsStaged(p, b) == \E phi \in Range(Phis(p.fn, b)) : phi \in DOMAIN p.temp

StagedBlocks(p) == {b \in Range(p.fn.blocks) : IsStaged(p, b)}

\* Values no instruction writes to a slot.
Silent(p) ==
    p.fused \cup p.unused
      \cup {v \in Listed(p.fn) : p.fn.val[v].op \in {"OpConst32", "OpParam"}}

\* A copy to the slot at offset to, unless it is there already.
CopyTo(p, phi, src, to) ==
    IF p.fn.val[phi].type = "v128"
    THEN LET from == p.at[PeelCopies(p.fn, src)]
         IN  IF from = to THEN <<>> ELSE Halves(from, to)
    ELSE IF Operand(p, src) = Slot(to) THEN <<>>
    ELSE Through(AX, Operand(p, src), Slot(to))

IncomingCopy(p, b, i, phi) ==
    LET src == p.fn.val[phi].args[i]
        to  == IF IsStaged(p, b) THEN p.temp[phi] ELSE p.at[phi]
    IN  IF phi \notin p.coalesced THEN CopyTo(p, phi, src, to)
        ELSE IF Operand(p, src) = Reg(p.home[phi]) THEN <<>>
        ELSE <<<<"MOVL", Operand(p, src), Reg(p.home[phi])>>>>

UnstageCopy(p, phi) ==
    IF p.fn.val[phi].type = "v128" THEN Halves(p.temp[phi], p.at[phi])
    ELSE Through(AX, Slot(p.temp[phi]), Slot(p.at[phi]))

\* The copies for the phis of b on its i-th edge: in place one after the
\* other, or all to temporaries first.
PhiEdgeCopies(p, b, i) ==
    LET phis == Phis(p.fn, b)
        down == SelectSeq(phis, LAMBDA phi : phi \notin p.coalesced)
    IN  FlattenSeq([k \in DOMAIN phis |-> IncomingCopy(p, b, i, phis[k])])
          \o (IF IsStaged(p, b) THEN FlattenSeq([k \in DOMAIN down |-> UnstageCopy(p, down[k])])
              ELSE <<>>)

---------------------------------------------------------------------------
(* Blocks.  fall is the label that follows, No when none does.             *)

HasPhi(p, b) == Phis(p.fn, b) # <<>>

\* Past blocks that do nothing.
RECURSIVE Passthrough(_, _, _)
Passthrough(p, b, hops) ==
    LET blk  == p.fn.blk[b]
        next == blk.succs[1].to
    IN  IF hops > 0 /\ blk.kind = "Plain" /\ blk.values = <<>> /\ next # b /\ ~HasPhi(p, next)
        THEN Passthrough(p, next, hops - 1)
        ELSE b

Target(p, b) == BlockLabel(Passthrough(p, b, 8))

EmitJmp(l, fall) == IF l = fall THEN <<>> ELSE <<Jump1("JMP", l)>>

EmitCondBranch(cc, then, else, fall) ==
    CASE fall = else -> <<Jump1(cc[1], then)>>
      [] fall = then /\ fall # else -> <<Jump1(cc[2], else)>>
      [] fall \notin {then, else} -> <<Jump1(cc[1], then), Jump1("JMP", else)>>

\* The condition under which each comparison holds, and its opposite.
FusedJumps(op) ==
    CASE op = "OpEq32"  -> <<"JE", "JNE">>
      [] op = "OpNe32"  -> <<"JNE", "JE">>
      [] op = "OpLtS32" -> <<"JLT", "JGE">>
      [] op = "OpLtU32" -> <<"JCS", "JCC">>

EmitIfBranch(p, c, then, else, fall) ==
    IF c \in p.fused
    THEN Compare(p, c) \o EmitCondBranch(FusedJumps(p.fn.val[c].op), then, else, fall)
    ELSE <<<<"MOVL", Operand(p, c), AX>>, <<"TESTL", AX, AX>>>>
           \o EmitCondBranch(<<"JNE", "JE">>, then, else, fall)

\* An edge with phis goes through a label of its own: one that is not critical,
\* or of a function whose edges are not split.
EdgeStub(p, label, e) ==
    IF ~HasPhi(p, e.to) THEN <<>>
    ELSE <<Label(label)>> \o PhiEdgeCopies(p, e.to, e.at) \o <<Jump1("JMP", Target(p, e.to))>>

EmitIf(p, b, fall) ==
    LET blk    == p.fn.blk[b]
        then   == blk.succs[1]
        else   == blk.succs[2]
        to(e, stub) == IF HasPhi(p, e.to) THEN stub ELSE Target(p, e.to)
        direct == ~HasPhi(p, then.to) /\ ~HasPhi(p, else.to)
    IN  EmitIfBranch(p, blk.control, to(then, ThenLabel(b)), to(else, ElseLabel(b)),
                     IF direct THEN fall ELSE No)
          \o EdgeStub(p, ElseLabel(b), else) \o EdgeStub(p, ThenLabel(b), then)

EmitBrTable(p, b) ==
    LET blk == p.fn.blk[b]
        test(i) == FlattenSeq([k \in DOMAIN blk.cases[i] |->
                       <<<<"CMPL", AX, Imm(blk.cases[i][k])>>,
                         Jump1("JE", Target(p, blk.succs[i].to))>>])
    IN  <<<<"MOVL", Operand(p, blk.control), AX>>>>
          \o FlattenSeq([i \in DOMAIN blk.cases |-> test(i)])
          \o <<Jump1("JMP", Target(p, blk.succs[blk.dflt].to))>>

EmitReturn(p, b) ==
    LET rets == LastN(p.fn.blk[b].values, p.fn.results)
    IN  FlattenSeq([i \in DOMAIN rets |-> Through(AX, Operand(p, rets[i]), Ret(i))])
          \o <<<<"RET", No, No>>>>

Terminator(p, b, fall) ==
    LET blk == p.fn.blk[b] IN
    CASE blk.kind = "Plain" ->
            PhiEdgeCopies(p, blk.succs[1].to, blk.succs[1].at)
              \o EmitJmp(Target(p, blk.succs[1].to), fall)
      [] blk.kind = "If"          -> EmitIf(p, b, fall)
      [] blk.kind = "BrTable"     -> EmitBrTable(p, b)
      [] blk.kind = "Ret"         -> EmitReturn(p, b)
      [] blk.kind = "Unreachable" -> <<<<"XORQ", AX, AX>>, <<"MOVL", NilDeref, AX>>>>

EmitBlock(p, i) ==
    LET b    == p.fn.blocks[i]
        fall == IF i = Len(p.fn.blocks) THEN No ELSE BlockLabel(p.fn.blocks[i + 1])
        vs   == p.fn.blk[b].values
    IN  <<Label(BlockLabel(b))>> \o FlattenSeq([k \in DOMAIN vs |-> EmitValue(p, vs[k])])
          \o Terminator(p, b, fall)

EmitFunc(p) ==
    MCachePrime(p) \o FlattenSeq([i \in DOMAIN p.fn.blocks |-> EmitBlock(p, i)])

(***************************************************************************)
(* The passes over the instructions of a function, one after the other:    *)
(* dedupMemMReload, peepholeOpt, regTrackPass, peepholeOpt,                *)
(* eliminateDeadStoresMultiLine (src/internal/asmgen/asmgen.go,            *)
(* regtrack.go).  The code matches them on lines of text; an operand here  *)
(* is what its text spells.                                                *)
(***************************************************************************)

\* n(r), as LEAL computes it.
Disp(n, r) == <<"d", n % Word, r>>

IsReg(x) == x # No /\ x[1] = "r"
IsSlot(x) == x # No /\ x[1] = "s"
IsImm(x) == x # No /\ x[1] = "i"

IsMov(i) == i[1] \in {"MOVL", "MOVQ"}
Stores(i) == IsMov(i) /\ IsReg(i[2]) /\ IsSlot(i[3])
Reloads(i) == IsMov(i) /\ IsSlot(i[2]) /\ IsReg(i[3])
Copies(i) == IsMov(i) /\ IsReg(i[2]) /\ IsReg(i[3])

Jumps == {"JMP", "JE", "JNE", "JLT", "JGE", "JCS", "JCC"}
Breaks(i) == i[1] \in Jumps \cup {"LABEL", "CALL", "RET"}

Set == {"SETEQ", "SETNE", "SETLT", "SETCS"}

\* The register an instruction writes, as its text shows it.
Writes(i) ==
    CASE i[1] \in {"CMPL", "TESTL"} -> No
      [] i[1] \in Set               -> AX
      [] OTHER                      -> IF IsReg(i[3]) THEN i[3] ELSE No

---------------------------------------------------------------------------
(* dedupMemMReload: BX still holds m.M.                                    *)

LoadsBase(i) == i = <<"MOVQ", Field("M"), BX>>

\* Mutant: also past a call.
KeepsBasePastCalls(i) == i[1] \notin Jumps \cup {"LABEL"} /\ Writes(i) # BX

KeepsBase(i) == i[1] \notin Jumps \cup {"LABEL", "CALL"} /\ Writes(i) # BX

DedupMemMReload(code) ==
    LET step(s, i) ==
            IF LoadsBase(i) /\ s.held THEN s
            ELSE [out |-> Append(s.out, i), held |-> LoadsBase(i) \/ (s.held /\ KeepsBase(i))]
    IN  InOrder(step, [out |-> <<>>, held |-> FALSE], code).out

---------------------------------------------------------------------------
(* peepholeOpt: rewrites of two adjacent instructions.                     *)

SameWidth(prev, cur) == IsMov(prev) /\ prev[1] = cur[1]

SkipReload(prev, cur) ==
    SameWidth(prev, cur) /\ Stores(prev) /\ cur[2] = prev[3] /\ cur[3] = prev[2]

SlotForward(prev, cur) ==
    /\ SameWidth(prev, cur) /\ Stores(prev) /\ Reloads(cur)
    /\ cur[2] = prev[3] /\ cur[3] # prev[2]

LEALReg(prev, cur) ==
    /\ prev[1] = "MOVL" /\ Copies(prev)
    /\ cur[1] \in {"ADDL", "SUBL"} /\ IsImm(cur[2]) /\ cur[3] = prev[3]

LEAL(prev, cur) ==
    <<"LEAL", Disp(IF cur[1] = "ADDL" THEN cur[2][2] ELSE -cur[2][2], prev[2]), cur[3]>>

ImmStore(prev, cur) ==
    /\ SameWidth(prev, cur) /\ IsImm(prev[2]) /\ IsReg(prev[3])
    /\ cur[2] = prev[3] /\ IsSlot(cur[3])

DeadStore(prev, cur) == SameWidth(prev, cur) /\ IsSlot(prev[3]) /\ cur[3] = prev[3]

FallthroughJmp(prev, cur) ==
    prev[1] = "JMP" /\ cur[1] = "LABEL" /\ prev[2] = cur[2] /\ cur[2][1] = "L"

Peep(out, cur) ==
    IF out = <<>> THEN <<cur>>
    ELSE LET prev == Last(out)
             instead(i) == Append(Front(out), i)
         IN  CASE SkipReload(prev, cur)     -> out
               [] SlotForward(prev, cur)    -> Append(out, <<cur[1], prev[2], cur[3]>>)
               [] LEALReg(prev, cur)        -> instead(LEAL(prev, cur))
               [] ImmStore(prev, cur)       -> instead(<<cur[1], prev[2], cur[3]>>)
               [] DeadStore(prev, cur)      -> instead(cur)
               [] FallthroughJmp(prev, cur) -> instead(cur)
               [] OTHER                     -> Append(out, cur)

PeepholeOpt(code) == InOrder(Peep, <<>>, code)

---------------------------------------------------------------------------
(* regTrackPass: which slot a register mirrors, which register speaks for  *)
(* a slot, and which slots hold a constant.                                *)

Without(f, x) == Restrict(f, DOMAIN f \ {x})

InvalidateReg(s, r) ==
    IF r \notin DOMAIN s.regSlot THEN s
    ELSE LET old == s.regSlot[r]
         IN  [s EXCEPT !.regSlot = Without(@, r),
                       !.slotReg = IF old \in DOMAIN @ /\ @[old] = r THEN Without(@, old) ELSE @]

InvalidateSlot(s, a) ==
    [s EXCEPT !.regSlot = IF a \in DOMAIN s.slotReg THEN Without(@, s.slotReg[a]) ELSE @,
              !.slotReg = Without(@, a), !.slotImm = Without(@, a)]

\* r mirrors a from now on, and speaks for it if no register does.
Mirror(s, r, a) ==
    LET t == InvalidateReg(s, r)
    IN  [t EXCEPT !.regSlot = (r :> a) @@ @, !.slotReg = @ @@ (a :> r)]

TrackStore(s, i) ==
    LET t == InvalidateReg(InvalidateSlot(s, i[3]), i[2])
    IN  [t EXCEPT !.regSlot = (i[2] :> i[3]) @@ @, !.slotReg = (i[3] :> i[2]) @@ @,
                  !.out = Append(@, i)]

\* What a reload of slot a may read instead.
ReloadFrom(s, instr, a) ==
    IF a \in DOMAIN s.slotImm /\ s.slotImm[a][1] = instr THEN s.slotImm[a][2]
    ELSE IF a \in DOMAIN s.slotReg THEN s.slotReg[a]
    ELSE a

TrackReload(s, i) ==
    IF i[3] \in DOMAIN s.regSlot /\ s.regSlot[i[3]] = i[2] THEN s
    ELSE [Mirror(s, i[3], i[2]) EXCEPT
              !.out = Append(@, <<i[1], ReloadFrom(s, i[1], i[2]), i[3]>>)]

TrackCopy(s, i) ==
    LET t == IF i[2] \in DOMAIN s.regSlot THEN Mirror(s, i[3], s.regSlot[i[2]])
             ELSE InvalidateReg(s, i[3])
    IN  [t EXCEPT !.out = Append(@, i)]

TrackOther(s, i) ==
    LET t == IF IsMov(i) /\ IsSlot(i[3])
             THEN [InvalidateSlot(s, i[3]) EXCEPT !.slotImm = (i[3] :> <<i[1], i[2]>>) @@ @]
             ELSE InvalidateReg(s, Writes(i))
    IN  [t EXCEPT !.out = Append(@, i)]

Untracked(out) == [out |-> out, regSlot |-> <<>>, slotReg |-> <<>>, slotImm |-> <<>>]

Track(s, i) ==
    CASE Breaks(i) -> Untracked(Append(s.out, i))
      [] Stores(i)   -> TrackStore(s, i)
      [] Reloads(i)  -> TrackReload(s, i)
      [] Copies(i)   -> TrackCopy(s, i)
      [] OTHER       -> TrackOther(s, i)

RegTrackPass(code) == InOrder(Track, Untracked(<<>>), code).out

---------------------------------------------------------------------------
(* eliminateDeadStoresMultiLine: a store that the next one to its slot     *)
(* overwrites unread.                                                      *)

\* Of the labels only those of blocks end a stretch; a stretch that ends at
\* another ended at the jump before it.
EndsStretch(i) == Breaks(i) /\ (i[1] = "LABEL" => i[2][1] = "L")

DeadStores(code) ==
    LET mentioned(i) == {x \in {i[2], i[3]} : IsSlot(x)}
        store(s, k) ==
            LET i == code[k]
                open == IF IsSlot(i[2]) THEN Without(s.pending, i[2]) ELSE s.pending
                over == i[3] \in DOMAIN open /\ code[open[i[3]]][1] = i[1]
            IN  [pending |-> (i[3] :> k) @@ open,
                 dead |-> IF over THEN s.dead \cup {open[i[3]]} ELSE s.dead]
        step(s, k) ==
            LET i == code[k] IN
            CASE i[1] = "LABEL" /\ ~EndsStretch(i) -> s
              [] EndsStretch(i)          -> [s EXCEPT !.pending = <<>>]
              [] IsMov(i) /\ IsSlot(i[3]) -> store(s, k)
              [] OTHER -> [s EXCEPT !.pending = Restrict(@, DOMAIN @ \ mentioned(i))]
    IN  InOrder(step, [pending |-> <<>>, dead |-> {}], [k \in DOMAIN code |-> k]).dead

EliminateDeadStores(code) ==
    LET dead == DeadStores(code)
        kept == SelectSeq([k \in DOMAIN code |-> k], LAMBDA k : k \notin dead)
    IN  [k \in DOMAIN kept |-> code[kept[k]]]

---------------------------------------------------------------------------
Assembly(p) ==
    EliminateDeadStores(PeepholeOpt(RegTrackPass(PeepholeOpt(DedupMemMReload(EmitFunc(p))))))
================================================================================
