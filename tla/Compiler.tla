------------------------------- MODULE Compiler -------------------------------
(***************************************************************************)
(* One function through the compiler: lowered instruction by instruction   *)
(* (lowerBodyUntil), optimised pass by pass until nothing changes or the   *)
(* cap is reached, finished and handed to the emitter                      *)
(* (compileFuncSSA, src/internal/codegen/translate.go).                    *)
(***************************************************************************)
EXTENDS Lower, Passes, Outline, AsmRun

CONSTANTS Programs,     \* source functions [body, nparams, nlocals]
          Inputs,       \* what a function is called with
          FixpointCap,  \* optFixpointCap
          Fuel          \* how long a run is followed

ASSUME CompilerAssumption == FixpointCap \in Nat \ {0} /\ Fuel \in Nat

VARIABLES prog,      \* the function being compiled
          ls,        \* lowerState, until the body is lowered; ls.pc is the next instruction
          fn,        \* the SSA function
          stage,     \* what compileFuncSSA does next
          round,     \* rounds of the fixpoint begun
          changed,   \* something changed in this round, or the last pass
          frame,     \* how the slots of the assembled function are laid out;
          block,     \* as it runs (module Frame): where execution is, over
          place,     \* which edge it came, and the values the slots hold
          via,
          held

running == <<frame, block, place, via, held>>

vars == <<prog, ls, fn, stage, round, changed, running>>

Frames(f) == INSTANCE Frame WITH
    flow <- f.flow, entry <- Entry, spilled <- f.spilled, at <- f.at,
    silent <- f.silent, fused <- f.fused, staged <- f.staged

Init == /\ prog \in Programs
        /\ ls = StartLowering(prog)
        /\ fn = EmptyFunc(prog.nresults)
        /\ stage = "lower"
        /\ round = 0
        /\ changed = FALSE
        /\ frame = <<>> /\ block = Entry /\ place = 1 /\ via = 0 /\ held = {}

---------------------------------------------------------------------------
(* Lowering: one instruction a step.                                       *)

Body == (IF Inlining(ls) THEN Callees[ls.inline.callee] ELSE prog).body
Instr == Body[ls.pc]

Handle(ops, result) ==
    /\ stage = "lower"
    /\ ~ls.done
    /\ Instr.op \in ops
    /\ ~SkipsDead(ls, Instr)
    /\ ls' = [result EXCEPT !.pc = @ + 1]
    /\ UNCHANGED <<running, prog, fn, stage, round, changed>>

LowerPlain       == Handle(PlainOps, HandlePlain(ls, Instr))
LowerSelect      == Handle({"select"}, HandleSelect(ls))
LowerBlock       == Handle({"block"}, HandleBlock(ls, Instr.imm))
LowerLoop        == Handle({"loop"}, HandleLoop(ls, Instr.imm))
LowerIf          == Handle({"if"}, HandleIf(ls, Instr.imm))
LowerElse        == Handle({"else"}, HandleElse(ls))
LowerEnd         == Handle({"end"}, HandleEnd(ls))
LowerBr          == Handle({"br"}, HandleBr(ls, Instr.imm))
LowerBrIf        == Handle({"br_if"}, HandleBrIf(ls, Instr.imm))
LowerBrTable     == Handle({"br_table"}, HandleBrTable(ls, Instr.imm))
LowerCallDirect  == Handle({"call_direct"}, HandleCallDirect(ls, Instr.imm, prog.body))
LowerReturn      == Handle({"return"}, HandleReturn(ls))
LowerUnreachable == Handle({"unreachable"}, HandleUnreachable(ls))

LowerDead ==
    /\ stage = "lower"
    /\ ~ls.done
    /\ SkipsDead(ls, Instr)
    /\ ls' = [SkipDead(ls, Instr) EXCEPT !.pc = @ + 1]
    /\ UNCHANGED <<running, prog, fn, stage, round, changed>>

\* The lowering state is dropped with the body.
Lowered ==
    /\ stage = "lower"
    /\ ls.done
    /\ fn' = PruneDeadBlocks(ls.fn)
    /\ ls' = [StartLowering(Function(<<>>, 0, 0, 0)) EXCEPT !.done = TRUE]
    /\ stage' = "ConstProp"
    /\ round' = 1
    /\ UNCHANGED <<running, prog, changed>>

---------------------------------------------------------------------------
(* The fixpoint: every pass in turn, until a round changes nothing.        *)

Pass(here, result, next) ==
    /\ stage = here
    /\ fn' = result
    /\ stage' = next
    /\ changed' = (changed \/ fn' # fn)
    /\ UNCHANGED <<running, prog, ls, round>>

DoConstProp        == Pass("ConstProp", ConstProp(fn), "BranchFold")
DoBranchFold       == Pass("BranchFold", BranchFold(fn), "ReassocConstAdds")
DoReassocConstAdds == Pass("ReassocConstAdds", ReassocConstAdds(fn), "Simplify")
DoSimplify         == Pass("Simplify", Simplify(fn), "FoldCondMaskPhi")
DoFoldCondMaskPhi  == Pass("FoldCondMaskPhi", FoldCondMaskPhi(fn), "CSE")
DoCSE              == Pass("CSE", CSE(fn), "MemOpt")
DoMemOpt           == Pass("MemOpt", MemOpt(fn), "DCE")
DoDCE              == Pass("DCE", DCE(fn), "again")

NextRound ==
    /\ stage = "again"
    /\ IF changed /\ round < FixpointCap
       THEN stage' = "ConstProp" /\ round' = round + 1 /\ changed' = FALSE
       ELSE stage' = "FoldMemAddend" /\ UNCHANGED <<round, changed>>
    /\ UNCHANGED <<running, prog, ls, fn>>

---------------------------------------------------------------------------
(* After the fixpoint.  DCE follows a pass that changed something.         *)

Late(here, result, next) ==
    /\ stage = here
    /\ fn' = IF result = fn THEN fn ELSE DCE(result)
    /\ stage' = IF result = fn THEN next[1] ELSE next[2]
    /\ UNCHANGED <<running, prog, ls, round, changed>>

DoFoldMemAddend == Late("FoldMemAddend", FoldMemAddend(fn), <<"bounds", "bounds">>)

\* simdBoundsMemOK: MachineAssumption keeps the memory under the cap.
DoCoalesceSimdBounds ==
    /\ stage = "bounds"
    /\ fn' = CoalesceSimdBounds(fn)
    /\ stage' = "diamonds"
    /\ UNCHANGED <<running, prog, ls, round, changed>>

DoFoldEmptyDiamonds == Late("diamonds", FoldEmptyDiamonds(fn), <<"Compact", "diamonds">>)

DoCompact ==
    /\ stage = "Compact"
    /\ fn' = Compact(fn)
    /\ stage' = "outline"
    /\ UNCHANGED <<running, prog, ls, round, changed>>

\* maybeOutline: one loop after another.
DoOutline ==
    /\ stage = "outline"
    /\ HasCandidate(fn)
    /\ fn' = ExtractLoop(fn, Candidate(fn))
    /\ UNCHANGED <<running, prog, ls, stage, round, changed>>

Outlined ==
    /\ stage = "outline"
    /\ ~HasCandidate(fn)
    /\ stage' = "emit"
    /\ UNCHANGED <<running, prog, ls, fn, round, changed>>

---------------------------------------------------------------------------
(* The assembled function runs, where its values take up to 8 bytes and so  *)
(* share slots: those that no register holds.                               *)

SharesSlots == stage = "emit" /\ Assembles(fn) /\ ~HasVectors(fn)

FrameOf(p) ==
    [flow    |-> FlowOf(p.fn),
     spilled |-> SpillNeeded(p),
     at      |-> AllocateSlots(FlowOf(p.fn), SpillNeeded(p), p.area).at,
     silent  |-> Silent(p),
     fused   |-> p.fused,
     staged  |-> StagedBlocks(p)]

DoAssemble ==
    /\ SharesSlots
    /\ frame' = FrameOf(Homed(fn))
    /\ stage' = "run"
    /\ UNCHANGED <<prog, ls, fn, round, changed, block, place, via, held>>

RunsOn(step(_)) ==
    /\ stage = "run"
    /\ \E f \in {frame} : step(f)
    /\ UNCHANGED <<prog, ls, fn, stage, round, changed, frame>>

DoExecute == RunsOn(LAMBDA f : Frames(f)!Execute)
DoJump    == RunsOn(LAMBDA f : Frames(f)!Jump)

Next ==
    \/ LowerPlain \/ LowerSelect \/ LowerBlock \/ LowerLoop \/ LowerIf \/ LowerElse
    \/ LowerEnd \/ LowerBr \/ LowerBrIf \/ LowerBrTable
    \/ LowerCallDirect \/ LowerReturn \/ LowerUnreachable \/ LowerDead \/ Lowered
    \/ DoConstProp \/ DoBranchFold \/ DoReassocConstAdds \/ DoSimplify
    \/ DoFoldCondMaskPhi \/ DoCSE \/ DoMemOpt \/ DoDCE \/ NextRound
    \/ DoFoldMemAddend \/ DoCoalesceSimdBounds \/ DoFoldEmptyDiamonds \/ DoCompact
    \/ DoOutline \/ Outlined
    \/ DoAssemble \/ DoExecute \/ DoJump

Spec == Init /\ [][Next]_vars

---------------------------------------------------------------------------
(* Properties.                                                             *)

\* What is defined before block b of f on every path to it.
DefinedBefore(f) ==
    LET above(b) == {d \in Range(f.blocks) \ {b} : Dominates(f, d, b)}
    IN  [b \in Range(f.blocks) |-> UNION {Range(f.blk[d].values) : d \in above(b)}]

\* p: a planned function.
Allocatable(p) ==
    \A f \in {FrameOf(p)} :
        HandedOver(f.flow, Entry, DefinedBefore(p.fn), f.spilled, f.silent, f.fused, f.staged)

\* After the lowering and after every pass the function, without its dead
\* values, is well formed: edges agree at both ends, phis come first with
\* one argument per predecessor, every block is reachable and every use is
\* dominated by its definition (ssa.Verify, which compileFuncSSA runs after
\* the lowering and after the last pass); so is what is left of it when the
\* assembler has split its edges, which is what the slot allocator is correct
\* for (SlotsHold in AllocationProofs).
Verified ==
    stage \notin {"lower", "run"} =>
        /\ Verify(Compact(fn))
        /\ \A i \in DOMAIN fn.outlined : Verify(fn.outlined[i])
        /\ SharesSlots => \A p \in {Homed(fn)} : Verify(p.fn) /\ Allocatable(p)

\* A run agrees with the source unless the source reads or writes outside
\* its memory unchecked, or does not end.
Matches(expected, seen) == expected.status \in {"wild", "fuel"} \/ seen = expected

Agrees(f, modes) ==
    \A mode \in modes, in \in Inputs :
        Matches(Meaning(prog, in, Fuel), Run(f, mode, in, 4 * Fuel))

\* No step changes what the function does: after the lowering, and after
\* every pass that rewrites it, results, memory, globals, traps and what
\* every call saw are those of the wasm body.
MeaningKept == [][fn' # fn => \A f \in {fn'} : Agrees(f, {"ideal"})]_vars

\* Nor does the emitter, which evaluates the values it gives no variable
\* where they are used and copies phis in place on the edges, be it in the
\* goto form or in the structured one.
EmittedMeaning == stage = "emit" => Agrees(fn, {"goto", "structured"})

\* An access at a large offset from an address not known before it runs.
FarOffset(f) ==
    \E v \in Listed(f) :
        /\ f.val[v].op \in LoadOps \cup StoreOps
        /\ f.val[v].aux >= LargeConst
        /\ f.val[PeelCopies(f, f.val[v].args[1])].op # "OpConst32"

\* c: an assembled function.
AssemblyAgrees(c) ==
    \A in \in Inputs : Matches(Meaning(prog, in, Fuel), RunAssembly(c, in, 4 * Fuel))

\* Nor does the assembler: the instructions it leaves after planning slots
\* and registers and after all its passes over the text do what the wasm
\* body does, with no slot or register read that something else took over.
AssembledMeaning ==
    stage = "emit" /\ Assembles(fn) /\ ~FarOffset(fn) =>
        \A c \in {Assembled(fn)} : AssemblyAgrees(c)

\* No instruction of the assembled function reads a slot that something else
\* took over, wherever its branches go: only "values whose live ranges don't
\* overlap share a slot" (stackalloc.go).
ReadsHeld == stage = "run" => \A f \in {frame} : Frames(f)!ReadsHeld

\* Large offsets too: "the emitter computes the effective address in uint32
\* ... so moving the constant from the base sum into the offset cannot
\* change the address" (memaddr.go).  Violated: the assembler puts a
\* positive offset into the addressing mode, where the sum does not wrap.
FarOffsetsWrap ==
    stage = "emit" /\ Assembles(fn) /\ FarOffset(fn) =>
        \A c \in {Assembled(fn)} : AssemblyAgrees(c)

\* The last round changed nothing: "hitting [the cap] almost always means a
\* pass is oscillating" (translate.go).
FixpointBeforeCap == stage = "FoldMemAddend" => ~changed

\* Merging equal values of a block keeps what the function does: what
\* cse.go calls "a pure, deterministic value".  Violated: memory.size is
\* merged across memory.grow.
CSEKeepsMeaning == stage = "MemOpt" => Agrees(fn, {"ideal"})
=============================================================================
