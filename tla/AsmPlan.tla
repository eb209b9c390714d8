-------------------------------- MODULE AsmPlan --------------------------------
(***************************************************************************)
(* What the amd64 back end decides before it writes an instruction: which  *)
(* functions it takes, where every value lives in the frame, which live in *)
(* a register instead, and which need no instruction of their own          *)
(* (src/internal/asmgen: planFunc, regalloc.go, regalloc_coalesce.go,      *)
(* regalloc16_bridge.go; src/internal/regalloc).                           *)
(*                                                                         *)
(* Offsets are the bytes above SP the code computes.  Floats and i64       *)
(* values do not occur in a function the model assembles.                  *)
(***************************************************************************)
EXTENDS Structure, Allocation

CONSTANTS ScanRegs,    \* GPRegPool, in the order it is handed out
          CarryRegs    \* coalesceReservedPool

ASSUME AsmAssumption == Range(CarryRegs) \subseteq Range(ScanRegs)

MCacheReg == "R11"

SlotSize(type) ==
    CASE type \in {"i32", "bool"} -> 4
      [] type = "i64"             -> 8
      [] type = "v128"            -> 16
      [] OTHER                    -> 0

SlotAlign(size) == IF size = 4 THEN 4 ELSE 8

\* The values the code itself emits a CALL for; that of a division only traps.
FramedCalls == {"OpCallDirect", "OpMemSize", "OpMemGrow", "OpSimdCall", "OpSimdMemCall"}
EmitsCall == FramedCalls \cup {"OpHelperCall"}

HasVectors(fn) == \E v \in Listed(fn) : fn.val[v].type = "v128"

---------------------------------------------------------------------------
(* Critical edges: one of several out of a block, and of several into one. *)
(* Allocate puts an empty block on each, which stays in the function.      *)

CriticalEdges(fn) ==
    LET out(b) == [i \in DOMAIN fn.blk[b].succs |-> <<b, i>>]
        critical(e) == LET succs == fn.blk[e[1]].succs
                       IN  Len(succs) >= 2 /\ Len(fn.blk[succs[e[2]].to].preds) >= 2
    IN  SelectSeq(FlattenSeq([k \in DOMAIN fn.blocks |-> out(fn.blocks[k])]), critical)

\* The phis of the block it goes to keep their arguments.
SplitEdge(fn, e) ==
    LET src == e[1]
        to  == fn.blk[src].succs[e[2]]
        new == NextBlock(fn)
    IN  [NewBlock(fn) EXCEPT
            !.blk[new].preds = <<[to |-> src, at |-> e[2]]>>,
            !.blk[new].succs = <<to>>,
            !.blk[src].succs[e[2]] = [to |-> new, at |-> 1],
            !.blk[to.to].preds[to.at] = [to |-> new, at |-> 1]]

SplitCriticalEdges(fn) == FoldLeft(SplitEdge, fn, CriticalEdges(fn))

\* The function whose blocks are emitted: one with a v128 keeps its edges.
EdgesSplit(fn) == IF HasVectors(fn) THEN fn ELSE SplitCriticalEdges(fn)

\* A function the assembler refuses keeps the body Go compiles; so does one of
\* several results (isFallbackSig in gcasm/bundle.go).  A table is refused when
\* phis are left at the end of one of its own edges.
Assembles(fn) ==
    /\ fn.results <= 1
    /\ \A v \in Listed(fn) :
          LET x == fn.val[v] IN
          /\ x.op # "OpCallImport"
          /\ x.op = "OpHelperCall" => x.name = "i32_div_u"
          /\ x.op = "OpCallDirect" => x.name # "outlined"
    /\ \A f \in {EdgesSplit(fn)} : \A b \in Range(f.blocks) : f.blk[b].kind = "BrTable" =>
          \A s \in Succs(f, b) : Phis(f, s) = <<>>

\* What the code reads for an argument: constants are written out and
\* parameters read from the caller's frame.
SlotArg(fn, v) ==
    LET r == PeelCopies(fn, v)
    IN  IF fn.val[r].op \in {"OpConst32", "OpConst64", "OpParam"} THEN None ELSE r

PeeledArgs(fn, v) == {PeelCopies(fn, a) : a \in Range(fn.val[v].args)}
Conditions(fn, b) == {PeelCopies(fn, c) : c \in {fn.blk[b].control} \ {None}}

\* Values that block b reads, phis included.
ReadIn(fn, b) == UNION {PeeledArgs(fn, v) : v \in Range(fn.blk[b].values)} \cup Conditions(fn, b)

\* Values another block than their own reads.
CrossBlock(fn) == UNION {ReadIn(fn, b) \ Range(fn.blk[b].values) : b \in Range(fn.blocks)}

---------------------------------------------------------------------------
(* The frame of a call: m, the arguments, the result (frame.go).           *)

Returns(x) == IF IsVoidStore(x) THEN 0 ELSE SlotSize(x.type)

CallFrame(fn, v) ==
    LET x == fn.val[v]
        put(f, a) == LET size == SlotSize(fn.val[a].type)
                         at   == AlignUp(f.next, SlotAlign(size))
                     IN  [args |-> Append(f.args, at), next |-> at + size]
        f  == FoldLeft(put, [args |-> <<>>, next |-> IF x.op = "OpSimdCall" THEN 0 ELSE 8], x.args)
        at == AlignUp(f.next, 8)
    IN  [args |-> f.args, ret |-> at,
         size |-> IF Returns(x) = 0 THEN f.next ELSE at + Returns(x)]

CalleeArea(fn) ==
    LET size(v) == AlignUp(CallFrame(fn, v).size, IF fn.val[v].op = "OpCallDirect" THEN 4 ELSE 8)
    IN  Max({0} \cup {size(v) : v \in {u \in Listed(fn) : fn.val[u].op \in FramedCalls}})

---------------------------------------------------------------------------
(* Slots.  A value that is read in its own block only gives its slot back  *)
(* after the last place that reads it.                                     *)

DedicatedOps == {"OpParam", "OpPhi", "OpHelperCall", "OpGlobalGet", "OpGlobalSet", "OpCallDirect",
                 "OpMemSize", "OpMemGrow"} \cup LoadOps \cup StoreOps

\* Places count from 1; a value nothing reads is kept at the first place.
LastSlotUse(fn, b, v) ==
    LET vs      == fn.blk[b].values
        readers == {i \in DOMAIN vs : v \in {SlotArg(fn, a) : a \in Range(fn.val[vs[i]].args)}}
        late    == \/ \E i \in readers : fn.val[vs[i]].op = "OpPhi"
                   \/ v \in Conditions(fn, b)
                   \/ v \in {SlotArg(fn, r) : r \in Markers(fn, b)}
    IN  IF late THEN Len(vs) + 1 ELSE Max(readers \cup {1})

Released(active) == [k \in DOMAIN active |-> active[k].at]

\* s: how far the frame goes, offsets given back, slots in use in b.
SlotFor(fn, cross, b, s, i) ==
    LET v     == fn.blk[b].values[i]
        size  == SlotSize(fn.val[v].type)
        still == SelectSeq(s.active, LAMBDA e : e.until >= i)
        free  == s.free \o Released(SelectSeq(s.active, LAMBDA e : e.until < i))
        own   == v \in cross \/ size >= 8 \/ fn.val[v].op \in DedicatedOps
        again == ~own /\ free # <<>>
        at    == IF again THEN Last(free) ELSE AlignUp(s.off, SlotAlign(size))
        left  == IF again THEN Front(free) ELSE free
        until == LastSlotUse(fn, b, v)
    IN  IF size = 0 THEN s
        ELSE [at |-> [s.at EXCEPT ![v] = at],
              off |-> IF again THEN s.off ELSE at + size,
              free |-> IF ~own /\ until < i THEN Append(left, at) ELSE left,
              active |-> IF own \/ until < i THEN still
                         ELSE Append(still, [until |-> until, at |-> at])]

SlotsOfBlock(fn, cross, s, b) ==
    LET end == FoldLeft(LAMBDA t, i : SlotFor(fn, cross, b, t, i), s,
                        [i \in DOMAIN fn.blk[b].values |-> i])
    IN  [end EXCEPT !.free = @ \o Released(end.active), !.active = <<>>]

NoSlot == -1

Slots(fn) ==
    LET cross == CrossBlock(fn)
    IN  FoldLeft(LAMBDA s, b : SlotsOfBlock(fn, cross, s, b),
                 [at |-> [v \in Listed(fn) |-> NoSlot], off |-> CalleeArea(fn),
                  free |-> <<>>, active |-> <<>>],
                 fn.blocks)

\* Temporaries of the staged phis, from offset off on.
Temps(fn, phis, off) ==
    LET put(t, p) == LET at == AlignUp(t.off, SlotAlign(SlotSize(fn.val[p].type)))
                     IN  [at |-> (p :> at) @@ t.at, off |-> at + SlotSize(fn.val[p].type)]
    IN  FoldLeft(put, [at |-> <<>>, off |-> off], phis)

Staged(fn) ==
    LET staged == ComputeStagedPhis(fn, ComputeHoist(fn))
    IN  SelectSeq(FlattenSeq([i \in DOMAIN fn.blocks |-> Phis(fn, fn.blocks[i])]),
                  LAMBDA p : p \in staged)

---------------------------------------------------------------------------
(* Values without an instruction of their own.                             *)

\* A comparison only its branch reads is made there.
BranchFused(fn) ==
    {c \in {fn.blk[b].control : b \in {x \in Range(fn.blocks) : fn.blk[x].kind = "If"}} :
        fn.val[c].op \in {"OpEq32", "OpNe32", "OpLtS32", "OpLtU32"} /\ Usage(fn, c) = 1}

AlwaysLive == {"OpCallDirect", "OpHelperCall", "OpGlobalSet", "OpMemGrow"} \cup StoreOps

RECURSIVE Feeding(_, _)
Feeding(fn, live) ==
    LET more == UNION {PeeledArgs(fn, v) : v \in live} \ live
    IN  IF more = {} THEN live ELSE Feeding(fn, live \cup more)

\* Calls whose result nothing that counts reads: it is not fetched.
UnusedResults(fn) ==
    LET ends == UNION {Conditions(fn, b) : b \in Range(fn.blocks)}
                  \cup {PeelCopies(fn, r) : r \in RetMarkers(fn)}
        live == Feeding(fn, {v \in Listed(fn) : fn.val[v].op \in AlwaysLive} \cup ends)
        read == ends \cup UNION {PeeledArgs(fn, v) : v \in live \cap Listed(fn)}
    IN  {v \in Listed(fn) : fn.val[v].op \in {"OpCallDirect", "OpHelperCall"}} \ read

UsesModule(fn) ==
    \E v \in Listed(fn) : fn.val[v].op \in LoadOps \cup StoreOps \cup
        {"OpSimdMemCall", "OpCallDirect", "OpGlobalGet", "OpGlobalSet", "OpMemSize", "OpMemGrow"}

---------------------------------------------------------------------------
(* Registers carried around a loop: a phi and the value it takes on the    *)
(* back edge share one, which no block of the loop uses otherwise.         *)

RegOps == BinOps \cup LoadOps \cup {"OpCallDirect", "OpMemSize", "OpMemGrow"}

CallsIn(p, b) == \E v \in Range(p.fn.blk[b].values) : p.fn.val[v].op \in EmitsCall

BackEdgeSeq(fn) ==
    LET from(b) == [i \in DOMAIN fn.blk[b].succs |-> <<b, fn.blk[b].succs[i].to>>]
        back    == BackEdges(fn)
    IN  SelectSeq(FlattenSeq([i \in DOMAIN fn.blocks |-> from(fn.blocks[i])]), LAMBDA e : e \in back)

NaturalLoop(fn, src, h) == {h} \cup Reaching(fn, {src} \ {h}, {h})

\* How many arguments name p, and whether a branch does.
ReadOnce(fn, p) ==
    /\ MapThenSumSet(LAMBDA u : Cardinality({i \in DOMAIN fn.val[u].args :
                                                PeelCopies(fn, fn.val[u].args[i]) = p}),
                     Listed(fn)) = 1
    /\ \A b \in Range(fn.blocks) : p \notin Conditions(fn, b)

CoalescePhi(p, body, at, phi) ==
    LET v == PeelCopies(p.fn, p.fn.val[phi].args[at])
        r == Head(p.carry)
    IN  IF /\ p.carry # <<>>
           /\ p.fn.val[v].op \in RegOps
           /\ \E b \in body : v \in Range(p.fn.blk[b].values)
           /\ p.fn.val[phi].type \in {"i32", "bool"}
           /\ {phi, v} \cap DOMAIN p.home = {}
           /\ ReadOnce(p.fn, phi)
        THEN [p EXCEPT !.home = (phi :> r) @@ (v :> r) @@ @, !.carry = Tail(@),
                       !.coalesced = @ \cup {phi}, !.reserved = @ \cup (body \X {r})]
        ELSE p

CoalesceLoop(p, e) ==
    LET body == NaturalLoop(p.fn, e[1], e[2])
        at   == Min({i \in DOMAIN p.fn.blk[e[2]].preds : p.fn.blk[e[2]].preds[i].to = e[1]})
    IN  IF \E b \in body : CallsIn(p, b) THEN p
        ELSE FoldLeft(LAMBDA q, phi : CoalescePhi(q, body, at, phi), p, Phis(p.fn, e[2]))

RunCoalescePass(p) == FoldLeft(CoalesceLoop, p, BackEdgeSeq(p.fn))

---------------------------------------------------------------------------
(* Registers inside a block: a linear scan over its values.                *)

\* The last place of b that reads v, its condition being past the end; 0
\* when v is not read.
LastRegUse(fn, b, v) ==
    LET vs == fn.blk[b].values
    IN  IF v \in Conditions(fn, b) THEN Len(vs) + 1
        ELSE Max({0} \cup {i \in DOMAIN vs : v \in PeeledArgs(fn, vs[i])})

LeavesBlock(fn, b, v) ==
    \/ \E p \in Range(Phis(fn, b)) : v \in PeeledArgs(fn, p)
    \/ \E c \in Range(fn.blocks) \ {b} : v \in ReadIn(fn, c)

\* Several registers freed at one place come back in some order; here in
\* that of their values.
ScanValue(p, b, s, i) ==
    LET vs    == p.fn.blk[b].values
        v     == vs[i]
        last  == LastRegUse(p.fn, b, v)
        still == SelectSeq(s.active, LAMBDA e : e.until >= i)
        free  == s.free \o [k \in DOMAIN SelectSeq(s.active, LAMBDA e : e.until < i) |->
                               SelectSeq(s.active, LAMBDA e : e.until < i)[k].reg]
        kept  == \A j \in i + 1 .. Min({last, Len(vs)}) : p.fn.val[vs[j]].op \notin EmitsCall
    IN  IF /\ last > i
           /\ p.fn.val[v].op \in RegOps
           /\ v \notin p.fused
           /\ ~LeavesBlock(p.fn, b, v)
           /\ kept
           /\ free # <<>>
        THEN [home |-> (v :> Head(free)) @@ s.home, free |-> Tail(free),
              active |-> Append(still, [until |-> last, reg |-> Head(free)])]
        ELSE [home |-> s.home, free |-> free, active |-> still]

AssignBlockRegHomes(p, b) ==
    LET taken == {x[2] : x \in {y \in p.reserved : y[1] = b}}
                   \cup (IF p.mCache THEN {MCacheReg} ELSE {})
        start == [home |-> p.home, active |-> <<>>,
                  free |-> SelectSeq(ScanRegs, LAMBDA r : r \notin taken)]
    IN  [p EXCEPT !.home = FoldLeft(LAMBDA s, i : ScanValue(p, b, s, i), start,
                                    [i \in DOMAIN p.fn.blk[b].values |-> i]).home]

ComputeRegHomes(p) == FoldLeft(AssignBlockRegHomes, RunCoalescePass(p), p.fn.blocks)

---------------------------------------------------------------------------
(* Slots shared by values that are never live together.                    *)

\* What the allocator reads of a function.
FlowOf(fn) ==
    LET of(b) == fn.blk[b].values
    IN  [blocks |-> fn.blocks,
         order  |-> FlattenSeq([i \in DOMAIN fn.blocks |-> of(fn.blocks[i])]),
         values |-> [b \in Range(fn.blocks) |-> of(b)],
         succs  |-> [b \in Range(fn.blocks) |-> fn.blk[b].succs],
         ends   |-> [b \in Range(fn.blocks) |-> Markers(fn, b) \cup ({fn.blk[b].control} \ {None})],
         phis   |-> {v \in Listed(fn) : fn.val[v].op = "OpPhi"},
         args   |-> [v \in Listed(fn) |-> fn.val[v].args],
         root   |-> [v \in Listed(fn) |-> PeelCopies(fn, v)],
         size   |-> [v \in Listed(fn) |-> SlotSize(fn.val[v].type)]]

\* What has a slot and is read from it.
SpillNeeded(p) == {v \in Listed(p.fn) : p.at[v] # NoSlot /\ v \notin DOMAIN p.home}

\* What a register does not hold moves down, in the order it had; values in
\* the same slot stay together.
CompactFrame(p) ==
    LET kept      == {v \in DOMAIN p.at : p.at[v] # NoSlot /\ v \notin DOMAIN p.home}
        size(off) == SlotSize(p.fn.val[CHOOSE v \in kept : p.at[v] = off].type)
        put(s, off) == LET at == AlignUp(s.off, SlotAlign(size(off)))
                       IN  [to |-> (off :> at) @@ s.to, off |-> at + size(off)]
        inOrder(offs) == SelectSeq([i \in 1 .. p.frame |-> i - 1], LAMBDA off : off \in offs)
        old   == inOrder(Range(p.temp))
        new   == FoldLeft(put, [to |-> <<>>, off |-> p.area], inOrder({p.at[v] : v \in kept}))
        temps == Temps(p.fn, [i \in DOMAIN old |-> CHOOSE v \in DOMAIN p.temp : p.temp[v] = old[i]],
                       new.off)
    IN  [p EXCEPT !.at = [v \in DOMAIN @ |->
                             IF @[v] = NoSlot THEN NoSlot
                             ELSE IF @[v] \in DOMAIN new.to THEN new.to[@[v]] ELSE 0],
                  !.temp = temps.at, !.frame = AlignUp(temps.off, 8)]

\* The shared layout is taken when it makes the frame smaller.
ApplyNewStackalloc(p) ==
    LET shared == AllocateSlots(FlowOf(p.fn), SpillNeeded(p), p.area)
        temps  == Temps(p.fn, SetToSortSeq(DOMAIN p.temp, <), shared.frame)
    IN  IF shared.frame = 0 \/ shared.frame >= p.frame THEN CompactFrame(p)
        ELSE [p EXCEPT !.at = shared.at @@ @, !.temp = temps.at, !.frame = AlignUp(temps.off, 8)]

---------------------------------------------------------------------------
\* at, temp: offsets of the values and of the staged phis' temporaries;
\* home: the registers of the values that have one; area: the bytes the
\* calls need; carry, reserved: registers for loops still free, and taken.
InFrame(fn, at, temps) ==
    [fn |-> fn, at |-> at, temp |-> temps.at, frame |-> AlignUp(temps.off, 8), area |-> CalleeArea(fn),
     fused |-> BranchFused(fn), unused |-> UnusedResults(fn), mCache |-> UsesModule(fn),
     home |-> <<>>, coalesced |-> {}, carry |-> CarryRegs, reserved |-> {}]

WithSlots(fn, s) == InFrame(fn, s.at, Temps(fn, Staged(fn), s.off))

Baseline(fn) == WithSlots(fn, Slots(fn))

\* Slots and registers are handed out before the edges are split, what is
\* shared and what is emitted after.
Homed(fn) == [ComputeRegHomes(Baseline(fn)) EXCEPT !.fn = EdgesSplit(fn)]

LaidOut(p) == IF HasVectors(p.fn) THEN CompactFrame(p) ELSE ApplyNewStackalloc(p)

Plan(fn) == LaidOut(Homed(fn))
================================================================================
