-------------------------------- MODULE Passes --------------------------------
(***************************************************************************)
(* The optimisation passes, each a function from SSA to SSA               *)
(* (src/internal/ssa/pass).  A pass "changed" something when it returns    *)
(* another function than it was given.                                     *)
(***************************************************************************)
EXTENDS Ssa

CONSTANTS LargeConst,    \* emitter's largeConstThreshold
          Window         \* simdBoundsWindow

ASSUME PassAssumption == LargeConst \in Nat /\ Window \in Nat /\ Window < Word

Op(fn, v) == fn.val[v].op
Arg(fn, v, i) == fn.val[v].args[i]
IsConst(fn, v) == Op(fn, v) = "OpConst32"

\* Folds a function's blocks in order, then a block's values in order.
OverBlocks(fn, do(_, _)) == InOrder(do, fn, fn.blocks)
LiveValues(fn) == FlattenSeq([i \in DOMAIN fn.blocks |-> Live(fn, fn.blocks[i])])

---------------------------------------------------------------------------
\* Binary operators of two constants; a compare yields a bool.
FoldValue(fn, v) ==
    LET x == fn.val[v] IN
    IF x.op \in BinOps /\ IsConst(fn, x.args[1]) /\ IsConst(fn, x.args[2])
    THEN [fn EXCEPT !.val[v] =
            [Const32(Arith(x.op, fn.val[x.args[1]].aux, fn.val[x.args[2]].aux))
                EXCEPT !.type = x.type]]
    ELSE fn

ConstProp(fn) == InOrder(FoldValue, fn, LiveValues(fn))

---------------------------------------------------------------------------
(* Branches.                                                               *)

FirstEdge(edges, to) == SelectInSeq(edges, LAMBDA e : e.to = to)

\* Mutant: nothing moves up, and the phis keep their arguments.
RemoveEdgeOnly(fn, src, dst) ==
    [fn EXCEPT !.blk[dst].preds = RemoveAt(@, FirstEdge(fn.blk[dst].preds, src)),
               !.blk[src].succs = RemoveAt(@, FirstEdge(fn.blk[src].succs, dst))]

\* The first edge from src to dst goes, with the argument every phi of dst
\* had for it; the edges after it move up in both lists.
RemoveEdge(fn, src, dst) ==
    LET p    == FirstEdge(fn.blk[dst].preds, src)
        s    == FirstEdge(fn.blk[src].succs, dst)
        phis == Range(Phis(fn, dst))
        from(n, seq) == [i \in 1 .. Len(seq) - n + 1 |-> n + i - 1]
        predAt(f, i) == LET e == f.blk[dst].preds[i] IN [f EXCEPT !.blk[e.to].succs[e.at].at = i]
        succAt(f, i) == LET e == f.blk[src].succs[i] IN [f EXCEPT !.blk[e.to].preds[e.at].at = i]
        noPred == [fn EXCEPT
            !.blk[dst].preds = RemoveAt(@, p),
            !.val = [v \in DOMAIN @ |->
                IF v \in phis THEN [@[v] EXCEPT !.args = RemoveAt(@, p)] ELSE @[v]]]
        moved  == InOrder(predAt, noPred, from(p, noPred.blk[dst].preds))
        noSucc == [moved EXCEPT !.blk[src].succs = RemoveAt(@, s)]
    IN  InOrder(succAt, noSucc, from(s, noSucc.blk[src].succs))

\* Unreachable blocks leave, their edges out of the surviving phis first.
RemoveUnreachable(fn) ==
    LET reach == Reachable(fn)
        detach(f, b) ==
            IF b \in reach THEN f
            ELSE InOrder(LAMBDA g, e : RemoveEdge(g, b, e.to), f, f.blk[b].succs)
    IN  [OverBlocks(fn, detach) EXCEPT !.blocks = SelectSeq(@, LAMBDA b : b \in reach)]

BecomesPlain(fn, b) == [fn EXCEPT !.blk[b].kind = "Plain", !.blk[b].control = None]

BranchFold(fn) ==
    LET fold(f, b) ==
          LET blk == f.blk[b] IN
          IF blk.kind = "If" /\ IsConst(f, blk.control)
          THEN LET notTaken == IF f.val[blk.control].aux = 0 THEN 1 ELSE 2
               IN  BecomesPlain(RemoveEdge(f, b, blk.succs[notTaken].to), b)
          ELSE f
        folded == OverBlocks(fn, fold)
    IN  IF folded = fn THEN fn ELSE RemoveUnreachable(folded)

\* The If a diamond's i-th arm into join starts from, and which way.
MaskDiamondHead(fn, join, i) ==
    LET e == fn.blk[join].preds[i]
        p == fn.blk[e.to]
    IN  IF p.kind = "If" THEN {e}
        ELSE IF Len(p.preds) = 1 /\ Len(p.succs) = 1 /\ fn.blk[p.preds[1].to].kind = "If"
             THEN {p.preds[1]} ELSE {}

\* A branch on a diamond's 0/nonzero phi becomes one on its condition.
FoldCondMaskPhi(fn) ==
    LET fold(f, b) ==
          LET blk  == f.blk[b]
              phi  == blk.control
              join == CHOOSE j \in DefBlock(f, phi) : TRUE
              head(i) == MaskDiamondHead(f, join, i)
              zero(i) == f.val[Arg(f, phi, i)].aux = 0
          IN  IF /\ blk.kind = "If" /\ Op(f, phi) = "OpPhi" /\ Len(f.val[phi].args) = 2
                 /\ \A i \in 1 .. 2 : IsConst(f, Arg(f, phi, i))
                 /\ zero(1) # zero(2)
                 /\ Len(f.blk[join].preds) = 2
                 /\ \E h1 \in head(1), h2 \in head(2) :
                       h1.to = h2.to /\ h1.at # h2.at /\ ~zero(IF h2.at = 1 THEN 2 ELSE 1)
              THEN [f EXCEPT !.blk[b].control =
                       f.blk[(CHOOSE h \in head(1) : TRUE).to].control]
              ELSE f
    IN  OverBlocks(fn, fold)

\* If successor s leads to the join directly or through an empty block.
DiamondPath(fn, b, s) ==
    LET arm == fn.blk[s] IN
    IF arm.kind = "Plain" /\ arm.values = <<>> /\ Len(arm.preds) = 1
       /\ Len(arm.succs) = 1 /\ s # b
    THEN [join |-> arm.succs[1].to, via |-> s]
    ELSE [join |-> s, via |-> s]

FoldEmptyDiamonds(fn) ==
    LET fold(f, b) ==
          LET blk == f.blk[b]
              p(i) == DiamondPath(f, b, blk.succs[i].to)
          IN  IF blk.kind = "If" /\ p(1).join = p(2).join /\ p(1).join # b
                 /\ Phis(f, p(1).join) = <<>>
              THEN BecomesPlain(RemoveEdge(f, b, p(2).via), b)
              ELSE f
        folded == OverBlocks(fn, fold)
    IN  IF folded = fn THEN fn ELSE RemoveUnreachable(folded)

---------------------------------------------------------------------------
(* Values.                                                                 *)

\* Mutant: the outer constant is made anew and the inner add stays.
ReassocConstAddsAnew(fn) ==
    LET const(f, u) == {i \in 1 .. 2 : IsConst(f, Arg(f, u, i))}
        isAdd(f, u) == Op(f, u) = "OpAdd32"
        step(b, f, i) ==
            LET v == f.blk[b].values[i]
                j == IF 2 \in const(f, v) THEN 2 ELSE 1
                inner == Arg(f, v, 3 - j)
            IN  IF isAdd(f, v) /\ const(f, v) # {} /\ isAdd(f, inner) /\ const(f, inner) # {}
                THEN [NewValueBefore(f, b, i, f.val[Arg(f, v, j)]) EXCEPT
                         !.val[v].args = <<inner, NextValue(f)>>]
                ELSE f
    IN  OverBlocks(fn, LAMBDA f, b :
            InOrder(LAMBDA g, i : step(b, g, i), f, [i \in DOMAIN f.blk[b].values |-> i]))

\* Add(Add(x, c1), c2) is Add(x, c1 + c2), the sum made at v's old index.
ReassocConstAdds(fn) ==
    LET const(f, u) == {i \in 1 .. 2 : IsConst(f, Arg(f, u, i))}
        isAdd(f, u) == Op(f, u) = "OpAdd32"
        pickConst(f, u) == IF 2 \in const(f, u) THEN 2 ELSE 1
        inBlock(f0, b) ==
          LET old == f0.blk[b].values
              step(f, i) ==
                LET v == old[i]  j == pickConst(f, v)  inner == Arg(f, v, 3 - j)
                    k == pickConst(f, inner)
                IN  IF isAdd(f, v) /\ const(f, v) # {} /\ isAdd(f, inner) /\ const(f, inner) # {}
                    THEN LET sum == Arith("OpAdd32", f.val[Arg(f, inner, k)].aux,
                                                     f.val[Arg(f, v, j)].aux)
                         IN  [NewValueBefore(f, b, i, Const32(sum)) EXCEPT
                                 !.val[v].args = <<Arg(f, inner, 3 - k), NextValue(f)>>]
                    ELSE f
          IN  InOrder(step, f0, [i \in DOMAIN old |-> i])
    IN  OverBlocks(fn, inBlock)

\* What a copy or a phi of one value stands for.
TrivialOf(fn, v) ==
    LET real == Range(fn.val[v].args) \ {v} IN
    CASE Op(fn, v) = "OpCopy" /\ v \notin RetMarkers(fn) -> {Arg(fn, v, 1)} \ {v}
      [] Op(fn, v) = "OpPhi" /\ Cardinality(real) = 1    -> real
      [] OTHER                                           -> {}

RECURSIVE ResolveTrivial(_, _, _)
ResolveTrivial(fn, seen, v) ==
    IF v \in seen \/ TrivialOf(fn, v) = {} THEN v
    ELSE ResolveTrivial(fn, seen \cup {v}, CHOOSE u \in TrivialOf(fn, v) : TRUE)

Simplify(fn) ==
    LET to == [v \in DOMAIN fn.val |-> ResolveTrivial(fn, {}, v)]
        gone == {v \in Range(LiveValues(fn)) \ RetMarkers(fn) : to[v] # v}
    IN  Bury(Rename(fn, LAMBDA v : to[v]), gone)

\* Replacements are followed to their end, then applied and buried.
RECURSIVE FollowCanon(_, _)
FollowCanon(canon, v) == IF canon[v] = v THEN v ELSE FollowCanon(canon, canon[v])

Replace(fn, canon) ==
    Bury(Rename(fn, LAMBDA v : FollowCanon(canon, v)), {v \in DOMAIN canon : canon[v] # v})

Unreplaced(fn) == [v \in DOMAIN fn.val |-> v]

CSEEligible(x) ==
    /\ x.op \notin {"OpPhi", "OpParam", "OpGlobalGet"} \cup LoadOps
    /\ ~HasSideEffect(x)

CSEKey(fn, canon, v) ==
    LET args == [i \in DOMAIN fn.val[v].args |-> FollowCanon(canon, Arg(fn, v, i))]
        sorted == IF Op(fn, v) \in Commutative /\ args[1] > args[2]
                  THEN <<args[2], args[1]>> ELSE args
    IN  [fn.val[v] EXCEPT !.args = sorted]

\* Within a block, a value equal to an earlier one is that one.
CSE(fn) ==
    LET merge(canon, b) ==
          LET step(c, v) ==
                LET same == {u \in Range(Live(fn, b)) \ RetMarkers(fn) :
                                /\ c[u] = u /\ CSEEligible(fn.val[u])
                                /\ CSEKey(fn, c, u) = CSEKey(fn, c, v)}
                    first == SelectInSeq(Live(fn, b), LAMBDA u : u \in same)
                IN  IF v \in RetMarkers(fn) \/ ~CSEEligible(fn.val[v]) THEN c
                    ELSE [c EXCEPT ![v] = Live(fn, b)[first]]
          IN  InOrder(step, canon, SelectSeq(Live(fn, b), LAMBDA v : v \notin RetMarkers(fn)))
    IN  Replace(fn, InOrder(merge, Unreplaced(fn), fn.blocks))

DCE(fn) ==
    LET roots == {v \in Range(LiveValues(fn)) : HasSideEffect(fn.val[v])}
                   \cup RetMarkers(fn)
                   \cup ({fn.blk[b].control : b \in Range(fn.blocks)} \ {None})
        reads(used) == used \cup UNION {Range(fn.val[v].args) : v \in used}
        RECURSIVE close(_)
        close(used) == IF reads(used) = used THEN used ELSE close(reads(used))
    IN  Bury(fn, Range(LiveValues(fn)) \ close(roots))

---------------------------------------------------------------------------
(* Memory accesses.                                                        *)

\* A cell remembers what is known to be at an address: who stored it, who
\* loaded it, and how many bytes that covers.
CellOf(fn, v) ==
    [base |-> Arg(fn, v, 1), off |-> fn.val[v].aux, width |-> Width(Op(fn, v)),
     store |-> IF IsStore(fn.val[v]) THEN v ELSE None,
     loads |-> IF IsLoad(fn.val[v]) THEN {v} ELSE {}]

SameAddress(c, d) == c.base = d.base /\ c.off = d.off

MayAlias(c, d) ==
    c.base # d.base \/ (c.off < d.off + d.width /\ d.off < c.off + c.width)

\* The values load v may be replaced by: an identical load, else the value
\* stored, when nothing has to be converted.
ReadableAs(fn, cell, v) ==
    LET same == {u \in cell.loads : Op(fn, u) = Op(fn, v) /\ fn.val[u].type = fn.val[v].type}
        stored == Arg(fn, cell.store, 2)
    IN  IF same # {} THEN same
        ELSE IF /\ cell.store # None
                /\ Op(fn, cell.store) = "OpStore32" /\ Op(fn, v) = "OpLoad32"
                /\ fn.val[stored].type = fn.val[v].type
             THEN {stored} ELSE {}

\* Mutant: a call inside the module is not one.
IsMemBarrierOutside(x) == x.op \in {"OpCallImport", "OpMemGrow"}

IsMemBarrier(x) == x.op \in {"OpCallImport", "OpCallDirect", "OpMemGrow"}

\* Redundant loads go, and loads of what was just stored.
MemOpt(fn) ==
    LET step(s, v) ==     \* s: the cells available, and what replaces what
          LET x    == fn.val[v]
              new  == CellOf(fn, v)
              here == {c \in s.avail : SameAddress(c, new)}
              got  == UNION {ReadableAs(fn, c, v) : c \in here}
              wider(c) == [c EXCEPT !.loads = @ \cup {v},
                                    !.width = IF @ < new.width THEN new.width ELSE @]
          IN  CASE IsLoad(x) /\ here = {}  -> [s EXCEPT !.avail = @ \cup {new}]
                [] IsLoad(x) /\ got # {}   -> [s EXCEPT !.canon[v] = CHOOSE u \in got : TRUE]
                [] IsLoad(x)               ->
                      [s EXCEPT !.avail = (@ \ here) \cup {wider(c) : c \in here}]
                [] IsStore(x)              ->
                      [s EXCEPT !.avail = {c \in @ \ here : ~MayAlias(c, new)} \cup {new}]
                [] IsMemBarrier(x)         -> [s EXCEPT !.avail = {}]
                [] OTHER                   -> s
        inBlock(s, b) == InOrder(step, [s EXCEPT !.avail = {}], Live(fn, b))
    IN  Replace(fn, InOrder(inBlock, [avail |-> {}, canon |-> Unreplaced(fn)], fn.blocks).canon)

\* A constant of an access's address, moved into the access's offset when
\* it is too large for an immediate.
FoldMemAddend(fn) ==
    LET fold(f, v) ==
          LET base == PeelCopies(f, Arg(f, v, 1))
              arg(i) == PeelCopies(f, Arg(f, base, i))
              c  == IF IsConst(f, arg(2)) THEN arg(2) ELSE arg(1)
              x  == IF IsConst(f, arg(2)) THEN arg(1) ELSE arg(2)
              k  == f.val[c].aux
              total == f.val[v].aux + k
          IN  IF /\ IsLoad(f.val[v]) \/ IsStore(f.val[v])
                 /\ Op(f, base) = "OpAdd32"
                 /\ IsConst(f, c) /\ ~IsConst(f, x)
                 /\ IF Signed(k) >= 0 THEN total >= LargeConst ELSE -Signed(k) >= LargeConst
              THEN [f EXCEPT !.val[v].args[1] = x, !.val[v].aux = total]
              ELSE f
    IN  InOrder(fold, fn, LiveValues(fn))

---------------------------------------------------------------------------
(* Bounds checks of v128 loads.                                            *)

\* The base of a load's address and its constant displacement from it.
SplitSimdAddr(fn, v) ==
    LET addr == Arg(fn, v, 1)
        off  == fn.val[Arg(fn, v, 2)].aux
        c    == fn.val[Arg(fn, addr, 2)].aux
        peels == /\ Op(fn, addr) = "OpAdd32" /\ IsConst(fn, Arg(fn, addr, 2))
                 /\ 0 <= Signed(c) /\ c < Window
    IN  IF peels THEN [v |-> v, base |-> Arg(fn, addr, 1), total |-> off + c, off |-> off]
        ELSE [v |-> v, base |-> addr, total |-> off, off |-> off]

Totals(refs) == {r.total : r \in Range(refs)}

FitsWindow(refs, r) ==
    LET all == Totals(refs) \cup {r.total}
    IN  Max(all) - Min(all) < Window /\ Max(all) < Window

SimdBoundsBarrier(x) == x.op # "OpSimdCall" /\ HasSideEffect(x)

IsVecLoad(x) == x.op = "OpSimdMemCall" /\ x.name = "v128_load"

\* The groups of a block's loads that one check can cover.
SimdGroups(fn, b) ==
    LET flush(s) == [open |-> <<>>, done |-> s.done \o s.open]
        step(s, v) ==
          LET r == SplitSimdAddr(fn, v)
              g == SelectInSeq(s.open, LAMBDA refs : refs[1].base = r.base)
          IN  IF IsVecLoad(fn.val[v])
              THEN IF g = 0 THEN [s EXCEPT !.open = Append(@, <<r>>)]
                   ELSE IF FitsWindow(s.open[g], r) THEN [s EXCEPT !.open[g] = Append(@, r)]
                   ELSE [s EXCEPT !.done = Append(@, s.open[g]), !.open[g] = <<r>>]
              ELSE IF SimdBoundsBarrier(fn.val[v]) THEN flush(s) ELSE s
        all == flush(InOrder(step, [open |-> <<>>, done |-> <<>>], Live(fn, b))).done
    IN  SelectSeq(all, LAMBDA refs : Len(refs) >= 2)

\* The group's first load checks the whole window, relative to its own
\* address; the others are not checked any more.
EmitCoalesced(fn, b, refs) ==
    LET first == refs[1]
        rlo   == Min(Totals(refs)) - (first.total - first.off)
        span  == Max(Totals(refs)) + VLen - Min(Totals(refs))
        at    == SelectInSeq(fn.blk[b].values, LAMBDA v : v = first.v)
        rest  == {refs[i].v : i \in 2 .. Len(refs)}
        loC   == NewValueBefore(fn, b, at, Const32(rlo % Word))
        both  == NewValueBefore(loC, b, at + 1, Const32(span % Word))
    IN  IF \/ 2 * rlo < -Word \/ 2 * rlo >= Word \/ 2 * span >= Word THEN fn
        ELSE [both EXCEPT !.val = [v \in DOMAIN @ |->
                 IF v = first.v
                 THEN [@[v] EXCEPT !.name = "v128_load_rng",
                                   !.args = @ \o <<NextValue(fn), NextValue(loC)>>]
                 ELSE IF v \in rest THEN [@[v] EXCEPT !.name = "v128_load_nc"]
                 ELSE @[v]]]

CoalesceSimdBounds(fn) ==
    OverBlocks(fn, LAMBDA f, b :
        InOrder(LAMBDA g, refs : EmitCoalesced(g, b, refs), f, SimdGroups(f, b)))
=============================================================================
