--------------------------------- MODULE Ssa ---------------------------------
(***************************************************************************)
(* The intermediate representation: a function is a set of basic blocks    *)
(* joined by two-sided edges, whose values are numbered once and for all   *)
(* (src/internal/ssa: ssa.go, builder.go, op.go, verify.go, compact.go).   *)
(*                                                                         *)
(* fn.val[v] and fn.blk[b] are every value and block ever allocated, by    *)
(* number; fn.blocks lists the blocks the function still has, in order;    *)
(* block 1 is the entry.  An edge [to, at] in a list names the other block *)
(* and the place of the same edge in that block's complementary list.      *)
(***************************************************************************)
EXTENDS Wasm

None == 0    \* no value: a nil Control

NoBlock == [kind |-> "Plain", succs |-> <<>>, preds |-> <<>>, values |-> <<>>,
            control |-> None, cases |-> <<>>, dflt |-> 0]

\* results: how many values it returns; outlined: the functions taken out of it.
EmptyFunc(results) ==
    [blocks |-> <<>>, blk |-> <<>>, val |-> <<>>, results |-> results, outlined |-> <<>>]

Entry == 1

NewBlock(fn) ==
    [fn EXCEPT !.blk = Append(@, NoBlock), !.blocks = Append(@, Len(fn.blk) + 1)]

\* The number the next block, the next value will get.
NextBlock(fn) == Len(fn.blk) + 1
NextValue(fn) == Len(fn.val) + 1

Value(op, type, aux, name, args) ==
    [op |-> op, type |-> type, aux |-> aux, name |-> name, args |-> args]

NewValue(fn, b, v) ==
    [fn EXCEPT !.val = Append(@, v), !.blk[b].values = Append(@, NextValue(fn))]

NewValueBefore(fn, b, i, v) ==
    [fn EXCEPT !.val = Append(@, v), !.blk[b].values = InsertAt(@, i, NextValue(fn))]

Const32(c) == Value("OpConst32", "i32", c, "", <<>>)

AddEdge(fn, src, dst) ==
    LET si == Len(fn.blk[dst].preds) + 1
        di == Len(fn.blk[src].succs) + 1
    IN  [fn EXCEPT !.blk[src].succs = Append(@, [to |-> dst, at |-> si]),
                   !.blk[dst].preds = Append(@, [to |-> src, at |-> di])]

\* A block that returns ends in one OpCopy marker per result.
FinishRet(fn, b, rets) ==
    FoldLeft(LAMBDA f, r : NewValue(f, b, Value("OpCopy", f.val[r].type, 0, "", <<r>>)),
             [fn EXCEPT !.blk[b].kind = "Ret"], rets)

Markers(fn, b) ==
    IF fn.blk[b].kind = "Ret" THEN Range(LastN(fn.blk[b].values, fn.results)) ELSE {}

RetMarkers(fn) == UNION {Markers(fn, b) : b \in Range(fn.blocks)}

Live(fn, b) == SelectSeq(fn.blk[b].values, LAMBDA v : fn.val[v].op # "OpInvalid")

Bury(fn, dead) ==
    [fn EXCEPT !.val = [v \in DOMAIN @ |->
        IF v \in dead THEN [@[v] EXCEPT !.op = "OpInvalid", !.args = <<>>] ELSE @[v]]]

\* Every use of a value, as an argument or as a block's condition, renamed.
Rename(fn, to(_)) ==
    LET ren(v) == IF v = None THEN None ELSE to(v)
    IN  [fn EXCEPT
          !.val = [v \in DOMAIN @ |->
              IF @[v].op = "OpInvalid" THEN @[v]
              ELSE [@[v] EXCEPT !.args = [i \in DOMAIN @ |-> ren(@[i])]]],
          !.blk = [b \in DOMAIN @ |-> [@[b] EXCEPT !.control = ren(@)]]]

---------------------------------------------------------------------------
(* Ops.  Everything that writes or may trap is kept where it stands.       *)

Commutative == {"OpAdd32", "OpEq32", "OpNe32"}

SideEffectOps == {"OpStore8", "OpStore32", "OpGlobalSet", "OpCallImport", "OpCallDirect",
                  "OpHelperCall", "OpSimdMemCall", "OpMemGrow"}

PureHelperNames == {"i32_ctz"}

HasSideEffect(v) ==
    IF v.op = "OpHelperCall" THEN v.name \notin PureHelperNames
    ELSE v.op \in SideEffectOps

IsLoad(v) == v.op \in LoadOps
IsStore(v) == v.op \in StoreOps

---------------------------------------------------------------------------
(* Graph shape.                                                            *)

Succs(fn, b) == {e.to : e \in Range(fn.blk[b].succs)}
Preds(fn, b) == {e.to : e \in Range(fn.blk[b].preds)}

RECURSIVE ReachFrom(_, _, _)
ReachFrom(fn, seen, front) ==
    IF front = {} THEN seen
    ELSE LET next == UNION {Succs(fn, b) : b \in front} \ seen
         IN  ReachFrom(fn, seen \cup next, next)

Reachable(fn) == ReachFrom(fn, {Entry}, {Entry})

\* a dominates b: no path from the entry reaches b around a.
Dominates(fn, a, b) ==
    \/ a = b
    \/ a = Entry
    \/ LET around == [fn EXCEPT !.blk[a].succs = <<>>]
       IN  b \notin Reachable(around)

DefBlock(fn, v) == {b \in Range(fn.blocks) : v \in Range(fn.blk[b].values)}

EdgesAgree(fn, b) ==
    /\ \A i \in DOMAIN fn.blk[b].succs :
          LET e == fn.blk[b].succs[i] IN
          /\ e.at \in DOMAIN fn.blk[e.to].preds
          /\ fn.blk[e.to].preds[e.at].to = b
    /\ \A i \in DOMAIN fn.blk[b].preds :
          LET e == fn.blk[b].preds[i] IN
          /\ e.at \in DOMAIN fn.blk[e.to].succs
          /\ fn.blk[e.to].succs[e.at].to = b

Terminated(blk) ==
    CASE blk.kind = "Plain"       -> Len(blk.succs) = 1
      [] blk.kind = "If"          -> Len(blk.succs) = 2 /\ blk.control # None
      [] blk.kind = "Ret"         -> blk.succs = <<>>
      [] blk.kind = "Unreachable" -> TRUE
      [] blk.kind = "BrTable" ->
            /\ blk.succs # <<>> /\ blk.control # None
            /\ Len(blk.cases) = Len(blk.succs)
            /\ blk.dflt \in DOMAIN blk.succs
            /\ Cardinality({e.to : e \in Range(blk.succs)}) = Len(blk.succs)
            /\ \A i, j \in DOMAIN blk.cases :
                  i # j => Range(blk.cases[i]) \cap Range(blk.cases[j]) = {}

PhisFirst(fn, b) ==
    LET vs == fn.blk[b].values IN
    \A i \in DOMAIN vs : fn.val[vs[i]].op = "OpPhi" =>
        /\ \A j \in 1 .. i : fn.val[vs[j]].op = "OpPhi"
        /\ Len(fn.val[vs[i]].args) = Len(fn.blk[b].preds)

\* Argument a of the value at place i of block b is defined on every path.
Defined(fn, b, i, k) ==
    LET v    == fn.blk[b].values[i]
        a    == fn.val[v].args[k]
        defs == DefBlock(fn, a)
    IN  /\ defs # {}
        /\ \A d \in defs :
             IF fn.val[v].op = "OpPhi"
             THEN Dominates(fn, d, fn.blk[b].preds[k].to)
             ELSE IF d = b
                  THEN \E j \in 1 .. i - 1 : fn.blk[b].values[j] = a
                  ELSE Dominates(fn, d, b)

UsesDefined(fn, b) ==
    /\ \A i \in DOMAIN fn.blk[b].values :
          \A k \in DOMAIN fn.val[fn.blk[b].values[i]].args : Defined(fn, b, i, k)
    /\ fn.blk[b].control # None =>
          \A d \in DefBlock(fn, fn.blk[b].control) : Dominates(fn, d, b)

\* What ssa.Verify accepts.
Verify(fn) ==
    /\ \A b \in Range(fn.blocks) :
          EdgesAgree(fn, b) /\ Terminated(fn.blk[b]) /\ PhisFirst(fn, b)
    /\ Range(fn.blocks) = Reachable(fn)
    /\ \A b \in Range(fn.blocks) : UsesDefined(fn, b)

Compact(fn) ==
    [fn EXCEPT !.blk = [b \in DOMAIN @ |->
        IF b \in Range(fn.blocks) THEN [@[b] EXCEPT !.values = Live(fn, b)] ELSE @[b]]]

\* Blocks no edge touches, left behind by the lowering, are dropped.
PruneDeadBlocks(fn) ==
    [fn EXCEPT !.blocks = SelectSeq(@, LAMBDA b :
        b = Entry \/ fn.blk[b].preds # <<>> \/ fn.blk[b].succs # <<>>)]

(***************************************************************************)
(* What the emitters decide before they write the function: which values   *)
(* get a variable and which are re-evaluated where they are used, and      *)
(* which phis are copied through temporaries (src/internal/emit/hoist.go). *)
(***************************************************************************)
Listed(fn) == UNION {Range(fn.blk[b].values) : b \in Range(fn.blocks)}
Phis(fn, b) == SelectSeq(fn.blk[b].values, LAMBDA v : fn.val[v].op = "OpPhi")

\* How often a value is read, as an argument or as a condition.
Usage(fn, v) ==
    LET uses(u) == Cardinality({i \in DOMAIN fn.val[u].args : fn.val[u].args[i] = v})
    IN  MapThenSumSet(uses, Listed(fn))
          + Cardinality({b \in Range(fn.blocks) : fn.blk[b].control = v})

IsVoidStore(v) == v.op = "OpSimdMemCall" /\ v.name = "v128_store"
IsNarrowingStore(fn, v) == v.op = "OpStore8" /\ fn.val[v.args[2]].type = "i32"
IsLoadOp(v) == IsLoad(v) \/ v.op = "OpGlobalGet"

ComputeHoist(fn) ==
    LET wants(v) ==
          LET x == fn.val[v] IN
          CASE x.op = "OpPhi"      -> TRUE
            [] x.op = "OpParam"    -> FALSE
            [] HasSideEffect(x)    -> x.type # "mem" /\ ~IsVoidStore(x)
            [] IsLoadOp(x)         -> TRUE
            [] OTHER               -> Usage(fn, v) >= 2
    IN  {v \in Listed(fn) : wants(v)}
          \cup {fn.val[v].args[2] : v \in {u \in Listed(fn) : IsNarrowingStore(fn, fn.val[u])}}

\* The variables the expression emitted for v reads.
RECURSIVE HoistedRefs(_, _, _)
HoistedRefs(fn, hoist, v) ==
    IF v \in hoist THEN {v}
    ELSE UNION {HoistedRefs(fn, hoist, a) : a \in Range(fn.val[v].args)}

\* Mutant: phis are always copied in place.
StagedInNone(fn, hoist, b) == {}

\* Phis of b that must be copied through temporaries: on some edge one of
\* them is read for another.
StagedIn(fn, hoist, b) ==
    LET phis == Range(Phis(fn, b))
        clash(p, i) ==
            LET src == fn.val[p].args[i] IN
            src # p /\ (HoistedRefs(fn, hoist, src) \cap phis) \ {p} # {}
    IN  IF \E p \in phis : \E i \in DOMAIN fn.blk[b].preds : clash(p, i)
        THEN phis ELSE {}

ComputeStagedPhis(fn, hoist) == UNION {StagedIn(fn, hoist, b) : b \in Range(fn.blocks)}

RECURSIVE PeelCopies(_, _)
PeelCopies(fn, v) ==
    IF fn.val[v].op = "OpCopy" THEN PeelCopies(fn, fn.val[v].args[1]) ELSE v
=============================================================================
