------------------------------- MODULE Execute -------------------------------
(***************************************************************************)
(* What an SSA function does when it runs, in one of three ways:           *)
(*                                                                         *)
(*   ideal       what the function means: every value has a variable,      *)
(*               every phi is copied through a temporary                   *)
(*   goto        the Go function emitMultiBlock writes: labelled blocks,   *)
(*               values without a variable evaluated where they are used,  *)
(*               scalar accesses through the local mBase                   *)
(*   structured  the same with for, if and switch in place of the labels   *)
(*                                                                         *)
(* (src/internal/codegen/emit_ssa.go, emit_memops.go).  A machine m goes   *)
(* through every definition here; a run ends with [m, results].            *)
(***************************************************************************)
EXTENDS Structure

\* A function as it is run: which values and which phis have a variable,
\* whether accesses go through mBase, the structured body if there is one,
\* and the loops that were taken out of it, or of its parent.
Ideal(fn) ==
    [fn |-> fn, hoist |-> Listed(fn), staged |-> Listed(fn), mBase |-> FALSE,
     tree |-> <<>>, loops |-> <<>>]

Written(fn, hoist, tree) ==
    [fn |-> fn, hoist |-> hoist, staged |-> ComputeStagedPhis(fn, hoist), mBase |-> TRUE,
     tree |-> tree, loops |-> <<>>]

BodyOf(t) == IF t.ok THEN t.body ELSE <<>>

Code(mode, fn) ==
    IF mode = "ideal" THEN Ideal(fn)
    ELSE Written(fn, ComputeHoist(fn),
                 IF mode = "structured" THEN BodyOf(EmitStructured(fn)) ELSE <<>>)

WithLoops(codes) == [codes[1] EXCEPT !.loops = Tail(codes)]

Emitted(mode, fn) == WithLoops([i \in 1 .. 1 + Len(fn.outlined) |->
                                    Code(mode, (<<fn>> \o fn.outlined)[i])])

\* The address of a scalar access: a constant base is folded unwrapped, a
\* runtime base is added to the offset as a uint32.
Address(fn, v, base) ==
    IF fn.val[PeelCopies(fn, fn.val[v].args[1])].op = "OpConst32"
    THEN base + fn.val[v].aux
    ELSE (base + fn.val[v].aux) % Word

\* The range check of a coalesced group, relative to this load's address.
RangeLoad(m, addr, off, rlo, span) ==
    LET start == addr + Signed(rlo) IN
    IF start < 0 \/ start + span > MemSize(m) THEN [m |-> Trap(m), v |-> 0]
    ELSE [m |-> m, v |-> ReadVec(m, addr + off)]

UncheckedLoad(m, ea) ==
    IF InBounds(m, ea, VLen) THEN [m |-> m, v |-> ReadVec(m, ea)]
    ELSE [m |-> Wild(m), v |-> 0]

SimdMemCall(name, m, a) ==
    CASE name = "v128_load"     -> VecLoad(m, a[1] + a[2])
      [] name = "v128_store"    -> [m |-> VecStore(m, a[1] + a[2], a[3]), v |-> 0]
      [] name = "v128_load_rng" -> RangeLoad(m, a[1], a[2], a[3], a[4])
      [] name = "v128_load_nc"  -> UncheckedLoad(m, a[1] + a[2])

\* What evaluating value v, no direct call, does, its operands' values
\* being a.  An i64 is two words.
Apply(fn, v, a, m) ==
    LET x == fn.val[v]
        is(w) == [m |-> m, v |-> w]
    IN  CASE x.op \in {"OpConst32", "OpConst64"} -> is(x.aux)
          [] x.op = "OpCopy"     -> is(a[1])
          [] x.op \in BinOps     -> is(Arith(x.op, a[1], a[2]))
          [] x.op \in LoadOps    -> Load(x.op, m, Address(fn, v, a[1]))
          [] x.op \in StoreOps   -> [m |-> Store(x.op, m, Address(fn, v, a[1]), a[2]), v |-> 0]
          [] x.op = "OpGlobalGet" -> is(m.glob)
          [] x.op = "OpGlobalSet" -> [m |-> [m EXCEPT !.glob = a[1]], v |-> 0]
          [] x.op = "OpMemSize"   -> is(m.pages)
          [] x.op = "OpMemGrow"   -> Grow(m, a[1])
          [] x.op = "OpCallImport" -> Call(m, a[1])
          [] x.op = "OpHelperCall" ->
                IF x.name = "i32_div_u" THEN Divide(m, a[1], a[2]) ELSE is(Ctz(a[1]))
          [] x.op = "OpSimdCall"    -> is(a[1][x.aux])
          [] x.op = "OpSimdMemCall" -> SimdMemCall(x.name, m, a)
          [] x.op = "OpExtend32To64U" -> is(a[1])
          [] x.op = "OpOr64"          -> is(a[1] + a[2])      \* no bit is in both
          [] x.op = "OpShrU64"        -> is(a[1] \div Word)   \* by one word
          [] x.op = "OpTrunc64To32"   -> is(a[1] % Word)

\* Values: read from their variable, or evaluated again.
RECURSIVE Eval(_, _, _, _)
Eval(c, env, m, v) ==
    LET x == c.fn.val[v] IN
    IF v \in c.hoist \/ x.op = "OpParam" THEN env[v]
    ELSE Apply(c.fn, v, [i \in DOMAIN x.args |-> Eval(c, env, m, x.args[i])], m).v

Operands(c, st, v) ==
    [i \in DOMAIN c.fn.val[v].args |-> Eval(c, st.env, st.m, c.fn.val[v].args[i])]

---------------------------------------------------------------------------
(* Statements and edges.  st is where a run stands: its variables, the     *)
(* machine, and which array the local mBase points into.                   *)

RECURSIVE RunFunction(_, _, _)

AsValue(r) == [m |-> r.m, v |-> IF r.results = <<>> THEN 0 ELSE r.results[1]]

\* A direct call: of a function of the module, taken at its meaning, or of
\* a loop that was taken out, run the way its parent is.
CallDirect(c, x, a, m) ==
    AsValue(IF x.name = "outlined"
            THEN RunFunction([c.loops[x.aux] EXCEPT !.loops = c.loops], a, m)
            ELSE RunWasm(Callees[x.aux], Called(Callees[x.aux], a, m)))

\* ops after which the local mBase is read again
CanGrowMemory == {"OpCallImport", "OpCallDirect", "OpMemGrow"}

Stale(c, st, x) ==
    /\ c.mBase
    /\ x.op \in LoadOps \cup StoreOps
    /\ st.mBase # st.m.array

Assign(st, x, v, r) ==
    [m |-> r.m, env |-> [st.env EXCEPT ![v] = r.v],
     mBase |-> IF x.op \in CanGrowMemory THEN r.m.array ELSE st.mBase]

\* One statement: the value at v, if it is emitted where it stands.
Statement(c, st, v) ==
    LET x == c.fn.val[v] IN
    IF st.m.status # "run" \/ x.op \in {"OpPhi", "OpInvalid", "OpParam"}
       \/ ~(v \in c.hoist \/ HasSideEffect(x))
    THEN st
    ELSE Assign(st, x, v,
                IF Stale(c, st, x) THEN [m |-> Wild(st.m), v |-> 0]
                ELSE IF x.op = "OpCallDirect" THEN CallDirect(c, x, Operands(c, st, v), st.m)
                ELSE Apply(c.fn, v, Operands(c, st, v), st.m))

\* The values of block b as statements; the markers of a return are not.
BlockValues(c, st, b) ==
    LET blk == c.fn.blk[b]
    IN  InOrder(LAMBDA s, v : Statement(c, s, v), st,
                IF blk.kind = "Ret" THEN DropLast(blk.values, c.fn.results) ELSE blk.values)

Returned(c, st, b) ==
    LET marks == LastN(c.fn.blk[b].values, c.fn.results)
    IN  [i \in DOMAIN marks |-> Eval(c, st.env, st.m, c.fn.val[marks[i]].args[1])]

\* The copies of the phis of block b on its i-th incoming edge.
EdgeCopies(c, st, b, i) ==
    LET src(p)  == c.fn.val[p].args[i]
        copy(env, p) ==
            IF src(p) = p THEN env
            ELSE [env EXCEPT ![p] = Eval(c, IF p \in c.staged THEN st.env ELSE env, st.m, src(p))]
    IN  [st EXCEPT !.env = InOrder(copy, @, Phis(c.fn, b))]

TableSucc(blk, sel) ==
    LET hit == {i \in DOMAIN blk.cases : sel \in Range(blk.cases[i]) /\ i # blk.dflt}
    IN  IF hit = {} THEN blk.dflt ELSE CHOOSE i \in hit : TRUE

\* Which successor block b goes on to.
Chosen(c, st, b) ==
    LET blk == c.fn.blk[b] IN
    CASE blk.kind = "Plain"   -> 1
      [] blk.kind = "If"      -> IF Eval(c, st.env, st.m, blk.control) # 0 THEN 1 ELSE 2
      [] blk.kind = "BrTable" -> TableSucc(blk, Eval(c, st.env, st.m, blk.control))

---------------------------------------------------------------------------
(* The goto form: from label to label.                                     *)

Halted(m) == [m |-> m, results |-> <<>>]

RECURSIVE RunFrom(_, _, _)

Follow(c, st, e) == RunFrom(c, EdgeCopies(c, st, e.to, e.at), e.to)

\* The end of block b, its values evaluated.
Leave(c, st, b) ==
    LET blk == c.fn.blk[b] IN
    IF st.m.status # "run" THEN Halted(st.m)
    ELSE CASE blk.kind = "Ret"         -> [m |-> st.m, results |-> Returned(c, st, b)]
           [] blk.kind = "Unreachable" -> Halted(Trap(st.m))
           [] OTHER                    -> Follow(c, st, blk.succs[Chosen(c, st, b)])

RunFrom(c, st, b) == Leave(c, BlockValues(c, [st EXCEPT !.m = Burn(@)], b), b)

---------------------------------------------------------------------------
(* The structured form.  As in Go, a bare break leaves the innermost for   *)
(* or switch, a bare continue restarts the innermost for.                  *)

Going(x) == x.ctl = "go" /\ x.st.m.status = "run"
Resumed(x) == [x EXCEPT !.ctl = "go", !.label = Nothing]
Names(x, h) == x.label \in {Nothing, h}

RECURSIVE Exec(_, _, _), Loop(_, _, _)

ExecAll(c, x, stmts) == InOrder(LAMBDA y, n : Exec(c, y, n), x, stmts)

\* After one round of the loop: another one after continue or the end of
\* the body.
AfterRound(c, x, n) ==
    IF Going(x) \/ (x.ctl = "continue" /\ Names(x, n.b)) THEN Loop(c, Resumed(x), n)
    ELSE IF x.ctl = "break" /\ Names(x, n.b) THEN Resumed(x)
    ELSE x

Loop(c, x, n) == AfterRound(c, ExecAll(c, [x EXCEPT !.st.m = Burn(@)], n.kids[1]), n)

AfterSwitch(x) == IF x.ctl = "break" /\ x.label = Nothing THEN Resumed(x) ELSE x

Exec(c, x, n) ==
    IF ~Going(x) THEN x
    ELSE CASE n.s = "values" -> [x EXCEPT !.st = BlockValues(c, @, n.b)]
           [] n.s = "copies" -> [x EXCEPT !.st = EdgeCopies(c, @, n.b, n.at)]
           [] n.s = "return" -> [x EXCEPT !.ctl = "return", !.results = Returned(c, x.st, n.b)]
           [] n.s = "trap"   -> [x EXCEPT !.st.m = Trap(@)]
           [] n.s = "for"    -> Loop(c, x, n)
           [] n.s \in {"break", "continue"} -> [x EXCEPT !.ctl = n.s, !.label = n.b]
           [] n.s = "if"     -> ExecAll(c, x, n.kids[Chosen(c, x.st, n.b)])
           [] n.s = "switch" -> AfterSwitch(ExecAll(c, x, n.kids[Chosen(c, x.st, n.b)]))

\* A body whose end is reached without a return is no outcome at all.
Finished(x) ==
    IF x.st.m.status = "run" /\ x.ctl # "return" THEN Halted(Wild(x.st.m))
    ELSE [m |-> x.st.m, results |-> x.results]

RunTree(c, st) ==
    Finished(ExecAll(c, [st |-> st, ctl |-> "go", label |-> Nothing, results |-> <<>>], c.tree))

---------------------------------------------------------------------------
\* Entered with its arguments, on machine m.
Entered(c, args, m) ==
    [m |-> m, mBase |-> m.array,
     env |-> [v \in DOMAIN c.fn.val |->
                 IF c.fn.val[v].op = "OpParam" THEN args[c.fn.val[v].aux] ELSE 0]]

RunFunction(c, args, m) ==
    IF c.tree # <<>> THEN RunTree(c, Entered(c, args, m))
    ELSE RunFrom(c, Entered(c, args, m), Entry)

Observed(r) == Outcome(r.m, r.results)

\* What comes of running the function on a new machine.
Run(fn, mode, args, fuel) == Observed(RunFunction(Emitted(mode, fn), args, StartMachine(fuel)))
=============================================================================
