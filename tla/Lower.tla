-------------------------------- MODULE Lower --------------------------------
(***************************************************************************)
(* The lowering of a wasm body to SSA: one pass over the instructions that *)
(* keeps the current block, the value of every local, the operand stack,   *)
(* a stack of control frames and, for each block branched to, what flows   *)
(* into it (src/internal/lower/lower.go).  Each operator is a handler and  *)
(* maps the lowering state to the next; Compiler makes them actions.       *)
(*                                                                         *)
(* A small callee is spliced in: its body is lowered in place of the call, *)
(* as a block whose label its returns branch to (lower/inline.go).         *)
(***************************************************************************)
EXTENDS Ssa

CONSTANTS InlineMaxBody, InlineMaxProduct, InlineCallerBudget, InlineNonLeafMaxBody,
          NoInline    \* the callees an asm bundle replaces

ASSUME LowerAssumption ==
    /\ {InlineMaxBody, InlineMaxProduct, InlineCallerBudget, InlineNonLeafMaxBody} \subseteq Nat
    /\ NoInline \subseteq DOMAIN Callees

NoFrame == [kind |-> "block", target |-> 0, fall |-> 0, elseBlk |-> 0, haveElse |-> FALSE,
            arity |-> 0, height |-> 0, entryLocals |-> <<>>]

Cur(ls) == ls.fn.blk[ls.cur]
Innermost(ls) == ls.ctrl[Len(ls.ctrl)]
Frame(ls, depth) == ls.ctrl[Len(ls.ctrl) - depth]
BranchArity(f) == IF f.kind = "loop" THEN 0 ELSE f.arity

\* No callee is being spliced in; else which, where its frame is, and the
\* caller's locals and place.
NotInlining == [callee |-> 0, frame |-> 0, locals |-> <<>>, pc |-> 0]

\* Function f, about to be lowered: parameters, then zeros.
StartLowering(f) ==
    LET value(i) == IF i <= f.nparams THEN Value("OpParam", "i32", i, "", <<>>) ELSE Const32(0)
        all == [i \in 1 .. f.nparams + f.nlocals |-> i]
    IN  [fn |-> FoldLeft(LAMBDA g, i : NewValue(g, Entry, value(i)),
                         NewBlock(EmptyFunc(f.nresults)), all),
         cur |-> Entry, locals |-> all, pc |-> 1, inline |-> NotInlining, inlined |-> 0,
         stack |-> <<>>, ctrl |-> <<>>, incoming |-> <<>>, dead |-> FALSE, deadDepth |-> 0,
         done |-> FALSE]

Inlining(ls) == ls.inline.callee # 0

\* Emit a value whose last n operands are on the stack, leaving the stack
\* without them (Void), or with the new value on top (Pushed).
Void(ls, n, v) ==
    [ls EXCEPT !.fn = NewValue(@, ls.cur, [v EXCEPT !.args = LastN(ls.stack, n) \o @]),
               !.stack = DropLast(@, n)]
Pushed(ls, n, v) ==
    LET to == Void(ls, n, v) IN [to EXCEPT !.stack = Append(@, NextValue(ls.fn))]

Compares == {"OpEq32", "OpNe32", "OpLtU32", "OpLtS32"}

\* A constant made first, then an operation that takes it last.
PushedWith(ls, n, c, v) ==
    LET with == [ls EXCEPT !.fn = NewValue(@, ls.cur, Const32(c))]
    IN  Pushed(with, n, [v EXCEPT !.args = <<NextValue(ls.fn)>>])

\* The helper takes the address, the memarg offset, then the vector.
VecAccess(ls, n, name, type, off) ==
    LET with == [ls EXCEPT !.fn = NewValue(@, ls.cur, Const32(off))]
        args == <<LastN(ls.stack, n)[1], NextValue(ls.fn)>> \o Tail(LastN(ls.stack, n))
        v    == Value("OpSimdMemCall", type, 0, name, args)
        to   == [with EXCEPT !.fn = NewValue(@, ls.cur, v), !.stack = DropLast(@, n)]
    IN  IF name = "v128_load" THEN [to EXCEPT !.stack = Append(@, NextValue(with.fn))] ELSE to

PlainOps == {"const", "get", "set", "tee", "drop", "eqz", "ctz", "div_u", "size", "grow",
             "gget", "gset", "call", "vload", "vstore", "extract"}
              \cup BinOps \cup LoadOps \cup StoreOps

HandlePlain(ls, i) ==
    CASE i.op = "const" -> Pushed(ls, 0, Const32(i.imm))
      [] i.op = "get"   -> [ls EXCEPT !.stack = Append(@, ls.locals[i.imm])]
      [] i.op = "set"   -> [ls EXCEPT !.locals[i.imm] = Top(ls.stack), !.stack = DropLast(@, 1)]
      [] i.op = "tee"   -> [ls EXCEPT !.locals[i.imm] = Top(ls.stack)]
      [] i.op = "drop"  -> [ls EXCEPT !.stack = DropLast(@, 1)]
      [] i.op \in BinOps ->
            Pushed(ls, 2, Value(i.op, IF i.op \in Compares THEN "bool" ELSE "i32", 0, "", <<>>))
      [] i.op = "eqz"   -> PushedWith(ls, 1, 0, Value("OpEq32", "bool", 0, "", <<>>))
      [] i.op = "ctz"   -> Pushed(ls, 1, Value("OpHelperCall", "i32", 0, "i32_ctz", <<>>))
      [] i.op = "div_u" -> Pushed(ls, 2, Value("OpHelperCall", "i32", 0, "i32_div_u", <<>>))
      [] i.op \in LoadOps  -> Pushed(ls, 1, Value(i.op, "i32", i.imm, "", <<>>))
      [] i.op \in StoreOps -> Void(ls, 2, Value(i.op, "mem", i.imm, "", <<>>))
      [] i.op = "size"  -> Pushed(ls, 0, Value("OpMemSize", "i32", 0, "", <<>>))
      [] i.op = "grow"  -> Pushed(ls, 1, Value("OpMemGrow", "i32", 0, "", <<>>))
      [] i.op = "gget"  -> Pushed(ls, 0, Value("OpGlobalGet", "i32", 0, "", <<>>))
      [] i.op = "gset"  -> Void(ls, 1, Value("OpGlobalSet", "mem", 0, "", <<>>))
      [] i.op = "call"  -> Pushed(ls, 1, Value("OpCallImport", "i32", 0, "", <<>>))
      [] i.op = "vload"  -> VecAccess(ls, 1, "v128_load", "v128", i.imm)
      [] i.op = "vstore" -> VecAccess(ls, 2, "v128_store", "i32", i.imm)
      [] i.op = "extract" -> Pushed(ls, 1, Value("OpSimdCall", "i32", i.imm, "lane", <<>>))

---------------------------------------------------------------------------
(* Edges.  What a branch carries is recorded when it is lowered, and       *)
(* becomes phis when the block it goes to is entered.                      *)

RecordIncoming(ls, target, arity) ==
    [ls EXCEPT !.incoming = Append(@, [to |-> target, from |-> ls.cur, locals |-> ls.locals,
                                       stack |-> LastN(ls.stack, arity)])]

\* Each phi of a loop header gets the local's value on the new back edge.
AppendLoopBackArgs(ls, header) ==
    LET phis == Phis(ls.fn, header)
        local(v) == CHOOSE i \in DOMAIN phis : phis[i] = v
    IN  [ls EXCEPT !.fn.val = [v \in DOMAIN @ |->
            IF v \in Range(phis) THEN [@[v] EXCEPT !.args = Append(@, ls.locals[local(v)])]
            ELSE @[v]]]

Seal(ls, kind) == [ls EXCEPT !.fn.blk[ls.cur].kind = kind]
Link(ls, dst) == [ls EXCEPT !.fn = AddEdge(@, ls.cur, dst)]
Branching(ls, cond, kind) ==
    [Seal(ls, kind) EXCEPT !.fn.blk[ls.cur].control = cond]

\* What is recorded when the current block gets an edge to frame f.
BranchSnapshot(ls, f) ==
    LET rec == RecordIncoming(ls, f.target, BranchArity(f))
    IN  IF f.kind = "loop" THEN AppendLoopBackArgs(rec, f.target) ELSE rec

\* One phi per place where the incoming edges disagree.
Merge(ls, edges, type, pick(_)) ==
    LET args == [j \in DOMAIN edges |-> pick(edges[j])]
        same == \A j \in DOMAIN args : args[j] = args[1]
        phi  == Value("OpPhi", type, 0, "", args)
    IN  IF same THEN [fn |-> ls.fn, v |-> args[1]]
        ELSE [fn |-> NewValue(ls.fn, ls.cur, phi), v |-> NextValue(ls.fn)]

\* Enter block target: its locals and results, by phis where needed, the
\* stack cut back to the height the region started with.
ResolveIncoming(ls, target, arity, height) ==
    LET edges == SelectSeq(ls.incoming, LAMBDA e : e.to = target)
        rest  == [ls EXCEPT !.incoming = SelectSeq(@, LAMBDA e : e.to # target),
                            !.stack = SubSeq(@, 1, height)]
        preds == ls.fn.blk[target].preds
        ordered == [i \in DOMAIN preds |->
                       SelectSeq(edges, LAMBDA e : e.from = preds[i].to)[1]]
        local(s, i) ==
            LET r == Merge(s, ordered, "i32", LAMBDA e : e.locals[i])
            IN  [s EXCEPT !.fn = r.fn, !.locals[i] = r.v]
        result(s, i) ==
            LET last == ordered[Len(ordered)].stack[i]
                r == Merge(s, ordered, s.fn.val[last].type, LAMBDA e : e.stack[i])
            IN  [s EXCEPT !.fn = r.fn, !.stack = Append(@, r.v)]
        locals == FoldLeft(local, [rest EXCEPT !.locals = ordered[1].locals],
                           [i \in DOMAIN ls.locals |-> i])
    IN  IF Len(edges) = 1
        THEN [rest EXCEPT !.locals = edges[1].locals, !.stack = @ \o edges[1].stack]
        ELSE FoldLeft(result, locals, [i \in 1 .. arity |-> i])

---------------------------------------------------------------------------
(* Structured control.                                                     *)

Opened(ls, f) == [ls EXCEPT !.ctrl = Append(@, f)]

HandleBlock(ls, arity) ==
    LET post == NextBlock(ls.fn)
    IN  Opened([ls EXCEPT !.fn = NewBlock(@)],
               [NoFrame EXCEPT !.target = post, !.fall = post, !.arity = arity,
                               !.height = Len(ls.stack)])

\* A loop header has one phi per local, which back edges extend.
HandleLoop(ls, arity) ==
    LET header == NextBlock(ls.fn)
        blocks == [ls EXCEPT !.fn = NewBlock(NewBlock(@))]
        into   == [Link(Seal(blocks, "Plain"), header) EXCEPT !.cur = header]
        phi(s, i) == [s EXCEPT !.fn = NewValue(@, header,
                                       Value("OpPhi", "i32", 0, "", <<ls.locals[i]>>)),
                               !.locals[i] = NextValue(s.fn)]
    IN  Opened(FoldLeft(phi, into, [i \in DOMAIN ls.locals |-> i]),
               [NoFrame EXCEPT !.kind = "loop", !.target = header, !.fall = header + 1,
                               !.arity = arity, !.height = Len(ls.stack)])

HandleIf(ls, arity) ==
    LET then == NextBlock(ls.fn)
        pop  == [ls EXCEPT !.stack = DropLast(@, 1),
                           !.fn = NewBlock(NewBlock(NewBlock(@)))]
        split == Link(Link(Branching(pop, Top(ls.stack), "If"), then), then + 1)
    IN  Opened([split EXCEPT !.cur = then],
               [NoFrame EXCEPT !.kind = "if", !.target = then + 2, !.fall = then + 2,
                               !.elseBlk = then + 1, !.arity = arity,
                               !.height = Len(ls.stack) - 1, !.entryLocals = ls.locals])

\* The current block, if control reaches its end, flows into target.
FallInto(ls, target, arity) ==
    IF ls.dead THEN ls
    ELSE Link(Seal(RecordIncoming(ls, target, arity), "Plain"), target)

HandleElse(ls) ==
    LET f    == Innermost(ls)
        into == FallInto(ls, f.target, f.arity)
    IN  [into EXCEPT !.stack = SubSeq(@, 1, f.height), !.locals = f.entryLocals,
                     !.ctrl[Len(ls.ctrl)].haveElse = TRUE, !.dead = FALSE,
                     !.cur = f.elseBlk]

\* An if without else: its empty else block carries the locals of the entry.
BridgeElse(ls, f) ==
    LET there == RecordIncoming([ls EXCEPT !.cur = f.elseBlk, !.locals = f.entryLocals],
                                f.target, 0)
    IN  [ls EXCEPT !.incoming = there.incoming, !.fn = AddEdge(@, f.elseBlk, f.target)]

\* Move to the post block if anything flows in; stay in dead code if not.
EnterPost(ls, f) ==
    IF \E e \in Range(ls.incoming) : e.to = f.fall
    THEN ResolveIncoming([ls EXCEPT !.cur = f.fall, !.dead = FALSE], f.fall, f.arity, f.height)
    ELSE ls

\* The callee's own end closes the frame its body was spliced into.
LeaveInline(ls) ==
    IF Inlining(ls) /\ Len(ls.ctrl) < ls.inline.frame
    THEN [ls EXCEPT !.locals = ls.inline.locals, !.pc = ls.inline.pc, !.inline = NotInlining]
    ELSE ls

HandleEnd(ls) ==
    IF ls.ctrl = <<>>
    THEN [ls EXCEPT !.done = TRUE,
                    !.fn = IF ls.dead THEN @ ELSE FinishRet(@, ls.cur, LastN(ls.stack, ls.fn.results))]
    ELSE LET f   == Innermost(ls)
             out == [ls EXCEPT !.ctrl = DropLast(@, 1)]
             rec == IF ls.dead THEN out ELSE RecordIncoming(out, f.fall, f.arity)
             els == IF f.kind = "if" /\ ~f.haveElse THEN BridgeElse(rec, f) ELSE rec
             end == IF ls.dead THEN els ELSE Link(Seal(els, "Plain"), f.fall)
         IN  LeaveInline(EnterPost(end, f))

HandleBr(ls, depth) ==
    LET f == Frame(ls, depth)
    IN  [Link(Seal(BranchSnapshot(ls, f), "Plain"), f.target) EXCEPT !.dead = TRUE]

HandleBrIf(ls, depth) ==
    LET f    == Frame(ls, depth)
        cont == NextBlock(ls.fn)
        pop  == [ls EXCEPT !.stack = DropLast(@, 1), !.fn = NewBlock(@)]
        split == Link(Link(Branching(BranchSnapshot(pop, f), Top(ls.stack), "If"), f.target), cont)
    IN  [split EXCEPT !.cur = cont]

\* With a payload, a chain of comparisons, the last one falling through.
HandleBrTableChain(ls, labels) ==
    LET sel  == Top(ls.stack)
        pop  == [ls EXCEPT !.stack = DropLast(@, 1)]
        test(s, k) ==
            LET f    == Frame(s, labels[k])
                cont == NextBlock(s.fn)
                snap == BranchSnapshot([s EXCEPT !.fn = NewBlock(@)], f)
                with == [snap EXCEPT !.fn = NewValue(@, s.cur, Const32(k - 1))]
                eq   == Value("OpEq32", "bool", 0, "", <<sel, NextValue(snap.fn)>>)
                cmp  == [with EXCEPT !.fn = NewValue(@, s.cur, eq)]
                split == Branching(cmp, NextValue(with.fn), "If")
            IN  [Link(Link(split, f.target), cont) EXCEPT !.cur = cont]
    IN  HandleBr(FoldLeft(test, pop, [k \in 1 .. Len(labels) - 1 |-> k]), Top(labels))

\* One edge per different target; labels whose target is known share it.
HandleBrTableJump(ls, labels) ==
    LET start == Branching([ls EXCEPT !.stack = DropLast(@, 1)], Top(ls.stack), "BrTable")
        known(s, t) == {i \in DOMAIN Cur(s).succs : Cur(s).succs[i].to = t}
        target(s, k) ==
            LET f == Frame(ls, labels[k]) IN
            IF known(s, f.target) # {} THEN s
            ELSE [Link(BranchSnapshot(s, f), f.target) EXCEPT
                     !.fn.blk[ls.cur].cases = Append(@, <<>>)]
        place(s, k) == CHOOSE i \in known(s, Frame(ls, labels[k]).target) : TRUE
        case(s, k) ==
            LET t == target(s, k)
            IN  IF k = Len(labels) THEN [t EXCEPT !.fn.blk[ls.cur].dflt = place(t, k)]
                ELSE [t EXCEPT !.fn.blk[ls.cur].cases[place(t, k)] = Append(@, k - 1)]
    IN  [FoldLeft(case, start, [k \in DOMAIN labels |-> k]) EXCEPT !.dead = TRUE]

HandleBrTable(ls, labels) ==
    IF BranchArity(Frame(ls, Top(labels))) = 0 THEN HandleBrTableJump(ls, labels)
    ELSE HandleBrTableChain(ls, labels)

\* A return of a spliced body goes to the end of the frame it is in.
HandleReturn(ls) ==
    IF Inlining(ls)
    THEN LET f == ls.ctrl[ls.inline.frame]
         IN  [Link(Seal(RecordIncoming(ls, f.target, f.arity), "Plain"), f.target)
                EXCEPT !.dead = TRUE]
    ELSE [ls EXCEPT !.fn = FinishRet(@, ls.cur, LastN(ls.stack, ls.fn.results)), !.dead = TRUE]

HandleUnreachable(ls) == [Seal(ls, "Unreachable") EXCEPT !.dead = TRUE]

\* select is a diamond with two empty arms and a phi.
HandleSelect(ls) ==
    LET then == NextBlock(ls.fn)
        post == then + 2
        args == DropLast(LastN(ls.stack, 3), 1)
        pop  == [ls EXCEPT !.stack = DropLast(@, 3), !.fn = NewBlock(NewBlock(NewBlock(@)))]
        split == Link(Link(Branching(pop, Top(ls.stack), "If"), then), then + 1)
        join  == AddEdge(AddEdge(split.fn, then, post), then + 1, post)
    IN  Pushed([split EXCEPT !.cur = post, !.fn = join], 0,
               Value("OpPhi", ls.fn.val[args[1]].type, 0, "", args))

---------------------------------------------------------------------------
(* Direct calls.  A body has as many bytes as it has instructions here.    *)

Calls(body) == {i.imm : i \in {j \in Range(body) : j.op = "call_direct"}}
CallsImport(body) == \E i \in Range(body) : i.op = "call"
Sites(body, c) == Len(SelectSeq(body, LAMBDA i : i.op = "call_direct" /\ i.imm = c))

\* The policy, for a call of c in a function whose body is given: no
\* nesting, and no callee larger, or called more often, than the caps allow.
ShouldInline(ls, c, body) ==
    LET f     == Callees[c]
        bytes == Len(f.body)
        leaf  == Calls(f.body) = {} /\ ~CallsImport(f.body)
        sites == Sites(body, c)
                   + MapThenSumSet(LAMBDA d : Sites(Callees[d].body, c), DOMAIN Callees)
    IN  /\ ~Inlining(ls)
        /\ f.nresults <= 1
        /\ c \notin NoInline
        /\ leaf \/ (bytes <= InlineNonLeafMaxBody /\ ~CallsImport(f.body))
        /\ bytes <= InlineMaxBody
        /\ bytes * sites <= InlineMaxProduct
        /\ ls.inlined + bytes <= InlineCallerBudget

\* The arguments become the callee's first locals, zeros the others; a
\* frame opened around its body stands for the function-level block.
LowerInlineCall(ls, c) ==
    LET f     == Callees[c]
        zero(s, i) == [s EXCEPT !.fn = NewValue(@, s.cur, Const32(0)),
                                !.locals = Append(@, NextValue(s.fn))]
        args  == [ls EXCEPT !.stack = DropLast(@, f.nparams),
                            !.locals = LastN(ls.stack, f.nparams),
                            !.inlined = @ + Len(f.body), !.pc = 0]
        ready == FoldLeft(zero, args, [i \in 1 .. f.nlocals |-> i])
    IN  [HandleBlock(ready, f.nresults) EXCEPT
            !.inline = [callee |-> c, frame |-> Len(ls.ctrl) + 1, locals |-> ls.locals,
                        pc |-> ls.pc]]

HandleCallDirect(ls, c, body) ==
    LET f == Callees[c] IN
    IF ShouldInline(ls, c, body) THEN LowerInlineCall(ls, c)
    ELSE IF f.nresults = 1
         THEN Pushed(ls, f.nparams, Value("OpCallDirect", "i32", c, "", <<>>))
         ELSE Void(ls, f.nparams, Value("OpCallDirect", "mem", c, "", <<>>))

\* Dead code is skipped: only the nesting is followed.
SkipDead(ls, i) ==
    IF i.op \in Opens THEN [ls EXCEPT !.deadDepth = @ + 1]
    ELSE IF i.op = "end" /\ ls.deadDepth > 0 THEN [ls EXCEPT !.deadDepth = @ - 1]
    ELSE ls

SkipsDead(ls, i) == ls.dead /\ (i.op \notin {"else", "end"} \/ ls.deadDepth > 0)
=============================================================================
