------------------------------- MODULE Structure -------------------------------
(***************************************************************************)
(* The structured emitter: the control flow of an SSA function as nested   *)
(* for, if and switch statements with break and continue, preferred to the *)
(* goto form when the shape allows it (src/internal/codegen/               *)
(* emit_structured.go, src/internal/ssa/domtree.go).                       *)
(***************************************************************************)
EXTENDS Ssa

CONSTANTS DupFactor, DupSlack,   \* dupCap == DupFactor * blocks + DupSlack
          NestCap

ASSUME StructureAssumption == {DupFactor, DupSlack, NestCap} \subseteq Nat

Nothing == 0    \* no block: a nil join, follow or stop

---------------------------------------------------------------------------
(* Analyses.                                                               *)

BackEdges(fn) == {<<b, h>> \in Range(fn.blocks) \X Range(fn.blocks) :
                      h \in Succs(fn, b) /\ Dominates(fn, h, b)}

\* Without its back edges the graph has no cycle.
IsReducible(fn) ==
    LET forward(b) == {s \in Succs(fn, b) : <<b, s>> \notin BackEdges(fn)}
        RECURSIVE peel(_)
        peel(left) == LET sinks == {b \in left : forward(b) \cap left = {}}
                      IN  IF sinks = {} THEN left ELSE peel(left \ sinks)
    IN  peel(Range(fn.blocks)) = {}

\* The blocks from which some block of targets is reached around avoid.
RECURSIVE Reaching(_, _, _)
Reaching(fn, targets, avoid) ==
    LET more == {b \in Range(fn.blocks) \ (targets \cup avoid) : Succs(fn, b) \cap targets # {}}
    IN  IF more = {} THEN targets ELSE Reaching(fn, targets \cup more, avoid)

ExitBlocks(fn) == {b \in Range(fn.blocks) : fn.blk[b].succs = <<>>}

\* The nearest block every path from b to an exit goes through.
PostDominator(fn, b) ==
    LET exits == ExitBlocks(fn)
        post(x) == {p \in Range(fn.blocks) \ {x} : x \notin Reaching(fn, exits \ {p}, {p})}
        near == {p \in post(b) : post(b) \ {p} \subseteq post(p)}
    IN  IF b \notin Reaching(fn, exits, {}) \/ near = {} THEN Nothing
        ELSE CHOOSE p \in near : TRUE

LoopHeaders(fn) == {e[2] : e \in BackEdges(fn)}

\* The header and what reaches a back edge to it around the header.
LoopBody(fn, h) ==
    {h} \cup Reaching(fn, {e[1] : e \in {x \in BackEdges(fn) : x[2] = h}} \ {h}, {h})

\* Where the loop is left to, blocks that only trap apart.
LoopExits(fn, h) ==
    LET returns == Reaching(fn, {b \in Range(fn.blocks) : fn.blk[b].kind = "Ret"}, {})
    IN  (UNION {Succs(fn, b) : b \in LoopBody(fn, h)} \ LoopBody(fn, h)) \cap returns

Analysed(fn) ==
    [fn |-> fn,
     cap |-> DupFactor * Len(fn.blocks) + DupSlack,
     postdom |-> [b \in Range(fn.blocks) |-> PostDominator(fn, b)],
     follow |-> [h \in LoopHeaders(fn) |-> IF LoopExits(fn, h) = {} THEN Nothing
                                           ELSE CHOOSE x \in LoopExits(fn, h) : TRUE]]

---------------------------------------------------------------------------
(* Emission.  A statement is a node with the block it is about and nested  *)
(* statement lists; break and continue name a loop by its header, or none. *)

Node(s, b, at, kids) == [s |-> s, b |-> b, at |-> at, kids |-> kids]
ValuesOf(b) == Node("values", b, 0, <<>>)

\* a.ctx: the loops around, innermost last; a.switches: how many switches.
StartEmitting == [ctx |-> <<>>, switches |-> 0, depth |-> 0, emitted |-> {}, count |-> 0,
                  ok |-> TRUE]

Abort(a) == [a EXCEPT !.ok = FALSE]
InsideLoop(a, h) == \E i \in DOMAIN a.ctx : a.ctx[i].header = h

\* The break or continue that goes to target, if a loop around allows it:
\* an innermost one is named only when a switch is in the way.
Jump(a, target) ==
    LET hits == {i \in DOMAIN a.ctx : target \in {a.ctx[i].header, a.ctx[i].follow}}
        i    == Max(hits)
        f    == a.ctx[i]
        inner == i = Len(a.ctx)
    IN  IF target = Nothing \/ hits = {} THEN <<>>
        ELSE IF target = f.header
             THEN <<Node("continue", IF inner THEN Nothing ELSE f.header, 0, <<>>)>>
             ELSE <<Node("break", IF inner /\ a.switches <= f.switches THEN Nothing
                                  ELSE f.header, 0, <<>>)>>

\* Over edge e: the phi copies, then a jump, or the block to go on with.
GoTo(a, e, stop) ==
    LET copies == <<Node("copies", e.to, e.at, <<>>)>>
        jump   == Jump(a, e.to)
    IN  [out |-> copies \o jump,
         next |-> IF jump # <<>> \/ e.to = stop THEN Nothing ELSE e.to]

RECURSIVE Walk(_, _, _, _, _)

\* The statements from b up to stop, one level deeper.
Region(A, a, b, stop) ==
    IF a.depth + 1 > NestCap THEN [a |-> Abort(a), out |-> <<>>]
    ELSE LET w == Walk(A, [a EXCEPT !.depth = @ + 1], <<>>, b, stop)
         IN  [w EXCEPT !.a.depth = a.depth]

Branch(A, a, e, join) ==
    LET g == GoTo(a, e, join)
        r == Region(A, a, g.next, join)
    IN  IF g.next = Nothing THEN [a |-> a, out |-> g.out]
        ELSE [r EXCEPT !.out = g.out \o @]

\* All branches out of block b, one statement list each.
Arms(A, a, b) ==
    LET arm(acc, e) == LET r == Branch(A, acc.a, e, A.postdom[b])
                       IN  [a |-> r.a, outs |-> Append(acc.outs, r.out)]
    IN  InOrder(arm, [a |-> a, outs |-> <<>>], A.fn.blk[b].succs)

\* Past the branches: on with their join, unless a loop takes it over.
Rejoin(A, a, out, b, stop) ==
    LET join == A.postdom[b]
    IN  IF Jump(a, join) # <<>> THEN [a |-> a, out |-> out \o Jump(a, join)]
        ELSE Walk(A, a, out, join, stop)

Walk(A, a, out, b, stop) ==
    LET blk  == A.fn.blk[b]
        loop == [header |-> b, follow |-> A.follow[b], switches |-> a.switches]
        body == Region(A, [a EXCEPT !.ctx = Append(@, loop)], b, Nothing)
        here == [a EXCEPT !.emitted = @ \cup {b}, !.count = @ + 1]
        vals == Append(out, ValuesOf(b))
        goes == GoTo(here, blk.succs[1], stop)
        arms == Arms(A, IF blk.kind = "BrTable" THEN [here EXCEPT !.switches = @ + 1] ELSE here, b)
        split == Node(IF blk.kind = "If" THEN "if" ELSE "switch", b, 0, arms.outs)
    IN  CASE ~a.ok \/ b = Nothing \/ b = stop -> [a |-> a, out |-> out]
          [] b \in DOMAIN A.follow /\ ~InsideLoop(a, b) ->
                Walk(A, [body.a EXCEPT !.ctx = a.ctx],
                     Append(out, Node("for", b, 0, <<body.out>>)), A.follow[b], stop)
          [] here.count > A.cap -> [a |-> Abort(here), out |-> out]
          [] blk.kind = "Ret" -> [a |-> here, out |-> Append(vals, Node("return", b, 0, <<>>))]
          [] blk.kind = "Unreachable" ->
                [a |-> here, out |-> Append(vals, Node("trap", b, 0, <<>>))]
          [] blk.kind = "Plain" -> Walk(A, here, vals \o goes.out, goes.next, stop)
          [] OTHER -> Rejoin(A, [arms.a EXCEPT !.switches = a.switches],
                             Append(vals, split), b, stop)

\* The structured body, or that the function needs the goto form.
EmitStructured(fn) ==
    LET r == Region(Analysed(fn), StartEmitting, Entry, Nothing)
        structurable == /\ IsReducible(fn)
                        /\ \A h \in LoopHeaders(fn) : Cardinality(LoopExits(fn, h)) <= 1
    IN  IF ~structurable THEN [ok |-> FALSE, body |-> <<>>]
        ELSE [ok |-> r.a.ok /\ r.a.emitted = Range(fn.blocks), body |-> r.out]
=============================================================================
