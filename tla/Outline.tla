------------------------------- MODULE Outline -------------------------------
(***************************************************************************)
(* Loop outlining: a whole natural loop becomes a function of its own,     *)
(* called where the loop was entered (src/internal/ssa/outline.go).  What  *)
(* the loop reads becomes parameters, unless it can be computed again;     *)
(* the one value it may leave becomes the result.  A loop left for two     *)
(* places returns which one in the high word of an i64, and the caller     *)
(* branches on it.                                                         *)
(*                                                                         *)
(* How the arguments are passed (registers, or packed through memory) is   *)
(* left out.                                                               *)
(***************************************************************************)
EXTENDS Structure

CONSTANTS OutlineMinValues,     \* Options.OutlineMinValues; 0 turns outlining off
          OutlineV128MinBody

ASSUME OutlineAssumption == {OutlineMinValues, OutlineV128MinBody} \subseteq Nat

ScalarType(t) == t = "i32"    \* of the types modelled

\* A folded comparison is a constant of type bool.
IsOutlineConst(x) == x.op \in {"OpConst32", "OpConst64"}

\* May be computed again inside the loop: nothing that reads memory or
\* globals, as that depends on when it runs.
OutlineRemat(x) ==
    /\ ~HasSideEffect(x)
    /\ ScalarType(x.type) \/ IsOutlineConst(x)
    /\ x.op \notin {"OpPhi", "OpParam", "OpGlobalGet", "OpSimdCall", "OpSimdMemCall"} \cup LoadOps

ValuesIn(fn, blocks) == UNION {Range(fn.blk[b].values) : b \in blocks}
CountIn(fn, blocks) == MapThenSumSet(LAMBDA b : Len(fn.blk[b].values), blocks)

\* What the values and conditions of these blocks read.
ReadBy(fn, blocks) ==
    UNION {Range(fn.val[v].args) : v \in ValuesIn(fn, blocks)}
      \cup ({fn.blk[b].control : b \in blocks} \ {None})

\* An invariant chain: computable from scalars that exist outside the loop.
RECURSIVE CanRemat(_, _, _)
CanRemat(fn, inside, v) ==
    /\ OutlineRemat(fn.val[v])
    /\ \A a \in Range(fn.val[v].args) :
          a \notin inside /\ (CanRemat(fn, inside, a) \/ ScalarType(fn.val[a].type))

\* Where the chains that reach a from the loop begin.
RECURSIVE Frontier(_, _, _)
Frontier(fn, inside, a) ==
    IF a \in inside THEN {}
    ELSE IF CanRemat(fn, inside, a)
         THEN UNION {Frontier(fn, inside, x) : x \in Range(fn.val[a].args)}
         ELSE {a}

\* The boundary of the loop of header h.
Boundary(fn, h) ==
    LET body    == LoopBody(fn, h)
        rest    == Range(fn.blocks) \ body
        inside  == ValuesIn(fn, body)
        enters  == {i \in DOMAIN fn.blk[h].preds : fn.blk[h].preds[i].to \in rest}
        leaves  == {b \in body : Succs(fn, b) \ body # {}}
        liveIns == UNION {Frontier(fn, inside, a) : a \in ReadBy(fn, body)}
    IN  [header |-> h, body |-> body, size |-> CountIn(fn, body), inside |-> inside,
         enters |-> enters, leaves |-> leaves,
         liveIns |-> SetToSortSeq(liveIns, <),
         liveOuts |-> ReadBy(fn, rest) \cap inside,
         exits |-> SetToSortSeq(UNION {Succs(fn, b) \ body : b \in leaves}, <)]

LoopEdges(fn, c, exit) == {i \in DOMAIN fn.blk[exit].preds : fn.blk[exit].preds[i].to \in c.body}

\* A call can stand for the loop: one way in, at most one value out, one
\* place to go on or two, and phis there that do not tell the ways apart.
Outlinable(fn, c) ==
    /\ Cardinality(c.enters) = 1
    /\ \A b \in c.body \ {c.header} : Preds(fn, b) \subseteq c.body
    /\ \A v \in Range(c.liveIns) :
          \/ ScalarType(fn.val[v].type)
          \/ fn.val[v].type = "v128" /\ c.size >= OutlineV128MinBody
    /\ Len(c.exits) \in 1 .. 2
    /\ Cardinality(c.liveOuts) <= 1
    /\ \A v \in c.liveOuts : ScalarType(fn.val[v].type)
    /\ Len(c.exits) = 2 =>
          \A v \in c.liveOuts, b \in c.leaves : \A d \in DefBlock(fn, v) : Dominates(fn, d, b)
    /\ \A e \in Range(c.exits) : \A p \in Range(Phis(fn, e)) :
          \A i, j \in LoopEdges(fn, c, e) : fn.val[p].args[i] = fn.val[p].args[j]

\* The largest loop that qualifies, of those too large to leave and too
\* small to be most of the function.
Candidates(fn) ==
    LET total == CountIn(fn, Range(fn.blocks))
    IN  {c \in {Boundary(fn, h) : h \in LoopHeaders(fn)} :
            /\ c.size >= OutlineMinValues
            /\ 10 * c.size <= 8 * total
            /\ Outlinable(fn, c)}

HasCandidate(fn) ==
    /\ OutlineMinValues > 0
    /\ CountIn(fn, Range(fn.blocks)) >= OutlineMinValues
    /\ Candidates(fn) # {}

Candidate(fn) ==
    CHOOSE c \in Candidates(fn) : \A d \in Candidates(fn) :
        c.size > d.size \/ (c.size = d.size /\ c.header <= d.header)

---------------------------------------------------------------------------
(* The extracted function: an entry, the return blocks, the loop's blocks. *)

TwoExits(c) == Len(c.exits) = 2

\* g.to says which value of g stands for a value of the parent.  A chain is
\* copied to the entry after what it reads.
RECURSIVE CloneChain(_, _, _)
CloneChain(fn, g, v) ==
    IF g.to[v] # None THEN g
    ELSE LET with == InOrder(LAMBDA f, a : CloneChain(fn, f, a), g, fn.val[v].args)
             copy == [fn.val[v] EXCEPT !.args = [i \in DOMAIN @ |-> with.to[@[i]]]]
         IN  [with EXCEPT !.fn = NewValue(@, Entry, copy), !.to[v] = NextValue(with.fn)]

\* A return block: its result is the value that left, or the place to go on
\* with that value in the low word.
ReturnBlock(g, c, place) ==
    LET b     == NextBlock(g.fn)
        out   == {g.to[v] : v \in c.liveOuts}
        fn1   == NewBlock(g.fn)
        value == CHOOSE v \in out : TRUE
        enc   == NewValue(fn1, b, Value("OpConst64", "i64", (place - 1) * Word, "", <<>>))
        ext   == NewValue(enc, b, Value("OpExtend32To64U", "i64", 0, "", <<value>>))
        or    == NewValue(ext, b, Value("OpOr64", "i64", 0, "", <<NextValue(fn1), NextValue(enc)>>))
        rets  == IF out = {} THEN <<>> ELSE <<value>>
    IN  [g EXCEPT !.fn =
            IF ~TwoExits(c) THEN FinishRet(fn1, b, rets)
            ELSE IF out = {} THEN FinishRet(enc, b, <<NextValue(fn1)>>)
            ELSE FinishRet(or, b, <<NextValue(ext)>>)]

Extracted(fn, c) ==
    LET moved == SelectSeq(fn.blocks, LAMBDA b : b \in c.body)
        values == FlattenSeq([i \in DOMAIN moved |-> fn.blk[moved[i]].values])
        reads  == SetToSortSeq(ReadBy(fn, c.body) \ c.inside, <)
        place(s, x) == SelectInSeq(s, LAMBDA y : y = x)
        results == IF TwoExits(c) THEN 1 ELSE Cardinality(c.liveOuts)
        param(g, i) == LET v == c.liveIns[i] IN
            [g EXCEPT !.fn = NewValue(@, Entry, Value("OpParam", fn.val[v].type, i, "", <<>>)),
                      !.to[v] = NextValue(g.fn)]
        adopt(g, v) == [g EXCEPT !.fn.val = Append(@, fn.val[v]), !.to[v] = NextValue(g.fn)]
        start == [fn |-> NewBlock(EmptyFunc(results)), to |-> [v \in DOMAIN fn.val |-> None]]
        params == InOrder(param, start, [i \in DOMAIN c.liveIns |-> i])
        owned  == InOrder(adopt, params, values)
        cloned == InOrder(LAMBDA g, v : CloneChain(fn, g, v), owned, reads)
        g0     == InOrder(LAMBDA g, i : ReturnBlock(g, c, i), cloned, [i \in DOMAIN c.exits |-> i])
        first  == Len(g0.fn.blk)
        num(b) == first + place(moved, b)
        to(v)  == IF v = None THEN None ELSE g0.to[v]
        rest   == [g0.fn EXCEPT !.val = [v \in DOMAIN @ |->
                      IF v \in {g0.to[u] : u \in c.inside}
                      THEN [@[v] EXCEPT !.args = [i \in DOMAIN @ |-> to(@[i])]] ELSE @[v]]]
        block(b) == [fn.blk[b] EXCEPT
            !.values = [i \in DOMAIN @ |-> to(@[i])],
            !.control = to(@),
            !.succs = SelectSeq(@, LAMBDA e : FALSE),
            !.preds = [i \in DOMAIN @ |->
                          IF @[i].to \in c.body THEN [@[i] EXCEPT !.to = num(@)]
                          ELSE [to |-> Entry, at |-> 1]]]
        body   == [rest EXCEPT !.blk = @ \o [i \in DOMAIN moved |-> block(moved[i])],
                               !.blocks = @ \o [i \in DOMAIN moved |-> first + i],
                               !.blk[Entry].succs = <<[to |-> num(c.header),
                                                       at |-> CHOOSE i \in c.enters : TRUE]>>]
        edge(g, b, e) ==
            IF e.to \in c.body
            THEN [g EXCEPT !.blk[num(b)].succs = Append(@, [to |-> num(e.to), at |-> e.at])]
            ELSE AddEdge(g, num(b), Entry + place(c.exits, e.to))
    IN  InOrder(LAMBDA g, b : InOrder(LAMBDA f, e : edge(f, b, e), g, fn.blk[b].succs),
                body, moved)

---------------------------------------------------------------------------
(* The parent, with a block that calls it in the loop's place.             *)

\* The loop's edges into an exit become the one of block call, last; its
\* phis take the value the loop's edges agree on.
Collapse(fn, c, call, out, exit) ==
    LET blk   == fn.blk[exit]
        kept  == SelectSeq([i \in DOMAIN blk.preds |-> i],
                           LAMBDA i : i \notin LoopEdges(fn, c, exit))
        loop  == CHOOSE i \in LoopEdges(fn, c, exit) : \A j \in LoopEdges(fn, c, exit) : i <= j
        value(v) == IF v \in c.liveOuts THEN out ELSE v
        moved(f, k) == LET e == blk.preds[kept[k]] IN [f EXCEPT !.blk[e.to].succs[e.at].at = k]
        preds == [fn EXCEPT
            !.blk[exit].preds = [k \in DOMAIN kept |-> @[kept[k]]],
            !.val = [v \in DOMAIN @ |->
                IF v \notin Range(Phis(fn, exit)) THEN @[v]
                ELSE [@[v] EXCEPT !.args = Append([k \in DOMAIN kept |-> @[kept[k]]],
                                                  value(@[loop]))]]]
    IN  AddEdge(InOrder(moved, preds, [k \in DOMAIN kept |-> k]), call, exit)

\* The call and, of an encoded result, the place and the value it holds.
Caller(fn, c, call) ==
    LET number == Len(fn.outlined) + 1
        type   == IF TwoExits(c) THEN "i64" ELSE IF c.liveOuts = {} THEN "mem" ELSE "i32"
        r      == NextValue(fn)
        called == NewValue(NewBlock(fn), call, Value("OpCallDirect", type, number, "outlined", c.liveIns))
        shift  == NewValue(called, call, Value("OpConst64", "i64", 32, "", <<>>))
        high   == NewValue(shift, call, Value("OpShrU64", "i64", 0, "", <<r, r + 1>>))
        index  == NewValue(high, call, Value("OpTrunc64To32", "i32", 0, "", <<r + 2>>))
        split  == [index EXCEPT !.blk[call].kind = "If", !.blk[call].control = r + 3]
        low    == NewValue(split, call, Value("OpTrunc64To32", "i32", 0, "", <<r>>))
    IN  IF ~TwoExits(c) THEN [fn |-> called, out |-> r]
        ELSE IF c.liveOuts = {} THEN [fn |-> split, out |-> None]
        ELSE [fn |-> low, out |-> r + 4]

\* pre: the edge into the loop.  A result of 1 is the second place, and
\* takes the then-slot.
Rejoined(fn, c, call, caller, pre) ==
    LET without == [caller.fn EXCEPT
            !.outlined = Append(@, Extracted(fn, c)),
            !.blocks = SelectSeq(@, LAMBDA b : b \notin c.body),
            !.blk[pre.to].succs[pre.at] = [to |-> call, at |-> 1],
            !.blk[call].preds = <<pre>>]
    IN  Rename(InOrder(LAMBDA f, e : Collapse(f, c, call, caller.out, e), without, Reverse(c.exits)),
               LAMBDA v : IF v \in c.liveOuts THEN caller.out ELSE v)

\* One loop taken out of fn.
ExtractLoop(fn, c) ==
    LET call == NextBlock(fn)
        i    == CHOOSE k \in c.enters : TRUE
    IN  Rejoined(fn, c, call, Caller(fn, c, call), fn.blk[c.header].preds[i])
=============================================================================
