------------------------------ MODULE Allocation ------------------------------
(***************************************************************************)
(* Stack slots shared by values that are never live together               *)
(* (src/internal/regalloc: liveness.go, stackalloc.go).                    *)
(*                                                                         *)
(* A function is here what the allocator reads of it, a record f with      *)
(*   blocks, order   its blocks in order; its values, block after block    *)
(*   values, succs   the values of a block; its edges, each with the block *)
(*                   it goes to and its number among that block's edges    *)
(*   ends            what the end of a block reads: its condition, or the  *)
(*                   values it returns                                     *)
(*   phis, args      the values that are phis; the arguments of a value    *)
(*   root, size      what a value is a copy of, over any number of copies, *)
(*                   itself if it is none; the bytes of its slot           *)
(***************************************************************************)
EXTENDS Integers, Sequences, FiniteSets, FiniteSetsExt, Functions

AlignUp(n, a) == ((n + a - 1) \div a) * a

\* What is live before every place of vs, and past the last: live at the
\* end, and backwards from there, v being live above the places that use it
\* and not above its own.
Back(vs, live, uses) ==
    LET n == Len(vs)
        back[k \in 0 .. n] ==
            IF k = 0 THEN live
            ELSE (back[k - 1] \ {vs[n + 1 - k]}) \cup uses[vs[n + 1 - k]]
    IN  [i \in 1 .. n + 1 |-> back[n + 1 - i]]

---------------------------------------------------------------------------
(* Liveness.  The arguments of a phi are read on the edges.                *)

PhisOf(f, b) == f.phis \cap Range(f.values[b])

\* Mutant: what a phi takes over an edge is not live before it.
LiveOutNoPhis(f, in, b) == UNION {in[e.to] : e \in Range(f.succs[b])}

LiveOut(f, in, b) ==
    UNION {in[e.to] \cup {f.args[p][e.at] : p \in PhisOf(f, e.to)} : e \in Range(f.succs[b])}

Uses(f, b) == [v \in Range(f.values[b]) |-> IF v \in f.phis THEN {} ELSE Range(f.args[v])]

LiveAt(f, in, b) == Back(f.values[b], LiveOut(f, in, b) \cup f.ends[b], Uses(f, b))

\* Block after block from the last to the first, each from what its
\* successors said last.
Visit(f, in, b) == [in EXCEPT ![b] = LiveAt(f, in, b)[1]]

LivePass(f, in) ==
    LET n == Len(f.blocks)
        pass[k \in 0 .. n] == IF k = 0 THEN in ELSE Visit(f, pass[k - 1], f.blocks[n + 1 - k])
    IN  pass[n]

\* So often, and no more.
MaxPasses(f) == Len(f.blocks) + 4

LiveIn(f) ==
    LET in[k \in 0 .. MaxPasses(f)] ==
            IF k = 0 THEN [b \in Range(f.blocks) |-> {}] ELSE LivePass(f, in[k - 1])
    IN  in[MaxPasses(f)]

ComputeLive(f) ==
    LET in == LiveIn(f) IN [b \in Range(f.blocks) |-> LiveOut(f, in, b)]

---------------------------------------------------------------------------
(* Interference: where a value is written, its slot may hold none that is  *)
(* read later.  What is read through copies is the value they come from.   *)

\* What an instruction reads: in place of a copy, what it is a copy of.
Arguments(f, v) == {f.root[a] : a \in Range(f.args[v])}

SlotUses(f, spilled, b) ==
    [v \in Range(f.values[b]) |-> Arguments(f, v) \cap spilled]

NeededAt(f, spilled, out, b) ==
    Back(f.values[b], ({f.root[v] : v \in out} \cup f.ends[b]) \cap spilled,
         SlotUses(f, spilled, b))

InterferenceIn(f, spilled, out, b) ==
    LET vs     == f.values[b]
        needed == NeededAt(f, spilled, out, b)
    IN  UNION {{{vs[i], u} : u \in needed[i + 1]} : i \in {j \in DOMAIN vs : vs[j] \in spilled}}

ComputeInterference(f, spilled) ==
    LET out == ComputeLive(f)
    IN  UNION {InterferenceIn(f, spilled, out[b], b) : b \in Range(f.blocks)}

---------------------------------------------------------------------------
(* Slots, of 4 and of 8 bytes.                                             *)

\* First fit: the slots so far, each with the values in it.
FirstFit(pairs, slots, v) ==
    LET fits == {i \in DOMAIN slots : \A u \in slots[i] : {u, v} \notin pairs}
    IN  IF fits = {} THEN Append(slots, {v}) ELSE [slots EXCEPT ![Min(fits)] = @ \cup {v}]

Pool(f, pairs, those) ==
    LET pool[k \in 0 .. Len(f.order)] ==
            IF k = 0 THEN <<>>
            ELSE IF f.order[k] \in those THEN FirstFit(pairs, pool[k - 1], f.order[k])
            ELSE pool[k - 1]
    IN  pool[Len(f.order)]

SlotOf(pool, v) == CHOOSE i \in DOMAIN pool : v \in pool[i]

\* Where every value of those spilled lives, from base on, and where what
\* else the frame needs may start.
AllocateSlots(f, spilled, base) ==
    LET pairs  == ComputeInterference(f, spilled)
        sized(n) == {v \in spilled : f.size[v] = n}
        p32    == Pool(f, pairs, sized(4))
        p64    == Pool(f, pairs, sized(8))
        base64 == AlignUp(base + 4 * Len(p32), 8)
    IN  [at |-> [v \in sized(4) \cup sized(8) |->
                    IF f.size[v] = 4 THEN base + 4 * (SlotOf(p32, v) - 1)
                    ELSE base64 + 8 * (SlotOf(p64, v) - 1)],
         frame |-> AlignUp(base64 + 8 * Len(p64), 8)]

---------------------------------------------------------------------------
(* Functions the compiler hands over.                                      *)

BlockSet(f) == Range(f.blocks)
ValueSet(f) == Range(f.order)

\* Every value stands at one place; phis come first in their block, with an
\* argument for each edge to it; a copy is of what its argument is of.
WellShaped(f) ==
    /\ f.blocks \in Seq(BlockSet(f)) /\ f.order \in Seq(ValueSet(f))
    /\ \A j, k \in DOMAIN f.order : f.order[j] = f.order[k] => j = k
    /\ f.values \in [BlockSet(f) -> Seq(ValueSet(f))]
    /\ \A b \in BlockSet(f) : \A i, j \in DOMAIN f.values[b] :
          /\ f.values[b][i] = f.values[b][j] => i = j
          /\ f.values[b][j] \in f.phis /\ i < j => f.values[b][i] \in f.phis
    /\ \A b \in BlockSet(f) : \A e \in Range(f.succs[b]) :
          /\ e.to \in BlockSet(f)
          /\ \A p \in PhisOf(f, e.to) : e.at \in DOMAIN f.args[p]
    /\ f.ends \in [BlockSet(f) -> SUBSET ValueSet(f)]
    /\ f.args \in [ValueSet(f) -> Seq(ValueSet(f))]
    /\ f.root \in [ValueSet(f) -> ValueSet(f)]
    /\ \A v \in ValueSet(f) :
          /\ f.root[f.root[v]] = f.root[v]
          /\ f.root[v] # v => v \notin f.phis /\ \E a \in Range(f.args[v]) : f.root[a] = f.root[v]

\* What is defined before place i of block b, where before[b] is defined in
\* the blocks every path to b comes through.
DefinedAt(f, before, b, i) == before[b] \cup {f.values[b][j] : j \in 1 .. i - 1}

\* Everything is defined before it is read: a copy after what it is of, an
\* argument of a phi in the block the edge comes from.
DefinedFirst(f, entry, before) ==
    /\ entry \in BlockSet(f) /\ before[entry] = {} /\ PhisOf(f, entry) = {}
    /\ before \in [BlockSet(f) -> SUBSET ValueSet(f)]
    /\ \A b \in BlockSet(f) :
          LET atEnd == before[b] \cup Range(f.values[b]) IN
          /\ before[b] \cap Range(f.values[b]) = {}
          /\ \A v \in before[b] : f.root[v] \in before[b]
          /\ f.ends[b] \subseteq atEnd
          /\ \A e \in Range(f.succs[b]) :
                /\ before[e.to] \subseteq atEnd
                /\ \A p \in PhisOf(f, e.to) : f.args[p][e.at] \in atEnd
          /\ \A i \in DOMAIN f.values[b] :
                /\ Uses(f, b)[f.values[b][i]] \subseteq DefinedAt(f, before, b, i)
                /\ f.root[f.values[b][i]] \in DefinedAt(f, before, b, i + 1)

\* What the end of block b reads: its condition or results, or what a
\* comparison left to its branch compares.
ReadAtEnd(f, fused, b) ==
    {f.root[v] : v \in f.ends[b] \ fused}
      \cup UNION {Arguments(f, v) : v \in f.ends[b] \cap fused}

\* Phis that are copied one after the other do not read each other.
InPlace(f, staged) ==
    \A b \in BlockSet(f) \ staged : \A p, q \in PhisOf(f, b) : \A k \in DOMAIN f.args[q] :
        f.root[f.args[q][k]] = p => p = q

\* Of the values written to slots, the end of a block reads those liveness
\* says it does, or those its last value read and then left where they were.
Ended(f, fused, written) ==
    \A b \in BlockSet(f) : \A u \in (ReadAtEnd(f, fused, b) \cap written) \ f.ends[b] :
        LET n == Len(f.values[b])
            v == f.values[b][n]
        IN  /\ n > 0 /\ v \notin f.phis /\ u \in Arguments(f, v)
            /\ v \in written => f.root[v] = u

\* A function whose values take up to 8 bytes, as the allocator gets it and
\* as its code is written: all of the above.
HandedOver(f, entry, before, spilled, silent, fused, staged) ==
    /\ WellShaped(f) /\ DefinedFirst(f, entry, before)
    /\ InPlace(f, staged) /\ Ended(f, fused, spilled \ silent)
    /\ spilled \in SUBSET ValueSet(f) /\ \A v \in spilled : f.size[v] \in {4, 8}
===============================================================================
