--------------------------------- MODULE Frame ---------------------------------
(***************************************************************************)
(* The stack slots of an assembled function as it runs (src/internal/      *)
(* asmgen): an instruction reads the slots of its arguments and writes that *)
(* of its value, wherever the allocator put them (module Allocation), and  *)
(* the bytes of a slot hold the value written there last.                  *)
(***************************************************************************)
EXTENDS Allocation

CONSTANTS flow,     \* the function, as the allocator reads it
          entry,    \* its first block
          spilled,  \* the values that live in slots
          at,       \* where the slots are
          silent,   \* values no instruction writes to their slot: constants
                    \* and parameters, comparisons their branch makes, results
                    \* of calls that nothing fetches
          fused,    \* of these, the comparisons
          staged    \* blocks whose phis are copied through temporaries

VARIABLES block,    \* where execution is,
          place,    \* before the value at this place; past the last, at the end
          via,      \* and over which edge it came to the block
          held      \* values their slot holds now

vars == <<block, place, via, held>>

Size == Len(flow.values[block])
Current == flow.values[block][place]

Written == spilled \ silent

Apart(u, v) == at[u] + flow.size[u] <= at[v] \/ at[v] + flow.size[v] <= at[u]

\* v is written.  What shares bytes with it is lost, unless v is a copy of it.
Write(v) ==
    held' = IF v \in Written THEN {u \in held : Apart(u, v) \/ flow.root[v] = u} \cup {v} ELSE held

---------------------------------------------------------------------------
\* Slots the next instruction reads.  What copies lead to is read in their
\* place.  The phis of a block are copied one after the other, or all their
\* arguments are read on the edge; the branch reads its condition, or what
\* a comparison left to it compares.

ReadByValue ==
    IF Current \notin flow.phis THEN Arguments(flow, Current)
    ELSE IF block \in staged THEN {} ELSE {flow.root[flow.args[Current][via]]}

ReadOnEdge(e) ==
    IF e.to \in staged THEN {flow.root[flow.args[p][e.at]] : p \in PhisOf(flow, e.to)} ELSE {}

Read ==
    IF place <= Size THEN ReadByValue
    ELSE ReadAtEnd(flow, fused, block) \cup UNION {ReadOnEdge(e) : e \in Range(flow.succs[block])}

---------------------------------------------------------------------------
Init ==
    /\ block = entry /\ place = 1 /\ via = 0
    /\ held = {}

\* The instructions of one value.
Execute ==
    /\ place <= Size
    /\ Write(Current)
    /\ place' = place + 1
    /\ UNCHANGED <<block, via>>

\* The terminator goes over one of the edges.
Jump ==
    /\ place > Size
    /\ \E e \in Range(flow.succs[block]) : block' = e.to /\ via' = e.at
    /\ place' = 1
    /\ UNCHANGED held

Next == Execute \/ Jump

Spec == Init /\ [][Next]_vars

---------------------------------------------------------------------------
\* What the next instruction reads from a slot is still there ("two values
\* whose live ranges don't overlap share a slot", stackalloc.go).
ReadsHeld == Read \cap Written \subseteq held

================================================================================
