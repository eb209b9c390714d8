------------------------------- MODULE AtomicOps -------------------------------
(***************************************************************************)
(* The arithmetic of the atomic read-modify-write helpers                  *)
(* (src/internal/codegen/helpers/helpers.go): what an operation on a word  *)
(* of memory, or on one lane of it, makes of the word.  A word is an       *)
(* integer whose digits in base Base are its lanes, the low lane first, as *)
(* the little-endian shifts and masks of atomicSubword32 read it.          *)
(***************************************************************************)
EXTENDS Integers

CONSTANTS
  Base,     \* 2^bits of a lane
  NumLanes, \* lanes in a word
  Whole     \* the lane of an operation on the whole word

ASSUME AtomicOpsAssumption ==
  /\ Base \in Nat \ {0, 1}
  /\ NumLanes \in Nat \ {0}
  /\ Whole \notin Nat
  /\ \A n \in 0..NumLanes : Base^n \in Nat \ {0}

Lanes == 0..NumLanes - 1

WordMod == Base^NumLanes

Words == 0..WordMod - 1

\* (cur >> shift) & mask
Lane(w, l) == (w \div Base^l) % Base

\* (cur &^ (mask << shift)) | ((v & mask) << shift), an unsigned word
SetLane(w, l, v) == (w - Lane(w, l) * Base^l + (v % Base) * Base^l) % WordMod

\* An operation: where, which function of the old value, its operands, whether
\* its helper has the uncontended fast path, and whether it is one instruction.
OpKinds == {"load", "add", "xchg", "flip", "cmpxchg"}

OpRecords ==
  [lane : Lanes \cup {Whole}, kind : OpKinds, arg : Words, expected : Words,
   fast : BOOLEAN]

\* The op closure of the helper: flip is the exclusive or with all ones.  A
\* load of a lane is an operation too, one that puts back what it found.
Apply(o, old, mod) ==
  CASE o.kind = "load"    -> old
    [] o.kind = "add"     -> old + o.arg
    [] o.kind = "xchg"    -> o.arg
    [] o.kind = "flip"    -> mod - 1 - old
    [] o.kind = "cmpxchg" -> IF old = o.expected % mod THEN o.arg ELSE old

\* What the operation returns, and the word it leaves, when it finds w.
Old(o, w) == IF o.lane = Whole THEN w ELSE Lane(w, o.lane)

\* Mutant: the sum is not cut to the word.
AfterWide(o, w) ==
  IF o.lane = Whole THEN Apply(o, w, WordMod)
  ELSE SetLane(w, o.lane, Apply(o, Lane(w, o.lane), Base))

After(o, w) ==
  IF o.lane = Whole THEN Apply(o, w, WordMod) % WordMod
  ELSE SetLane(w, o.lane, Apply(o, Lane(w, o.lane), Base))

\* atomic.AddUint32 and SwapUint32: one locked instruction, no loop.
IsLocked(o) == o.lane = Whole /\ o.kind \in {"add", "xchg"}

\* What does not write: a full-width load, and a compare-exchange, of a lane
\* or of the word, that finds another value.
OnlyReads(o, w) ==
  LET mod == IF o.lane = Whole THEN WordMod ELSE Base
  IN  \/ o.kind = "load" /\ o.lane = Whole
      \/ o.kind = "cmpxchg" /\ Old(o, w) # o.expected % mod
=============================================================================
