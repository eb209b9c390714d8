------------------------------ MODULE MCAtomicRmw ------------------------------
(***************************************************************************)
(* The main thread and one agent on a word of two one-bit lanes: an        *)
(* operation of each shape the helpers have.                               *)
(***************************************************************************)
EXTENDS AtomicRmw

CONSTANTS main, agent

MCThreads == {main, agent}

Operation(lane, kind, arg, fast) ==
  [lane |-> lane, kind |-> kind, arg |-> arg, expected |-> 0, fast |-> fast]

\* A lane: add, exchange, load, compare-exchange.  The word: add by one locked
\* instruction, exclusive or by a closure, compare-exchange, load.
MCOps ==
  {Operation(1, "add", 1, TRUE), Operation(0, "xchg", 1, TRUE),
   Operation(1, "load", 0, TRUE), Operation(1, "cmpxchg", 1, FALSE),
   Operation(Whole, "add", 3, FALSE), Operation(Whole, "add", 1, TRUE),
   Operation(Whole, "flip", 0, TRUE), Operation(Whole, "cmpxchg", 2, TRUE),
   Operation(Whole, "load", 0, FALSE)}
=============================================================================
