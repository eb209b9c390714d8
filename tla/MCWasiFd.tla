------------------------------ MODULE MCWasiFd ------------------------------
(***************************************************************************)
(* Instances of WasiFd for TLC.  Entries, handles and threads are          *)
(* interchangeable, so each set is symmetric.                              *)
(***************************************************************************)
EXTENDS WasiFd, TLC

Interchangeable ==
  Permutations(Threads) \cup Permutations(Ops)
    \cup Permutations(Files) \cup Permutations(Conns)
=============================================================================
