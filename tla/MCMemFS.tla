------------------------------- MODULE MCMemFS -------------------------------
(***************************************************************************)
(* Instances of MemFS for TLC: two names, paths of one and two, one of     *)
(* them through "..".                                                      *)
(***************************************************************************)
EXTENDS MemFS, TLC

MCPaths == {<<1>>, <<1, 2>>, <<1, DotDot, Dot, 2>>}

MCNewPaths == {<<1, DotDot, Dot, 2>>}
MCHostPaths == {<<1, 2>>}

Interchangeable == Permutations(Entries)
=============================================================================
