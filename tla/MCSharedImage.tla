---------------------------- MODULE MCSharedImage ----------------------------
(***************************************************************************)
(* Two callers of Memory on an image of two pages, one of them data        *)
(* segments; mappings reach one or two pages beyond it.                    *)
(***************************************************************************)
EXTENDS SharedImage, TLC

MCCeilings == {3, 4}
Interchangeable == Permutations(Callers)
=============================================================================
