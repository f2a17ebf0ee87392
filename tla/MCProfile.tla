----------------------------- MODULE MCProfile ------------------------------
(***************************************************************************)
(* Two processes, the official bucket and another one, and a package whose *)
(* name may be typed in two ways.                                          *)
(***************************************************************************)
EXTENDS Profile, TLC

CONSTANTS wget, WGET

FoldCase == [n \in Names |-> wget]

Symmetry == Permutations(Procs)
=============================================================================
