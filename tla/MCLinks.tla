------------------------------ MODULE MCLinks -------------------------------
(***************************************************************************)
(* Two packages, one of them with two spellings of its name, and two       *)
(* aliases, so that every alias may change hands.  The module tells        *)
(* neither the aliases nor the two spellings apart.                        *)
(***************************************************************************)
EXTENDS Links, TLC

CONSTANTS wget, Wget, other, folder, otherFolder

MCPackages == {wget, Wget, other}

MCFold == [n \in MCPackages |-> IF n = other THEN otherFolder ELSE folder]

Symmetry == Permutations(Aliases) \union Permutations({wget, Wget})
=============================================================================
