-------------------------- MODULE MCPackageSelect ---------------------------
(***************************************************************************)
(* An instance of PackageSelect for TLC, and of the choice of a URL that   *)
(* follows it.                                                             *)
(***************************************************************************)
EXTENDS PackageUrl

\* The weights of buckets: one that is negative, and two that are not.
WeightValues == {-1, 1, 2}
=============================================================================
