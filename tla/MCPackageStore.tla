--------------------------- MODULE MCPackageStore ---------------------------
(***************************************************************************)
(* Instances of PackageStore for TLC.                                      *)
(***************************************************************************)
EXTENDS PackageStore
=============================================================================
