----------------------------- MODULE MCFsMutex ------------------------------
(***************************************************************************)
(* Instances of FsMutex for TLC.                                           *)
(***************************************************************************)
EXTENDS FsMutex
=============================================================================
