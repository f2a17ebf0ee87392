------------------------------ MODULE MCUpkeep ------------------------------
(***************************************************************************)
(* Two ordinary files and two releases.                                    *)
(***************************************************************************)
EXTENDS Upkeep
=============================================================================
