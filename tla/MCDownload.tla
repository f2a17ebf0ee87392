----------------------------- MODULE MCDownload -----------------------------
(***************************************************************************)
(* Instances of Fetch, and so of Download, for TLC.                        *)
(***************************************************************************)
EXTENDS Fetch
=============================================================================
