---------------------------- MODULE MCBucketSync ----------------------------
(***************************************************************************)
(* Instances of BucketSync for TLC.                                        *)
(***************************************************************************)
EXTENDS BucketSync
=============================================================================
