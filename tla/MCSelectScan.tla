---------------------------- MODULE MCSelectScan ----------------------------
(* Lists of up to three entries over four instants, hold two. *)
EXTENDS SelectScan
=============================================================================
