---------------------------- MODULE MCInstance ----------------------------
(* Daemons that start one after another or at once: one that stops, one that *)
(* waits at its file, others that come after.  They are alike, so TLC may    *)
(* permute them.                                                             *)
EXTENDS Instance, TLC

Alike == Permutations(Daemons)
=============================================================================
