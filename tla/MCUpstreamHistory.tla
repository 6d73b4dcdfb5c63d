-------------------------- MODULE MCUpstreamHistory --------------------------
(***************************************************************************)
(* The upstream hop and its probe history while loads publish lists: one   *)
(* upstream is replaced by another and brought back, while dials and       *)
(* probes of the lists before are out.                                     *)
(***************************************************************************)
EXTENDS UpstreamHistory
CONSTANTS a1, a2

Reloaded == {<<a1>>, <<a2>>}
=============================================================================
