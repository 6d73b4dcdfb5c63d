----------------------------- MODULE MCUpstream -----------------------------
(***************************************************************************)
(* Small instances of the upstream hop: two addresses and one list of      *)
(* both.                                                                   *)
(***************************************************************************)
EXTENDS Upstream
CONSTANTS a1, a2

\* Both upstreams ranked: what the verdicts and the clock do to one list.
Ranked == {<<a1, a2>>}
=============================================================================
