----------------------------- MODULE MCFrontEnds -----------------------------
(***************************************************************************)
(* Four addresses.  One load leaves the front ends alone and declares a    *)
(* forward; another moves one front end onto the forward's address, moves  *)
(* the forward and lists upstreams; commands move a front end back and     *)
(* forth and add a forward.                                                *)
(***************************************************************************)
EXTENDS FrontEnds
CONSTANTS p0, p1, p2, p3

AtFirst == [http |-> p0, socks |-> p1]
Moved == [http |-> p2, socks |-> p1]

Some == {[op |-> "load", listen |-> Unset, forwards |-> {p3}, lists |-> FALSE],
         [op |-> "load", listen |-> Moved, forwards |-> {p0, p3}, lists |-> TRUE],
         [op |-> "load", listen |-> [http |-> p0, socks |-> p3], forwards |-> {p2}, lists |-> TRUE],
         [op |-> "set_listen", listen |-> AtFirst],
         [op |-> "add_forward", addr |-> p2]}
=============================================================================
