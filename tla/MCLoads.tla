------------------------------ MODULE MCLoads ------------------------------
(***************************************************************************)
(* Two init files.  One declares a rule, leaves another behind without     *)
(* waiting for it, moves the front ends and opens a forward.  The other    *)
(* lists an upstream and opens a forward twice, the first time without     *)
(* waiting: in time, whichever comes second fails the load; late, it is    *)
(* refused.  A client adds a rule, good or bad, opens the forward itself,  *)
(* turns off, and reloads the second file or the one run last.             *)
(***************************************************************************)
EXTENDS Loads
CONSTANTS r1, r2, r3, u1, p0, p1, p2, home, other

Step(op, arg, waited) == [op |-> op, arg |-> arg, waited |-> waited]

HomeScript == <<Step("add_rule", r1, TRUE), Step("add_rule", r2, FALSE),
                Step("set_listen", p1, TRUE), Step("add_forward", p2, TRUE)>>
OtherScript == <<Step("set_upstreams", u1, TRUE), Step("add_forward", p2, FALSE),
                 Step("add_forward", p2, TRUE)>>

TwoScripts == [path \in {home, other} |-> IF path = home THEN HomeScript ELSE OtherScript]

Asking == {[op |-> "add_rule", arg |-> r3], [op |-> "add_rule", arg |-> Bad],
           [op |-> "add_forward", arg |-> p2],
           [op |-> "off", arg |-> Unset], [op |-> "reload", arg |-> other],
           [op |-> "reload", arg |-> Unset]}
=============================================================================
