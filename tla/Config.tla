------------------------------- MODULE Config -------------------------------
(***************************************************************************)
(* What the daemon routes by and the commands that edit it, the same for   *)
(* the live state and for what an init run stages.                         *)
(* Source: src/nhop/src/daemon/staging.rs and state.rs.                    *)
(***************************************************************************)
EXTENDS Integers, Sequences

CONSTANTS Rules,       \* rules the daemon can read
          Lists,       \* upstream lists it can read
          Ports,       \* addresses a front end or a forward can listen on
          Bad,         \* a rule or a list it cannot read
          Unset        \* nothing

ASSUME BadAssumption == Bad \notin Rules \cup Lists \cup Ports \cup {Unset}

\* Committed: the two fields a run may leave alone are Unset until it sets them.
Configs == [rules : Seq(Rules), upstream : Lists \cup {Unset},
            listen : Ports \cup {Unset}, forwards : SUBSET Ports]

Commands ==
  [op : {"add_rule"}, arg : Rules \cup {Bad}]
    \cup [op : {"clear_rules"}, arg : {Unset}]
    \cup [op : {"set_upstreams"}, arg : Lists \cup {Bad}]
    \cup [op : {"set_listen", "add_forward"}, arg : Ports]

Nothing == [rules |-> <<>>, upstream |-> Unset, listen |-> Unset, forwards |-> {}]

\* A value that cannot be read, or a forward on an address declared already.
Invalid(config, c) ==
  \/ c.arg = Bad
  \/ c.op = "add_forward" /\ c.arg \in config.forwards

Applied(config, c) ==
  CASE c.op = "add_rule" -> [config EXCEPT !.rules = Append(@, c.arg)]
    [] c.op = "clear_rules" -> [config EXCEPT !.rules = <<>>]
    [] c.op = "set_upstreams" -> [config EXCEPT !.upstream = c.arg]
    [] c.op = "set_listen" -> [config EXCEPT !.listen = c.arg]
    [] c.op = "add_forward" -> [config EXCEPT !.forwards = @ \cup {c.arg}]

Moved(config, listen) ==
  [config EXCEPT !.listen = IF listen = Unset THEN @ ELSE listen]

\* The rules and the forwards are replaced whole; the upstreams and the front
\* ends' addresses only if the run set them.
Replaced(config, declared) ==
  [Moved(config, declared.listen) EXCEPT
     !.rules = declared.rules,
     !.forwards = declared.forwards,
     !.upstream = IF declared.upstream = Unset THEN @ ELSE declared.upstream]

=============================================================================
