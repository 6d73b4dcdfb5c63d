--------------------------- MODULE MCConnections ---------------------------
(***************************************************************************)
(* One connection of any kind against every order of three classes of      *)
(* rules, and two brief ones beside it, of a forward pointed at itself,    *)
(* whose events fill the queue.                                            *)
(***************************************************************************)
EXTENDS Connections, TLC
CONSTANTS c1, c2, c3, far

Rule(class, matches) == [class |-> class, matches |-> matches]

\* Every list of up to two rules for the destination, and a third behind them.
RuleLists ==
  LET any == {Rule(k, {far}) : k \in RuleClasses} IN
  {<<>>} \cup {<<r>> : r \in any} \cup {<<r, q>> : r, q \in any}
    \cup {<<Rule("prefer", {}), Rule("require", {far}), Rule("never", {Own, far})>>}

Plain == [kind |-> "forward", rules |-> <<>>, to |-> far, length |-> Streamed, sent |-> 0, ahead |-> 0]

Brief == [Plain EXCEPT !.to = Own]

\* Routing: every kind and list, and every kind pointed at itself.
Routings ==
  {[Plain EXCEPT !.kind = k, !.rules = l] : k \in Kinds, l \in RuleLists}
    \cup {[Plain EXCEPT !.kind = k, !.rules = <<Rule("prefer", {Own})>>, !.to = Own] : k \in Kinds}

\* Bodies: one byte short of the length, the whole of it, one byte past it.
Bodies ==
  {v \in {[Plain EXCEPT !.kind = k, !.length = n, !.sent = m, !.ahead = a] :
            k \in {"connect", "absolute"}, n \in {0, 1, 2, Streamed}, m \in 0..3, a \in 0..3} :
     v.ahead <= v.sent}

AnyAndBrief == (c1 :> (Routings \cup Bodies)) @@ (c2 :> {Brief}) @@ (c3 :> {Brief})

\* The brief ones are alike.
Alike == Permutations({c2, c3})
=============================================================================
