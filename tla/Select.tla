------------------------------- MODULE Select -------------------------------
(***************************************************************************)
(* Which published upstream new connections go through: the pure function  *)
(* of src/nhop/src/upstream/select.rs over the verdicts of the list and    *)
(* the clock.  Entries are numbered from 1 in the operator's order; NoEntry*)
(* stands for the absent index.                                            *)
(***************************************************************************)
EXTENDS Integers, Sequences

Up == "up"
Down == "down"
HealthStates == {Up, Down}

NoEntry == 0

\* A verdict: whether the upstream is usable and when that last turned over.
Health == [state : HealthStates, changedAt : Nat]

\* Up for the whole hold.  An instant later than now (the wall clock moved
\* back) has not held, whatever the hold is.
Held(changedAt, now, hold) == changedAt <= now /\ now - changedAt >= hold

UpEntries(verdicts) == {i \in DOMAIN verdicts : verdicts[i].state = Up}

HeldEntries(verdicts, now, hold) ==
  {i \in UpEntries(verdicts) : Held(verdicts[i].changedAt, now, hold)}

\* Fault: the entry that came up last is preferred.
LongerNewest(verdicts, i, j) ==
  \/ verdicts[i].changedAt > verdicts[j].changedAt
  \/ verdicts[i].changedAt = verdicts[j].changedAt /\ i <= j

\* i has been up longer than j, list order breaking a tie.
Longer(verdicts, i, j) ==
  \/ verdicts[i].changedAt < verdicts[j].changedAt
  \/ verdicts[i].changedAt = verdicts[j].changedAt /\ i <= j

IsFirst(S, i) == i \in S /\ \A j \in S : i <= j

IsLongest(verdicts, S, i) == i \in S /\ \A j \in S : Longer(verdicts, i, j)

\* The three steps of the selection: the first held entry, else the one up
\* longest, else none.
Select(verdicts, now, hold) ==
  LET ups == UpEntries(verdicts)
      held == HeldEntries(verdicts, now, hold)
  IN  IF held # {} THEN CHOOSE i \in held : IsFirst(held, i)
      ELSE IF ups # {} THEN CHOOSE i \in ups : IsLongest(verdicts, ups, i)
      ELSE NoEntry

=============================================================================
