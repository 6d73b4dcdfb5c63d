----------------------------- MODULE SelectScan -----------------------------
(***************************************************************************)
(* The selection loop as it runs, against the declarative Select, and what *)
(* the passing of time and one verdict turning over do to its answer.      *)
(* The verdicts and the clock are the variables; the wall clock may move   *)
(* back here, which module Upstream leaves out.                            *)
(***************************************************************************)
EXTENDS Select

CONSTANTS Entries,   \* the longest list
          MaxTime,   \* bound: instants are 0..MaxTime
          Hold       \* RETURN_HOLD

ASSUME ScanAssumption == Entries \in Nat /\ MaxTime \in Nat /\ Hold \in Nat

VARIABLES verdicts, now
vars == <<verdicts, now>>

\* Fault: a tie goes to the later entry.
VisitLastTie(seen, i, v, t, hold) ==
  LET earlier == \/ seen.longest = NoEntry
                 \/ v[i].changedAt <= v[seen.longest].changedAt
  IN  CASE seen.returned \/ v[i].state = Down -> seen
        [] ~seen.returned /\ v[i].state = Up /\ Held(v[i].changedAt, t, hold) ->
             [longest |-> i, returned |-> TRUE]
        [] OTHER -> [seen EXCEPT !.longest = IF earlier THEN i ELSE @]

\* One turn of the loop: it carries the longest entry so far and leaves at the
\* first entry that has held.
Visit(seen, i, v, t, hold) ==
  LET earlier == \/ seen.longest = NoEntry
                 \/ v[i].changedAt < v[seen.longest].changedAt
  IN  CASE seen.returned \/ v[i].state = Down -> seen
        [] ~seen.returned /\ v[i].state = Up /\ Held(v[i].changedAt, t, hold) ->
             [longest |-> i, returned |-> TRUE]
        [] OTHER -> [seen EXCEPT !.longest = IF earlier THEN i ELSE @]

\* Nothing seen yet.
Unseen == [longest |-> NoEntry, returned |-> FALSE]

\* The loop over a list, from its first entry.
Scan(v, t, hold) ==
  LET seen[i \in 0..Len(v)] ==
        IF i = 0 THEN Unseen ELSE Visit(seen[i - 1], i, v, t, hold)
  IN  seen[Len(v)].longest

-----------------------------------------------------------------------------
Init == /\ verdicts \in UNION {[1..n -> {[state |-> Down, changedAt |-> 0]}] : n \in 0..Entries}
        /\ now = 0

Tick == /\ now < MaxTime
        /\ now' = now + 1
        /\ UNCHANGED verdicts

\* The operator, or NTP, sets the wall clock back.
ClockBack == /\ now' \in {t \in 0..MaxTime : t < now}
             /\ UNCHANGED verdicts

\* HealthHandle::settle on a turnover, stamped with the instant of the
\* evidence: at or before now.
Turnover(i, at) ==
  /\ at <= now
  /\ verdicts' = [verdicts EXCEPT ![i] =
                    [state |-> IF @.state = Up THEN Down ELSE Up, changedAt |-> at]]
  /\ UNCHANGED now

Next == Tick \/ ClockBack \/ \E i \in DOMAIN verdicts, at \in 0..MaxTime : Turnover(i, at)

Spec == Init /\ [][Next]_vars

Selected == Select(verdicts, now, Hold)
-----------------------------------------------------------------------------
TypeOK == /\ verdicts \in Seq(Health)
          /\ now \in 0..MaxTime

\* The loop of select() computes the three steps its documentation lists, for
\* every list, clock and hold, a clock that moved back included.
ScanIsSelect == Scan(verdicts, now, Hold) = Selected

\* While the verdicts stand, time moves the selection only up the list, and
\* only to an entry whose hold has run out (the clock not moving back).
TimeOnlyPromotes ==
  [][verdicts' = verdicts /\ now' >= now =>
       /\ Selected' <= Selected
       /\ Selected' # Selected =>
            Held(verdicts[Selected'].changedAt, now', Hold)]_vars

\* A turnover stamped with the present never moves connections off an entry
\* that stays up, whichever entry turned over: the fallback in service keeps
\* them until its own verdict changes.
FreshTurnoverKeepsSelection ==
  [][\A i \in DOMAIN verdicts :
       Hold > 0 /\ Turnover(i, now) /\ i # Selected /\ Selected # NoEntry
       /\ verdicts[Selected].changedAt < now
         => Selected' = Selected]_vars

=============================================================================
