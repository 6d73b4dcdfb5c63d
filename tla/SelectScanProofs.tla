-------------------------- MODULE SelectScanProofs --------------------------
(***************************************************************************)
(* The loop of select() and its action properties, for lists of every      *)
(* length and clocks of every range.  The loop is followed by induction:   *)
(* Carries says what it knows past each entry, and no entry is the first   *)
(* past which it does not.                                                 *)
(***************************************************************************)
EXTENDS SelectScan, SelectProofs

\* Every list the verdicts and the clock go through is one Select is defined on.
THEOREM ScanTypeCorrect == Spec => []TypeOK
<1>1. Init => TypeOK
  <2> SUFFICES ASSUME Init PROVE TypeOK
    OBVIOUS
  <2>1. PICK n \in 0..Entries : verdicts \in [1..n -> {[state |-> Down, changedAt |-> 0]}]
    BY DEF Init
  <2>2. n \in Nat /\ [state |-> Down, changedAt |-> 0] \in Health
    BY ScanAssumption DEF Health, HealthStates
  <2>3. verdicts \in Seq(Health)
    BY <2>1, <2>2, IsASeq
  <2> QED BY <2>3, ScanAssumption DEF Init, TypeOK
<1>2. TypeOK /\ [Next]_vars => TypeOK'
  <2> SUFFICES ASSUME TypeOK, [Next]_vars PROVE TypeOK'
    OBVIOUS
  <2> USE ScanAssumption DEF TypeOK
  <2>1. CASE Tick
    BY <2>1 DEF Tick
  <2>2. CASE ClockBack
    BY <2>2 DEF ClockBack
  <2>3. ASSUME NEW i \in DOMAIN verdicts, NEW at \in 0..MaxTime, Turnover(i, at)
        PROVE  TypeOK'
    <3> DEFINE turned == [state |-> IF verdicts[i].state = Up THEN Down ELSE Up, changedAt |-> at]
    <3>1. turned \in Health
      BY DEF Health, HealthStates
    <3>2. verdicts' = [verdicts EXCEPT ![i] = turned]
      BY <2>3 DEF Turnover
    <3>3. i \in 1..Len(verdicts)
      OBVIOUS
    <3>4. verdicts' \in Seq(Health)
      <4> HIDE DEF turned
      <4> QED BY <3>1, <3>2, <3>3, ExceptSeq
    <3> QED BY <2>3, <3>4 DEF Turnover
  <2>4. CASE UNCHANGED vars
    BY <2>4 DEF vars
  <2> QED BY <2>1, <2>2, <2>3, <2>4 DEF Next
<1> QED BY <1>1, <1>2, PTL DEF Spec

\* What holds of the first number of a range and of each one after a number it
\* holds of, holds of all: no first counterexample is left.
LEMMA NoneFails ==
  ASSUME NEW to \in Nat, NEW fails \in SUBSET (0..to),
         0 \notin fails, \A i \in 1..to : i \in fails => i - 1 \in fails
  PROVE  fails = {}
<1> SUFFICES ASSUME fails # {} PROVE FALSE
  OBVIOUS
<1>1. fails \in SUBSET Nat
  OBVIOUS
<1>2. PICK m \in fails : \A j \in fails : m <= j
  BY <1>1, FirstExists DEF IsFirst
<1>3. m \in 1..to
  OBVIOUS
<1>4. m - 1 \in fails
  BY <1>3
<1> QED BY <1>2, <1>3, <1>4

\* One more turn of the loop for what was seen before each entry.
Turned(v, t, hold, to, f) ==
  [i \in 0..to |-> IF i = 0 THEN Unseen ELSE Visit(f[i - 1], i, v, t, hold)]

\* The loop runs through the list.
LEMMA ScanRuns ==
  ASSUME NEW v, NEW t, NEW hold, NEW to \in Nat
  PROVE  \E f : f = Turned(v, t, hold, to, f)
<1> DEFINE Turn(f, i) == IF i = 0 THEN Unseen ELSE Visit(f[i - 1], i, v, t, hold)
           Runs(k) == \E f : f = [i \in 0..k |-> Turn(f, i)]
           fails == {k \in 0..to : ~Runs(k)}
<1>1. 0 \notin fails
  <2> DEFINE f == [i \in 0..0 |-> Unseen]
  <2>1. f = [i \in 0..0 |-> Turn(f, i)]
    OBVIOUS
  <2> QED BY <2>1
<1>2. ASSUME NEW k \in 1..to, Runs(k - 1)
      PROVE  Runs(k)
  <2>1. PICK g : g = [i \in 0..(k - 1) |-> Turn(g, i)]
    BY <1>2
  <2> DEFINE f == [i \in 0..k |-> IF i = k THEN Turn(g, k) ELSE g[i]]
  <2>2. ASSUME NEW i \in 0..k
        PROVE  f[i] = Turn(f, i)
    <3>1. CASE i = k
      <4>1. k - 1 \in 0..k /\ k - 1 # k /\ k # 0
        OBVIOUS
      <4>2. f[k - 1] = g[k - 1]
        BY <4>1
      <4>3. Turn(g, k) = Turn(f, k)
        BY <4>2
      <4> QED BY <3>1, <4>3
    <3>2. CASE i # k
      <4>1. i \in 0..(k - 1) /\ f[i] = g[i]
        BY <3>2
      <4>2. g[i] = Turn(g, i)
        BY <2>1, <4>1
      <4>3. i # 0 => i - 1 \in 0..k /\ i - 1 # k
        BY <4>1
      <4>4. i # 0 => f[i - 1] = g[i - 1]
        BY <4>3
      <4>5. Turn(g, i) = Turn(f, i)
        BY <4>4
      <4> QED BY <4>1, <4>2, <4>5
    <3> QED BY <3>1, <3>2
  <2>3. f = [i \in 0..k |-> f[i]]
    OBVIOUS
  <2> HIDE DEF f, Turn
  <2>4. f = [i \in 0..k |-> Turn(f, i)]
    BY <2>2, <2>3
  <2> QED BY <2>4
<1>3. \A k \in 1..to : k \in fails => k - 1 \in fails
  <2> SUFFICES ASSUME NEW k \in 1..to, k - 1 \notin fails
               PROVE  k \notin fails
    OBVIOUS
  <2>1. k - 1 \in 0..to
    OBVIOUS
  <2>2. Runs(k - 1)
    BY <2>1
  <2> QED BY <1>2, <2>2
<1> HIDE DEF Runs
<1>4. fails = {}
  <2>1. fails \in SUBSET (0..to)
    OBVIOUS
  <2> HIDE DEF fails
  <2> QED BY <1>1, <1>3, <2>1, NoneFails
<1>5. Runs(to)
  BY <1>4
<1> QED BY <1>5 DEF Runs, Turned

\* What the loop carries past its first k entries: the first of them that has
\* held, if one has, else the one up longest.
Carries(v, t, hold, k, seen) ==
  LET ups == UpEntries(v) \cap 1..k
      held == HeldEntries(v, t, hold) \cap 1..k
  IN  /\ DOMAIN seen = {"longest", "returned"}
      /\ seen.returned \in BOOLEAN /\ (seen.returned <=> held # {})
      /\ held # {} => IsFirst(held, seen.longest)
      /\ held = {} /\ ups # {} => IsLongest(v, ups, seen.longest)
      /\ held = {} /\ ups = {} => seen.longest = NoEntry

\* One turn of the loop.
LEMMA VisitCarries ==
  ASSUME NEW v \in Seq(Health), NEW t \in Nat, NEW hold \in Nat, NEW k \in DOMAIN v,
         NEW seen, Carries(v, t, hold, k - 1, seen)
  PROVE  Carries(v, t, hold, k, Visit(seen, k, v, t, hold))
<1> DEFINE ups(n) == UpEntries(v) \cap 1..n
           held(n) == HeldEntries(v, t, hold) \cap 1..n
<1>1. /\ k \in Nat \ {0} /\ 1..k = 1..(k - 1) \cup {k} /\ k \notin 1..(k - 1)
      /\ v[k].state \in {Up, Down} /\ Up # Down
      /\ \A i \in 1..k : i \in DOMAIN v /\ v[i].changedAt \in Nat
  BY VerdictParts DEF HealthStates, NoEntry, Up, Down
<1>2. /\ DOMAIN seen = {"longest", "returned"}
      /\ seen.returned \in BOOLEAN /\ (seen.returned <=> held(k - 1) # {})
      /\ held(k - 1) # {} => IsFirst(held(k - 1), seen.longest)
      /\ held(k - 1) = {} /\ ups(k - 1) # {} => IsLongest(v, ups(k - 1), seen.longest)
      /\ held(k - 1) = {} /\ ups(k - 1) = {} => seen.longest = NoEntry
  BY DEF Carries
<1>3. /\ ups(k) = IF v[k].state = Up THEN ups(k - 1) \cup {k} ELSE ups(k - 1)
      /\ held(k) = IF v[k].state = Up /\ Held(v[k].changedAt, t, hold)
                   THEN held(k - 1) \cup {k} ELSE held(k - 1)
  BY <1>1 DEF UpEntries, HeldEntries
<1>4. PICK next : next = Visit(seen, k, v, t, hold)
  OBVIOUS
<1>5. CASE seen.returned
  <2>1. next = seen
    BY <1>4, <1>5 DEF Visit
  <2>2. \A i \in held(k - 1) : i <= k
    BY <1>1
  <2>3. IsFirst(held(k), seen.longest)
    BY <1>2, <1>3, <1>5, <2>2 DEF IsFirst
  <2> HIDE DEF held
  <2>4. held(k) # {}
    BY <2>3 DEF IsFirst
  <2> QED BY <1>2, <1>4, <1>5, <2>1, <2>3, <2>4 DEF Carries, held
<1>6. CASE ~seen.returned /\ v[k].state = Down
  <2>1. next = seen
    BY <1>1, <1>4, <1>6 DEF Visit
  <2>2. ups(k) = ups(k - 1) /\ held(k) = held(k - 1)
    BY <1>1, <1>3, <1>6
  <2> QED BY <1>2, <1>4, <2>1, <2>2 DEF Carries
<1>7. CASE ~seen.returned /\ v[k].state = Up /\ Held(v[k].changedAt, t, hold)
  <2>1. next = [longest |-> k, returned |-> TRUE]
    BY <1>1, <1>4, <1>7 DEF Visit
  <2>2. held(k) = {k}
    BY <1>2, <1>3, <1>7
  <2>3. IsFirst(held(k), k)
    BY <1>1, <2>2 DEF IsFirst
  <2> QED BY <1>4, <2>1, <2>2, <2>3 DEF Carries
<1>8. CASE ~seen.returned /\ v[k].state = Up /\ ~Held(v[k].changedAt, t, hold)
  <2>1. held(k) = {} /\ held(k - 1) = {} /\ ups(k) = ups(k - 1) \cup {k}
    BY <1>2, <1>3, <1>8
  <2>2. PICK longest : longest = IF seen.longest = NoEntry \/ v[k].changedAt < v[seen.longest].changedAt
                                 THEN k ELSE seen.longest
    OBVIOUS
  <2>3. next = [seen EXCEPT !.longest = longest]
    BY <1>1, <1>4, <1>8, <2>2 DEF Visit
  <2>4. next.longest = longest /\ next.returned = FALSE /\ DOMAIN next = {"longest", "returned"}
    BY <1>2, <1>8, <2>3
  <2>5. IsLongest(v, ups(k), longest)
    <3>1. CASE ups(k - 1) = {}
      <4>1. longest = k /\ ups(k) = {k}
        BY <1>2, <2>1, <2>2, <3>1
      <4> QED BY <1>1, <4>1 DEF IsLongest, Longer
    <3>2. CASE ups(k - 1) # {}
      <4>1. IsLongest(v, ups(k - 1), seen.longest)
        BY <1>2, <2>1, <3>2
      <4>2. seen.longest \in 1..(k - 1) /\ seen.longest # NoEntry
        BY <4>1 DEF IsLongest, NoEntry
      <4>3. \A j \in ups(k - 1) : Longer(v, seen.longest, j) /\ j \in 1..k /\ j < k
        BY <1>1, <4>1 DEF IsLongest
      <4>4. CASE v[k].changedAt < v[seen.longest].changedAt
        <5>1. longest = k
          BY <2>2, <4>4
        <5>2. ASSUME NEW j \in ups(k - 1)
              PROVE  Longer(v, k, j)
          <6>1. v[k].changedAt \in Nat /\ v[seen.longest].changedAt \in Nat /\ v[j].changedAt \in Nat
            BY <1>1, <4>2, <4>3
          <6>2. v[seen.longest].changedAt <= v[j].changedAt
            BY <4>3, <6>1 DEF Longer
          <6>3. v[k].changedAt < v[j].changedAt
            BY <4>4, <6>1, <6>2
          <6> QED BY <6>3 DEF Longer
        <5> QED BY <1>1, <2>1, <5>1, <5>2 DEF IsLongest, Longer
      <4>5. CASE ~(v[k].changedAt < v[seen.longest].changedAt)
        <5>1. longest = seen.longest
          BY <2>2, <4>2, <4>5
        <5>2. Longer(v, seen.longest, k)
          BY <1>1, <4>2, <4>5 DEF Longer
        <5> QED BY <2>1, <4>1, <5>1, <5>2 DEF IsLongest
      <4> QED BY <4>4, <4>5
    <3> QED BY <3>1, <3>2
  <2>6. ups(k) # {}
    BY <2>1
  <2> QED BY <1>4, <2>1, <2>4, <2>5, <2>6 DEF Carries
<1> QED BY <1>1, <1>2, <1>5, <1>6, <1>7, <1>8

\* The loop of select() computes the three steps its documentation lists: for
\* every list of verdicts, clock and hold, a clock that moved back included.
THEOREM ScanComputesSelect ==
  ASSUME NEW v \in Seq(Health), NEW t \in Nat, NEW hold \in Nat
  PROVE  Scan(v, t, hold) = Select(v, t, hold)
<1> DEFINE run == CHOOSE f : f = Turned(v, t, hold, Len(v), f)
           len == Len(v)
<1>1. Scan(v, t, hold) = run[len].longest
  BY DEF Scan, Turned
<1>2. run = Turned(v, t, hold, len, run)
  <2>1. len \in Nat
    BY VerdictParts
  <2>2. \E f : f = Turned(v, t, hold, len, f)
    BY <2>1, ScanRuns
  <2> QED BY <2>2
<1> HIDE DEF run
<1>3. len \in Nat /\ DOMAIN v = 1..len
  BY VerdictParts
<1>4. run[0] = Unseen /\ \A k \in 1..len : run[k] = Visit(run[k - 1], k, v, t, hold)
  BY <1>2, <1>3 DEF Turned
<1> DEFINE fails == {k \in 0..len : ~Carries(v, t, hold, k, run[k])}
<1>5. 0 \notin fails
  <2>1. UpEntries(v) \cap 1..0 = {} /\ HeldEntries(v, t, hold) \cap 1..0 = {}
    OBVIOUS
  <2>2. PICK seen : seen = Unseen
    OBVIOUS
  <2>3. DOMAIN seen = {"longest", "returned"} /\ seen.longest = NoEntry /\ seen.returned = FALSE
    BY <2>2 DEF Unseen
  <2> QED BY <1>4, <2>1, <2>2, <2>3 DEF Carries
<1>6. \A k \in 1..len : k \in fails => k - 1 \in fails
  <2> SUFFICES ASSUME NEW k \in 1..len, k - 1 \notin fails
               PROVE  k \notin fails
    OBVIOUS
  <2>1. PICK seen : seen = run[k - 1]
    OBVIOUS
  <2>2. Carries(v, t, hold, k - 1, seen)
    BY <2>1
  <2>3. Carries(v, t, hold, k, Visit(seen, k, v, t, hold))
    BY <1>3, <2>2, VisitCarries
  <2> QED BY <1>4, <2>1, <2>3
<1>7. fails = {}
  <2>1. fails \in SUBSET (0..len)
    OBVIOUS
  <2> HIDE DEF fails
  <2> QED BY <1>3, <1>5, <1>6, <2>1, NoneFails
<1>8. Carries(v, t, hold, len, run[len])
  BY <1>3, <1>7
<1>9. /\ UpEntries(v) \cap 1..len = UpEntries(v)
      /\ HeldEntries(v, t, hold) \cap 1..len = HeldEntries(v, t, hold)
      /\ UpEntries(v) \in SUBSET Nat /\ HeldEntries(v, t, hold) \subseteq UpEntries(v)
      /\ \A i \in UpEntries(v) : i \in Nat /\ v[i].changedAt \in Nat
  BY <1>3, VerdictParts DEF UpEntries, HeldEntries
<1>10. PICK r, s : r = run[len].longest /\ s = Select(v, t, hold)
  OBVIOUS
<1>11. CASE HeldEntries(v, t, hold) # {}
  <2>1. IsFirst(HeldEntries(v, t, hold), r) /\ IsFirst(HeldEntries(v, t, hold), s)
    BY <1>8, <1>9, <1>10, <1>11, SelectCases DEF Carries
  <2> QED BY <1>1, <1>9, <1>10, <2>1 DEF IsFirst
<1>12. CASE HeldEntries(v, t, hold) = {} /\ UpEntries(v) # {}
  <2>1. IsLongest(v, UpEntries(v), r) /\ IsLongest(v, UpEntries(v), s)
    BY <1>8, <1>9, <1>10, <1>12, SelectCases DEF Carries
  <2>2. r \in UpEntries(v) /\ s \in UpEntries(v) /\ Longer(v, r, s) /\ Longer(v, s, r)
    BY <2>1 DEF IsLongest
  <2> QED BY <1>1, <1>9, <1>10, <2>2 DEF Longer
<1>13. CASE UpEntries(v) = {}
  <2>1. HeldEntries(v, t, hold) = {}
    BY <1>9, <1>13
  <2>2. r = NoEntry /\ s = NoEntry
    BY <1>8, <1>9, <1>10, <1>13, <2>1, SelectCases DEF Carries
  <2> QED BY <1>1, <1>10, <2>2
<1> QED BY <1>11, <1>12, <1>13

\* The loop and the declarative selection agree in every state.
THEOREM ScanAgrees == Spec => []ScanIsSelect
<1>1. TypeOK => ScanIsSelect
  BY ScanAssumption, ScanComputesSelect DEF TypeOK, ScanIsSelect, Selected
<1> QED BY <1>1, ScanTypeCorrect, PTL

\* Time moves the selection only up the list and only to a held entry.
THEOREM ScanTimeOnlyPromotes == Spec => TimeOnlyPromotes
<1>1. TypeOK /\ TypeOK' /\ [Next]_vars =>
        (verdicts' = verdicts /\ now' >= now =>
           /\ Selected' <= Selected
           /\ Selected' # Selected => Held(verdicts[Selected'].changedAt, now', Hold))
  <2> SUFFICES ASSUME TypeOK, TypeOK', verdicts' = verdicts, now' >= now
               PROVE  /\ Selected' <= Selected
                      /\ Selected' # Selected =>
                           Held(verdicts[Selected'].changedAt, now', Hold)
    OBVIOUS
  <2>1. verdicts \in Seq(Health) /\ now \in Nat /\ now' \in Nat /\ now <= now' /\ Hold \in Nat
    BY ScanAssumption DEF TypeOK
  <2>2. Selected' = Select(verdicts, now', Hold)
    BY DEF Selected
  <2> QED BY <2>1, <2>2, TimePromotes DEF Selected
<1> QED BY <1>1, ScanTypeCorrect, PTL DEF Spec, TimeOnlyPromotes

\* A turnover stamped with the present leaves connections where they are, unless
\* it is the selected entry's own or that entry settled at this instant too.
THEOREM FreshTurnoverKeeps ==
  ASSUME NEW v \in Seq(Health), NEW w \in Seq(Health), NEW t \in Nat, NEW hold \in Nat \ {0},
         NEW i \in DOMAIN v, DOMAIN w = DOMAIN v,
         \A j \in DOMAIN v \ {i} : w[j] = v[j],
         w[i].changedAt = t,
         Select(v, t, hold) # NoEntry, Select(v, t, hold) # i,
         v[Select(v, t, hold)].changedAt < t
  PROVE  Select(w, t, hold) = Select(v, t, hold)
<1> DEFINE s == Select(v, t, hold)
           u == Select(w, t, hold)
           ups == UpEntries(v)
           upsw == UpEntries(w)
           held == HeldEntries(v, t, hold)
           heldw == HeldEntries(w, t, hold)
<1>1. s \in DOMAIN v \ {i} /\ v[s].state = Up /\ w[s] = v[s]
  BY SelectIsUp
<1>2. s \in upsw /\ s \in ups /\ upsw \subseteq ups \cup {i}
  BY <1>1 DEF UpEntries
<1>3. heldw = held \ {i}
  <2>1. ~Held(w[i].changedAt, t, hold)
    BY DEF Held
  <2> QED BY <2>1 DEF HeldEntries, UpEntries
<1>4. \A j \in DOMAIN v : v[j].changedAt \in Nat /\ w[j].changedAt \in Nat /\ j \in Nat
  BY VerdictParts
<1>5. CASE held # {}
  <2>1. IsFirst(held, s)
    BY <1>5, SelectCases
  <2>2. IsFirst(heldw, s)
    BY <1>1, <1>3, <2>1 DEF IsFirst
  <2>3. IsFirst(heldw, u)
    BY <2>2, SelectCases DEF IsFirst
  <2>4. held \subseteq DOMAIN v /\ heldw \subseteq DOMAIN v
    BY DEF HeldEntries, UpEntries
  <2> QED BY <1>4, <2>2, <2>3, <2>4 DEF IsFirst
<1>6. CASE held = {}
  <2>1. IsLongest(v, ups, s)
    BY <1>2, <1>6, SelectCases
  <2>2. IsLongest(w, upsw, u)
    BY <1>2, <1>3, <1>6, SelectCases
  <2>3. Longer(w, s, i)
    BY <1>1, <1>4 DEF Longer
  <2>4. \A j \in upsw : Longer(w, s, j)
    BY <1>1, <1>2, <2>1, <2>3 DEF IsLongest, Longer, UpEntries
  <2>5. u \in upsw /\ Longer(w, u, s) /\ Longer(w, s, u)
    BY <1>2, <2>2, <2>4 DEF IsLongest
  <2>6. upsw \subseteq DOMAIN v
    BY DEF UpEntries
  <2> QED BY <1>2, <1>4, <2>5, <2>6 DEF Longer
<1> QED BY <1>5, <1>6

\* The action property of SelectScan, for every list and clock.
THEOREM ScanFreshTurnover == Spec => FreshTurnoverKeepsSelection
<1>1. TypeOK /\ TypeOK' /\ [Next]_vars =>
        \A i \in DOMAIN verdicts :
          Hold > 0 /\ Turnover(i, now) /\ i # Selected /\ Selected # NoEntry
          /\ verdicts[Selected].changedAt < now => Selected' = Selected
  <2> SUFFICES ASSUME TypeOK, TypeOK', NEW i \in DOMAIN verdicts, Hold > 0, Turnover(i, now),
                      i # Selected, Selected # NoEntry, verdicts[Selected].changedAt < now
               PROVE  Selected' = Selected
    OBVIOUS
  <2>1. /\ verdicts \in Seq(Health) /\ verdicts' \in Seq(Health)
        /\ now \in Nat /\ now' = now /\ Hold \in Nat \ {0}
    BY ScanAssumption DEF TypeOK, Turnover
  <2>2. /\ DOMAIN verdicts' = DOMAIN verdicts
        /\ \A j \in DOMAIN verdicts \ {i} : verdicts'[j] = verdicts[j]
        /\ verdicts'[i].changedAt = now
    BY DEF Turnover
  <2>3. Selected' = Select(verdicts', now', Hold)
    BY DEF Selected
  <2> QED BY <2>1, <2>2, <2>3, FreshTurnoverKeeps DEF Selected
<1> QED BY <1>1, ScanTypeCorrect, PTL DEF Spec, FreshTurnoverKeepsSelection

=============================================================================
