---------------------------- MODULE SelectProofs ----------------------------
(***************************************************************************)
(* What Select returns, for every list of verdicts, clock and hold, and    *)
(* what the passing of time does to it.                                    *)
(***************************************************************************)
EXTENDS Select, WellFoundedInduction, SequenceTheorems, TLAPS

\* The parts of a list of verdicts.
LEMMA VerdictParts ==
  ASSUME NEW v \in Seq(Health)
  PROVE  /\ Len(v) \in Nat /\ DOMAIN v = 1..Len(v)
         /\ \A i \in DOMAIN v : /\ i \in Nat \ {NoEntry}
                               /\ v[i].state \in HealthStates /\ v[i].changedAt \in Nat
<1>1. Len(v) \in Nat /\ DOMAIN v = 1..Len(v)
  OBVIOUS
<1>2. \A i \in DOMAIN v : v[i] \in Health
  BY <1>1, ElementOfSeq
<1> QED BY <1>1, <1>2 DEF Health, NoEntry

\* A set of list positions, or of instants, that is not empty has a first: the
\* order of the natural numbers is well founded.
LEMMA FirstExists ==
  ASSUME NEW S \in SUBSET Nat, S # {}
  PROVE  \E i \in S : IsFirst(S, i)
<1> DEFINE R == OpToRel(<, Nat)
<1>1. IsWellFoundedOn(R, Nat)
  BY NatLessThanWellFounded
<1>2. \A i, j \in Nat : i < j => <<i, j>> \in R
  BY DEF OpToRel
<1> HIDE DEF R
<1>3. PICK i \in S : \A j \in S : ~(<<j, i>> \in R)
  BY <1>1, WFMin
<1>4. ASSUME NEW j \in S
      PROVE  i <= j
  <2>1. ~(j < i)
    BY <1>2, <1>3
  <2> QED BY <2>1
<1> QED BY <1>4 DEF IsFirst

\* Among entries that are not none, one has been up longest: the first of
\* those with the earliest instant.
LEMMA LongestExists ==
  ASSUME NEW v \in Seq(Health), NEW S \in SUBSET DOMAIN v, S # {}
  PROVE  \E i \in S : IsLongest(v, S, i)
<1> DEFINE T == {v[i].changedAt : i \in S}
<1>0. \A i \in S : v[i].changedAt \in Nat /\ i \in Nat
  BY VerdictParts
<1>1. PICK t \in T : IsFirst(T, t)
  <2>1. T \in SUBSET Nat /\ T # {}
    BY <1>0
  <2> HIDE DEF T
  <2> QED BY <2>1, FirstExists
<1> DEFINE E == {i \in S : v[i].changedAt = t}
<1>2. E \in SUBSET Nat /\ E # {}
  BY <1>0, <1>1
<1>3. PICK i \in E : IsFirst(E, i)
  BY <1>2, FirstExists
<1>4. ASSUME NEW j \in S
      PROVE  Longer(v, i, j)
  <2>1. t <= v[j].changedAt /\ v[i].changedAt = t
    BY <1>1, <1>3 DEF IsFirst
  <2>2. v[j].changedAt = t => i <= j
    BY <1>3 DEF IsFirst
  <2> QED BY <1>0, <1>1, <2>1, <2>2 DEF Longer
<1> QED BY <1>3, <1>4 DEF IsLongest

\* The three cases of Select, with what each chooses.
LEMMA SelectCases ==
  ASSUME NEW v \in Seq(Health), NEW now \in Nat, NEW hold \in Nat
  PROVE  LET ups == UpEntries(v)
             held == HeldEntries(v, now, hold)
             s == Select(v, now, hold) IN
         /\ held # {} => IsFirst(held, s)
         /\ held = {} /\ ups # {} => IsLongest(v, ups, s)
         /\ ups = {} => s = NoEntry
<1> DEFINE ups == UpEntries(v)
           held == HeldEntries(v, now, hold)
           s == Select(v, now, hold)
<1>1. held \subseteq ups /\ ups \subseteq DOMAIN v /\ DOMAIN v \subseteq Nat
  BY VerdictParts DEF HeldEntries, UpEntries
<1>2. held # {} => IsFirst(held, s)
  <2>1. held # {} => s = CHOOSE i \in held : IsFirst(held, i)
    BY DEF Select
  <2> QED BY <1>1, <2>1, FirstExists
<1>3. held = {} /\ ups # {} => IsLongest(v, ups, s)
  <2>1. held = {} /\ ups # {} => s = CHOOSE i \in ups : IsLongest(v, ups, i)
    BY DEF Select
  <2> QED BY <1>1, <2>1, LongestExists
<1>4. ups = {} => s = NoEntry
  BY <1>1 DEF Select
<1> QED BY <1>2, <1>3, <1>4

\* What select() returns is an entry of the list that is Up, and it returns
\* none only when no entry is.
THEOREM SelectIsUp ==
  ASSUME NEW v \in Seq(Health), NEW now \in Nat, NEW hold \in Nat
  PROVE  LET s == Select(v, now, hold) IN
         /\ s \in 0..Len(v)
         /\ s # NoEntry => s \in DOMAIN v /\ v[s].state = Up
         /\ s = NoEntry <=> UpEntries(v) = {}
<1> DEFINE ups == UpEntries(v)
           held == HeldEntries(v, now, hold)
           s == Select(v, now, hold)
<1>1. ups # {} => s \in ups
  BY SelectCases DEF IsFirst, IsLongest, HeldEntries
<1>2. ups = {} => s = NoEntry
  BY SelectCases
<1> QED BY <1>1, <1>2, VerdictParts DEF UpEntries, NoEntry

\* While the verdicts stand and the clock does not move back, time moves the
\* selection only up the list, and only to an entry whose hold has run out.
THEOREM TimePromotes ==
  ASSUME NEW v \in Seq(Health), NEW hold \in Nat,
         NEW now \in Nat, NEW later \in Nat, now <= later
  PROVE  LET s == Select(v, now, hold)
             t == Select(v, later, hold) IN
         /\ t <= s
         /\ t # s => Held(v[t].changedAt, later, hold)
<1> DEFINE ups == UpEntries(v)
           held(at) == HeldEntries(v, at, hold)
           s == Select(v, now, hold)
           t == Select(v, later, hold)
<1>0. /\ ups \subseteq 1..Len(v)
      /\ \A i \in ups : v[i].changedAt \in Nat
  BY VerdictParts DEF UpEntries
<1>1. held(now) \subseteq held(later) /\ held(later) \subseteq ups
  BY <1>0 DEF HeldEntries, Held
<1>2. CASE ups = {}
  BY <1>2, SelectCases DEF NoEntry
<1>3. CASE held(now) # {}
  BY <1>0, <1>1, <1>3, SelectCases DEF IsFirst, HeldEntries
<1>4. CASE ups # {} /\ held(now) = {} /\ held(later) = {}
  <2>1. IsLongest(v, ups, s) /\ IsLongest(v, ups, t)
    BY <1>4, SelectCases
  <2> QED BY <1>0, <2>1 DEF IsLongest, Longer
<1>5. CASE ups # {} /\ held(now) = {} /\ held(later) # {}
  <2>1. IsLongest(v, ups, s) /\ IsFirst(held(later), t)
    BY <1>5, SelectCases
  <2>2. s \in held(later)
    <3>1. t \in ups /\ Held(v[t].changedAt, later, hold) /\ s \in ups
      BY <1>1, <2>1 DEF IsFirst, HeldEntries, IsLongest
    <3>2. v[s].changedAt <= v[t].changedAt
      BY <1>0, <2>1, <3>1 DEF IsLongest, Longer
    <3> QED BY <1>0, <3>1, <3>2 DEF HeldEntries, Held
  <2> QED BY <1>0, <1>1, <2>1, <2>2 DEF IsFirst, HeldEntries
<1> QED BY <1>2, <1>3, <1>4, <1>5

=============================================================================
