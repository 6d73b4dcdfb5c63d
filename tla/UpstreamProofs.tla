--------------------------- MODULE UpstreamProofs ---------------------------
(***************************************************************************)
(* Type correctness of the upstream hop, the truth of its switch log, what *)
(* its handles and sequences stand for, and who loses its connections, for *)
(* any addresses, connections, lists, hold and number of publications.     *)
(***************************************************************************)
EXTENDS UpstreamHistory, SelectProofs

\* The present, and every constant the actions count with, is a natural number.
LEMMA Constants ==
  /\ Hold \in Nat \ {0} /\ Now = Hold
  /\ MaxPublications \in Nat \ {0}
  /\ NoEntry = 0
BY HoldAssumption, PublicationsAssumption DEF Now, NoEntry

\* The parts of a list that was published.
LEMMA ListParts ==
  ASSUME TypeOK, NEW p \in 1..Published
  PROVE  /\ lists[p] \in Seq(Handles) /\ Len(lists[p]) \in Nat
         /\ DOMAIN lists[p] = 1..Len(lists[p])
         /\ \A i \in 1..Len(lists[p]) : lists[p][i] \in Handles
         /\ Range(lists[p]) \subseteq Handles
<1>1. lists[p] \in Seq(Handles)
  BY ElementOfSeq DEF TypeOK, Published
<1>2. Len(lists[p]) \in Nat /\ DOMAIN lists[p] = 1..Len(lists[p])
  BY <1>1
<1>3. \A i \in 1..Len(lists[p]) : lists[p][i] \in Handles
  BY <1>1, ElementOfSeq
<1> QED BY <1>1, <1>2, <1>3 DEF Range

\* The list in force is one of those published.
LEMMA PublishedParts ==
  ASSUME TypeOK
  PROVE  Published \in Nat /\ Published \in 1..Published /\ Published <= MaxPublications
BY Constants DEF TypeOK, Published, Publications

\* The selection made from a published list is an entry of it or none.
LEMMA SelectedInType ==
  ASSUME TypeOK, NEW p \in 1..Published
  PROVE  SelectedIn(p) \in 0..Len(lists[p])
<1> DEFINE v == [i \in DOMAIN lists[p] |-> verdict[lists[p][i]]]
<1>1. \A i \in 1..Len(lists[p]) : verdict[lists[p][i]] \in Health
  BY ListParts, Constants DEF TypeOK, Health, Verdicts
<1>2. v \in Seq(Health) /\ Len(v) = Len(lists[p])
  BY <1>1, ListParts
<1>3. Select(v, Now, Hold) \in 0..Len(v)
  <2> HIDE DEF v
  <2> QED BY <1>2, SelectIsUp, Constants
<1> QED BY <1>2, <1>3 DEF SelectedIn

\* The list a load publishes has a handle for each of its addresses.
LEMMA AdoptedType ==
  ASSUME TypeOK, NEW next \in Lists, Published < MaxPublications
  PROVE  Adopted(next) \in Seq(Handles) /\ Len(Adopted(next)) = Len(next)
<1>1. next \in Seq(Addresses) /\ Len(next) \in Nat /\ DOMAIN next = 1..Len(next)
  BY ListsAssumption
<1> DEFINE kept(a) == {h \in Range(lists[Published]) : h.addr = a}
           entry(i) == IF kept(next[i]) # {} THEN CHOOSE h \in kept(next[i]) : TRUE
                       ELSE [addr |-> next[i], born |-> Published + 1]
<1>2. ASSUME NEW i \in 1..Len(next)
      PROVE  entry(i) \in Handles
  <2>1. Published \in 1..Published /\ Published + 1 \in 1..MaxPublications
    BY PublishedParts, Constants
  <2>2. kept(next[i]) \subseteq Handles
    BY <2>1, ListParts
  <2>3. next[i] \in Addresses
    BY <1>1, ElementOfSeq
  <2>4. [addr |-> next[i], born |-> Published + 1] \in Handles
    BY <2>1, <2>3 DEF Handles
  <2> HIDE DEF kept
  <2> QED BY <2>2, <2>4
<1>3. Adopted(next) = [i \in 1..Len(next) |-> entry(i)]
  BY <1>1 DEF Adopted
<1> HIDE DEF entry
<1> QED BY <1>1, <1>2, <1>3

\* A publication puts one list after those published and changes none of them.
LEMMA PublishLists ==
  ASSUME TypeOK, NEW next \in Lists, Publish(next)
  PROVE  /\ lists' \in Seq(Seq(Handles)) /\ Published' = Published + 1
         /\ \A p \in 1..Published : lists'[p] = lists[p]
         /\ lists'[Published + 1] = Adopted(next)
<1>1. lists \in Seq(Seq(Handles)) /\ Adopted(next) \in Seq(Handles)
      /\ lists' = Append(lists, Adopted(next))
  BY AdoptedType DEF TypeOK, Publish
<1> QED BY <1>1, AppendProperties DEF Published

\* An observation of an index of a published list is recorded and logged in kind.
LEMMA ObserveType ==
  ASSUME TypeOK, NEW p \in 1..Published, NEW new \in 0..Len(lists[p]), Observe(p, new),
         UNCHANGED lists
  PROVE  /\ observed' \in [list : Publications, selected : Nat] /\ Indexed(observed)'
         /\ logged' \in [from : Addresses \cup {NoAddress}, to : Addresses \cup {NoAddress},
                         cause : Causes]
<1>1. Published \in Nat /\ p \in Publications /\ new \in Nat
  BY PublishedParts, ListParts, Constants DEF Publications
<1>2. observed' \in [list : Publications, selected : Nat] /\ Indexed(observed)'
  BY <1>1 DEF TypeOK, Observe, Indexed, Published
<1>3. \A q \in 1..Published : \A i \in Nat : AddressAt(q, i) \in Addresses \cup {NoAddress}
  BY ListParts DEF AddressAt, Handles
<1>4. SwitchCause(p, new) \in Causes
  BY DEF SwitchCause, Causes
<1>5. observed.list \in 1..Published /\ observed.selected \in Nat
  BY DEF TypeOK, Indexed
<1>6. AddressAt(p, new) \in Addresses \cup {NoAddress}
      /\ AddressAt(observed.list, observed.selected) \in Addresses \cup {NoAddress}
  BY <1>1, <1>3, <1>5
<1>7. logged' \in [from : Addresses \cup {NoAddress}, to : Addresses \cup {NoAddress},
                  cause : Causes]
  BY <1>4, <1>6 DEF TypeOK, Observe
<1> QED BY <1>2, <1>7

\* A verdict given at an instant not in the future is one in kind.
LEMMA GivenType ==
  ASSUME NEW state \in HealthStates, NEW at \in 0..Hold
  PROVE  Given(state, at) \in Verdicts /\ Given(state, at).state = state
BY Constants DEF Given, Verdicts

\* A turnover of a known handle stays in kind.
LEMMA SettledType ==
  ASSUME TypeOK, NEW h \in Handles, NEW given \in Verdicts
  PROVE  Settled(h, given) \in [Handles -> Verdicts]
BY DEF TypeOK, Settled

\* The entry a dial in flight goes through is a handle of a published list.
LEMMA DialledType ==
  ASSUME TypeOK, NEW d \in Dials, Through(dial[d])
  PROVE  /\ dial[d].list \in 1..Published
         /\ Dialled(dial[d]) \in Range(lists[dial[d].list])
         /\ Dialled(dial[d]) \in Handles
<1>1. /\ dial[d].list \in 1..Published /\ dial[d].selected \in 0..Len(lists[dial[d].list])
      /\ dial[d].selected # 0
  BY DEF TypeOK, Indexed, NoEntry
<1>2. dial[d].selected \in DOMAIN lists[dial[d].list]
  BY <1>1, ListParts
<1> QED BY <1>1, <1>2, ListParts DEF Dialled, Range

\* An idle connection is in kind and goes through no upstream.
LEMMA IdleKind == IdleDial \in DialStates /\ ~Through(IdleDial)
<1>1. Given(Down, 0) \in Verdicts
  BY GivenType, Constants DEF HealthStates
<1> QED BY <1>1, Constants DEF IdleDial, DialStates, Through, Publications

\* An idle connection holds the first list and no entry of it.
LEMMA IdleIndexed ==
  ASSUME TypeOK
  PROVE  Indexed(IdleDial)
<1>1. 1 \in 1..Published
  BY PublishedParts
<1>2. Len(lists[1]) \in Nat
  BY <1>1, ListParts
<1> QED BY <1>1, <1>2, Constants DEF Indexed, IdleDial

-----------------------------------------------------------------------------
\* The initial state is well typed.
LEMMA InitType == Init => TypeOK
<1> SUFFICES ASSUME Init PROVE TypeOK
  OBVIOUS
<1>1. lists \in Seq(Seq(Handles)) /\ Len(lists) = 1 /\ lists[1] = <<>> /\ Len(lists[1]) = 0
  BY EmptySeq DEF Init
<1>2. 1 \in Publications /\ 0 \in 0..Hold
  BY Constants DEF Publications
<1>g. Given(Down, 0) \in Verdicts
  BY <1>2, GivenType DEF HealthStates
<1>3. verdict \in [Handles -> Verdicts]
  BY <1>g DEF Init
<1>4. Indexed(IdleDial) /\ Indexed(patrol) /\ Indexed(observed)
  BY <1>1, Constants DEF Init, Indexed, IdleDial, Published
<1>5. dial \in [Dials -> DialStates]
      /\ \A d \in Dials : dial[d] = IdleDial
  BY <1>2, <1>g, Constants DEF Init, IdleDial, DialStates
<1>6. patrol \in [phase : {"waiting", "probing", "selected"}, list : Publications,
                 selected : Nat, started : 0..Hold, out : SUBSET Handles,
                 pending : SUBSET Sequences]
  BY <1>2, Constants DEF Init
<1>7. observed \in [list : Publications, selected : Nat]
      /\ logged \in [from : Addresses \cup {NoAddress}, to : Addresses \cup {NoAddress},
                     cause : Causes]
  BY <1>2, Constants DEF Init, Causes
<1> QED BY <1>1, <1>2, <1>3, <1>4, <1>5, <1>6, <1>7 DEF TypeOK, IdleDial, Through

\* Every step keeps the state well typed.
LEMMA NextType == TypeOK /\ [Next]_vars => TypeOK'
<1> SUFFICES ASSUME TypeOK, [Next]_vars PROVE TypeOK'
  OBVIOUS
<1> USE DEF TypeOK
<1>0. /\ Hold \in Nat \ {0} /\ Now \in 0..Hold /\ 0 \in 0..Hold /\ NoEntry \in Nat
      /\ Published \in 1..Published /\ Published \in Publications /\ 1 \in Publications
  BY Constants, PublishedParts DEF Publications
<1>1. CASE Tick
  <2>1. \A at \in 0..Hold : (IF at = 0 THEN 0 ELSE at - 1) \in 0..Hold
    BY Constants
  <2>2. verdict' \in [Handles -> Verdicts]
    BY <1>1, <2>1 DEF Tick, Verdicts
  <2>3. ASSUME NEW d \in Dials
        PROVE  /\ dial'[d] \in DialStates
               /\ dial'[d].list = dial[d].list /\ dial'[d].phase = dial[d].phase
               /\ dial'[d].selected = dial[d].selected
    <3>1. PICK at : at = IF dial[d].given.changedAt = 0 THEN 0 ELSE dial[d].given.changedAt - 1
      OBVIOUS
    <3>2. dial'[d] = [dial[d] EXCEPT !.given = [dial[d].given EXCEPT !.changedAt = at]]
      BY <1>1, <3>1 DEF Tick
    <3>3. dial[d] \in DialStates /\ dial[d].given \in Verdicts /\ at \in 0..Hold
      BY <2>1, <3>1 DEF DialStates, Verdicts
    <3>4. [dial[d].given EXCEPT !.changedAt = at] \in Verdicts
      BY <3>3 DEF Verdicts
    <3> HIDE DEF TypeOK
    <3> QED BY <3>2, <3>3, <3>4 DEF DialStates
  <2>4. dial' \in [Dials -> DialStates]
    BY <1>1, <2>3 DEF Tick
  <2> QED BY <1>1, <2>1, <2>2, <2>3, <2>4 DEF Tick, Indexed, Published, Through
<1>2. ASSUME NEW next \in Lists, Publish(next)
      PROVE  TypeOK'
  <2>1. /\ lists' \in Seq(Seq(Handles)) /\ Published' = Published + 1
        /\ \A p \in 1..Published : lists'[p] = lists[p]
    BY <1>2, PublishLists
  <2>2. Len(lists') \in Publications
    BY <1>2, <2>1, PublishedParts, Constants DEF Publish, Publications, Published
  <2>3. \A p \in 1..Published : p \in 1..Published' /\ lists'[p] = lists[p]
    <3> HIDE DEF TypeOK
    <3>1. PICK n \in Nat : n = Published
      BY PublishedParts
    <3>2. \A p \in 1..n : p \in 1..(n + 1)
      OBVIOUS
    <3> QED BY <2>1, <3>1, <3>2
  <2>4. Indexed(patrol)' /\ Indexed(observed)' /\ \A d \in Dials : Indexed(dial[d])'
                        /\ (Through(dial[d]) => dial[d].selected # NoEntry)
    BY <1>2, <2>3 DEF Publish, Indexed
  <2>5. verdict' \in [Handles -> Verdicts]
    BY <1>0, <1>2, GivenType DEF Publish, HealthStates
  <2> QED BY <1>2, <2>1, <2>2, <2>4, <2>5 DEF Publish
<1>3. ASSUME NEW d \in Dials, DialSelects(d)
      PROVE  TypeOK'
  <2>1. SelectedIn(Published) \in Nat /\ SelectedIn(Published) \in 0..Len(lists[Published])
    BY <1>0, SelectedInType, ListParts
  <2>2. PICK at : at = SelectedIn(Published)
    OBVIOUS
  <2>3. dial' = [dial EXCEPT ![d] = [IdleDial EXCEPT !.phase = "selected", !.list = Published,
                                                     !.selected = at]]
    BY <1>3, <2>2 DEF DialSelects
  <2>4. PICK begun : begun = [IdleDial EXCEPT !.phase = "selected", !.list = Published,
                                             !.selected = at]
    OBVIOUS
  <2>5. begun \in DialStates /\ Indexed(begun) /\ ~Through(begun)
    BY <1>0, <2>1, <2>2, <2>4, IdleKind DEF DialStates, Indexed, Through, IdleDial
  <2>6. \A e \in Dials : dial'[e] = IF e = d THEN begun ELSE dial[e]
    BY <2>3, <2>4
  <2>7. dial' \in [Dials -> DialStates]
    BY <2>3, <2>4, <2>5
  <2> QED BY <1>3, <2>5, <2>6, <2>7 DEF DialSelects, Indexed, Published
<1>4. ASSUME NEW d \in Dials, NEW class \in Classes, DialObserves(d, class)
      PROVE  TypeOK'
  <2>1. dial[d].list \in 1..Published /\ dial[d].selected \in 0..Len(lists[dial[d].list])
    BY DEF Indexed
  <2>2. /\ observed' \in [list : Publications, selected : Nat] /\ Indexed(observed)'
        /\ logged' \in [from : Addresses \cup {NoAddress}, to : Addresses \cup {NoAddress},
                        cause : Causes]
    BY <1>4, <2>1, ObserveType DEF DialObserves
  <2>3. Indexed(IdleDial)
    BY IdleIndexed
  <2>4. PICK there : there = IF dial[d].selected = NoEntry THEN 1 ELSE dial[d].selected
    OBVIOUS
  <2>5. \/ dial' = [dial EXCEPT ![d] = IdleDial]
        \/ /\ dial' = [dial EXCEPT ![d].phase = "dialling", ![d].selected = there]
           /\ lists[dial[d].list] # <<>> \/ dial[d].selected # NoEntry
    <3> HIDE DEF TypeOK
    <3>1. CASE class = "require"
      BY <1>4, <2>4, <3>1 DEF DialObserves
    <3>2. CASE class # "require"
      BY <1>4, <2>4, <3>2 DEF DialObserves
    <3> QED BY <3>1, <3>2
  <2>6. CASE dial' = [dial EXCEPT ![d] = IdleDial]
    <3>1. \A e \in Dials : dial'[e] = IF e = d THEN IdleDial ELSE dial[e]
      BY <2>6
    <3>2. IdleDial \in DialStates /\ ~Through(IdleDial)
      BY IdleKind
    <3>3. dial' \in [Dials -> DialStates]
      BY <2>6, <3>2
    <3>4. \A e \in Dials : Indexed(dial'[e]) /\ (Through(dial'[e]) => dial'[e].selected # NoEntry)
      BY <2>3, <3>1, <3>2
    <3> QED BY <1>4, <2>2, <3>3, <3>4 DEF DialObserves, Indexed, Published
  <2>7. CASE /\ dial' = [dial EXCEPT ![d].phase = "dialling", ![d].selected = there]
             /\ lists[dial[d].list] # <<>> \/ dial[d].selected # NoEntry
    <3>1. Len(lists[dial[d].list]) \in Nat /\ (lists[dial[d].list] # <<>> => Len(lists[dial[d].list]) # 0)
      BY <2>1, ListParts, EmptySeq
    <3>2. there \in 0..Len(lists[dial[d].list]) /\ there # NoEntry
      BY <2>1, <2>4, <2>7, <3>1, Constants
    <3>3. PICK gone : gone = [dial[d] EXCEPT !.phase = "dialling", !.selected = there]
      OBVIOUS
    <3>4. /\ gone \in DialStates /\ gone.list = dial[d].list /\ gone.selected = there
      <4>1. dial[d] \in DialStates /\ there \in Nat
        BY <3>1, <3>2
      <4> HIDE DEF TypeOK
      <4> QED BY <3>3, <4>1 DEF DialStates
    <3>5. Indexed(gone)
      BY <2>1, <3>2, <3>4 DEF Indexed
    <3>6. \A e \in Dials : dial'[e] = IF e = d THEN gone ELSE dial[e]
      BY <2>7, <3>3
    <3>7. dial' \in [Dials -> DialStates]
      BY <2>7, <3>3, <3>4
    <3> QED BY <1>4, <2>2, <3>2, <3>4, <3>5, <3>6, <3>7 DEF DialObserves, Indexed, Published
  <2> QED BY <2>5, <2>6, <2>7
<1>5. ASSUME NEW d \in Dials, NEW outcome \in Outcomes, DialReturns(d, outcome)
      PROVE  TypeOK'
  <2>1. Evidence(outcome) \subseteq HealthStates
    BY DEF Evidence, Outcomes, HealthStates
  <2>2. CASE dial' = [dial EXCEPT ![d] = IdleDial]
    <3>1. \A e \in Dials : dial'[e] = IF e = d THEN IdleDial ELSE dial[e]
      BY <2>2
    <3>2. IdleDial \in DialStates /\ ~Through(IdleDial) /\ Indexed(IdleDial)
      BY IdleKind, IdleIndexed
    <3> QED BY <1>5, <2>2, <3>1, <3>2 DEF DialReturns, Indexed, Published
  <2>3. ASSUME NEW state \in Evidence(outcome),
               dial' = [dial EXCEPT ![d].phase = "judging", ![d].given = Given(state, Now)]
        PROVE  TypeOK'
    <3>1. Given(state, Now) \in Verdicts
      BY <1>0, <2>1, GivenType
    <3>2. PICK given : given = Given(state, Now)
      OBVIOUS
    <3>3. PICK back : back = [dial[d] EXCEPT !.phase = "judging", !.given = given]
      OBVIOUS
    <3>4. /\ back \in DialStates /\ back.list = dial[d].list /\ back.selected = dial[d].selected
      BY <3>1, <3>2, <3>3 DEF DialStates
    <3>5. Through(dial[d])
      BY <1>5 DEF DialReturns, Through
    <3>6. \A e \in Dials : dial'[e] = IF e = d THEN back ELSE dial[e]
      BY <2>3, <3>2, <3>3
    <3>7. dial' \in [Dials -> DialStates]
      BY <2>3, <3>2, <3>3, <3>4
    <3> QED BY <1>5, <3>4, <3>5, <3>6, <3>7 DEF DialReturns, Indexed, Published
  <2> QED BY <1>5, <2>2, <2>3 DEF DialReturns
<1>11. ASSUME NEW d \in Dials, DialJudges(d)
       PROVE  TypeOK'
  <2>1. Through(dial[d]) /\ dial[d].given \in Verdicts
    BY <1>11 DEF DialJudges, Through, DialStates
  <2>2. verdict' \in [Handles -> Verdicts]
    BY <1>11, <2>1, DialledType, SettledType DEF DialJudges
  <2>3. \A e \in Dials : dial'[e] = IF e = d THEN IdleDial ELSE dial[e]
    BY <1>11 DEF DialJudges
  <2>4. IdleDial \in DialStates /\ ~Through(IdleDial) /\ Indexed(IdleDial)
    BY IdleKind, IdleIndexed
  <2> QED BY <1>11, <2>2, <2>3, <2>4 DEF DialJudges, Indexed, Published
<1>6. CASE RoundStarts
  <2>1. Range(lists[Published]) \subseteq Handles
    BY <1>0, ListParts
  <2> QED BY <1>0, <1>6, <2>1 DEF RoundStarts, Indexed, Published
<1>7. ASSUME NEW h \in Handles, NEW seen \in HealthStates, ProbeReturns(h, seen)
      PROVE  TypeOK'
  <2>1. Advanced(h, seen).verdict \in [Handles -> Verdicts]
        /\ Advanced(h, seen).left \subseteq Sequences
    <3>1. CASE verdict[h].state = seen
      BY <3>1 DEF Advanced
    <3>2. CASE verdict[h].state # seen /\ Banked(h, seen)
      <4>1. Advanced(h, seen) = [verdict |-> Settled(h, Given(seen, patrol.started)), left |-> {}]
        BY <3>2 DEF Advanced
      <4>2. Given(seen, patrol.started) \in Verdicts
        BY GivenType
      <4> QED BY <4>1, <4>2, SettledType
    <3>3. CASE verdict[h].state # seen /\ ~Banked(h, seen)
      <4>1. Advanced(h, seen) = [verdict |-> verdict, left |-> {[health |-> h, target |-> seen]}]
        BY <3>3 DEF Advanced
      <4> QED BY <4>1 DEF Sequences
    <3> QED BY <3>1, <3>2, <3>3
  <2> QED BY <1>7, <2>1 DEF ProbeReturns, Indexed, Published
<1>8. CASE RoundEnds
  <2>1. SelectedIn(Published) \in Nat /\ SelectedIn(Published) \in 0..Len(lists[Published])
    BY <1>0, SelectedInType, ListParts
  <2> QED BY <1>0, <1>8, <2>1 DEF RoundEnds, Indexed, Published
<1>9. CASE PatrolObserves
  <2>1. patrol.list \in 1..Published /\ patrol.selected \in 0..Len(lists[patrol.list])
    BY DEF Indexed
  <2>2. /\ observed' \in [list : Publications, selected : Nat] /\ Indexed(observed)'
        /\ logged' \in [from : Addresses \cup {NoAddress}, to : Addresses \cup {NoAddress},
                        cause : Causes]
    BY <1>9, <2>1, ObserveType DEF PatrolObserves
  <2>3. 1 \in 1..Published /\ NoEntry \in 0..Len(lists[1])
    BY <1>0, ListParts, Constants
  <2> QED BY <1>0, <1>9, <2>2, <2>3 DEF PatrolObserves, Indexed, Published
<1>10. CASE UNCHANGED vars
  BY <1>10 DEF vars, Indexed, Published
<1> QED BY <1>1, <1>2, <1>3, <1>4, <1>5, <1>6, <1>7, <1>8, <1>9, <1>10, <1>11
        DEF Next, DialStep, PatrolStep

\* No stamp lies in the future, every list and index a dial, the patrol or the
\* observed selection holds is one of a list that was published, in every run.
THEOREM TypeCorrect == Spec => []TypeOK
BY InitType, NextType, PTL DEF Spec

-----------------------------------------------------------------------------
(* The switch log *)

\* An observation leaves the log ending where the observed selection is.
LEMMA ObserveLogs ==
  ASSUME LoggedIsObserved, NEW p, NEW new, Observe(p, new), UNCHANGED lists
  PROVE  LoggedIsObserved'
<1>1. \A q, i : AddressAt(q, i)' = AddressAt(q, i)
  BY DEF AddressAt
<1>2. CASE ReplacedBefore(p, observed.list) 
  BY <1>1, <1>2 DEF Observe, LoggedIsObserved, AddressAt
<1>3. CASE ~ReplacedBefore(p, observed.list)
  <2>1. observed' = [list |-> p, selected |-> new]
    BY <1>3 DEF Observe
  <2>2. logged'.to = AddressAt(p, new)
    BY <1>3 DEF Observe, LoggedIsObserved
  <2> QED BY <2>1, <2>2 DEF LoggedIsObserved, AddressAt
<1> QED BY <1>2, <1>3

\* Every step keeps the log ending where the observed selection is: only an
\* observation touches either, and a publication moves no list observed.
LEMMA LoggedIsObservedStep == TypeOK /\ LoggedIsObserved /\ [Next]_vars => LoggedIsObserved'
<1> SUFFICES ASSUME TypeOK, LoggedIsObserved, [Next]_vars PROVE LoggedIsObserved'
  OBVIOUS
<1>1. ASSUME NEW next \in Lists, Publish(next)
      PROVE  LoggedIsObserved'
  <2>1. observed.list \in 1..Published
    BY DEF TypeOK, Indexed
  <2>2. lists'[observed.list] = lists[observed.list]
    BY <1>1, <2>1, PublishLists
  <2> QED BY <1>1, <2>2 DEF Publish, LoggedIsObserved, AddressAt
<1>2. ASSUME NEW d \in Dials, NEW class \in Classes, DialObserves(d, class)
      PROVE  LoggedIsObserved'
  BY <1>2, ObserveLogs DEF DialObserves
<1>3. CASE PatrolObserves
  BY <1>3, ObserveLogs DEF PatrolObserves
<1>4. ASSUME UNCHANGED <<lists, observed, logged>>
      PROVE  LoggedIsObserved'
  BY <1>4 DEF LoggedIsObserved, AddressAt
<1> QED BY <1>1, <1>2, <1>3, <1>4
        DEF Next, DialStep, PatrolStep, Tick, DialSelects, DialReturns, DialJudges, RoundStarts,
            ProbeReturns, RoundEnds, vars

\* The last switch line always ends at the upstream the observed selection is
\* at, whatever order connections, loads and the patrol take turns in.
THEOREM SwitchLogTells == Spec => []LoggedIsObserved
<1>1. Init => LoggedIsObserved
  BY EmptySeq DEF Init, LoggedIsObserved, AddressAt
<1> QED BY <1>1, LoggedIsObservedStep, TypeCorrect, PTL DEF Spec

\* A switch put down to a load is logged only when a later list is observed.
THEOREM ReloadsLogOnce == Spec => ReloadLoggedOnce
<1> DEFINE Once == logged' # logged /\ logged'.cause = "reload" => observed'.list > observed.list
<1>1. ASSUME TypeOK, NEW p \in 1..Published, NEW new, Observe(p, new)
      PROVE  Once
  <2> SUFFICES ASSUME logged' # logged, logged'.cause = "reload" PROVE observed'.list > observed.list
    OBVIOUS
  <2>1. ~ReplacedBefore(p, observed.list) /\ SwitchCause(p, new) = "reload"
    BY <1>1 DEF Observe
  <2>2. observed.list # p
    BY <2>1 DEF SwitchCause
  <2>3. observed' = [list |-> p, selected |-> new]
    BY <1>1, <2>1 DEF Observe
  <2>4. observed.list \in 1..Published /\ Published \in Nat
    BY <1>1, PublishedParts DEF TypeOK, Indexed
  <2> QED BY <2>1, <2>2, <2>3, <2>4 DEF ReplacedBefore
<1>2. TypeOK /\ [Next]_vars => Once
  <2> SUFFICES ASSUME TypeOK, [Next]_vars PROVE Once
    OBVIOUS
  <2> HIDE DEF Once
  <2>1. ASSUME NEW d \in Dials, NEW class \in Classes, DialObserves(d, class)
        PROVE  Once
    BY <1>1, <2>1 DEF DialObserves, TypeOK, Indexed
  <2>2. CASE PatrolObserves
    BY <1>1, <2>2 DEF PatrolObserves, TypeOK, Indexed
  <2>3. ASSUME UNCHANGED logged
        PROVE  Once
    BY <2>3 DEF Once
  <2> QED BY <2>1, <2>2, <2>3
          DEF Next, DialStep, PatrolStep, Tick, Publish, DialSelects, DialReturns, DialJudges, RoundStarts,
              ProbeReturns, RoundEnds, vars
<1> QED BY <1>2, TypeCorrect, PTL DEF Spec, ReloadLoggedOnce

-----------------------------------------------------------------------------
(* The identity of handles *)

\* No list holds a handle made for a later one.
BornBefore == \A p \in 1..Published : \A h \in Range(lists[p]) : h.born <= p

\* What Adopted makes of one address: the handle the list in force has for it,
\* or one born with this publication.
LEMMA AdoptedHandle ==
  ASSUME TypeOK, NEW next \in Lists, Published < MaxPublications,
         NEW g \in Range(Adopted(next))
  PROVE  \/ g \in Range(lists[Published])
         \/ ~Names(Published, g.addr) /\ g = [addr |-> g.addr, born |-> Published + 1]
<1> DEFINE kept(a) == {h \in Range(lists[Published]) : h.addr = a}
<1>1. PICK i \in DOMAIN next :
        g = IF kept(next[i]) # {} THEN CHOOSE h \in kept(next[i]) : TRUE
            ELSE [addr |-> next[i], born |-> Published + 1]
  BY DEF Range, Adopted
<1>2. CASE kept(next[i]) # {}
  BY <1>1, <1>2
<1>3. CASE kept(next[i]) = {}
  <2>1. g = [addr |-> next[i], born |-> Published + 1]
    BY <1>1, <1>3
  <2> QED BY <1>3, <2>1 DEF Names
<1> QED BY <1>2, <1>3

\* Adopted makes one handle of one address.
LEMMA AdoptedOnce ==
  ASSUME NEW next \in Lists, NEW g \in Range(Adopted(next)), NEW h \in Range(Adopted(next)),
         g.addr = h.addr
  PROVE  g = h
<1> DEFINE kept(a) == {k \in Range(lists[Published]) : k.addr = a}
           made(a) == IF kept(a) # {} THEN CHOOSE k \in kept(a) : TRUE
                      ELSE [addr |-> a, born |-> Published + 1]
<1>1. PICK i, j \in DOMAIN next : g = made(next[i]) /\ h = made(next[j])
  BY DEF Range, Adopted
<1>2. \A a : made(a).addr = a
  <2> TAKE a
  <2>1. CASE kept(a) # {}
    <3>1. made(a) \in kept(a)
      BY <2>1
    <3> QED BY <3>1
  <2>2. CASE kept(a) = {}
    BY <2>2
  <2> QED BY <2>1, <2>2
<1> HIDE DEF made
<1> QED BY <1>1, <1>2

HandleInv == HandleIsOneRun /\ BornBefore

\* A publication keeps the handles of published lists apart.
LEMMA PublishHandles ==
  ASSUME TypeOK, HandleInv, NEW next \in Lists, Publish(next)
  PROVE  HandleInv'
<1>n. PICK n \in Nat : n = Published
  BY PublishedParts
<1>0. /\ n = Published /\ n \in Nat /\ n \in 1..n /\ n < MaxPublications /\ Published' = n + 1
      /\ \A p \in 1..n : lists'[p] = lists[p]
      /\ lists'[n + 1] = Adopted(next)
  BY <1>n, PublishLists, PublishedParts DEF Publish
<1>1. \A p \in 1..(n + 1) : p \in 1..n \/ p = n + 1
  BY <1>0
<1>2. \A p \in 1..n : \A a : Names(p, a)' <=> Names(p, a)
  BY <1>0 DEF Names
<1>3. ASSUME NEW g \in Range(Adopted(next))
      PROVE  g.born <= n + 1 /\ Names(n + 1, g.addr)'
  <2>1. Names(n + 1, g.addr)'
    BY <1>0 DEF Names
  <2>2. g \in Range(lists[n]) => g.born <= n /\ g.born \in Int
    BY <1>0, ListParts DEF HandleInv, BornBefore, Handles
  <2>3. g = [addr |-> g.addr, born |-> n + 1] => g.born = n + 1
    OBVIOUS
  <2> QED BY <1>0, <2>1, <2>2, <2>3, AdoptedHandle
<1>4. BornBefore'
  BY <1>0, <1>1, <1>3 DEF HandleInv, BornBefore
<1>5. ASSUME NEW p \in 1..n, NEW h \in Range(lists[p]), NEW g \in Range(Adopted(next)),
             h.addr = g.addr
      PROVE  h = g <=> \A r \in p..(n + 1) : Names(r, h.addr)'
  <2>1. CASE g \in Range(lists[n])
    <3>1. h = g <=> \A r \in p..n : Names(r, h.addr)
      BY <1>0, <1>5, <2>1 DEF HandleInv, HandleIsOneRun
    <3>2. Names(n + 1, h.addr)'
      BY <1>3, <1>5
    <3>3. \A r \in p..(n + 1) : r \in p..n \/ r = n + 1
      BY <1>0
    <3>4. \A r \in p..n : Names(r, h.addr)' <=> Names(r, h.addr)
      BY <1>0, <1>2
    <3>5. p..n \subseteq p..(n + 1)
      BY <1>0
    <3> QED BY <3>1, <3>2, <3>3, <3>4, <3>5
  <2>2. CASE ~Names(n, g.addr) /\ g = [addr |-> g.addr, born |-> n + 1]
    <3>1. h.born <= p /\ h.born \in Int
      BY <1>0, ListParts DEF HandleInv, BornBefore, Handles
    <3>2. g.born = n + 1
      BY <2>2
    <3>3. h # g
      BY <1>0, <3>1, <3>2
    <3>4. n \in p..(n + 1) /\ ~Names(n, h.addr)'
      BY <1>0, <1>2, <1>5, <2>2
    <3> QED BY <3>3, <3>4
  <2> QED BY <1>0, <2>1, <2>2, AdoptedHandle
<1>6. ASSUME NEW p \in 1..(n + 1), NEW q \in 1..(n + 1), p <= q,
             NEW h \in Range(lists'[p]), NEW g \in Range(lists'[q]), h.addr = g.addr
      PROVE  h = g <=> \A r \in p..q : Names(r, h.addr)'
  <2>1. CASE q \in 1..n
    <3>1. p \in 1..n /\ p..q \subseteq 1..n
      BY <1>0, <1>6, <2>1
    <3>2. h \in Range(lists[p]) /\ g \in Range(lists[q])
      BY <1>0, <2>1, <3>1
    <3>3. h = g <=> \A r \in p..q : Names(r, h.addr)
      BY <1>0, <1>6, <2>1, <3>1, <3>2 DEF HandleInv, HandleIsOneRun
    <3> QED BY <1>2, <3>1, <3>3
  <2>2. CASE q = n + 1 /\ p \in 1..n
    <3>1. h \in Range(lists[p]) /\ g \in Range(Adopted(next))
      BY <1>0, <2>2
    <3> QED BY <1>5, <1>6, <2>2, <3>1
  <2>3. CASE q = n + 1 /\ p = n + 1
    <3>1. h = g
      BY <1>0, <1>6, <2>3, AdoptedOnce
    <3>2. \A r \in p..q : r = n + 1
      BY <1>0, <2>3
    <3> QED BY <1>0, <1>3, <2>3, <3>1, <3>2
  <2> QED BY <1>1, <2>1, <2>2, <2>3
<1>7. HandleIsOneRun'
  BY <1>0, <1>6 DEF HandleIsOneRun
<1> QED BY <1>4, <1>7 DEF HandleInv

\* Two handles of published lists are the same exactly when they judge one
\* address published without a break in between.
THEOREM HandlesAreRuns == Spec => [](HandleIsOneRun /\ BornBefore)
<1>1. Init => HandleInv
  <2> SUFFICES ASSUME Init PROVE HandleInv
    OBVIOUS
  <2>1. \A p \in 1..Published : Range(lists[p]) = {}
    BY EmptySeq DEF Init, Published, Range
  <2> QED BY <2>1 DEF HandleInv, HandleIsOneRun, BornBefore
<1>2. TypeOK /\ HandleInv /\ [Next]_vars => HandleInv'
  <2> SUFFICES ASSUME TypeOK, HandleInv, [Next]_vars PROVE HandleInv'
    OBVIOUS
  <2>1. ASSUME NEW next \in Lists, Publish(next)
        PROVE  HandleInv'
    BY <2>1, PublishHandles
  <2>2. ASSUME UNCHANGED lists
        PROVE  HandleInv'
    BY <2>2 DEF HandleInv, HandleIsOneRun, BornBefore, Names, Published
  <2> QED BY <2>1, <2>2
          DEF Next, DialStep, PatrolStep, Tick, DialSelects, DialObserves, DialReturns,
              DialJudges,
              RoundStarts, ProbeReturns, RoundEnds, PatrolObserves, vars
<1> QED BY <1>1, <1>2, TypeCorrect, PTL DEF Spec, HandleInv

\* A dial that outlives a load turns the verdict of a published entry only if no
\* list since its snapshot left the address out.
THEOREM VerdictsStayInTheirRun == Spec => NoVerdictAcrossRemoval
<1> DEFINE Kept == \A d \in Dials, h \in Range(lists[Published]) :
                     /\ dial[d].phase = "judging" /\ dial'[d].phase = "idle"
                     /\ verdict'[h].state # verdict[h].state
                     => \A p \in dial[d].list..Published : Names(p, h.addr)
<1>1. TypeOK /\ HandleInv /\ [Next]_vars => Kept
  <2> SUFFICES ASSUME TypeOK, HandleInv, [Next]_vars,
                      NEW d \in Dials, NEW h \in Range(lists[Published]),
                      dial[d].phase = "judging", dial'[d].phase = "idle",
                      verdict'[h].state # verdict[h].state
               PROVE  \A p \in dial[d].list..Published : Names(p, h.addr)
    OBVIOUS
  <2>0. dial \in [Dials -> DialStates]
    BY DEF TypeOK
  <2>1. ASSUME DialJudges(d)
        PROVE  \A p \in dial[d].list..Published : Names(p, h.addr)
    <3>1. Dialled(dial[d]) \in Range(lists[dial[d].list]) /\ dial[d].list \in 1..Published
      BY DialledType DEF Through
    <3>2. h \in Handles /\ Published \in 1..Published /\ Published \in Nat
      BY PublishedParts, ListParts
    <3>3. verdict \in [Handles -> Verdicts]
      BY DEF TypeOK
    <3>4. h = Dialled(dial[d])
      BY <2>1, <3>2, <3>3 DEF DialJudges, Settled
    <3>5. dial[d].list <= Published
      BY <3>1, <3>2
    <3> QED BY <3>1, <3>2, <3>4, <3>5 DEF HandleInv, HandleIsOneRun
  <2>2. ASSUME NEW e \in Dials, e # d, DialStep(e)
        PROVE  FALSE
    BY <2>0, <2>2 DEF DialStep, DialSelects, DialObserves, DialReturns, DialJudges
  <2>3. ASSUME \/ DialSelects(d) \/ \E class \in Classes : DialObserves(d, class)
               \/ \E outcome \in Outcomes : DialReturns(d, outcome)
        PROVE  FALSE
    BY <2>3 DEF DialSelects, DialObserves, DialReturns
  <2>4. ASSUME UNCHANGED dial
        PROVE  FALSE
    BY <2>4
  <2>5. ~Tick
    <3>1. Tick => dial'[d] = [dial[d] EXCEPT !.given.changedAt = IF @ = 0 THEN 0 ELSE @ - 1]
      BY DEF Tick
    <3>2. Tick => dial'[d].phase = dial[d].phase
      BY <2>0, <3>1 DEF DialStates
    <3> QED BY <3>2
  <2> QED BY <2>1, <2>2, <2>3, <2>4, <2>5
          DEF Next, DialStep, PatrolStep, Tick, Publish, RoundStarts, ProbeReturns, RoundEnds,
              PatrolObserves, vars
<1> QED BY <1>1, TypeCorrect, HandlesAreRuns, PTL DEF Spec, NoVerdictAcrossRemoval, HandleInv

-----------------------------------------------------------------------------
(* The selection: connections leave an upstream that stays Up only for a   *)
(* better one.                                                             *)

\* Where nothing is remembered for longer than the hold, the entry selected is the
\* one up longest, whether it has held or not.
LongestUp(list, judged, s) ==
  /\ s \in DOMAIN list /\ judged[list[s]].state = Up
  /\ \A i \in DOMAIN list : judged[list[i]].state = Up =>
       \/ judged[list[s]].changedAt < judged[list[i]].changedAt
       \/ judged[list[s]].changedAt = judged[list[i]].changedAt /\ s <= i

\* So it is what select chooses.
LEMMA SelectsLongestUp ==
  ASSUME NEW list \in Seq(Handles), NEW judged \in [Handles -> Verdicts],
         NEW s, s = Select([i \in DOMAIN list |-> judged[list[i]]], Now, Hold), s # NoEntry
  PROVE  LongestUp(list, judged, s)
<1>1. PICK v : v = [i \in DOMAIN list |-> judged[list[i]]] OBVIOUS
<1>2. DOMAIN list = 1..Len(list) /\ Len(list) \in Nat /\ \A i \in DOMAIN list : list[i] \in Handles
  BY ElementOfSeq
<1>3. \A i \in DOMAIN list : judged[list[i]] \in Health /\ judged[list[i]].changedAt \in 0..Hold
  BY <1>2, Constants DEF Health, Verdicts
<1>4. v \in Seq(Health) /\ DOMAIN v = DOMAIN list /\ \A i \in DOMAIN list : v[i] = judged[list[i]]
  BY <1>1, <1>2, <1>3
<1>5. PICK ups, held : ups = UpEntries(v) /\ held = HeldEntries(v, Now, Hold) OBVIOUS
<1>6. /\ held # {} => IsFirst(held, s)
      /\ held = {} /\ ups # {} => IsLongest(v, ups, s)
      /\ ups # {}
  BY <1>1, <1>4, <1>5, SelectCases, Constants
<1>7. \A i : i \in ups <=> i \in DOMAIN list /\ v[i].state = Up BY <1>4, <1>5 DEF UpEntries
<1>8. \A i : i \in held <=> i \in ups /\ v[i].changedAt = 0
  <2>1. \A i \in ups : Held(v[i].changedAt, Now, Hold) <=> v[i].changedAt = 0
    BY <1>3, <1>4, <1>7, Constants DEF Held
  <2> QED BY <1>5, <2>1 DEF HeldEntries
<1>9. /\ s \in ups
      /\ \A i \in ups : \/ v[s].changedAt < v[i].changedAt
                        \/ v[s].changedAt = v[i].changedAt /\ s <= i
  <2>1. CASE held # {}
    <3>1. s \in held /\ \A i \in held : s <= i BY <1>6, <2>1 DEF IsFirst
    <3>2. \A i \in ups : v[i].changedAt \in Nat BY <1>3, <1>4, <1>7
    <3> QED BY <1>8, <3>1, <3>2
  <2>2. CASE held = {} BY <1>6, <2>2 DEF IsLongest, Longer
  <2> QED BY <2>1, <2>2
<1>10. s \in DOMAIN list /\ judged[list[s]].state = Up BY <1>4, <1>7, <1>9
<1>11. ASSUME NEW i \in DOMAIN list, judged[list[i]].state = Up
       PROVE  \/ judged[list[s]].changedAt < judged[list[i]].changedAt
              \/ judged[list[s]].changedAt = judged[list[i]].changedAt /\ s <= i
  <2>1. i \in ups /\ v[i] = judged[list[i]] /\ v[s] = judged[list[s]] BY <1>4, <1>7, <1>10, <1>11
  <2> QED BY <1>9, <2>1
<1> QED BY <1>10, <1>11 DEF LongestUp

\* Only one entry is.
LEMMA OneLongestUp ==
  ASSUME NEW list \in Seq(Handles), NEW judged \in [Handles -> Verdicts],
         NEW s, NEW t, LongestUp(list, judged, s), LongestUp(list, judged, t)
  PROVE  s = t
<1>1. DOMAIN list \subseteq Nat /\ \A i \in DOMAIN list : list[i] \in Handles BY ElementOfSeq
<1>2. \A i \in DOMAIN list : judged[list[i]].changedAt \in Nat BY <1>1, Constants DEF Verdicts
<1> QED BY <1>1, <1>2 DEF LongestUp

\* One verdict turns at most, not that of an entry that is selected and stays up,
\* and another entry is selected then.
Turns(list, judged, turned, k, s, t) ==
  /\ list \in Seq(Handles) /\ k \in Handles
  /\ judged \in [Handles -> Verdicts]
  /\ turned \in [Handles -> Verdicts]
  /\ \A h \in Handles \ {k} : turned[h] = judged[h]
  /\ LongestUp(list, judged, s) /\ LongestUp(list, turned, t) /\ t # s
  /\ turned[list[s]].state = Up
  /\ list[s] = k => turned[k] = judged[k]

\* That entry turned up.
LEMMA TurnsSelection ==
  ASSUME NEW list, NEW judged, NEW turned, NEW k, NEW s, NEW t,
         Turns(list, judged, turned, k, s, t)
  PROVE  list[t] = k /\ turned[k] # judged[k]
<1>0. /\ list \in Seq(Handles) /\ k \in Handles
      /\ judged \in [Handles -> Verdicts]
      /\ turned \in [Handles -> Verdicts]
      /\ \A h \in Handles \ {k} : turned[h] = judged[h]
      /\ LongestUp(list, judged, s) /\ LongestUp(list, turned, t) /\ t # s
      /\ turned[list[s]].state = Up
      /\ list[s] = k => turned[k] = judged[k]
  BY DEF Turns
<1>1. DOMAIN list \subseteq Nat /\ \A i \in DOMAIN list : list[i] \in Handles BY <1>0, ElementOfSeq
<1>2. \A i \in DOMAIN list : judged[list[i]].changedAt \in Nat /\ turned[list[i]].changedAt \in Nat
  BY <1>0, <1>1, Constants DEF Verdicts
<1>3. turned[list[s]] = judged[list[s]] BY <1>0, <1>1 DEF LongestUp
<1>4. ASSUME turned[list[t]] = judged[list[t]] PROVE FALSE
  <2>1. s \in DOMAIN list /\ t \in DOMAIN list /\ judged[list[t]].state = Up BY <1>0, <1>4 DEF LongestUp
  <2>2. PICK x, y : x = judged[list[s]].changedAt /\ y = judged[list[t]].changedAt OBVIOUS
  <2>3. x < y \/ (x = y /\ s <= t) BY <1>0, <2>1, <2>2 DEF LongestUp
  <2>4. y < x \/ (y = x /\ t <= s)
    <3>1. x = turned[list[s]].changedAt /\ y = turned[list[t]].changedAt BY <1>3, <1>4, <2>2
    <3> QED BY <1>0, <2>1, <3>1 DEF LongestUp
  <2> QED BY <1>0, <1>1, <1>2, <2>1, <2>2, <2>3, <2>4
<1> QED BY <1>0, <1>1, <1>4 DEF LongestUp

\* upstream/select.rs select: while a list stands, the connections of an upstream
\* that stays Up are not handed back and forth.
THEOREM SelectedUpKeeps == Spec => UpInServiceKeeps
<1> DEFINE Keeps == LET h == lists[Published][Selected]
                        g == lists[Published][Selected'] IN
             lists' = lists /\ verdict' # verdict
             /\ Selected # NoEntry /\ Selected' \notin {NoEntry, Selected}
             /\ verdict[h].state = Up /\ verdict'[h].state = Up
               => \/ /\ Selected' < Selected
                     /\ verdict'[g].changedAt = 0 \/ verdict'[g].changedAt = verdict'[h].changedAt
                  \/ /\ TurnedByProbe(g) \/ TurnedByDial(g)
                     /\ verdict'[g].changedAt < verdict'[h].changedAt
<1>1. TypeOK /\ TypeOK' /\ [Next]_vars => Keeps
  <2> SUFFICES ASSUME TypeOK, TypeOK', [Next]_vars, lists' = lists, verdict' # verdict,
                      Selected # NoEntry,
                      NEW s, NEW t, s = Selected, t = Selected', t # NoEntry, t # s,
                      NEW list, list = lists[Published],
                      verdict[list[s]].state = Up, verdict'[list[s]].state = Up
               PROVE  \/ /\ t < s
                         /\ \/ verdict'[list[t]].changedAt = 0
                            \/ verdict'[list[t]].changedAt = verdict'[list[s]].changedAt
                      \/ /\ TurnedByProbe(list[t]) \/ TurnedByDial(list[t])
                         /\ verdict'[list[t]].changedAt < verdict'[list[s]].changedAt
    OBVIOUS
  <2>1. /\ verdict \in [Handles -> Verdicts]
        /\ verdict' \in [Handles -> Verdicts]
    BY DEF TypeOK
  <2>2. list \in Seq(Handles) /\ \A i \in DOMAIN list : i \in Nat /\ list[i] \in Handles
    <3>1. list \in Seq(Handles) BY PublishedParts, ListParts
    <3> QED BY <3>1, ElementOfSeq
  <2>3. LongestUp(list, verdict, s)
    BY <2>1, <2>2, SelectsLongestUp DEF Selected, SelectedIn
  <2>4. LongestUp(list, verdict', t)
    <3>1. Published' = Published BY DEF Published
    <3>2. t = Select([i \in DOMAIN list |-> verdict'[list[i]]], Now, Hold)
      BY <3>1 DEF Selected, SelectedIn
    <3> QED BY <2>1, <2>2, <3>2, SelectsLongestUp
  <2>5. s \in DOMAIN list /\ t \in DOMAIN list BY <2>3, <2>4 DEF LongestUp
  <2>6. /\ verdict'[list[t]].changedAt \in Nat /\ verdict'[list[s]].changedAt \in Nat
        /\ \/ verdict'[list[t]].changedAt < verdict'[list[s]].changedAt
           \/ verdict'[list[t]].changedAt = verdict'[list[s]].changedAt /\ t < s
    <3>1. verdict'[list[t]].changedAt \in Nat /\ verdict'[list[s]].changedAt \in Nat
      BY <2>1, <2>2, <2>5, Constants DEF Verdicts
    <3> QED BY <2>2, <2>4, <2>5, <3>1 DEF LongestUp
  <2>7. CASE Tick
    <3>1. PICK ago : ago = [at \in 0..Hold |-> IF at = 0 THEN 0 ELSE at - 1] OBVIOUS
    <3>2. ASSUME NEW h \in Handles
          PROVE  verdict'[h].state = verdict[h].state /\ verdict'[h].changedAt = ago[verdict[h].changedAt]
      BY <2>1, <2>7, <3>1, <3>2 DEF Tick, Verdicts
    <3>3. \A x, y \in 0..Hold : x <= y => ago[x] <= ago[y] BY <3>1, Constants
    <3>4. PICK old, new : old = verdict[list[s]].changedAt /\ new = verdict[list[t]].changedAt OBVIOUS
    <3>5. old \in 0..Hold /\ new \in 0..Hold BY <2>1, <2>2, <2>5, <3>4 DEF Verdicts
    <3>6. old <= new
      <4>1. verdict[list[t]].state = Up BY <2>2, <2>4, <2>5, <3>2 DEF LongestUp
      <4>2. old < new \/ old = new BY <2>3, <2>5, <3>4, <4>1 DEF LongestUp
      <4> QED BY <3>5, <4>2, Constants
    <3>7. ago[old] <= ago[new] /\ ago[old] \in Nat /\ ago[new] \in Nat
      BY <3>1, <3>3, <3>5, <3>6, Constants
    <3>8. verdict'[list[s]].changedAt = ago[old] /\ verdict'[list[t]].changedAt = ago[new]
      BY <2>2, <2>5, <3>2, <3>4
    <3>9. ago[new] < ago[old] \/ (ago[new] = ago[old] /\ t <= s)
      BY <2>4, <2>5, <3>8 DEF LongestUp
    <3> QED BY <2>2, <2>5, <3>7, <3>8, <3>9
  <2>8. ASSUME NEW k \in Handles, NEW given \in Verdicts, verdict' = Settled(k, given)
        PROVE  list[t] = k /\ verdict'[k].state # verdict[k].state
    <3>1. \A h \in Handles \ {k} : verdict'[h] = verdict[h] BY <2>1, <2>8 DEF Settled
    <3>2. verdict'[k] = verdict[k] \/ (verdict'[k] = given /\ verdict[k].state # given.state)
      BY <2>1, <2>8 DEF Settled
    <3>3. list[s] = k => verdict'[k] = verdict[k]
      <4>1. HAVE list[s] = k
      <4>2. verdict[k].state = Up /\ verdict'[k].state = Up BY <4>1
      <4> QED BY <3>2, <4>2
    <3>4. list[t] = k /\ verdict'[k] # verdict[k]
      <4>1. Turns(list, verdict, verdict', k, s, t) BY <2>1, <2>2, <2>3, <2>4, <3>1, <3>3 DEF Turns
      <4> QED BY <4>1, TurnsSelection
    <3> QED BY <3>2, <3>4
  <2>9. ASSUME NEW d \in Dials, DialJudges(d)
        PROVE  TurnedByDial(list[t])
    <3>1. Dialled(dial[d]) \in Handles
      BY <2>9, DialledType DEF DialJudges, Through
    <3>2. dial \in [Dials -> DialStates] /\ dial[d].given \in Verdicts BY DEF TypeOK, DialStates
    <3>3. verdict' = Settled(Dialled(dial[d]), dial[d].given) BY <2>9 DEF DialJudges
    <3>4. list[t] = Dialled(dial[d]) /\ verdict'[list[t]].state # verdict[list[t]].state
      BY <2>8, <3>1, <3>2, <3>3
    <3>5. dial[d].phase = "judging" /\ dial'[d].phase = "idle"
      BY <2>9, <3>2 DEF DialJudges, IdleDial
    <3> QED BY <3>4, <3>5 DEF TurnedByDial
  <2>10. ASSUME NEW k \in Handles, NEW seen \in HealthStates, ProbeReturns(k, seen)
         PROVE  TurnedByProbe(list[t])
    <3>1. verdict' = Settled(k, Given(seen, patrol.started))
      BY <2>10 DEF ProbeReturns, Advanced
    <3>2. Given(seen, patrol.started) \in Verdicts BY GivenType DEF TypeOK
    <3>3. list[t] = k /\ verdict'[k].state # verdict[k].state BY <2>8, <3>1, <3>2
    <3>4. k \in patrol.out /\ k \notin patrol'.out
      <4>1. patrol \in [phase : {"waiting", "probing", "selected"}, list : Publications,
                        selected : Nat, started : 0..Hold, out : SUBSET Handles, pending : SUBSET Sequences]
        BY DEF TypeOK
      <4>2. k \in patrol.out /\ patrol'.out = patrol.out \ {k} BY <2>10, <4>1 DEF ProbeReturns
      <4> QED BY <4>2
    <3> QED BY <3>3, <3>4 DEF TurnedByProbe
  <2>11. ASSUME NEW next \in Lists, Publish(next) PROVE FALSE
    BY <2>11, PublishLists, PublishedParts DEF Published
  <2> QED BY <2>6, <2>7, <2>9, <2>10, <2>11
          DEF Next, DialStep, PatrolStep, DialSelects, DialObserves, DialReturns, RoundStarts,
              RoundEnds, PatrolObserves, vars
<1> QED BY <1>1, TypeCorrect, PTL DEF Spec, UpInServiceKeeps

-----------------------------------------------------------------------------
(* The history: the patrol moves a verdict only on two probes that agree,  *)
(* in runs of any length over any upstreams.                               *)

\* A step of the history specification is a step of the upstream hop.
LEMMA HistoryStep == [HNext]_hvars => [Next]_vars
BY DEF HNext, HRoundStarts, HProbeReturns, Next, PatrolStep, hvars, vars

\* The probes whose handles are out are out only during a round.
OutOnlyProbing == patrol.phase # "probing" => patrol.out = {}

HInv == PendingAnswered /\ OutOnlyProbing

\* What is pending after a probe is folded in: what was pending of the other
\* handles, and at most this observation of this one.
LEMMA AdvancedLeaves ==
  ASSUME NEW h, NEW seen
  PROVE  Advanced(h, seen).left \subseteq {[health |-> h, target |-> seen]}
<1>1. CASE verdict[h].state = seen
  BY <1>1 DEF Advanced
<1>2. CASE verdict[h].state # seen /\ Banked(h, seen)
  BY <1>2 DEF Advanced
<1>3. CASE verdict[h].state # seen /\ ~Banked(h, seen)
  BY <1>3 DEF Advanced
<1> QED BY <1>1, <1>2, <1>3

\* Every step keeps the pending sequences resting on answers.
LEMMA HInvStep == TypeOK /\ HTypeOK /\ HInv /\ [HNext]_hvars => HInv'
<1> SUFFICES ASSUME TypeOK, HTypeOK, HInv, [HNext]_hvars PROVE HInv'
  OBVIOUS
<1>0. patrol \in [phase : {"waiting", "probing", "selected"}, list : Publications,
                 selected : Nat, started : 0..Hold, out : SUBSET Handles,
                 pending : SUBSET Sequences]
      /\ answers \in [before : SUBSET Answer, this : SUBSET Answer]
  BY DEF TypeOK, HTypeOK
<1>1. CASE HRoundStarts
  <2>1. patrol.out = {}
    BY <1>1 DEF HRoundStarts, RoundStarts, HInv, OutOnlyProbing
  <2>2. answers'.before = answers.this
    BY <1>1 DEF HRoundStarts
  <2>3. CASE Range(lists[Published]) = {}
    BY <1>0, <1>1, <2>1, <2>3 DEF HRoundStarts, RoundStarts, HInv, PendingAnswered, OutOnlyProbing
  <2>4. CASE Range(lists[Published]) # {}
    <3>1. patrol'.pending \subseteq patrol.pending /\ patrol'.phase = "probing"
          /\ \A p \in patrol'.pending : p.health \in patrol'.out
      BY <1>0, <1>1, <2>4 DEF HRoundStarts, RoundStarts
    <3> QED BY <2>1, <2>2, <3>1 DEF HInv, PendingAnswered, OutOnlyProbing
  <2> QED BY <2>3, <2>4
<1>2. ASSUME NEW h \in Handles, NEW seen \in HealthStates, HProbeReturns(h, seen)
      PROVE  HInv'
  <2>1. /\ patrol'.out = patrol.out \ {h} /\ patrol'.phase = "probing"
        /\ patrol'.pending = {p \in patrol.pending : p.health # h} \cup Advanced(h, seen).left
    BY <1>0, <1>2 DEF HProbeReturns, ProbeReturns
  <2>2. /\ answers'.before = answers.before
        /\ answers'.this = answers.this \cup {[health |-> h, seen |-> seen]}
    BY <1>0, <1>2 DEF HProbeReturns
  <2>3. ASSUME NEW p \in patrol'.pending
        PROVE  [health |-> p.health, seen |-> p.target] \in
                 IF p.health \in patrol'.out THEN answers'.before ELSE answers'.this
    <3>1. CASE p \in patrol.pending /\ p.health # h
      BY <2>1, <2>2, <3>1 DEF HInv, PendingAnswered
    <3>2. CASE p = [health |-> h, target |-> seen]
      BY <2>1, <2>2, <3>2
    <3> QED BY <2>1, <3>1, <3>2, AdvancedLeaves
  <2> QED BY <2>1, <2>3 DEF HInv, PendingAnswered, OutOnlyProbing
<1>3. CASE RoundEnds /\ UNCHANGED answers
  BY <1>0, <1>3 DEF RoundEnds, HInv, PendingAnswered, OutOnlyProbing
<1>4. CASE PatrolObserves /\ UNCHANGED answers
  BY <1>0, <1>4 DEF PatrolObserves, HInv, PendingAnswered, OutOnlyProbing
<1>5. CASE Tick /\ UNCHANGED answers
  BY <1>0, <1>5 DEF Tick, HInv, PendingAnswered, OutOnlyProbing
<1>6. ASSUME UNCHANGED <<patrol, answers>>
      PROVE  HInv'
  BY <1>6 DEF HInv, PendingAnswered, OutOnlyProbing
<1> QED BY <1>1, <1>2, <1>3, <1>4, <1>5, <1>6
        DEF HNext, DialStep, Publish, DialSelects, DialObserves, DialReturns, DialJudges, hvars

\* The history is well typed and the pending sequences rest on it.
LEMMA HistoryInvariant == HSpec => [](TypeOK /\ HTypeOK /\ HInv)
<1>1. HInit => TypeOK /\ HTypeOK /\ HInv
  <2>1. HInit => TypeOK
    BY InitType DEF HInit
  <2> QED BY <2>1 DEF HInit, Init, HTypeOK, HInv, PendingAnswered, OutOnlyProbing
<1>2. HTypeOK /\ [HNext]_hvars => HTypeOK'
  BY DEF HTypeOK, Answer, HNext, HRoundStarts, HProbeReturns, hvars
<1> QED BY <1>1, <1>2, HInvStep, NextType, HistoryStep, PTL DEF HSpec

\* Every sequence the patrol keeps for the next round rests on an answer about
\* its own handle.
THEOREM SequencesAreAnswered == HSpec => []PendingAnswered
<1>1. HInv => PendingAnswered
  BY DEF HInv
<1> QED BY <1>1, HistoryInvariant, PTL

\* A probe moves a verdict only when the probe of the round before, of the same
\* handle, saw the same.
THEOREM ProbesAgree == HSpec => TwoProbesAgree
<1> DEFINE Agree == \A h \in Handles :
                      TurnedByProbe(h) => [health |-> h, seen |-> verdict'[h].state] \in answers.before
<1>1. TypeOK /\ HInv /\ [HNext]_hvars => Agree
  <2> SUFFICES ASSUME TypeOK, HInv, [HNext]_hvars, NEW h \in Handles, TurnedByProbe(h)
               PROVE  [health |-> h, seen |-> verdict'[h].state] \in answers.before
    OBVIOUS
  <2>0. patrol.out \in SUBSET Handles /\ h \in patrol.out /\ h \notin patrol'.out
        /\ verdict'[h].state # verdict[h].state
    BY DEF TypeOK, TurnedByProbe
  <2>1. patrol.phase = "probing"
    BY <2>0 DEF HInv, OutOnlyProbing
  <2>2. ASSUME NEW g \in Handles, NEW seen \in HealthStates, ProbeReturns(g, seen)
        PROVE  [health |-> h, seen |-> verdict'[h].state] \in answers.before
    <3>1. g = h
      BY <2>0, <2>2 DEF ProbeReturns, TypeOK
    <3>2. verdict' = Advanced(h, seen).verdict
      BY <2>2, <3>1 DEF ProbeReturns
    <3>3. verdict[h].state # seen /\ Banked(h, seen)
      BY <2>0, <3>2 DEF Advanced
    <3>4. verdict'[h].state = seen
      BY <3>2, <3>3 DEF Advanced, Settled, Given, TypeOK
    <3>5. [health |-> h, seen |-> seen] \in answers.before
      BY <2>0, <3>3 DEF Banked, HInv, PendingAnswered
    <3> QED BY <3>4, <3>5
  <2>3. ASSUME RoundStarts \/ RoundEnds \/ PatrolObserves
        PROVE  FALSE
    BY <2>0, <2>1, <2>3 DEF RoundStarts, RoundEnds, PatrolObserves
  <2>4. ASSUME patrol'.out = patrol.out
        PROVE  FALSE
    BY <2>0, <2>4
  <2>5. Tick => patrol'.out = patrol.out
    BY DEF Tick, TypeOK
  <2> QED BY <2>2, <2>3, <2>4, <2>5
          DEF HNext, HRoundStarts, HProbeReturns, DialStep, Publish, DialSelects, DialObserves,
              DialReturns, DialJudges, hvars
<1> QED BY <1>1, HistoryInvariant, PTL DEF HSpec, TwoProbesAgree


=============================================================================
