------------------------------ MODULE Upstream ------------------------------
(***************************************************************************)
(* The upstream hop of nhop: the published upstream lists, the verdict on  *)
(* every address, the patrol that probes them, the connections that dial   *)
(* through them, the loads that publish another list, and the memory of    *)
(* the last selection from which each switch is logged once.               *)
(* Source: src/nhop/src/upstream/ (health, entries, select, mod).          *)
(*                                                                         *)
(* The patrol task, every connection task and the state task run in        *)
(* parallel and share only atomically swapped cells: the published list,   *)
(* the verdict of each handle and the observed selection.  An action is    *)
(* one access to such a cell and what follows up to the next one: a dial   *)
(* stamps its evidence in one step and swaps the verdict in a later one,   *)
(* so two dials may swap against the order of their stamps.  Two pairs of  *)
(* accesses are one step: a snapshot of the list and the verdicts read     *)
(* from it, and the swap of the observed selection and the switch it       *)
(* yields (two tasks may write their lines in the other order).            *)
(*                                                                         *)
(* The clock is relative: the present is the instant Hold, and every       *)
(* remembered instant moves one down when time passes.  0 stands for every *)
(* instant at least the return hold ago, which select treats alike.  The   *)
(* clock does not move back here; module SelectScan lets it.               *)
(***************************************************************************)
EXTENDS Select, FiniteSets, Functions

CONSTANTS Addresses,        \* upstream socket addresses
          NoAddress,        \* an absent upstream on a switch line
          Dials,            \* connections that dial at the same time
          Hold,             \* RETURN_HOLD, in clock ticks
          Lists,            \* the lists a load may publish
          MaxPublications   \* bound: lists published, the empty first one included

ASSUME AddressAssumption == NoAddress \notin Addresses
ASSUME HoldAssumption == Hold \in Nat \ {0}

\* Upstreams::parse: at least one address, none twice.
ASSUME ListsAssumption ==
  /\ Lists \subseteq Seq(Addresses)
  /\ \A s \in Lists : s # <<>> /\ \A i, j \in DOMAIN s : s[i] = s[j] => i = j
ASSUME PublicationsAssumption == MaxPublications \in Nat \ {0}

VARIABLES
  lists,      \* every list published so far; a list read is its position here
  verdict,    \* the verdict of each handle
  dial,       \* where each connection's dial stands
  patrol,     \* the patrol task
  observed,   \* the selection last observed and the list it was made from
  logged      \* the switch the last swap of it yielded

vars == <<lists, verdict, dial, patrol, observed, logged>>

Now == Hold

\* A handle is told from every other by its address and the publication that
\* made it, as the Arc it is in the code is by its pointer.
Handles == [addr : Addresses, born : 1..MaxPublications]

Publications == 1..MaxPublications

\* Pending: one observation waiting for a second one to agree with it.
Sequences == [health : Handles, target : HealthStates]

Classes == {"require", "prefer"}
Outcomes == {"connected", "destination", "unsent", "upstream"}
Causes == {"down", "held", "recovered", "reload"}

Published == Len(lists)

-----------------------------------------------------------------------------
(* Verdicts *)

\* A verdict given at an instant.  When an upstream went down is left out: select
\* reads the instants of the Up entries only.
Given(state, at) == [state |-> state, changedAt |-> IF state = Up THEN at ELSE 0]

\* Fault: every observation moves the instant.
SettledAlways(h, given) == [verdict EXCEPT ![h] = given]

\* settle: the instant moves only on a turnover.
Settled(h, given) == [verdict EXCEPT ![h] = IF @.state = given.state THEN @ ELSE given]

\* The verdict a dial's outcome is evidence for.
Evidence(outcome) ==
  CASE outcome \in {"connected", "destination"} -> {Up}
    [] outcome = "upstream" -> {Down}
    [] outcome = "unsent" -> {}

-----------------------------------------------------------------------------
(* The published list *)

\* Fault: a handle is looked up among all ever made for the address.
AdoptedByAddress(next) ==
  LET made(a) == {h \in UNION {Range(lists[p]) : p \in 1..Published} : h.addr = a}
  IN  [i \in DOMAIN next |->
         IF made(next[i]) # {} THEN CHOOSE h \in made(next[i]) : TRUE
         ELSE [addr |-> next[i], born |-> Published + 1]]

\* Every address the list in force already names keeps its handle.
Adopted(next) ==
  LET kept(a) == {h \in Range(lists[Published]) : h.addr = a}
  IN  [i \in DOMAIN next |->
         IF kept(next[i]) # {} THEN CHOOSE h \in kept(next[i]) : TRUE
         ELSE [addr |-> next[i], born |-> Published + 1]]

SelectedIn(p) ==
  Select([i \in DOMAIN lists[p] |-> verdict[lists[p][i]]], Now, Hold)

AddressAt(p, i) == IF i \in DOMAIN lists[p] THEN lists[p][i].addr ELSE NoAddress

\* The upstream a dial goes through.
Dialled(d) == lists[d.list][d.selected]

-----------------------------------------------------------------------------
(* The switch log *)

SwitchCause(p, new) ==
  LET previous == observed.selected IN
  CASE observed.list # p -> "reload"
    [] observed.list = p /\ previous = NoEntry -> "recovered"
    [] /\ observed.list = p /\ previous # NoEntry
       /\ verdict[lists[p][previous]].state = Up
       /\ new # NoEntry /\ new < previous -> "held"
    [] OTHER -> "down"

\* Fault: a selection from a replaced list is observed like any other.
ReplacedNever(p, q) == FALSE

ReplacedBefore(p, q) == p < q

\* Fault: a selection from a replaced list is logged though not recorded.
ObserveLogged(p, new) ==
  LET from == AddressAt(observed.list, observed.selected)
      to == AddressAt(p, new)
  IN  /\ observed' = IF ReplacedBefore(p, observed.list) THEN observed
                     ELSE [list |-> p, selected |-> new]
      /\ logged' = IF from = to THEN logged
                   ELSE [from |-> from, to |-> to, cause |-> SwitchCause(p, new)]

Observe(p, new) ==
  LET from == AddressAt(observed.list, observed.selected)
      to == AddressAt(p, new)
      stale == ReplacedBefore(p, observed.list)
  IN  /\ observed' = IF stale THEN observed ELSE [list |-> p, selected |-> new]
      /\ logged' = IF stale \/ from = to THEN logged
                   ELSE [from |-> from, to |-> to, cause |-> SwitchCause(p, new)]

-----------------------------------------------------------------------------
IdleDial ==
  [phase |-> "idle", list |-> 1, selected |-> NoEntry, given |-> Given(Down, 0)]

Init ==
  /\ lists = <<<<>>>>
  /\ verdict = [h \in Handles |-> Given(Down, 0)]
  /\ dial = [d \in Dials |-> IdleDial]
  /\ patrol = [phase |-> "waiting", list |-> 1, selected |-> NoEntry, started |-> 0,
               out |-> {}, pending |-> {}]
  /\ observed = [list |-> 1, selected |-> NoEntry]
  /\ logged = [from |-> NoAddress, to |-> NoAddress, cause |-> "recovered"]

\* Time passes: every instant remembered is one tick longer ago.
Tick ==
  LET ago(at) == IF at = 0 THEN 0 ELSE at - 1 IN
  /\ verdict' = [h \in Handles |-> [verdict[h] EXCEPT !.changedAt = ago(@)]]
  /\ patrol' = [patrol EXCEPT !.started = ago(@)]
  /\ dial' = [d \in Dials |-> [dial[d] EXCEPT !.given.changedAt = ago(@)]]
  /\ UNCHANGED <<lists, observed, logged>>

\* The state task publishes the list of a load or a command; a fresh handle
\* starts Down at this instant.
Publish(next) ==
  /\ Published < MaxPublications
  /\ lists' = Append(lists, Adopted(next))
  /\ verdict' = [h \in Handles |->
                   IF h \in Range(Adopted(next)) /\ h \notin Range(lists[Published])
                   THEN Given(Down, Now) ELSE verdict[h]]
  /\ UNCHANGED <<dial, patrol, observed, logged>>

-----------------------------------------------------------------------------
(* One connection *)

\* routed: the snapshot of the published list and the selection made from it ...
DialSelects(d) ==
  /\ dial[d].phase = "idle"
  /\ dial' = [dial EXCEPT ![d] = [IdleDial EXCEPT !.phase = "selected", !.list = Published,
                                            !.selected = SelectedIn(Published)]]
  /\ UNCHANGED <<lists, verdict, patrol, observed, logged>>

\* ... the observation, and where the class of the rule sends the connection
\* then: to the entry selected, for require to the first while none is, or at once
\* to its end (no upstream for require, the direct route for prefer).
DialObserves(d, class) ==
  LET nowhere == IF class = "require" THEN lists[dial[d].list] = <<>>
                 ELSE dial[d].selected = NoEntry
  IN  /\ dial[d].phase = "selected"
      /\ Observe(dial[d].list, dial[d].selected)
      /\ dial' = IF nowhere THEN [dial EXCEPT ![d] = IdleDial]
                 ELSE [dial EXCEPT ![d].phase = "dialling",
                                   ![d].selected = IF @ = NoEntry THEN 1 ELSE @]
      /\ UNCHANGED <<lists, verdict, patrol>>

\* The dial through the upstream ends: connected, refused by a reply about the
\* destination, failed by the upstream or the class's budget, or never sent.  What
\* is evidence about the upstream is stamped with the instant it came at ...
DialReturns(d, outcome) ==
  /\ dial[d].phase = "dialling"
  /\ \/ Evidence(outcome) = {} /\ dial' = [dial EXCEPT ![d] = IdleDial]
     \/ \E state \in Evidence(outcome) :
          dial' = [dial EXCEPT ![d].phase = "judging", ![d].given = Given(state, Now)]
  /\ UNCHANGED <<lists, verdict, patrol, observed, logged>>

\* ... and swapped in: other dials, probes and loads may come in between.
DialJudges(d) ==
  /\ dial[d].phase = "judging"
  /\ verdict' = Settled(Dialled(dial[d]), dial[d].given)
  /\ dial' = [dial EXCEPT ![d] = IdleDial]
  /\ UNCHANGED <<lists, patrol, observed, logged>>

-----------------------------------------------------------------------------
(* The patrol *)

\* Fault: a round starts with no sequence pending.
RoundStartsAfresh ==
  /\ patrol.phase = "waiting"
  /\ patrol' = IF lists[Published] = <<>> THEN [patrol EXCEPT !.pending = {}]
               ELSE [patrol EXCEPT !.phase = "probing", !.started = Now, !.pending = {},
                                   !.out = Range(lists[Published])]
  /\ UNCHANGED <<lists, verdict, dial, observed, logged>>

\* The wait is over: a round over the list published now, or, while that list
\* is empty, another wait with nothing pending.  A sequence whose handle the list
\* does not hold ends with the round: nothing in it reads or returns it.
RoundStarts ==
  LET probed == Range(lists[Published]) IN
  /\ patrol.phase = "waiting"
  /\ patrol' = IF probed = {} THEN [patrol EXCEPT !.pending = {}]
               ELSE [patrol EXCEPT !.phase = "probing", !.started = Now, !.out = probed,
                                   !.pending = {p \in @ : p.health \in probed}]
  /\ UNCHANGED <<lists, verdict, dial, observed, logged>>

\* Fault: any sequence pending is closed by any contradiction.
BankedAny(h, seen) == \E p \in patrol.pending : p.health = h

Banked(h, seen) == [health |-> h, target |-> seen] \in patrol.pending

\* advance: what the observation does to the verdict and what stays pending.
Advanced(h, seen) ==
  CASE verdict[h].state = seen -> [verdict |-> verdict, left |-> {}]
    [] verdict[h].state # seen /\ Banked(h, seen) ->
         [verdict |-> Settled(h, Given(seen, patrol.started)), left |-> {}]
    [] verdict[h].state # seen /\ ~Banked(h, seen) ->
         [verdict |-> verdict, left |-> {[health |-> h, target |-> seen]}]

\* One probe is joined, in any order, and leaves its sequence for the next round
\* in place of the one it found.  The code reads the verdict and writes it in two
\* accesses; since the write sets what was seen and does nothing to a verdict that
\* already says so, it is as if both were made at the write.
ProbeReturns(h, seen) ==
  /\ patrol.phase = "probing"
  /\ h \in patrol.out
  /\ verdict' = Advanced(h, seen).verdict
  /\ patrol' = [patrol EXCEPT !.out = @ \ {h},
                   !.pending = {p \in @ : p.health # h} \cup Advanced(h, seen).left]
  /\ UNCHANGED <<lists, dial, observed, logged>>

\* The round is over: the list is read again and the selection made from it ...
RoundEnds ==
  /\ patrol.phase = "probing"
  /\ patrol.out = {}
  /\ patrol' = [patrol EXCEPT !.phase = "selected", !.list = Published, !.started = 0,
                              !.selected = SelectedIn(Published)]
  /\ UNCHANGED <<lists, verdict, dial, observed, logged>>

\* Fault: only connections observe the selection.
PatrolObservesNothing ==
  /\ patrol.phase = "selected"
  /\ patrol' = [patrol EXCEPT !.phase = "waiting", !.list = 1, !.selected = NoEntry]
  /\ UNCHANGED <<lists, verdict, dial, observed, logged>>

\* ... and observed.
PatrolObserves ==
  /\ patrol.phase = "selected"
  /\ Observe(patrol.list, patrol.selected)
  /\ patrol' = [patrol EXCEPT !.phase = "waiting", !.list = 1, !.selected = NoEntry]
  /\ UNCHANGED <<lists, verdict, dial>>

-----------------------------------------------------------------------------
DialStep(d) ==
  \/ DialSelects(d)
  \/ \E class \in Classes : DialObserves(d, class)
  \/ \E outcome \in Outcomes : DialReturns(d, outcome)
  \/ DialJudges(d)

PatrolStep ==
  \/ RoundStarts
  \/ \E h \in Handles, seen \in HealthStates : ProbeReturns(h, seen)
  \/ RoundEnds
  \/ PatrolObserves

Next ==
  \/ Tick
  \/ \E next \in Lists : Publish(next)
  \/ \E d \in Dials : DialStep(d)
  \/ PatrolStep

Spec == Init /\ [][Next]_vars

\* The patrol loop is never starved and each of its probes is cut off at
\* PROBE_TIMEOUT, so it always goes on; so does the clock.  A dial is owed
\* nothing: a connection may never come.
Fairness == WF_vars(PatrolStep) /\ WF_vars(Tick)

LiveSpec == Spec /\ Fairness

-----------------------------------------------------------------------------
(* Properties *)

Selected == SelectedIn(Published)

Names(p, a) == \E h \in Range(lists[p]) : h.addr = a

Indexed(r) == r.list \in 1..Published /\ r.selected \in 0..Len(lists[r.list])

Verdicts == [state : HealthStates, changedAt : 0..Hold]

DialStates == [phase : {"idle", "selected", "dialling", "judging"}, list : Publications,
               selected : Nat, given : Verdicts]

\* The dial went to an entry of its list.
Through(r) == r.phase \in {"dialling", "judging"}

\* Shapes of the state: stamps never lie in the future, every list read or
\* remembered was published, and every index is one of the list beside it.
TypeOK ==
  /\ lists \in Seq(Seq(Handles)) /\ Len(lists) \in Publications
  /\ verdict \in [Handles -> Verdicts]
  /\ dial \in [Dials -> DialStates]
  /\ \A d \in Dials : Indexed(dial[d]) /\ (Through(dial[d]) => dial[d].selected # NoEntry)
  /\ patrol \in [phase : {"waiting", "probing", "selected"}, list : Publications,
                 selected : Nat, started : 0..Hold, out : SUBSET Handles,
                 pending : SUBSET Sequences]
  /\ observed \in [list : Publications, selected : Nat]
  /\ Indexed(patrol) /\ Indexed(observed)
  /\ logged \in [from : Addresses \cup {NoAddress}, to : Addresses \cup {NoAddress},
                 cause : Causes]

\* Two handles of published lists are the same exactly when they judge one
\* address published without a break in between (HealthHandle::same, adopted).
HandleIsOneRun ==
  \A q \in 1..Published : \A p \in 1..q :
    \A h \in Range(lists[p]), g \in Range(lists[q]) :
      h.addr = g.addr => (h = g <=> \A r \in p..q : Names(r, h.addr))

\* The switch log tells the truth: the switch last yielded ends at the upstream
\* the last observed selection is at, whatever stale selections came late.
LoggedIsObserved == logged.to = AddressAt(observed.list, observed.selected)

\* A dial that outlives a load turns the verdict of a published entry only if no
\* list since its snapshot left the address out.
NoVerdictAcrossRemoval ==
  [][\A d \in Dials, h \in Range(lists[Published]) :
       /\ dial[d].phase = "judging" /\ dial'[d].phase = "idle"
       /\ verdict'[h].state # verdict[h].state
       => \A p \in dial[d].list..Published : Names(p, h.addr)]_vars

\* A switch put down to a load is logged on the first observation of its list,
\* never again by a connection still holding the list it replaced.
ReloadLoggedOnce ==
  [][logged' # logged /\ logged'.cause = "reload" => observed'.list > observed.list]_vars

\* A probe of this round turned the verdict of h.
TurnedByProbe(h) == h \in patrol.out /\ h \notin patrol'.out /\ verdict'[h].state # verdict[h].state

\* The dial of a connection turned the verdict of h.
TurnedByDial(h) ==
  \E d \in Dials : /\ dial[d].phase = "judging" /\ dial'[d].phase = "idle"
                   /\ Dialled(dial[d]) = h /\ verdict'[h].state # verdict[h].state

\* While a list stands, connections leave an upstream that stays Up only for a
\* higher-ranked one that has held or that ties with it at this instant, or, at
\* whatever rank, for one turned up in this step on a stamp older than its: the
\* start of the probe's round, or the instant of a dial's evidence, which a verdict
\* stamped later overtook before the swap.
UpInServiceKeeps ==
  [][LET h == lists[Published][Selected]
         g == lists[Published][Selected'] IN
     lists' = lists /\ verdict' # verdict
     /\ Selected # NoEntry /\ Selected' \notin {NoEntry, Selected}
     /\ verdict[h].state = Up /\ verdict'[h].state = Up
       => \/ /\ Selected' < Selected
             /\ verdict'[g].changedAt = 0 \/ verdict'[g].changedAt = verdict'[h].changedAt
          \/ /\ TurnedByProbe(g) \/ TurnedByDial(g)
             /\ verdict'[g].changedAt < verdict'[h].changedAt]_vars

\* What select's documentation says: while the clock does not move back, a
\* selected Up entry is never displaced by a lower-ranked one until it turns
\* down.  A probe round's stamp, taken when the round started, breaks it.
NeverDisplacedByLowerRanked ==
  [][lists' = lists /\ Selected # NoEntry /\ Selected' > Selected
       => verdict'[lists[Published][Selected]].state = Down]_vars

\* An observation of an upstream at a that says other than s.
Contradicts(a, s) ==
  \/ \E h \in patrol.out \ patrol'.out, seen \in HealthStates \ {s} :
       h.addr = a /\ ProbeReturns(h, seen)
  \/ \E d \in Dials : /\ dial[d].phase = "dialling" /\ Dialled(dial[d]).addr = a
                      /\ dial'[d].phase = "judging" /\ dial'[d].given.state # s

\* An upstream that from some time on only ever answers one way is judged that
\* way from some time on, with no connection's help.
PatrolConverges ==
  \A a \in Addresses, s \in HealthStates :
    <>[][~Contradicts(a, s)]_vars
      => <>[](\A h \in Range(lists[Published]) : h.addr = a => verdict[h].state = s)

\* An upstream ranked first that stays up takes the connections back, and the
\* switch is on record though no connection ever comes to notice it.
FirstTakesBack ==
  <>[](lists[Published] # <<>> /\ verdict[lists[Published][1]].state = Up)
    => <>[](observed = [list |-> Published, selected |-> 1])

=============================================================================
