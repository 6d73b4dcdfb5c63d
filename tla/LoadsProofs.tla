----------------------------- MODULE LoadsProofs -----------------------------
(***************************************************************************)
(* The state task, for any scripts, clients, requests and number of runs:  *)
(* its types, that no script waits for a command that is gone, that a      *)
(* completion ends its own run, that a run stages only its own, and that   *)
(* it implements AtomicLoad: what a run in flight has staged is its script *)
(* up to where that stands, in an order AtomicLoad allows.                 *)
(***************************************************************************)
EXTENDS Loads, FiniteSetTheorems, SequenceTheorems, TLAPS

\* An edit that is not refused leaves a configuration.
LEMMA AppliedType ==
  ASSUME NEW config \in Configs, NEW c, NEW d \in Commands,
         c.op = d.op, c.arg = d.arg, ~Invalid(config, c)
  PROVE  Applied(config, c) \in Configs
<1>1. CASE d.op = "add_rule"
  <2>1. c.arg \in Rules
    BY <1>1 DEF Commands, Invalid
  <2>2. Applied(config, c) = [config EXCEPT !.rules = Append(@, c.arg)]
    BY <1>1, Zenon DEF Applied
  <2>3. Append(config.rules, c.arg) \in Seq(Rules)
    BY <2>1 DEF Configs
  <2> QED BY <2>2, <2>3 DEF Configs
<1>2. CASE d.op = "clear_rules"
  <2>1. Applied(config, c) = [config EXCEPT !.rules = <<>>]
    BY <1>2, Zenon DEF Applied
  <2>2. <<>> \in Seq(Rules)
    OBVIOUS
  <2> QED BY <2>1, <2>2 DEF Configs
<1>3. CASE d.op = "set_upstreams"
  <2>1. c.arg \in Lists
    BY <1>3 DEF Commands, Invalid
  <2>2. Applied(config, c) = [config EXCEPT !.upstream = c.arg]
    BY <1>3, Zenon DEF Applied
  <2> QED BY <2>1, <2>2 DEF Configs
<1>4. CASE d.op = "set_listen"
  <2>1. c.arg \in Ports
    BY <1>4 DEF Commands
  <2>2. Applied(config, c) = [config EXCEPT !.listen = c.arg]
    BY <1>4, Zenon DEF Applied
  <2> QED BY <2>1, <2>2 DEF Configs
<1>5. CASE d.op = "add_forward"
  <2>1. c.arg \in Ports
    BY <1>5 DEF Commands
  <2>2. Applied(config, c) = [config EXCEPT !.forwards = @ \cup {c.arg}]
    BY <1>5, Zenon DEF Applied
  <2> QED BY <2>1, <2>2 DEF Configs
<1> QED BY <1>1, <1>2, <1>3, <1>4, <1>5 DEF Commands

\* A configuration with another's front ends, or replaced, is one.
LEMMA ReplacedType ==
  ASSUME NEW config \in Configs, NEW declared \in Configs
  PROVE  Moved(config, declared.listen) \in Configs /\ Replaced(config, declared) \in Configs
<1>1. Moved(config, declared.listen) \in Configs
  BY DEF Moved, Configs
<1> QED BY <1>1 DEF Replaced, Configs

\* What a daemon starts with is a configuration.
LEMMA BootType == Nothing \in Configs /\ Boot \in Configs
<1>1. Nothing \in Configs
  BY DEF Nothing, Configs
<1> QED BY <1>1, DefaultPortAssumption DEF Boot, Configs

\* What the constants say of a run that is Unset.
LEMMA Absent == Unset \notin Loaded /\ Unset \notin Asked
BY UnsetAssumption

\* A script that was started.
LEMMA RunParts ==
  ASSUME TypeOK, NEW r \in DOMAIN runs
  PROVE  /\ runs[r] \in Started
         /\ Len(runs) \in Nat /\ DOMAIN runs = 1..Len(runs)
         /\ ScriptOf(r) \in Seq(Steps)
         /\ DOMAIN ScriptOf(r) = 1..Len(ScriptOf(r)) /\ Len(ScriptOf(r)) \in Nat
<1>1. runs \in Seq(Started) /\ Len(runs) \in Nat /\ DOMAIN runs = 1..Len(runs)
  BY DEF TypeOK
<1>2. runs[r] \in Started
  BY <1>1, ElementOfSeq
<1>3. ScriptOf(r) \in Seq(Steps)
  BY <1>2, ScriptsAssumption DEF ScriptOf, Started
<1> QED BY <1>1, <1>2, <1>3

\* The step of a call is a command.
LEMMA CallCommand ==
  ASSUME TypeOK, NEW k \in calls
  PROVE  \E d \in Commands : StepOf(k).op = d.op /\ StepOf(k).arg = d.arg
<1>1. k.run \in DOMAIN runs /\ k.step \in DOMAIN ScriptOf(k.run)
  BY DEF TypeOK
<1>2. StepOf(k) \in Steps
  BY <1>1, RunParts, ElementOfSeq DEF StepOf
<1>3. PICK d \in Commands, w \in BOOLEAN :
        StepOf(k) = [op |-> d.op, arg |-> d.arg, waited |-> w]
  BY <1>2 DEF Steps
<1> QED BY <1>3

\* What a mutating command does to the run in flight and to the live state.
LEMMA MutatesParts ==
  ASSUME TypeOK, NEW id, NEW c, NEW d \in Commands, c.op = d.op, c.arg = d.arg,
         Mutates(id, c)
  PROVE  /\ live' \in Configs
         /\ load' \in Loaded \cup {Unset}
         /\ load = Unset <=> load' = Unset
         /\ load # Unset => /\ load'.id = load.id /\ load'.run = load.run
                            /\ load'.client = load.client
         /\ load' # load => load # Unset /\ id = load.id
<1>1. live' \in Configs
  BY AppliedType DEF Mutates, TypeOK
<1>2. CASE Target(id) = "staged"
  <2>1. load # Unset /\ id = load.id /\ load \in Loaded
    BY <1>2 DEF Target, TypeOK
  <2>2. CASE Invalid(load.staged, c)
    <3>1. c.op \in {"add_rule", "set_upstreams", "add_forward"}
      <4>1. d.op \in {"clear_rules", "set_listen"} => d.arg # Bad
        BY BadAssumption DEF Commands
      <4> QED BY <2>2, <4>1 DEF Invalid, Commands
    <3> QED BY <1>1, <1>2, <2>1, <2>2, <3>1, Absent DEF Mutates, StagedBy, Loaded
  <2>3. CASE ~Invalid(load.staged, c)
    <3>1. Applied(load.staged, c) \in Configs
      BY <2>1, <2>3, AppliedType DEF Loaded
    <3> QED BY <1>1, <1>2, <2>1, <2>3, <3>1, Absent DEF Mutates, StagedBy, Loaded
  <2> QED BY <2>2, <2>3
<1>3. CASE Target(id) # "staged"
  BY <1>1, <1>3 DEF Mutates, TypeOK
<1> QED BY <1>2, <1>3

-----------------------------------------------------------------------------
(* What a step does to the scripts already started *)

\* Every script keeps its file and its id, and only goes on.
RunsKept ==
  /\ runs' \in Seq(Started)
  /\ DOMAIN runs \subseteq DOMAIN runs'
  /\ \A r \in DOMAIN runs : /\ runs'[r].path = runs[r].path
                            /\ runs'[r].id = runs[r].id
                            /\ runs'[r].next >= runs[r].next

\* One script changed in place.
LEMMA RunChanged ==
  ASSUME TypeOK, NEW r \in DOMAIN runs, NEW x \in Started,
         x.path = runs[r].path, x.id = runs[r].id, x.next >= runs[r].next,
         runs' = [runs EXCEPT ![r] = x]
  PROVE  RunsKept /\ DOMAIN runs' = DOMAIN runs
<1>1. runs \in Seq(Started) /\ r \in 1..Len(runs)
  BY RunParts DEF TypeOK
<1>2. runs' \in Seq(Started) /\ DOMAIN runs' = DOMAIN runs
  BY <1>1, ExceptSeq
<1>3. \A q \in DOMAIN runs : runs[q] \in Started
  BY RunParts
<1>4. \A q \in DOMAIN runs : runs'[q] = IF q = r THEN x ELSE runs[q]
  BY <1>1
<1>5. \A q \in DOMAIN runs : /\ runs'[q].path = runs[q].path
                            /\ runs'[q].id = runs[q].id
                            /\ runs'[q].next >= runs[q].next
  BY <1>3, <1>4 DEF Started
<1> QED BY <1>2, <1>5 DEF RunsKept

\* No script changed.
LEMMA RunsStand ==
  ASSUME TypeOK, runs' = runs
  PROVE  RunsKept
<1>1. \A r \in DOMAIN runs : runs[r].next \in Nat
  BY RunParts DEF Started
<1> QED BY <1>1 DEF RunsKept, TypeOK

\* A call stays one of its run while the scripts are kept.
LEMMA CallsStand ==
  ASSUME TypeOK, RunsKept
  PROVE  \A k \in calls : /\ k.run \in DOMAIN runs'
                         /\ k.step \in DOMAIN ScriptOf(k.run)'
                         /\ k.step < runs'[k.run].next
<1> SUFFICES ASSUME NEW k \in calls
             PROVE  /\ k.run \in DOMAIN runs'
                    /\ k.step \in DOMAIN ScriptOf(k.run)'
                    /\ k.step < runs'[k.run].next
  OBVIOUS
<1>1. k.run \in DOMAIN runs /\ k.step \in DOMAIN ScriptOf(k.run) /\ k.step < runs[k.run].next
      /\ k.step \in Nat
  BY DEF TypeOK
<1>2. k.run \in DOMAIN runs' /\ runs'[k.run].path = runs[k.run].path
      /\ runs'[k.run].next >= runs[k.run].next
  BY <1>1 DEF RunsKept
<1>3. runs[k.run].next \in Nat /\ runs'[k.run].next \in Nat
  <2>1. runs'[k.run] \in Started
    BY <1>2, ElementOfSeq DEF RunsKept
  <2> QED BY <1>1, <2>1, RunParts DEF Started
<1> QED BY <1>1, <1>2, <1>3 DEF ScriptOf

-----------------------------------------------------------------------------
(* Type correctness *)

\* A command sent, or a script's end: the script changes in place.
LEMMA ScriptType ==
  ASSUME TypeOK, NEW r \in DOMAIN runs, ScriptStep(r)
  PROVE  TypeOK' /\ RunsKept
<1>1. runs[r] \in Started /\ runs \in Seq(Started)
  BY RunParts DEF TypeOK
<1>2. CASE Sends(r)
  <2> DEFINE p == IF ScriptOf(r)[runs[r].next].waited THEN "waiting" ELSE runs[r].phase
             x == [runs[r] EXCEPT !.next = runs[r].next + 1, !.phase = p]
  <2>0. PICK k : k = [run |-> r, step |-> runs[r].next]
    OBVIOUS
  <2>1. x \in Started /\ x.path = runs[r].path /\ x.id = runs[r].id
        /\ x.next = runs[r].next + 1 /\ x.next >= runs[r].next /\ runs[r].next \in Nat
    <3>1. p \in {"running", "waiting", "ended"}
      BY <1>1 DEF Started
    <3>2. runs[r].next \in Nat /\ runs[r].next + 1 \in Nat
      BY <1>1 DEF Started
    <3> HIDE DEF p
    <3>3. x \in Started /\ x.path = runs[r].path /\ x.id = runs[r].id /\ x.next = runs[r].next + 1
      <4> DEFINE n == runs[r].next + 1
      <4>1. n \in Nat
        BY <3>2
      <4> HIDE DEF n
      <4>2. x = [runs[r] EXCEPT !.next = n, !.phase = p]
        BY DEF n
      <4> HIDE DEF x
      <4>3. x \in Started /\ x.path = runs[r].path /\ x.id = runs[r].id /\ x.next = n
        BY <1>1, <3>1, <4>1, <4>2 DEF Started
      <4> QED BY <4>3 DEF n
    <3> HIDE DEF x
    <3> QED BY <3>2, <3>3
  <2>2. runs' = [runs EXCEPT ![r] = x]
    <3>1. runs' = [runs EXCEPT ![r].next = @ + 1, ![r].phase = p]
      BY <1>2 DEF Sends
    <3> HIDE DEF p
    <3> QED BY <3>1
  <2>3. RunsKept /\ runs'[r] = x
    <3> HIDE DEF x
    <3> QED BY <1>1, <2>1, <2>2, RunChanged
  <2>4. r \in Nat /\ runs[r].next \in Nat /\ runs[r].next \in DOMAIN ScriptOf(r)
    BY <1>1, <1>2, RunParts DEF Sends, Started
  <2>5. k \in [run : Nat, step : Nat] /\ k.run \in DOMAIN runs'
        /\ k.step \in DOMAIN ScriptOf(k.run)' /\ k.step < runs'[k.run].next
    <3>1. ScriptOf(r)' = ScriptOf(r)
      BY <2>3 DEF RunsKept, ScriptOf
    <3>2. runs'[r].next = runs[r].next + 1 /\ r \in DOMAIN runs'
      BY <2>1, <2>3 DEF RunsKept
    <3>3. k.run = r /\ k.step = runs[r].next /\ k \in [run : Nat, step : Nat]
      BY <2>0, <2>4
    <3> HIDE DEF x
    <3>4. runs[r].next < runs'[r].next
      BY <2>1, <3>2
    <3> QED BY <2>4, <3>1, <3>2, <3>3, <3>4
  <2>6. calls' = calls \cup {k}
    BY <1>2, <2>0 DEF Sends
  <2>7. /\ calls' \subseteq [run : Nat, step : Nat]
        /\ \A c \in calls' : /\ c.run \in DOMAIN runs' /\ c.step \in DOMAIN ScriptOf(c.run)'
                             /\ c.step < runs'[c.run].next
    <3> HIDE DEF x
    <3> QED BY <2>3, <2>5, <2>6, CallsStand DEF TypeOK
  <2> QED BY <1>2, <2>3, <2>7 DEF Sends, TypeOK, RunsKept
<1>3. ASSUME NEW outcome \in Outcomes, Ends(r, outcome)
      PROVE  TypeOK' /\ RunsKept
  <2> DEFINE x == [runs[r] EXCEPT !.phase = "ended", !.watched = FALSE]
  <2>1. x \in Started /\ x.path = runs[r].path /\ x.id = runs[r].id
        /\ x.next >= runs[r].next
    <3>1. runs[r].next \in Nat
      BY <1>1 DEF Started
    <3>2. x \in Started /\ x.path = runs[r].path /\ x.id = runs[r].id /\ x.next = runs[r].next
      BY <1>1 DEF Started
    <3> HIDE DEF x
    <3> QED BY <3>1, <3>2
  <2>2. runs' = [runs EXCEPT ![r] = x]
    BY <1>1, <1>3 DEF Ends, Started
  <2>3. RunsKept
    <3> HIDE DEF x
    <3> QED BY <1>1, <2>1, <2>2, RunChanged
  <2>4. finished' \subseteq [run : Nat, outcome : Outcomes]
    <3>1. r \in Nat
      BY RunParts
    <3> QED BY <1>3, <3>1 DEF Ends, TypeOK
  <2> QED BY <1>3, <2>3, <2>4, CallsStand DEF Ends, TypeOK, RunsKept
<1>4. CASE Succeeds(r)
  BY <1>3, <1>4 DEF Succeeds, Outcomes
<1>5. CASE Exits(r)
  BY <1>3, <1>5 DEF Exits, Outcomes
<1>6. CASE NotRun(r)
  BY <1>3, <1>6 DEF NotRun, Outcomes
<1>7. CASE TimesOut(r)
  BY <1>3, <1>7 DEF TimesOut, Outcomes
<1> QED BY <1>2, <1>4, <1>5, <1>6, <1>7 DEF ScriptStep

\* A call handled: at most the script that sent it changes, to running.
LEMMA CallType ==
  ASSUME TypeOK, NEW k \in calls, HandlesCall(k)
  PROVE  TypeOK' /\ RunsKept
<1>1. live' \in Configs /\ load' \in Loaded \cup {Unset}
  BY CallCommand, MutatesParts DEF HandlesCall
<1>2. k.run \in DOMAIN runs
  BY DEF TypeOK
<1>3. runs[k.run] \in Started /\ runs \in Seq(Started)
  BY <1>2, RunParts DEF TypeOK
<1>4. RunsKept
  <2> DEFINE x == [runs[k.run] EXCEPT !.phase = "running"]
  <2>1. x \in Started /\ x.path = runs[k.run].path /\ x.id = runs[k.run].id
        /\ x.next = runs[k.run].next /\ x.next \in Nat
    BY <1>3 DEF Started
  <2>2. runs' = runs \/ runs' = [runs EXCEPT ![k.run] = x]
    BY <1>2, <1>3 DEF HandlesCall, Started
  <2> HIDE DEF x
  <2> QED BY <1>2, <2>1, <2>2, RunChanged, RunsStand
<1> QED BY <1>1, <1>4, CallsStand DEF HandlesCall, TypeOK, RunsKept

\* A client's request handled.
LEMMA ClientType ==
  ASSUME TypeOK, NEW c \in Clients, HandlesClient(c)
  PROVE  TypeOK' /\ RunsKept
<1>1. CASE HandlesCommand(c)
  <2>1. live' \in Configs /\ load' \in Loaded \cup {Unset}
    BY <1>1, MutatesParts DEF HandlesCommand
  <2>2. RunsKept
    BY <1>1, RunsStand DEF HandlesCommand
  <2> QED BY <1>1, <2>1, <2>2, CallsStand DEF HandlesCommand, TypeOK, ScriptOf
<1>2. CASE TurnsOff(c)
  <2>1. live' \in Configs
    <3>1. <<>> \in Seq(Rules)
      OBVIOUS
    <3> QED BY <1>2, <3>1 DEF TurnsOff, TypeOK, Configs
  <2>2. RunsKept
    BY <1>2, RunsStand DEF TurnsOff
  <2> QED BY <1>2, <2>1, <2>2 DEF TurnsOff, TypeOK, ScriptOf
<1>3. CASE RefusesReload(c)
  <2>1. RunsKept
    BY <1>3, RunsStand DEF RefusesReload
  <2> QED BY <1>3, <2>1 DEF RefusesReload, TypeOK, ScriptOf
<1>4. CASE Reloads(c)
  <2> DEFINE x == [path |-> PathOf(c), id |-> issued + 1, next |-> 1,
                   phase |-> "running", watched |-> TRUE]
  <2>1. x \in Started /\ runs' = Append(runs, x)
    BY <1>4 DEF Reloads, Started, TypeOK
  <2>2. runs \in Seq(Started) /\ Len(runs) \in Nat /\ DOMAIN runs = 1..Len(runs)
    BY DEF TypeOK
  <2>3. /\ runs' \in Seq(Started) /\ DOMAIN runs' = 1..(Len(runs) + 1)
        /\ \A r \in DOMAIN runs : runs'[r] = runs[r]
    <3> HIDE DEF x
    <3> QED BY <2>1, <2>2
  <2>4. RunsKept
    <3>1. \A r \in DOMAIN runs : runs[r].next \in Nat
      BY RunParts DEF Started
    <3> QED BY <2>2, <2>3, <3>1 DEF RunsKept
  <2>5. Nothing \in Configs
    BY DEF Nothing, Configs
  <2>6. load' \in Loaded
    BY <1>4, <2>2, <2>5 DEF Reloads, Loaded, TypeOK
  <2>7. remembered' \in Paths /\ issued' \in Nat
    BY <1>4 DEF Reloads, TypeOK, Paths
  <2> QED BY <1>4, <2>4, <2>6, <2>7, CallsStand DEF Reloads, TypeOK, RunsKept
<1> QED BY <1>1, <1>2, <1>3, <1>4 DEF HandlesClient

\* A run ends.
LEMMA CompletionType ==
  ASSUME TypeOK, NEW o \in finished, Completes(o)
  PROVE  TypeOK' /\ RunsKept
<1>1. Finishes(o)
  BY DEF Completes, Commits, FailsToMove, FailsToForward, Drops
<1>2. load \in Loaded /\ load.staged \in Configs /\ load.client \in Clients
  BY <1>1 DEF Finishes, TypeOK, Loaded
<1>3. live' \in Configs
  BY <1>2, ReplacedType DEF Completes, Commits, FailsToMove, FailsToForward, Drops, TypeOK
<1>4. RunsKept
  BY <1>1, RunsStand DEF Finishes
<1>5. client' \in [Clients -> Asked \cup {Held, Unset}]
  BY <1>1, <1>2 DEF Finishes, TypeOK
<1> QED BY <1>1, <1>3, <1>4, <1>5 DEF Finishes, TypeOK, ScriptOf

\* What a restart leaves a script in.
LEMMA RestartedRun ==
  ASSUME TypeOK, Restarts, NEW r \in DOMAIN runs
  PROVE  /\ runs'[r] \in Started
         /\ runs'[r].path = runs[r].path /\ runs'[r].id = runs[r].id
         /\ runs'[r].next = runs[r].next /\ runs'[r].watched = FALSE
         /\ Supervised => runs'[r].phase = "ended"
         /\ runs'[r].phase = "waiting" =>
              [run |-> r, step |-> runs[r].next - 1] \in calls' /\ runs[r].phase = "waiting"
<1> DEFINE lost == [run |-> r, step |-> runs[r].next - 1] \notin calls'
           phase == CASE Supervised -> "ended"
                      [] ~Supervised /\ runs[r].phase = "waiting" /\ lost -> "running"
                      [] OTHER -> runs[r].phase
<1>1. runs[r] \in Started
  BY RunParts
<1>2. runs'[r] = [runs[r] EXCEPT !.watched = FALSE, !.phase = phase]
  BY Zenon DEF Restarts
<1>3. /\ phase \in {"running", "waiting", "ended"}
      /\ Supervised => phase = "ended"
      /\ phase = "waiting" => ~lost /\ runs[r].phase = "waiting"
  <2>1. runs[r].phase \in {"running", "waiting", "ended"}
    BY <1>1 DEF Started
  <2>2. CASE Supervised
    <3>1. phase = "ended"
      BY <2>2, Zenon
    <3> QED BY <3>1
  <2>3. CASE ~Supervised /\ runs[r].phase = "waiting" /\ lost
    <3>1. phase = "running"
      BY <2>3, Zenon
    <3> QED BY <2>3, <3>1
  <2>4. CASE ~Supervised /\ ~(runs[r].phase = "waiting" /\ lost)
    <3>1. phase = runs[r].phase
      BY <2>4, Zenon
    <3> QED BY <2>1, <2>4, <3>1
  <2> QED BY <2>2, <2>3, <2>4
<1> HIDE DEF phase
<1>4. /\ runs'[r] \in Started
      /\ runs'[r].path = runs[r].path /\ runs'[r].id = runs[r].id
      /\ runs'[r].next = runs[r].next /\ runs'[r].watched = FALSE
      /\ runs'[r].phase = phase
  BY <1>1, <1>2, <1>3 DEF Started
<1> QED BY <1>3, <1>4

\* The daemon dies and is started again.
LEMMA RestartType ==
  ASSUME TypeOK, Restarts
  PROVE  TypeOK' /\ RunsKept /\ DOMAIN runs' = DOMAIN runs
<1>0. /\ DOMAIN runs' = DOMAIN runs /\ runs' = [r \in DOMAIN runs |-> runs'[r]]
      /\ calls' \in IF Supervised THEN {{}} ELSE SUBSET calls
      /\ live' = Boot /\ load' = Unset /\ issued' = 0 /\ restarts' = restarts + 1
      /\ remembered' = DefaultPath /\ finished' = {}
      /\ client' = [c \in Clients |-> IF c = Booting THEN ReloadOf(Unset) ELSE Unset]
  BY Zenon DEF Restarts
<1>1. Len(runs) \in Nat /\ DOMAIN runs = 1..Len(runs)
  BY DEF TypeOK
<1>2. runs' \in Seq(Started)
  <2>1. \A r \in 1..Len(runs) : runs'[r] \in Started
    BY <1>1, RestartedRun
  <2> QED BY <1>0, <1>1, <2>1
<1>3. RunsKept
  <2>1. \A r \in DOMAIN runs : runs[r].next \in Nat
    BY RunParts DEF Started
  <2>2. \A r \in DOMAIN runs : /\ runs'[r].path = runs[r].path /\ runs'[r].id = runs[r].id
                              /\ runs'[r].next = runs[r].next
    BY RestartedRun
  <2> QED BY <1>0, <1>2, <2>1, <2>2 DEF RunsKept
<1>4. calls' \subseteq calls
  BY <1>0, LoadsBoundsAssumption
<1>5. Boot \in Configs
  BY BootType
<1>6. client' \in [Clients -> Asked \cup {Held, Unset}]
  BY <1>0 DEF ReloadOf, Asked
<1>7. DefaultPath \in Paths
  BY DEF Paths
<1> QED BY <1>0, <1>3, <1>4, <1>5, <1>6, <1>7, CallsStand DEF TypeOK, RunsKept

\* Any step keeps the types, and the scripts.
LEMMA TypeStep ==
  ASSUME TypeOK, [Next]_vars
  PROVE  TypeOK' /\ RunsKept
<1>1. CASE \E r \in DOMAIN runs : ScriptStep(r)
  BY <1>1, ScriptType
<1>2. CASE \E k \in calls : HandlesCall(k)
  BY <1>2, CallType
<1>3. CASE \E c \in Clients : HandlesClient(c)
  BY <1>3, ClientType
<1>4. ASSUME NEW c \in Clients, Asks(c)
      PROVE  TypeOK' /\ RunsKept
  <2>1. RunsKept
    BY <1>4, RunsStand DEF Asks
  <2>2. client' \in [Clients -> Asked \cup {Held, Unset}]
    BY <1>4, RequestsAssumption DEF Asks, TypeOK
  <2> QED BY <1>4, <2>1, <2>2 DEF Asks, TypeOK, ScriptOf
<1>5. CASE \E o \in finished : Completes(o)
  BY <1>5, CompletionType
<1>6. CASE Restarts
  BY <1>6, RestartType
<1>7. CASE UNCHANGED vars
  BY <1>7, RunsStand DEF vars, TypeOK, ScriptOf
<1> QED BY <1>1, <1>2, <1>3, <1>4, <1>5, <1>6, <1>7 DEF Next

\* The first state is well typed.
LEMMA TypeInit == Init => TypeOK
<1> SUFFICES ASSUME Init PROVE TypeOK
  OBVIOUS
<1>1. Boot \in Configs
  BY BootType
<1>2. client \in [Clients -> Asked \cup {Held, Unset}]
  BY DEF Init, ReloadOf, Asked
<1>3. DefaultPath \in Paths
  BY DEF Paths
<1> QED BY <1>1, <1>2, <1>3 DEF Init, TypeOK

\* The state task keeps its types: nothing it could not read is ever staged or
\* serves traffic, whatever the scripts and the clients send.
THEOREM LoadsTypeCorrect == Spec => []TypeOK
<1>1. TypeOK /\ [Next]_vars => TypeOK'
  BY TypeStep
<1> QED BY <1>1, TypeInit, PTL DEF Spec

-----------------------------------------------------------------------------
(* Completions *)

LoadStarted == load # Unset => load.run \in DOMAIN runs /\ runs[load.run].id = load.id

WatchedInFlight == \A r \in DOMAIN runs : runs[r].watched => load # Unset /\ r = load.run

OneCompletion == \A o, p \in finished : o = p

\* The inductive strengthening: only the run in flight is watched, and at most
\* one completion waits, so that taking it leaves none for the next run.
CInv == LoadStarted /\ WatchedInFlight /\ OneCompletion /\ CompletionIsOfItsRun

\* A step that leaves the completions, the watching and the run in flight alone.
LEMMA WatchStands ==
  ASSUME TypeOK, CInv, RunsKept, DOMAIN runs' = DOMAIN runs,
         \A r \in DOMAIN runs : runs'[r].watched = runs[r].watched,
         finished' = finished, load = Unset <=> load' = Unset,
         load # Unset => load'.id = load.id /\ load'.run = load.run
  PROVE  CInv'
<1>1. LoadStarted'
  BY DEF CInv, LoadStarted, RunsKept
<1>2. WatchedInFlight' /\ OneCompletion'
  BY DEF CInv, WatchedInFlight, OneCompletion
<1>3. CompletionIsOfItsRun'
  BY DEF CInv, CompletionIsOfItsRun, LoadStarted
<1> QED BY <1>1, <1>2, <1>3 DEF CInv

\* A script sends a step.
LEMMA SendsWatch ==
  ASSUME TypeOK, CInv, NEW r \in DOMAIN runs, Sends(r)
  PROVE  CInv'
<1>1. RunsKept
  BY ScriptType DEF ScriptStep
<1>2. DOMAIN runs' = DOMAIN runs /\ finished' = finished /\ load' = load
  BY DEF Sends
<1>3. \A q \in DOMAIN runs : runs'[q].watched = runs[q].watched
  <2>1. \A q \in DOMAIN runs : runs[q] \in Started
    BY RunParts
  <2> DEFINE p == IF ScriptOf(r)[runs[r].next].waited THEN "waiting" ELSE runs[r].phase
  <2>2. runs' = [runs EXCEPT ![r] = [runs[r] EXCEPT !.next = @ + 1, !.phase = p]]
    BY DEF Sends
  <2> HIDE DEF p
  <2> QED BY <2>1, <2>2 DEF Started
<1> QED BY <1>1, <1>2, <1>3, WatchStands

\* A script ends: if it is watched it is the one in flight, and its completion is
\* the only one.
LEMMA EndsWatch ==
  ASSUME TypeOK, CInv, NEW r \in DOMAIN runs, NEW outcome, Ends(r, outcome), RunsKept
  PROVE  CInv'
<1>1. DOMAIN runs' = DOMAIN runs /\ load' = load
  BY DEF Ends
<1>2. \A q \in DOMAIN runs : runs'[q].watched = IF q = r THEN FALSE ELSE runs[q].watched
  <2>1. \A q \in DOMAIN runs : runs[q] \in Started
    BY RunParts
  <2> QED BY <2>1 DEF Ends, Started
<1>3. CASE ~runs[r].watched
  <2>1. runs[r].watched = FALSE
    BY <1>3, RunParts DEF Started
  <2>2. \A q \in DOMAIN runs : runs'[q].watched = runs[q].watched
    BY <1>2, <2>1
  <2>3. finished' = finished
    BY <1>3 DEF Ends
  <2> QED BY <1>1, <2>2, <2>3, WatchStands
<1>4. CASE runs[r].watched
  <2>1. load # Unset /\ r = load.run
    BY <1>4 DEF CInv, WatchedInFlight
  <2>2. finished = {}
    BY <1>4, <2>1, Zenon DEF CInv, CompletionIsOfItsRun
  <2>3. finished' = {[run |-> r, outcome |-> outcome]}
    BY <1>4, <2>2 DEF Ends
  <2>4. LoadStarted'
    BY <1>1, <2>1 DEF CInv, LoadStarted, RunsKept
  <2>5. WatchedInFlight'
    BY <1>1, <1>2, <2>1 DEF WatchedInFlight, CInv
  <2>6. OneCompletion' /\ CompletionIsOfItsRun'
    <3>1. runs'[r].watched = FALSE /\ load'.run = r /\ load' # Unset
      BY <1>1, <1>2, <2>1
    <3>2. \A o \in finished' : o = [run |-> r, outcome |-> outcome] /\ o.run = r
      BY <2>3
    <3>3. \E o \in finished' : o.run = load'.run
      BY <2>3, <3>1
    <3> QED BY <3>1, <3>2, <3>3, Zenon DEF OneCompletion, CompletionIsOfItsRun
  <2> QED BY <2>4, <2>5, <2>6 DEF CInv
<1> QED BY <1>3, <1>4

\* A call is handled.
LEMMA CallWatch ==
  ASSUME TypeOK, CInv, NEW k \in calls, HandlesCall(k)
  PROVE  CInv'
<1>1. RunsKept
  BY CallType
<1>2. DOMAIN runs' = DOMAIN runs /\ finished' = finished
  BY DEF HandlesCall
<1>3. \A q \in DOMAIN runs : runs'[q].watched = runs[q].watched
  <2>1. \A q \in DOMAIN runs : runs[q] \in Started
    BY RunParts
  <2> QED BY <2>1 DEF HandlesCall, Started
<1>4. /\ load = Unset <=> load' = Unset
      /\ load # Unset => load'.id = load.id /\ load'.run = load.run
  BY CallCommand, MutatesParts DEF HandlesCall
<1> QED BY <1>1, <1>2, <1>3, <1>4, WatchStands

\* A reload starts a run, watched and with no completion waiting.
LEMMA ReloadWatch ==
  ASSUME TypeOK, CInv, NEW c \in Clients, Reloads(c)
  PROVE  CInv'
<1> DEFINE n == Len(runs) + 1
<1>1. runs \in Seq(Started) /\ n \in Nat /\ DOMAIN runs = 1..Len(runs) /\ n \notin DOMAIN runs
      /\ Len(runs) \in Nat
  BY DEF TypeOK
<1>2. /\ DOMAIN runs' = DOMAIN runs \cup {n}
      /\ \A r \in DOMAIN runs : runs'[r] = runs[r]
      /\ runs'[n].watched = TRUE /\ runs'[n].id = issued + 1
  BY <1>1 DEF Reloads
<1>3. load = Unset /\ finished = {} /\ finished' = finished
  BY Zenon DEF Reloads, CInv, CompletionIsOfItsRun
<1>4. load' # Unset /\ load'.run = n /\ load'.id = issued + 1
  <2>1. load'.run = n /\ load'.id = issued + 1
    BY DEF Reloads
  <2>2. load' \in Loaded
    <3>1. load' = [id |-> issued + 1, run |-> n, client |-> c, staged |-> Nothing, failed |-> Unset]
      BY DEF Reloads
    <3>2. issued + 1 \in Nat
      BY DEF TypeOK
    <3> QED BY <1>1, <3>1, <3>2, BootType DEF Loaded
  <2> QED BY <2>1, <2>2, Absent
<1>5. \A r \in DOMAIN runs : ~runs[r].watched
  BY <1>3 DEF CInv, WatchedInFlight
<1> HIDE DEF n
<1>6. LoadStarted' /\ WatchedInFlight' /\ OneCompletion'
  BY <1>2, <1>3, <1>4, <1>5 DEF LoadStarted, WatchedInFlight, OneCompletion
<1>7. CompletionIsOfItsRun'
  BY <1>2, <1>3, <1>4 DEF CompletionIsOfItsRun
<1> QED BY <1>6, <1>7 DEF CInv

\* The run in flight ends, with the only completion there was.
LEMMA CompletionWatch ==
  ASSUME TypeOK, CInv, NEW o \in finished, Completes(o)
  PROVE  CInv'
<1>1. Finishes(o)
  BY DEF Completes, Commits, FailsToMove, FailsToForward, Drops
<1>2. finished' = {} /\ load' = Unset /\ runs' = runs
  BY <1>1 DEF Finishes, CInv, OneCompletion
<1>3. \A r \in DOMAIN runs : ~runs[r].watched
  <2>1. load # Unset /\ o.run = load.run /\ load.run \in DOMAIN runs
    BY <1>1 DEF Finishes, CInv, CompletionIsOfItsRun, LoadStarted
  <2>2. runs[load.run].watched \in BOOLEAN
    BY <2>1, RunParts DEF Started
  <2>3. ~runs[load.run].watched
    BY <2>1, <2>2 DEF CInv, CompletionIsOfItsRun
  <2> QED BY <2>3 DEF CInv, WatchedInFlight
<1> QED BY <1>2, <1>3 DEF CInv, LoadStarted, WatchedInFlight, OneCompletion, CompletionIsOfItsRun

\* After a restart nothing is watched and nothing waits.
LEMMA RestartWatch ==
  ASSUME TypeOK, Restarts
  PROVE  CInv'
<1>1. load' = Unset /\ finished' = {}
  BY Zenon DEF Restarts
<1>2. \A r \in DOMAIN runs' : ~runs'[r].watched
  BY RestartType, RestartedRun
<1> QED BY <1>1, <1>2 DEF CInv, LoadStarted, WatchedInFlight, OneCompletion, CompletionIsOfItsRun

\* Any step keeps the completions to their runs.
LEMMA CStep ==
  ASSUME TypeOK, CInv, [Next]_vars
  PROVE  CInv'
<1>0. RunsKept
  BY TypeStep
<1>1. ASSUME NEW r \in DOMAIN runs, ScriptStep(r)
      PROVE  CInv'
  BY <1>0, <1>1, SendsWatch, EndsWatch DEF ScriptStep, Succeeds, Exits, NotRun, TimesOut
<1>2. CASE \E k \in calls : HandlesCall(k)
  BY <1>2, CallWatch
<1>3. ASSUME NEW c \in Clients, HandlesClient(c)
      PROVE  CInv'
  <2>1. CASE HandlesCommand(c)
    <3>1. /\ load = Unset <=> load' = Unset
          /\ load # Unset => load'.id = load.id /\ load'.run = load.run
      BY <2>1, MutatesParts DEF HandlesCommand
    <3> QED BY <1>0, <2>1, <3>1, WatchStands DEF HandlesCommand
  <2>2. CASE TurnsOff(c) \/ RefusesReload(c)
    BY <1>0, <2>2, WatchStands DEF TurnsOff, RefusesReload
  <2> QED BY <1>3, <2>1, <2>2, ReloadWatch DEF HandlesClient
<1>4. ASSUME NEW c \in Clients, Asks(c)
      PROVE  CInv'
  BY <1>0, <1>4, WatchStands DEF Asks
<1>5. CASE \E o \in finished : Completes(o)
  BY <1>5, CompletionWatch
<1>6. CASE Restarts
  BY <1>6, RestartWatch
<1>7. CASE UNCHANGED vars
  BY <1>0, <1>7, WatchStands DEF vars
<1> QED BY <1>1, <1>2, <1>3, <1>4, <1>5, <1>6, <1>7 DEF Next

\* No run is ended by another's completion, though a completion names no run:
\* while one waits, the run that left it is the one in flight.
THEOREM CompletionsEndTheirRun == Spec => []CompletionIsOfItsRun
<1>1. Init => TypeOK /\ CInv
  BY TypeInit DEF Init, CInv, LoadStarted, WatchedInFlight, OneCompletion, CompletionIsOfItsRun
<1>2. TypeOK /\ CInv /\ [Next]_vars => (TypeOK /\ CInv)'
  BY TypeStep, CStep
<1>3. CInv => CompletionIsOfItsRun
  BY DEF CInv
<1> QED BY <1>1, <1>2, <1>3, PTL DEF Spec

-----------------------------------------------------------------------------
(* Waiting scripts *)

\* A script that sends and waits has its command among the calls.
LEMMA SendsWaits ==
  ASSUME TypeOK, NoScriptWaitsForNothing, NEW r \in DOMAIN runs, Sends(r)
  PROVE  NoScriptWaitsForNothing'
<1> DEFINE p == IF ScriptOf(r)[runs[r].next].waited THEN "waiting" ELSE runs[r].phase
<1>1. \A q \in DOMAIN runs : runs[q] \in Started
  BY RunParts
<1>2. runs' = [runs EXCEPT ![r] = [runs[r] EXCEPT !.next = @ + 1, !.phase = p]]
  BY DEF Sends
<1> HIDE DEF p
<1>3. DOMAIN runs' = DOMAIN runs /\ runs'[r].next = runs[r].next + 1
      /\ \A q \in DOMAIN runs \ {r} : runs'[q] = runs[q]
  BY <1>1, <1>2 DEF Started
<1>4. runs'[r].next - 1 = runs[r].next
  <2>1. runs[r].next \in Nat
    BY <1>1 DEF Started
  <2> QED BY <1>3, <2>1
<1>5. calls' = calls \cup {[run |-> r, step |-> runs[r].next]}
  BY DEF Sends
<1> QED BY <1>3, <1>4, <1>5 DEF NoScriptWaitsForNothing

\* A call handled sets the script that waited for it going.
LEMMA CallWaits ==
  ASSUME TypeOK, NoScriptWaitsForNothing, NEW k \in calls, HandlesCall(k)
  PROVE  NoScriptWaitsForNothing'
<1> DEFINE call(q) == [run |-> q, step |-> runs[q].next - 1]
<1>1. \A q \in DOMAIN runs : runs[q] \in Started
  BY RunParts
<1>2. DOMAIN runs' = DOMAIN runs /\ calls' = calls \ {k}
  BY DEF HandlesCall
<1>3. ASSUME NEW q \in DOMAIN runs, runs'[q].phase = "waiting"
      PROVE  runs'[q] = runs[q] /\ call(q) # k
  <2>1. CASE q # k.run
    BY <2>1 DEF HandlesCall
  <2>2. CASE q = k.run
    <3>1. ~(runs[q].phase = "waiting" /\ runs[q].next = k.step + 1) /\ runs'[q] = runs[q]
      BY <1>1, <1>3, <2>2 DEF HandlesCall, Started
    <3>2. runs[q].next # k.step + 1
      BY <1>3, <3>1
    <3>3. runs[q].next \in Nat /\ k.step \in Nat
      BY <1>1 DEF Started, TypeOK
    <3>4. runs[q].next - 1 # k.step
      BY <3>2, <3>3
    <3> QED BY <3>1, <3>4
  <2> QED BY <2>1, <2>2
<1>4. \A q \in DOMAIN runs : runs[q].phase = "waiting" => call(q) \in calls
  BY DEF NoScriptWaitsForNothing
<1> QED BY <1>2, <1>3, <1>4 DEF NoScriptWaitsForNothing

\* Any step leaves every waiting script's command with the daemon.
LEMMA WaitsStep ==
  ASSUME TypeOK, NoScriptWaitsForNothing, [Next]_vars
  PROVE  NoScriptWaitsForNothing'
<1>0. \A r \in DOMAIN runs : runs[r] \in Started
  BY RunParts
<1>1. ASSUME NEW r \in DOMAIN runs, NEW outcome, Ends(r, outcome)
      PROVE  NoScriptWaitsForNothing'
  BY <1>0, <1>1 DEF Ends, NoScriptWaitsForNothing, Started
<1>2. ASSUME NEW r \in DOMAIN runs, ScriptStep(r)
      PROVE  NoScriptWaitsForNothing'
  BY <1>1, <1>2, SendsWaits DEF ScriptStep, Succeeds, Exits, NotRun, TimesOut
<1>3. CASE \E k \in calls : HandlesCall(k)
  BY <1>3, CallWaits
<1>4. ASSUME runs' = runs, calls' = calls
      PROVE  NoScriptWaitsForNothing'
  BY <1>4 DEF NoScriptWaitsForNothing
<1>5. ASSUME NEW c \in Clients, HandlesClient(c)
      PROVE  NoScriptWaitsForNothing'
  <2>1. CASE Reloads(c)
    <3>1. runs \in Seq(Started) /\ DOMAIN runs = 1..Len(runs) /\ Len(runs) \in Nat
      BY DEF TypeOK
    <3>2. /\ DOMAIN runs' = DOMAIN runs \cup {Len(runs) + 1}
          /\ \A r \in DOMAIN runs : runs'[r] = runs[r]
          /\ runs'[Len(runs) + 1].phase = "running"
          /\ calls' = calls
      BY <2>1, <3>1 DEF Reloads
    <3> QED BY <3>2 DEF NoScriptWaitsForNothing
  <2> QED BY <1>4, <1>5, <2>1 DEF HandlesClient, HandlesCommand, TurnsOff, RefusesReload
<1>6. ASSUME NEW c \in Clients, Asks(c)
      PROVE  NoScriptWaitsForNothing'
  BY <1>4, <1>6 DEF Asks
<1>7. CASE \E o \in finished : Completes(o)
  BY <1>4, <1>7 DEF Completes, Commits, FailsToMove, FailsToForward, Drops, Finishes
<1>8. CASE Restarts
  BY <1>8, RestartType, RestartedRun DEF NoScriptWaitsForNothing
<1>9. CASE UNCHANGED vars
  BY <1>4, <1>9 DEF vars
<1> QED BY <1>2, <1>3, <1>5, <1>6, <1>7, <1>8, <1>9 DEF Next

\* Every command a script waits for is with the daemon, to be answered whether
\* it is staged or refused, and also across a restart that leaves it behind.
THEOREM ScriptsWaitForAnswers == Spec => []NoScriptWaitsForNothing
<1>1. Init => TypeOK /\ NoScriptWaitsForNothing
  BY TypeInit DEF Init, NoScriptWaitsForNothing
<1>2. TypeOK /\ NoScriptWaitsForNothing /\ [Next]_vars => (TypeOK /\ NoScriptWaitsForNothing)'
  BY TypeStep, WaitsStep
<1> QED BY <1>1, <1>2, PTL DEF Spec

-----------------------------------------------------------------------------
(* Load ids *)

\* A run a command may still be handled for: its script has not ended, left a
\* call behind, or is the one in flight.
Speaks(r) ==
  \/ runs[r].phase # "ended"
  \/ \E k \in calls : k.run = r
  \/ load # Unset /\ load.run = r

\* The inductive strengthening: no two runs that still speak carry one id, and
\* none carries an id not issued yet.
ToldApart ==
  /\ \A r \in DOMAIN runs : Speaks(r) => runs[r].id <= issued
  /\ \A r, q \in DOMAIN runs : Speaks(r) /\ Speaks(q) /\ runs[r].id = runs[q].id => r = q

\* A step after which no other run speaks.
LEMMA NobodySpeaksUp ==
  ASSUME ToldApart, RunsKept, DOMAIN runs' = DOMAIN runs, issued' = issued,
         \A r \in DOMAIN runs : Speaks(r)' => Speaks(r)
  PROVE  ToldApart'
BY DEF ToldApart, RunsKept

\* A script sends a step, or ends.
LEMMA ScriptSpeaks ==
  ASSUME TypeOK, ToldApart, NEW r \in DOMAIN runs, ScriptStep(r)
  PROVE  ToldApart'
<1>0. \A q \in DOMAIN runs : runs[q] \in Started
  BY RunParts
<1>1. RunsKept
  BY ScriptType
<1>2. CASE Sends(r)
  <2>1. DOMAIN runs' = DOMAIN runs /\ issued' = issued /\ load' = load
        /\ calls' = calls \cup {[run |-> r, step |-> runs[r].next]}
        /\ \A q \in DOMAIN runs \ {r} : runs'[q] = runs[q]
    BY <1>2 DEF Sends
  <2>2. Speaks(r)
    BY <1>2 DEF Sends, Speaks
  <2>3. \A q \in DOMAIN runs : Speaks(q)' => Speaks(q)
    BY <2>1, <2>2 DEF Speaks
  <2> QED BY <1>1, <2>1, <2>3, NobodySpeaksUp
<1>3. ASSUME NEW outcome, Ends(r, outcome)
      PROVE  ToldApart'
  <2>1. DOMAIN runs' = DOMAIN runs /\ issued' = issued /\ load' = load /\ calls' = calls
        /\ \A q \in DOMAIN runs \ {r} : runs'[q] = runs[q]
    BY <1>3 DEF Ends
  <2>2. runs[r].phase # "ended"
    BY <1>3 DEF Ends
  <2>3. \A q \in DOMAIN runs : Speaks(q)' => Speaks(q)
    BY <2>1, <2>2 DEF Speaks
  <2> QED BY <1>1, <2>1, <2>3, NobodySpeaksUp
<1> QED BY <1>2, <1>3 DEF ScriptStep, Succeeds, Exits, NotRun, TimesOut

\* A call is handled.
LEMMA CallSpeaks ==
  ASSUME TypeOK, ToldApart, NEW k \in calls, HandlesCall(k)
  PROVE  ToldApart'
<1>1. RunsKept
  BY CallType
<1>2. DOMAIN runs' = DOMAIN runs /\ issued' = issued /\ calls' \subseteq calls
      /\ \A q \in DOMAIN runs : q # k.run => runs'[q] = runs[q]
  BY DEF HandlesCall
<1>3. /\ load = Unset <=> load' = Unset
      /\ load # Unset => load'.run = load.run
  BY CallCommand, MutatesParts DEF HandlesCall
<1>4. Speaks(k.run)
  BY DEF Speaks
<1>5. \A q \in DOMAIN runs : Speaks(q)' => Speaks(q)
  BY <1>2, <1>3, <1>4 DEF Speaks
<1> QED BY <1>1, <1>2, <1>5, NobodySpeaksUp

\* A reload starts a run under the next id.
LEMMA ReloadSpeaks ==
  ASSUME TypeOK, ToldApart, NEW c \in Clients, Reloads(c)
  PROVE  ToldApart'
<1> DEFINE n == Len(runs) + 1
<1>0. \A r \in DOMAIN runs : runs[r].id \in Nat
  BY RunParts DEF Started
<1>1. runs \in Seq(Started) /\ DOMAIN runs = 1..Len(runs) /\ n \notin DOMAIN runs
      /\ Len(runs) \in Nat /\ issued \in Nat
  BY DEF TypeOK
<1>2. /\ DOMAIN runs' = DOMAIN runs \cup {n}
      /\ \A r \in DOMAIN runs : runs'[r] = runs[r]
      /\ runs'[n].id = issued + 1 /\ issued' = issued + 1 /\ calls' = calls
      /\ load'.run = n
  BY <1>1 DEF Reloads
<1> HIDE DEF n
<1>3. \A r \in DOMAIN runs : Speaks(r)' => Speaks(r)
  BY <1>1, <1>2 DEF Speaks
<1>4. \A r \in DOMAIN runs' : Speaks(r)' => runs'[r].id <= issued'
  BY <1>0, <1>1, <1>2, <1>3 DEF ToldApart
<1>5. \A r \in DOMAIN runs : Speaks(r)' => runs'[r].id # runs'[n].id
  BY <1>0, <1>1, <1>2, <1>3 DEF ToldApart
<1>6. \A r, q \in DOMAIN runs' : Speaks(r)' /\ Speaks(q)' /\ runs'[r].id = runs'[q].id => r = q
  BY <1>2, <1>3, <1>5 DEF ToldApart
<1> QED BY <1>4, <1>6 DEF ToldApart

\* Any step under a supervisor leaves the runs that speak told apart by their ids.
LEMMA SpeaksStep ==
  ASSUME Supervised, TypeOK, ToldApart, [Next]_vars
  PROVE  ToldApart'
<1>0. RunsKept
  BY TypeStep
<1>1. CASE \E r \in DOMAIN runs : ScriptStep(r)
  BY <1>1, ScriptSpeaks
<1>2. CASE \E k \in calls : HandlesCall(k)
  BY <1>2, CallSpeaks
<1>3. ASSUME runs' = runs, calls' = calls, issued' = issued,
             load' # Unset => load # Unset /\ load'.run = load.run
      PROVE  ToldApart'
  BY <1>0, <1>3, NobodySpeaksUp DEF Speaks
<1>4. ASSUME NEW c \in Clients, HandlesClient(c)
      PROVE  ToldApart'
  <2>1. CASE HandlesCommand(c)
    <3>1. load' # Unset => load # Unset /\ load'.run = load.run
      BY <2>1, MutatesParts DEF HandlesCommand
    <3> QED BY <1>3, <2>1, <3>1 DEF HandlesCommand
  <2>2. CASE TurnsOff(c) \/ RefusesReload(c)
    BY <1>3, <2>2 DEF TurnsOff, RefusesReload
  <2> QED BY <1>4, <2>1, <2>2, ReloadSpeaks DEF HandlesClient
<1>5. ASSUME NEW c \in Clients, Asks(c)
      PROVE  ToldApart'
  BY <1>3, <1>5 DEF Asks
<1>6. CASE \E o \in finished : Completes(o)
  BY <1>3, <1>6 DEF Completes, Commits, FailsToMove, FailsToForward, Drops, Finishes
<1>7. CASE Restarts
  <2>1. load' = Unset /\ calls' = {} /\ DOMAIN runs' = DOMAIN runs
    BY <1>7, Zenon DEF Restarts
  <2>2. \A r \in DOMAIN runs : runs'[r].phase = "ended"
    BY <1>7, RestartedRun
  <2>3. \A r \in DOMAIN runs' : ~Speaks(r)'
    BY <2>1, <2>2 DEF Speaks
  <2> QED BY <2>3 DEF ToldApart
<1>8. CASE UNCHANGED vars
  BY <1>3, <1>8 DEF vars
<1> QED BY <1>1, <1>2, <1>4, <1>5, <1>6, <1>7, <1>8 DEF Next

\* What a step changes of the run in flight, a call of that run's script changes.
LEMMA StagedStep ==
  ASSUME TypeOK, CInv, ToldApart, [Next]_vars,
         load # Unset, load' # Unset, load'.run = load.run, load' # load
  PROVE  \E k \in calls \ calls' : k.run = load.run
<1>1. ASSUME NEW k \in calls, HandlesCall(k)
      PROVE  k \in calls \ calls' /\ k.run = load.run
  <2>1. runs[k.run].id = load.id
    BY <1>1, CallCommand, MutatesParts DEF HandlesCall
  <2>2. k.run \in DOMAIN runs
    BY <1>1 DEF TypeOK
  <2>3. load.run \in DOMAIN runs /\ runs[load.run].id = load.id
    BY DEF CInv, LoadStarted
  <2>4. Speaks(k.run) /\ Speaks(load.run)
    BY <1>1 DEF Speaks
  <2>5. k.run = load.run
    BY <2>1, <2>2, <2>3, <2>4 DEF ToldApart
  <2> QED BY <1>1, <2>5 DEF HandlesCall
<1>2. ASSUME NEW c \in Clients, HandlesClient(c)
      PROVE  FALSE
  <2>1. ~HandlesCommand(c)
    <3> SUFFICES ASSUME HandlesCommand(c) PROVE FALSE
      OBVIOUS
    <3>1. Unset = load.id
      BY MutatesParts DEF HandlesCommand
    <3>2. load.id \in Nat
      BY DEF TypeOK, Loaded
    <3> QED BY <3>1, <3>2, UnsetAssumption
  <2> QED BY <1>2, <2>1 DEF HandlesClient, TurnsOff, RefusesReload, Reloads
<1>3. ~ \E r \in DOMAIN runs : ScriptStep(r)
  BY DEF ScriptStep, Sends, Succeeds, Exits, NotRun, TimesOut, Ends
<1>4. ~ \E c \in Clients : Asks(c)
  BY DEF Asks
<1>5. ~ \E o \in finished : Completes(o)
  BY DEF Completes, Commits, FailsToMove, FailsToForward, Drops, Finishes
<1>6. ~Restarts
  BY Zenon DEF Restarts
<1>7. load' = load \/ Next
  BY DEF vars
<1> QED BY <1>1, <1>2, <1>3, <1>4, <1>5, <1>6, <1>7 DEF Next

\* While a daemon's death takes its scripts with it, nothing is staged for a run
\* but by its own script or what that left behind: neither a client, nor the late
\* command of a run that ended, nor a script of an earlier daemon reaches it.
THEOREM RunsStageTheirOwn ==
  ASSUME Supervised
  PROVE  Spec => StagedByItsRun
<1>1. Init => TypeOK /\ CInv /\ ToldApart
  BY TypeInit DEF Init, CInv, LoadStarted, WatchedInFlight, OneCompletion,
                  CompletionIsOfItsRun, ToldApart
<1>2. TypeOK /\ CInv /\ ToldApart /\ [Next]_vars => (TypeOK /\ CInv /\ ToldApart)'
  BY TypeStep, CStep, SpeaksStep
<1>3. TypeOK /\ CInv /\ ToldApart /\ [Next]_vars
        => [load # Unset /\ load' # Unset /\ load'.run = load.run /\ load' # load
              => \E k \in calls \ calls' : k.run = load.run]_vars
  BY StagedStep
<1> QED BY <1>1, <1>2, <1>3, PTL DEF Spec, StagedByItsRun

-----------------------------------------------------------------------------
(* Loads are atomic: the orders a script's steps take effect in *)

\* An order in which the steps of a set took effect, each once and none before a
\* step its script waited for.
Ordered(script, steps, order) ==
  /\ order \in Seq(Nat)
  /\ \A i \in DOMAIN order : order[i] \in steps
  /\ \A k \in steps : \E i \in DOMAIN order : order[i] = k
  /\ \A i, j \in DOMAIN order : order[i] = order[j] => i = j
  /\ \A i, j \in DOMAIN order : script[order[i]].waited /\ order[i] < order[j] => i < j

\* What was staged after each of them, none of them refused.
Staged(script, order, stages, staged) ==
  /\ stages = [n \in 0..Len(order) |->
                 IF n = 0 THEN Nothing ELSE Applied(stages[n - 1], script[order[n]])]
  /\ \A n \in 1..Len(order) : ~Invalid(stages[n - 1], script[order[n]])
  /\ stages[Len(order)] = staged

\* Another step takes effect, none that was waited for after it.
LEMMA OrderGrows ==
  ASSUME NEW script, NEW steps, NEW order, Ordered(script, steps, order),
         NEW k \in Nat, k \notin steps, script[k].waited => \A j \in steps : j < k
  PROVE  Ordered(script, steps \cup {k}, Append(order, k))
<1> DEFINE n == Len(order)
           more == Append(order, k)
<1>1. n \in Nat /\ DOMAIN order = 1..n /\ order \in Seq(Nat)
  BY DEF Ordered
<1>2. /\ more \in Seq(Nat) /\ DOMAIN more = 1..(n + 1) /\ more[n + 1] = k
      /\ \A i \in 1..n : more[i] = order[i]
  BY <1>1
<1> HIDE DEF more, n
<1>3. \A i \in DOMAIN more : i = n + 1 \/ i \in DOMAIN order
  BY <1>1, <1>2
<1>4. \A i \in DOMAIN order : more[i] = order[i] /\ i \in DOMAIN more /\ i < n + 1
  BY <1>1, <1>2
<1>5. \A i \in DOMAIN order : order[i] \in steps /\ order[i] \in Nat
  BY <1>1 DEF Ordered
<1>6. \A i \in DOMAIN more : more[i] \in steps \cup {k}
  BY <1>2, <1>3, <1>4, <1>5
<1>7. \A m \in steps \cup {k} : \E i \in DOMAIN more : more[i] = m
  <2> SUFFICES ASSUME NEW m \in steps \cup {k}
               PROVE  \E i \in DOMAIN more : more[i] = m
    OBVIOUS
  <2>1. n + 1 \in DOMAIN more
    BY <1>1, <1>2
  <2>2. CASE m \in steps
    <3>1. PICK i \in DOMAIN order : order[i] = m
      BY <2>2 DEF Ordered
    <3> QED BY <1>4, <3>1
  <2> QED BY <1>2, <2>1, <2>2
<1>8. ASSUME NEW i \in DOMAIN more, NEW j \in DOMAIN more, more[i] = more[j]
      PROVE  i = j
  <2>1. CASE i \in DOMAIN order /\ j \in DOMAIN order
    BY <1>4, <1>8, <2>1 DEF Ordered
  <2> QED BY <1>2, <1>3, <1>4, <1>5, <1>8, <2>1
<1>9. ASSUME NEW i \in DOMAIN more, NEW j \in DOMAIN more,
             script[more[i]].waited, more[i] < more[j]
      PROVE  i < j
  <2>1. CASE i \in DOMAIN order /\ j \in DOMAIN order
    <3>1. script[order[i]].waited /\ order[i] < order[j]
      BY <1>4, <1>9, <2>1
    <3> QED BY <2>1, <3>1 DEF Ordered
  <2>2. CASE i = n + 1 /\ j \in DOMAIN order
    <3>1. script[k].waited /\ k < order[j] /\ order[j] \in steps
      BY <1>2, <1>4, <1>5, <1>9, <2>2
    <3>2. order[j] < k /\ order[j] \in Nat
      BY <1>5, <2>2, <3>1
    <3> QED BY <3>1, <3>2
  <2>3. CASE i \in DOMAIN order /\ j = n + 1
    BY <1>4, <2>3
  <2>4. CASE i = n + 1 /\ j = n + 1
    BY <1>2, <1>9, <2>4
  <2> QED BY <1>3, <2>1, <2>2, <2>3, <2>4
<1>10. more \in Seq(Nat)
  BY <1>2
<1>11. Ordered(script, steps \cup {k}, more)
  BY <1>6, <1>7, <1>8, <1>9, <1>10, Zenon DEF Ordered
<1> QED BY <1>11 DEF more

\* One more stage.
Grown(stages, n, x) == [m \in 0..n |-> IF m = n THEN x ELSE stages[m]]

\* A step that is not refused is staged.
LEMMA StagesGrow ==
  ASSUME NEW script, NEW order \in Seq(Nat), NEW stages, NEW staged,
         Staged(script, order, stages, staged),
         NEW k \in Nat, ~Invalid(staged, script[k])
  PROVE  Staged(script, Append(order, k),
                Grown(stages, Len(order) + 1, Applied(staged, script[k])),
                Applied(staged, script[k]))
<1> DEFINE n == Len(order)
           more == Append(order, k)
           x == Applied(staged, script[k])
           grown == Grown(stages, n + 1, x)
<1>1. n \in Nat /\ DOMAIN order = 1..n
  OBVIOUS
<1>2. Len(more) = n + 1 /\ more[n + 1] = k /\ \A i \in 1..n : more[i] = order[i]
  BY <1>1
<1> HIDE DEF more, n
<1>3. grown[n + 1] = x /\ \A m \in 0..n : grown[m] = stages[m]
  <2>1. \A m \in 0..n : m \in 0..(n + 1) /\ m # n + 1
    BY <1>1
  <2>2. n + 1 \in 0..(n + 1)
    BY <1>1
  <2> HIDE DEF x
  <2> QED BY <2>1, <2>2 DEF Grown
<1>4. stages[n] = staged /\ n \in 0..n
  BY <1>1 DEF Staged, n
<1>5. ASSUME NEW m \in 0..(n + 1)
      PROVE  grown[m] = IF m = 0 THEN Nothing ELSE Applied(grown[m - 1], script[more[m]])
  <2>1. CASE m = n + 1
    <3>1. m # 0 /\ m - 1 = n
      BY <1>1, <2>1
    <3> QED BY <1>2, <1>3, <1>4, <2>1, <3>1
  <2>2. CASE m \in 0..n
    <3>1. stages[m] = IF m = 0 THEN Nothing ELSE Applied(stages[m - 1], script[order[m]])
      BY <2>2 DEF Staged, n
    <3>2. m # 0 => m - 1 \in 0..n /\ m \in 1..n
      BY <1>1, <2>2
    <3> QED BY <1>2, <1>3, <2>2, <3>1, <3>2
  <2> QED BY <1>1, <2>1, <2>2
<1>6. grown = [m \in 0..(n + 1) |-> grown[m]]
  BY DEF Grown
<1>7. grown = [m \in 0..(n + 1) |->
                 IF m = 0 THEN Nothing ELSE Applied(grown[m - 1], script[more[m]])]
  <2> HIDE DEF grown
  <2> QED BY <1>5, <1>6
<1>8. ASSUME NEW m \in 1..(n + 1)
      PROVE  ~Invalid(grown[m - 1], script[more[m]])
  <2>1. CASE m = n + 1
    <3>1. m - 1 = n
      BY <1>1, <2>1
    <3> QED BY <1>2, <1>3, <1>4, <2>1, <3>1
  <2>2. CASE m \in 1..n
    <3>1. ~Invalid(stages[m - 1], script[order[m]])
      BY <2>2 DEF Staged, n
    <3>2. m - 1 \in 0..n
      BY <1>1, <2>2
    <3> QED BY <1>2, <1>3, <2>2, <3>1, <3>2
  <2> QED BY <1>1, <2>1, <2>2
<1> HIDE DEF grown, x
<1>9. Staged(script, more, grown, x)
  BY <1>2, <1>3, <1>7, <1>8 DEF Staged
<1> QED BY <1>9 DEF more, n, x, grown

\* A function that goes through the stages of a script taken in an order.
StagesOf(script, order, f) ==
  f = [n \in 0..Len(order) |->
         IF n = 0 THEN Nothing ELSE Applied(f[n - 1], script[order[n]])]

\* There is one such function.
LEMMA StagesAreOne ==
  ASSUME NEW script, NEW order \in Seq(Nat), NEW f, NEW g,
         StagesOf(script, order, f), StagesOf(script, order, g)
  PROVE  f = g
<1> DEFINE to == Len(order)
           fails == {n \in 0..to : f[n] # g[n]}
           R == OpToRel(<, Nat)
<1>1. to \in Nat
  OBVIOUS
<1>2. /\ f = [n \in 0..to |-> f[n]] /\ g = [n \in 0..to |-> g[n]]
      /\ \A n \in 0..to : f[n] = IF n = 0 THEN Nothing ELSE Applied(f[n - 1], script[order[n]])
      /\ \A n \in 0..to : g[n] = IF n = 0 THEN Nothing ELSE Applied(g[n - 1], script[order[n]])
  BY DEF StagesOf
<1> HIDE DEF to
<1>3. fails = {}
  <2> SUFFICES ASSUME fails # {} PROVE FALSE
    OBVIOUS
  <2>1. fails \subseteq Nat
    BY <1>1
  <2>2. \A i, j \in Nat : i < j => <<i, j>> \in R
    BY DEF OpToRel
  <2>3. PICK m \in fails : \A j \in fails : ~(<<j, m>> \in R)
    <3>1. IsWellFoundedOn(R, Nat)
      BY NatLessThanWellFounded
    <3> HIDE DEF R, fails
    <3> QED BY <2>1, <3>1, WFMin
  <2> HIDE DEF R
  <2>4. m \in 0..to /\ f[m] # g[m]
    OBVIOUS
  <2>5. m # 0
    BY <1>2, <2>4
  <2>6. m - 1 \in 0..to /\ m - 1 \in Nat /\ m \in Nat /\ m - 1 < m
    BY <1>1, <2>4, <2>5
  <2>7. m - 1 \notin fails
    BY <2>2, <2>3, <2>6
  <2>8. f[m - 1] = g[m - 1]
    BY <2>6, <2>7
  <2> QED BY <1>2, <2>4, <2>5, <2>8
<1>4. \A n \in 0..to : f[n] = g[n]
  BY <1>3
<1> QED BY <1>2, <1>4

\* They are what the abstract load goes through.
LEMMA StagesAgree ==
  ASSUME NEW script, NEW order \in Seq(Nat), NEW f, StagesOf(script, order, f)
  PROVE  Atomic!Stages(script, order) = f
<1> DEFINE g == CHOOSE h : StagesOf(script, order, h)
<1>1. Atomic!Stages(script, order) = g
  BY DEF Atomic!Stages, Atomic!Nothing, Atomic!Applied, StagesOf, Nothing, Applied
<1>2. StagesOf(script, order, g)
  <2> HIDE DEF StagesOf
  <2> QED OBVIOUS
<1> HIDE DEF g
<1> QED BY <1>1, <1>2, StagesAreOne

\* An order in which no step of a script is missing that it waited for is one the
\* abstract load may take.
LEMMA OrderTaken ==
  ASSUME NEW script \in Seq(Steps), NEW steps \in SUBSET DOMAIN script, NEW order,
         Ordered(script, steps, order),
         \A k \in DOMAIN script : script[k].waited => k \in steps
  PROVE  order \in Atomic!Orders(script)
<1> DEFINE n == Len(order)
           to == Len(script)
           waited == {k \in DOMAIN script : script[k].waited}
<1>1. n \in Nat /\ DOMAIN order = 1..n /\ to \in Nat /\ DOMAIN script = 1..to
      /\ order \in Seq(Nat)
  BY DEF Ordered
<1> HIDE DEF n, to
<1>2. order \in [1..n -> 1..to]
  <2>1. \A i \in 1..n : order[i] \in 1..to
    BY <1>1 DEF Ordered
  <2>2. order = [i \in 1..n |-> order[i]]
    BY <1>1
  <2> QED BY <2>1, <2>2
<1>3. n <= to
  <2> SUFFICES ASSUME n > to PROVE FALSE
    BY <1>1
  <2>1. IsFiniteSet(1..n) /\ Cardinality(1..n) = n
    BY <1>1, FS_Interval
  <2>2. IsFiniteSet(1..to) /\ Cardinality(1..to) = to
    BY <1>1, FS_Interval
  <2>3. Cardinality(1..to) < Cardinality(1..n)
    BY <1>1, <2>1, <2>2
  <2>4. \E i, j \in 1..n : i # j /\ order[i] = order[j]
    BY <1>2, <2>1, <2>2, <2>3, FS_PigeonHole
  <2> QED BY <1>1, <2>4 DEF Ordered
<1>4. order \in UNION {[1..m -> DOMAIN script] : m \in 0..to}
  <2>1. n \in 0..to /\ order \in [1..n -> DOMAIN script]
    BY <1>1, <1>2, <1>3
  <2> QED BY <2>1
<1>5. \A i, j \in DOMAIN order : order[i] = order[j] => i = j
  BY DEF Ordered
<1>6. \A k \in waited : \E i \in DOMAIN order : order[i] = k
  BY DEF Ordered
<1>7. \A i, j \in DOMAIN order : order[i] \in waited /\ order[i] < order[j] => i < j
  BY DEF Ordered
<1> QED BY <1>4, <1>5, <1>6, <1>7 DEF Atomic!Orders, to

-----------------------------------------------------------------------------
(* Loads are atomic: what a run in flight has staged *)

\* The steps of a script that were sent and handled.
Handled(r) == {k \in 1..(runs[r].next - 1) : [run |-> r, step |-> k] \notin calls}

\* A run that has not failed has staged all of its steps that were handled.
StagesAll ==
  load # Unset /\ load.failed = Unset =>
    \E order, stages : /\ Ordered(ScriptOf(load.run), Handled(load.run), order)
                       /\ Staged(ScriptOf(load.run), order, stages, load.staged)

\* A step a script waits for is the last it sent.
WaitsForLast ==
  \A k \in calls : StepOf(k).waited =>
    runs[k.run].phase # "running" /\ k.step = runs[k.run].next - 1

\* No script sends more than it has.
SendsItsOwn == \A r \in DOMAIN runs : runs[r].next \in 1..(Len(ScriptOf(r)) + 1)

\* A script that succeeded has sent everything and waits for nothing.
SucceedsAtItsEnd ==
  \A o \in finished : o.outcome = "succeeded" =>
    /\ runs[o.run].next \notin DOMAIN ScriptOf(o.run)
    /\ \A k \in calls : k.run = o.run => ~StepOf(k).waited

\* The inductive strengthening.
AInv == StagesAll /\ WaitsForLast /\ SendsItsOwn /\ SucceedsAtItsEnd

\* A step that leaves alone what was handled of the run in flight, and its load.
LEMMA StagesStand ==
  ASSUME TypeOK, CInv, AInv, RunsKept, load' = load,
         load # Unset => Handled(load.run)' = Handled(load.run)
  PROVE  StagesAll'
<1> SUFFICES ASSUME load # Unset, load.failed = Unset
             PROVE  \E order, stages :
                      /\ Ordered(ScriptOf(load.run)', Handled(load.run), order)
                      /\ Staged(ScriptOf(load.run)', order, stages, load.staged)
  BY DEF StagesAll
<1>1. ScriptOf(load.run)' = ScriptOf(load.run)
  BY DEF RunsKept, ScriptOf, CInv, LoadStarted
<1> QED BY <1>1 DEF AInv, StagesAll

\* A script sends a step: it is not handled yet.
LEMMA SendsStages ==
  ASSUME TypeOK, CInv, AInv, NEW r \in DOMAIN runs, Sends(r)
  PROVE  AInv'
<1> DEFINE p == IF ScriptOf(r)[runs[r].next].waited THEN "waiting" ELSE runs[r].phase
           n == runs[r].next
           k == [run |-> r, step |-> n]
<1>0. RunsKept
  BY ScriptType DEF ScriptStep
<1>1. runs[r] \in Started /\ n \in Nat /\ n \in DOMAIN ScriptOf(r) /\ runs[r].phase = "running"
      /\ ScriptOf(r) \in Seq(Steps) /\ DOMAIN ScriptOf(r) = 1..Len(ScriptOf(r))
      /\ Len(ScriptOf(r)) \in Nat
  BY RunParts DEF Started, Sends
<1>2. runs' = [runs EXCEPT ![r] = [runs[r] EXCEPT !.next = @ + 1, !.phase = p]]
  BY DEF Sends
<1>3. calls' = calls \cup {k} /\ load' = load /\ finished' = finished
  BY DEF Sends
<1> HIDE DEF p
<1>4. /\ DOMAIN runs' = DOMAIN runs
      /\ runs'[r].next = n + 1 /\ runs'[r].phase = p
      /\ \A q \in DOMAIN runs \ {r} : runs'[q] = runs[q]
  BY <1>1, <1>2 DEF Started
<1>5. \A q \in DOMAIN runs : ScriptOf(q)' = ScriptOf(q)
  BY <1>0 DEF RunsKept, ScriptOf
<1> HIDE DEF n, k
<1>6. ASSUME NEW q \in DOMAIN runs
      PROVE  Handled(q)' = Handled(q)
  <2>1. CASE q = r
    <3>1. \A m \in 1..n : m \in 1..(n - 1) \/ m = n
      BY <1>1
    <3>2. \A m \in 1..(n - 1) : m \in 1..n /\ m # n /\ [run |-> r, step |-> m] # k
      BY <1>1 DEF k
    <3>3. (n + 1) - 1 = n
      BY <1>1
    <3>4. Handled(r)' = {m \in 1..n : [run |-> r, step |-> m] \notin calls'}
      BY <1>4, <3>3 DEF Handled
    <3>5. Handled(r) = {m \in 1..(n - 1) : [run |-> r, step |-> m] \notin calls}
      BY DEF Handled, n
    <3>6. [run |-> r, step |-> n] \in calls'
      BY <1>3 DEF k
    <3> QED BY <1>3, <2>1, <3>1, <3>2, <3>4, <3>5, <3>6
  <2>2. CASE q # r
    <3>1. \A m : [run |-> q, step |-> m] # k
      BY <2>2 DEF k
    <3>2. runs'[q] = runs[q]
      BY <1>4, <2>2
    <3> QED BY <1>3, <3>1, <3>2 DEF Handled
  <2> QED BY <2>1, <2>2
<1>7. StagesAll'
  BY <1>0, <1>3, <1>6, StagesStand DEF CInv, LoadStarted
<1>8. WaitsForLast'
  <2> SUFFICES ASSUME NEW c \in calls', StepOf(c)'.waited
               PROVE  runs'[c.run].phase # "running" /\ c.step = runs'[c.run].next - 1
    BY DEF WaitsForLast
  <2>1. CASE c = k
    <3>1. c.run = r /\ c.step = n
      BY <2>1 DEF k
    <3>2. ScriptOf(r)[n].waited
      BY <1>5, <3>1 DEF StepOf
    <3>3. p = "waiting"
      BY <3>2 DEF p, n
    <3> QED BY <1>1, <1>4, <3>1, <3>3
  <2>2. CASE c \in calls
    <3>1. c.run \in DOMAIN runs
      BY <2>2 DEF TypeOK
    <3>2. StepOf(c).waited
      BY <1>5, <3>1 DEF StepOf
    <3>3. runs[c.run].phase # "running" /\ c.step = runs[c.run].next - 1
      BY <2>2, <3>2 DEF AInv, WaitsForLast
    <3>4. c.run # r
      BY <1>1, <3>3
    <3> QED BY <1>4, <3>1, <3>3, <3>4
  <2> QED BY <1>3, <2>1, <2>2
<1>9. SendsItsOwn'
  <2> SUFFICES ASSUME NEW q \in DOMAIN runs
               PROVE  runs'[q].next \in 1..(Len(ScriptOf(q)) + 1)
    BY <1>4, <1>5 DEF SendsItsOwn
  <2>1. CASE q = r
    BY <1>1, <1>4, <2>1
  <2>2. CASE q # r
    BY <1>4, <2>2 DEF AInv, SendsItsOwn
  <2> QED BY <2>1, <2>2
<1>10. SucceedsAtItsEnd'
  <2> SUFFICES ASSUME NEW o \in finished, o.outcome = "succeeded"
               PROVE  /\ runs'[o.run].next \notin DOMAIN ScriptOf(o.run)'
                      /\ \A c \in calls' : c.run = o.run => ~StepOf(c)'.waited
    BY <1>3 DEF SucceedsAtItsEnd
  <2>1. /\ runs[o.run].next \notin DOMAIN ScriptOf(o.run)
        /\ \A c \in calls : c.run = o.run => ~StepOf(c).waited
    BY DEF AInv, SucceedsAtItsEnd
  <2>2. o.run # r /\ o.run \in DOMAIN runs
    BY <1>1, <2>1 DEF n, CInv, CompletionIsOfItsRun, LoadStarted
  <2>3. \A c \in calls' : c.run = o.run => c \in calls
    BY <1>3, <2>2 DEF k
  <2>4. \A c \in calls : StepOf(c)' = StepOf(c)
    BY <1>5 DEF StepOf, TypeOK
  <2> QED BY <1>4, <1>5, <2>1, <2>2, <2>3, <2>4
<1> QED BY <1>7, <1>8, <1>9, <1>10 DEF AInv

\* A script ends: by itself only when it has nothing left to send or wait for.
LEMMA EndsStages ==
  ASSUME TypeOK, CInv, AInv, NEW r \in DOMAIN runs, NEW outcome, Ends(r, outcome), RunsKept,
         outcome = "succeeded" => Succeeds(r)
  PROVE  AInv'
<1>1. \A q \in DOMAIN runs : runs[q] \in Started
  BY RunParts
<1>2. /\ DOMAIN runs' = DOMAIN runs /\ load' = load /\ calls' = calls
      /\ \A q \in DOMAIN runs : runs'[q].next = runs[q].next
      /\ \A q \in DOMAIN runs : runs'[q].phase = "running" => runs[q].phase = "running"
  BY <1>1 DEF Ends, Started
<1>3. \A q \in DOMAIN runs : ScriptOf(q)' = ScriptOf(q) /\ Handled(q)' = Handled(q)
  BY <1>2 DEF RunsKept, ScriptOf, Handled
<1>4. \A c \in calls : c.run \in DOMAIN runs /\ StepOf(c)' = StepOf(c)
  BY <1>3 DEF TypeOK, StepOf
<1>5. StagesAll'
  BY <1>2, <1>3, StagesStand DEF CInv, LoadStarted
<1>6. WaitsForLast'
  BY <1>2, <1>4 DEF WaitsForLast, AInv
<1>7. SendsItsOwn'
  BY <1>2, <1>3 DEF SendsItsOwn, AInv
<1>8. SucceedsAtItsEnd'
  <2> SUFFICES ASSUME NEW o \in finished', o.outcome = "succeeded"
               PROVE  /\ runs'[o.run].next \notin DOMAIN ScriptOf(o.run)'
                      /\ \A c \in calls : c.run = o.run => ~StepOf(c)'.waited
    BY <1>2 DEF SucceedsAtItsEnd
  <2>1. CASE o \in finished
    <3>1. o.run \in DOMAIN runs
      BY <2>1 DEF CInv, CompletionIsOfItsRun, LoadStarted
    <3> QED BY <1>2, <1>3, <1>4, <2>1, <3>1 DEF AInv, SucceedsAtItsEnd
  <2>2. CASE o \notin finished
    <3>1. o = [run |-> r, outcome |-> outcome]
      BY <2>2 DEF Ends
    <3>2. o.run = r /\ Succeeds(r)
      BY <3>1
    <3>3. runs[r].phase = "running" /\ runs[r].next \notin DOMAIN ScriptOf(r)
      BY <3>2 DEF Succeeds
    <3>4. \A c \in calls : c.run = r => ~StepOf(c).waited
      BY <3>3 DEF AInv, WaitsForLast
    <3> QED BY <1>2, <1>3, <1>4, <3>2, <3>3, <3>4
  <2> QED BY <2>1, <2>2
<1> QED BY <1>5, <1>6, <1>7, <1>8 DEF AInv

\* The run of a command that is staged is the run in flight.
LEMMA StagedIsItsRuns ==
  ASSUME TypeOK, CInv, ToldApart, NEW k \in calls, Target(runs[k.run].id) = "staged"
  PROVE  load # Unset /\ k.run = load.run
<1>1. load # Unset /\ runs[k.run].id = load.id
  BY DEF Target
<1>2. k.run \in DOMAIN runs
  BY DEF TypeOK
<1>3. load.run \in DOMAIN runs /\ runs[load.run].id = load.id
  BY <1>1 DEF CInv, LoadStarted
<1>4. Speaks(k.run) /\ Speaks(load.run)
  BY <1>1 DEF Speaks
<1> QED BY <1>1, <1>2, <1>3, <1>4 DEF ToldApart

\* A command handled for the run in flight is staged after what that staged, or
\* fails it.
LEMMA CallStages ==
  ASSUME TypeOK, CInv, ToldApart, AInv, NEW k \in calls, HandlesCall(k)
  PROVE  StagesAll'
<1>0. RunsKept
  BY CallType
<1>1. k \in [run : Nat, step : Nat] /\ k.run \in DOMAIN runs /\ k.step < runs[k.run].next
      /\ k.step \in DOMAIN ScriptOf(k.run) /\ k.step \in Nat
  BY DEF TypeOK
<1>2. \A q \in DOMAIN runs : runs'[q].next = runs[q].next /\ runs[q].next \in Nat
  <2>1. \A q \in DOMAIN runs : runs[q] \in Started
    BY RunParts
  <2> QED BY <2>1 DEF HandlesCall, Started
<1>3. calls' = calls \ {k} /\ Mutates(runs[k.run].id, StepOf(k))
  BY DEF HandlesCall
<1>4. CASE Target(runs[k.run].id) # "staged"
  <2>1. load' = load
    BY <1>3, <1>4 DEF Mutates
  <2>2. ASSUME load # Unset
        PROVE  Handled(load.run)' = Handled(load.run)
    <3>1. load.run \in DOMAIN runs /\ runs[load.run].id = load.id
      BY <2>2 DEF CInv, LoadStarted
    <3>2. runs[k.run].id # load.id
      BY <1>4, <2>2 DEF Target
    <3>3. \A m : [run |-> load.run, step |-> m] # k
      BY <3>1, <3>2
    <3> QED BY <1>2, <1>3, <2>1, <3>1, <3>3 DEF Handled
  <2> QED BY <1>0, <2>1, <2>2, StagesStand
<1>5. CASE Target(runs[k.run].id) = "staged"
  <2>1. load # Unset /\ k.run = load.run /\ load \in Loaded
    BY <1>5, StagedIsItsRuns DEF TypeOK
  <2>2. load' = StagedBy(StepOf(k))
    BY <1>3, <1>5 DEF Mutates
  <2>3. PICK d \in Commands : StepOf(k).op = d.op /\ StepOf(k).arg = d.arg
    BY CallCommand
  <2>4. CASE Invalid(load.staged, StepOf(k))
    <3>1. StepOf(k).op \in {"add_rule", "set_upstreams", "add_forward"}
      <4>1. d.op \in {"clear_rules", "set_listen"} => d.arg # Bad
        BY BadAssumption DEF Commands
      <4> QED BY <2>3, <2>4, <4>1 DEF Invalid, Commands
    <3>2. load'.failed # Unset
      BY <2>1, <2>2, <2>4, <3>1, UnsetAssumption DEF StagedBy, Loaded
    <3> QED BY <3>2 DEF StagesAll
  <2>5. CASE ~Invalid(load.staged, StepOf(k))
    <3>1. load'.run = load.run /\ load'.failed = load.failed
          /\ load'.staged = Applied(load.staged, StepOf(k)) /\ load' # Unset
      <4>1. PICK x : x = Applied(load.staged, StepOf(k))
        OBVIOUS
      <4>2. load' = [load EXCEPT !.staged = x]
        BY <2>2, <2>5, <4>1 DEF StagedBy
      <4>3. x \in Configs
        BY <2>1, <2>3, <2>5, <4>1, AppliedType DEF Loaded
      <4>4. load' \in Loaded /\ load'.run = load.run /\ load'.failed = load.failed
            /\ load'.staged = x
        BY <2>1, <4>2, <4>3 DEF Loaded
      <4> QED BY <4>1, <4>4, Absent
    <3> DEFINE r == load.run
               script == ScriptOf(r)
    <3>2. script' = script
      BY <1>0, <1>1, <2>1, <3>1 DEF RunsKept, ScriptOf
    <3>3. StepOf(k) = script[k.step]
      BY <2>1 DEF StepOf
    <3>4. k.step \notin Handled(r)
      <4>1. k = [run |-> k.run, step |-> k.step]
        BY <1>1
      <4> QED BY <2>1, <4>1 DEF Handled
    <3>5. Handled(r)' = Handled(r) \cup {k.step}
      <4>1. k = [run |-> r, step |-> k.step]
        BY <1>1, <2>1
      <4>2. \A m : [run |-> r, step |-> m] = k <=> m = k.step
        BY <4>1
      <4>3. k.step \in 1..(runs[r].next - 1)
        <5>1. k.step \in 1..Len(script) /\ runs[r].next \in Nat
          BY <1>1, <1>2, <2>1, RunParts
        <5> QED BY <1>1, <2>1, <5>1
      <4>4. runs'[r].next = runs[r].next
        BY <1>1, <1>2, <2>1
      <4>5. Handled(r)' = {m \in 1..(runs[r].next - 1) : [run |-> r, step |-> m] \notin calls'}
        BY <3>1, <4>4 DEF Handled
      <4> QED BY <1>3, <4>2, <4>3, <4>5 DEF Handled
    <3>6. script[k.step].waited => \A j \in Handled(r) : j < k.step
      <4> SUFFICES ASSUME script[k.step].waited, NEW j \in Handled(r)
                   PROVE  j < k.step
        OBVIOUS
      <4>1. k.step = runs[r].next - 1
        BY <2>1, <3>3 DEF AInv, WaitsForLast
      <4>2. j \in 1..k.step /\ j # k.step
        BY <3>4, <4>1 DEF Handled
      <4> QED BY <1>1, <4>2
    <3> HIDE DEF script, r
    <3> SUFFICES ASSUME load.failed = Unset
                 PROVE  \E order, stages :
                          /\ Ordered(script, Handled(r)', order)
                          /\ Staged(script, order, stages, load'.staged)
      BY <3>1, <3>2 DEF StagesAll, script, r
    <3>7. PICK order, stages : /\ Ordered(script, Handled(r), order)
                               /\ Staged(script, order, stages, load.staged)
      BY <2>1 DEF AInv, StagesAll, script, r
    <3>8. Ordered(script, Handled(r) \cup {k.step}, Append(order, k.step))
      BY <1>1, <3>4, <3>6, <3>7, OrderGrows
    <3>9. order \in Seq(Nat)
      BY <3>7 DEF Ordered
    <3>10. \E grown : Staged(script, Append(order, k.step), grown,
                             Applied(load.staged, script[k.step]))
      BY <1>1, <2>5, <3>3, <3>7, <3>9, StagesGrow
    <3> QED BY <3>1, <3>3, <3>5, <3>8, <3>10
  <2> QED BY <2>4, <2>5
<1> QED BY <1>4, <1>5

\* The rest of what a call keeps.
LEMMA CallAtomic ==
  ASSUME TypeOK, CInv, ToldApart, AInv, NEW k \in calls, HandlesCall(k)
  PROVE  AInv'
<1>0. RunsKept
  BY CallType
<1>1. k \in [run : Nat, step : Nat] /\ k.run \in DOMAIN runs
  BY DEF TypeOK
<1>2. /\ DOMAIN runs' = DOMAIN runs /\ calls' = calls \ {k} /\ finished' = finished
      /\ \A q \in DOMAIN runs : runs'[q].next = runs[q].next
      /\ \A q \in DOMAIN runs : q # k.run => runs'[q] = runs[q]
  <2>1. \A q \in DOMAIN runs : runs[q] \in Started
    BY RunParts
  <2> QED BY <2>1 DEF HandlesCall, Started
<1>3. \A q \in DOMAIN runs : ScriptOf(q)' = ScriptOf(q)
  BY <1>0 DEF RunsKept, ScriptOf
<1>4. \A c \in calls : /\ c \in [run : Nat, step : Nat] /\ c.run \in DOMAIN runs
                       /\ StepOf(c)' = StepOf(c)
  BY <1>3 DEF TypeOK, StepOf
<1>5. WaitsForLast'
  <2> SUFFICES ASSUME NEW c \in calls', StepOf(c)'.waited
               PROVE  runs'[c.run].phase # "running" /\ c.step = runs'[c.run].next - 1
    BY DEF WaitsForLast
  <2>1. c \in calls /\ c # k /\ StepOf(c).waited
    BY <1>2, <1>4
  <2>2. runs[c.run].phase # "running" /\ c.step = runs[c.run].next - 1
    BY <2>1 DEF AInv, WaitsForLast
  <2>3. CASE c.run # k.run
    BY <1>2, <1>4, <2>1, <2>2, <2>3
  <2>4. CASE c.run = k.run
    <3>1. c.step # k.step /\ c.step \in Nat /\ k.step \in Nat
      BY <1>1, <1>4, <2>1, <2>4
    <3>2. runs[k.run].next \in Nat
      BY <1>1, RunParts DEF Started
    <3>3. runs[k.run].next # k.step + 1
      BY <2>2, <2>4, <3>1, <3>2
    <3>4. runs' = runs
      BY <3>3 DEF HandlesCall
    <3> QED BY <2>2, <3>4
  <2> QED BY <2>3, <2>4
<1>6. SendsItsOwn'
  BY <1>2, <1>3 DEF AInv, SendsItsOwn
<1>7. SucceedsAtItsEnd'
  <2>1. \A o \in finished : o.run \in DOMAIN runs
    BY DEF CInv, CompletionIsOfItsRun, LoadStarted
  <2> QED BY <1>2, <1>3, <1>4, <2>1 DEF AInv, SucceedsAtItsEnd
<1> QED BY <1>5, <1>6, <1>7, CallStages DEF AInv

\* A reload starts a run that has sent and staged nothing.
LEMMA ReloadAtomic ==
  ASSUME TypeOK, CInv, AInv, NEW c \in Clients, Reloads(c)
  PROVE  AInv'
<1> DEFINE n == Len(runs) + 1
<1>1. runs \in Seq(Started) /\ n \in Nat /\ DOMAIN runs = 1..Len(runs) /\ n \notin DOMAIN runs
      /\ Len(runs) \in Nat
  BY DEF TypeOK
<1>2. /\ DOMAIN runs' = DOMAIN runs \cup {n}
      /\ \A r \in DOMAIN runs : runs'[r] = runs[r]
      /\ runs'[n].next = 1 /\ runs'[n].path \in DOMAIN Scripts
      /\ calls' = calls /\ finished' = finished
  BY <1>1 DEF Reloads
<1>3. finished = {}
  BY Zenon DEF Reloads, CInv, CompletionIsOfItsRun
<1>4. load'.run = n /\ load'.staged = Nothing
  BY DEF Reloads
<1> HIDE DEF n
<1>5. \A r \in DOMAIN runs : ScriptOf(r)' = ScriptOf(r)
  BY <1>2 DEF ScriptOf
<1>6. \A k \in calls : k.run \in DOMAIN runs /\ StepOf(k)' = StepOf(k)
  BY <1>5 DEF TypeOK, StepOf
<1>7. StagesAll'
  <2> DEFINE order == <<>>
             script == ScriptOf(load.run)'
             stages == [m \in 0..0 |-> Nothing]
  <2>1. Handled(load.run)' = {}
    BY <1>2, <1>4 DEF Handled
  <2>2. Ordered(script, {}, order)
    BY DEF Ordered
  <2>3. Staged(script, order, stages, Nothing)
    <3>1. Len(order) = 0 /\ 0..0 = {0} /\ stages[0] = Nothing /\ 1..0 = {}
      OBVIOUS
    <3>2. stages = [m \in 0..0 |-> IF m = 0 THEN Nothing
                                   ELSE Applied(stages[m - 1], script[order[m]])]
      OBVIOUS
    <3> HIDE DEF stages, order, script
    <3> QED BY <3>1, <3>2 DEF Staged
  <2>4. load'.staged = Nothing
    BY <1>4
  <2> HIDE DEF stages, order
  <2> QED BY <2>1, <2>2, <2>3, <2>4 DEF StagesAll
<1>8. WaitsForLast'
  BY <1>2, <1>6 DEF AInv, WaitsForLast
<1>9. SendsItsOwn'
  <2>1. Len(ScriptOf(n)') \in Nat
    BY <1>2, ScriptsAssumption DEF ScriptOf
  <2> QED BY <1>2, <1>5, <2>1 DEF AInv, SendsItsOwn
<1>10. SucceedsAtItsEnd'
  BY <1>2, <1>3 DEF SucceedsAtItsEnd
<1> QED BY <1>7, <1>8, <1>9, <1>10 DEF AInv

\* A step after which no script has sent, staged or ended anything new.
LEMMA AtomicStands ==
  ASSUME TypeOK, CInv, AInv, runs' = runs, calls' = calls, finished' \in SUBSET finished,
         load' = load \/ load' = Unset
  PROVE  AInv'
<1>1. \A r : ScriptOf(r)' = ScriptOf(r) /\ Handled(r)' = Handled(r)
  BY DEF ScriptOf, Handled
<1>2. \A k : StepOf(k)' = StepOf(k)
  BY <1>1 DEF StepOf
<1>3. StagesAll'
  <2>1. CASE load' = load
    BY <1>1, <2>1 DEF AInv, StagesAll
  <2> QED BY <2>1 DEF StagesAll
<1>4. WaitsForLast' /\ SendsItsOwn' /\ SucceedsAtItsEnd'
  BY <1>1, <1>2 DEF AInv, WaitsForLast, SendsItsOwn, SucceedsAtItsEnd
<1> QED BY <1>3, <1>4 DEF AInv

\* Any step under a supervisor leaves the run in flight with what it handled.
LEMMA AtomicStep ==
  ASSUME Supervised, TypeOK, CInv, ToldApart, AInv, [Next]_vars
  PROVE  AInv'
<1>0. RunsKept
  BY TypeStep
<1>1. ASSUME NEW r \in DOMAIN runs, ScriptStep(r)
      PROVE  AInv'
  <2>1. CASE Succeeds(r)
    BY <1>0, <2>1, EndsStages DEF Succeeds
  <2>2. CASE Exits(r) \/ NotRun(r) \/ TimesOut(r)
    BY <1>0, <2>2, EndsStages DEF Exits, NotRun, TimesOut
  <2> QED BY <1>1, <2>1, <2>2, SendsStages DEF ScriptStep
<1>2. CASE \E k \in calls : HandlesCall(k)
  BY <1>2, CallAtomic
<1>3. ASSUME NEW c \in Clients, HandlesClient(c)
      PROVE  AInv'
  <2>1. CASE HandlesCommand(c)
    <3>1. load' = load
      <4>1. load' # load => Unset = load.id /\ load # Unset
        BY <2>1, MutatesParts DEF HandlesCommand
      <4> QED BY <4>1, UnsetAssumption DEF TypeOK, Loaded
    <3> QED BY <2>1, <3>1, AtomicStands DEF HandlesCommand
  <2>2. CASE TurnsOff(c) \/ RefusesReload(c)
    BY <2>2, AtomicStands DEF TurnsOff, RefusesReload
  <2> QED BY <1>3, <2>1, <2>2, ReloadAtomic DEF HandlesClient
<1>4. ASSUME NEW c \in Clients, Asks(c)
      PROVE  AInv'
  BY <1>4, AtomicStands DEF Asks
<1>5. ASSUME NEW o \in finished, Completes(o)
      PROVE  AInv'
  <2>1. Finishes(o)
    BY <1>5 DEF Completes, Commits, FailsToMove, FailsToForward, Drops
  <2> QED BY <2>1, AtomicStands DEF Finishes
<1>6. CASE Restarts
  <2>1. load' = Unset /\ calls' = {} /\ finished' = {}
    BY <1>6, Zenon DEF Restarts
  <2>2. DOMAIN runs' = DOMAIN runs
        /\ \A r \in DOMAIN runs : runs'[r].next = runs[r].next /\ runs'[r].path = runs[r].path
    BY <1>6, RestartType, RestartedRun
  <2>3. \A r \in DOMAIN runs : ScriptOf(r)' = ScriptOf(r)
    BY <2>2 DEF ScriptOf
  <2> QED BY <2>1, <2>2, <2>3
          DEF AInv, StagesAll, WaitsForLast, SendsItsOwn, SucceedsAtItsEnd
<1>7. CASE UNCHANGED vars
  BY <1>7, AtomicStands DEF vars
<1> QED BY <1>1, <1>2, <1>3, <1>4, <1>5, <1>6, <1>7 DEF Next

-----------------------------------------------------------------------------
(* Loads are atomic: every step is one of AtomicLoad, or none *)

\* The abstract specification edits and replaces configurations as this one does.
LEMMA SameEdits ==
  ASSUME NEW config, NEW c, NEW declared
  PROVE  /\ Atomic!Applied(config, c) = Applied(config, c)
         /\ Atomic!Invalid(config, c) <=> Invalid(config, c)
         /\ Atomic!Moved(config, declared) = Moved(config, declared)
         /\ Atomic!Replaced(config, declared) = Replaced(config, declared)
         /\ Atomic!Boot = Boot /\ Atomic!Commands = Commands
<1>1. Atomic!Applied(config, c) = Applied(config, c)
  BY DEF Atomic!Applied, Applied
<1>2. Atomic!Invalid(config, c) <=> Invalid(config, c)
  BY DEF Atomic!Invalid, Invalid
<1>3. \A x, y : Atomic!Moved(x, y) = Moved(x, y)
  BY DEF Atomic!Moved, Moved
<1>4. Atomic!Replaced(config, declared) = Replaced(config, declared)
  BY <1>3 DEF Atomic!Replaced, Replaced
<1>5. Atomic!Boot = Boot
  BY DEF Atomic!Boot, Boot, Atomic!Nothing, Nothing
<1>6. Atomic!Commands = Commands
  BY DEF Atomic!Commands, Commands
<1> QED BY <1>1, <1>2, <1>3, <1>4, <1>5, <1>6

\* While a run is in flight the script running is its own.
LEMMA FlightParts ==
  ASSUME TypeOK, CInv
  PROVE  /\ load = Unset => InFlight = Unset
         /\ load # Unset => /\ InFlight # Unset
                            /\ InFlight \in DOMAIN Scripts
                            /\ load.run \in DOMAIN runs
                            /\ ScriptOf(load.run) = Scripts[InFlight]
<1>1. CASE load # Unset
  <2>1. load.run \in DOMAIN runs
    BY <1>1 DEF CInv, LoadStarted
  <2>2. InFlight = runs[load.run].path
    BY <1>1 DEF InFlight
  <2>3. InFlight \in DOMAIN Scripts
    BY <2>1, <2>2, RunParts DEF Started
  <2>4. InFlight # Unset
    BY <2>3, UnsetAssumption DEF Paths
  <2> QED BY <1>1, <2>1, <2>2, <2>3, <2>4 DEF ScriptOf
<1> QED BY <1>1 DEF InFlight

\* The same run stays in flight, or none.
LEMMA FlightStands ==
  ASSUME TypeOK, CInv, RunsKept, load = Unset <=> load' = Unset,
         load # Unset => load'.run = load.run
  PROVE  InFlight' = InFlight
BY DEF InFlight, RunsKept, CInv, LoadStarted

\* A command edits the live configuration at once or leaves it alone.
LEMMA MutatesEdits ==
  ASSUME TypeOK, CInv, NEW id, NEW c, NEW d \in Commands, c.op = d.op, c.arg = d.arg,
         Mutates(id, c), InFlight' = InFlight
  PROVE  Atomic!Edit \/ UNCHANGED Atomic!vars
<1>1. CASE live' = live
  BY <1>1 DEF Atomic!vars
<1>2. CASE live' # live
  <2>1. Target(id) = "live" /\ ~Invalid(live, c) /\ live' = Applied(live, c)
    BY <1>2 DEF Mutates
  <2>2. load = Unset
    BY <2>1 DEF Target
  <2>3. Applied(live, c) = Applied(live, d) /\ ~Invalid(live, d)
    BY <2>1 DEF Applied, Invalid
  <2>4. d \in Atomic!Commands /\ ~Atomic!Invalid(live, d) /\ live' = Atomic!Applied(live, d)
    BY <2>1, <2>3, SameEdits
  <2> QED BY <2>2, <2>4, FlightParts DEF Atomic!Edit
<1> QED BY <1>1, <1>2

\* What a client's request does.
LEMMA ClientEdits ==
  ASSUME TypeOK, CInv, NEW c \in Clients, HandlesClient(c)
  PROVE  Atomic!Edit \/ Atomic!Begin \/ UNCHANGED Atomic!vars
<1>0. RunsKept
  BY ClientType
<1>1. CASE HandlesCommand(c)
  <2>1. /\ load = Unset <=> load' = Unset
        /\ load # Unset => load'.run = load.run
    BY <1>1, MutatesParts DEF HandlesCommand
  <2>2. InFlight' = InFlight
    BY <1>0, <2>1, FlightStands
  <2> QED BY <1>1, <2>2, MutatesEdits DEF HandlesCommand
<1>2. CASE TurnsOff(c)
  <2>1. InFlight' = InFlight
    BY <1>0, <1>2, FlightStands DEF TurnsOff
  <2>2. CASE load = Unset
    <3>1. PICK d : d = [op |-> "clear_rules", arg |-> Unset]
      OBVIOUS
    <3>2. d \in Commands /\ d.op = "clear_rules" /\ d.arg = Unset
      BY <3>1 DEF Commands
    <3>3. ~Invalid(live, d)
      BY <3>2, BadAssumption DEF Invalid
    <3>4. Applied(live, d) = [live EXCEPT !.rules = <<>>]
      BY <3>2, Zenon DEF Applied
    <3>5. live' = Applied(live, d)
      BY <1>2, <2>2, <3>4 DEF TurnsOff
    <3> QED BY <2>1, <2>2, <3>2, <3>3, <3>5, SameEdits, FlightParts DEF Atomic!Edit
  <2>3. CASE load # Unset
    BY <1>2, <2>1, <2>3 DEF TurnsOff, Atomic!vars
  <2> QED BY <2>2, <2>3
<1>3. CASE RefusesReload(c)
  <2>1. InFlight' = InFlight
    BY <1>0, <1>3, FlightStands DEF RefusesReload
  <2> QED BY <1>3, <2>1 DEF RefusesReload, Atomic!vars
<1>4. CASE Reloads(c)
  <2>1. TypeOK' /\ CInv'
    BY <1>4, ClientType, ReloadWatch
  <2>2. load' # Unset
    <3>1. load'.client = c /\ load' \in Loaded \cup {Unset}
      BY <1>4, <2>1 DEF Reloads, TypeOK
    <3>2. load' \in Loaded
      <4>1. load' = [id |-> issued + 1, run |-> Len(runs) + 1, client |-> c,
                     staged |-> Nothing, failed |-> Unset]
        BY <1>4 DEF Reloads
      <4>2. issued + 1 \in Nat /\ Len(runs) + 1 \in Nat
        BY DEF TypeOK
      <4> QED BY <4>1, <4>2, BootType DEF Loaded
    <3> QED BY <3>2, Absent
  <2>3. InFlight' \in DOMAIN Scripts
    <3>1. InFlight' = runs'[load'.run].path /\ load'.run \in DOMAIN runs'
      BY <2>1, <2>2 DEF InFlight, CInv, LoadStarted
    <3>2. runs'[load'.run] \in Started
      BY <2>1, <3>1, ElementOfSeq DEF TypeOK
    <3> QED BY <3>1, <3>2 DEF Started
  <2>4. live' = live /\ InFlight = Unset
    BY <1>4, FlightParts DEF Reloads
  <2> QED BY <2>3, <2>4 DEF Atomic!Begin
<1> QED BY <1>1, <1>2, <1>3, <1>4 DEF HandlesClient

\* A run that commits has declared its whole script, in an order of its steps.
LEMMA CommitIsWhole ==
  ASSUME TypeOK, CInv, AInv, NEW o \in finished, Commits(o)
  PROVE  Atomic!Commit
<1> DEFINE r == load.run
           script == ScriptOf(r)
<1>1. load # Unset /\ load.failed = Unset /\ o.outcome = "succeeded" /\ load' = Unset
      /\ live' = Replaced(live, load.staged)
  BY DEF Commits, Finishes, Viable
<1>2. r \in DOMAIN runs /\ o.run = r /\ script = Scripts[InFlight] /\ InFlight # Unset
  BY <1>1, FlightParts DEF CInv, CompletionIsOfItsRun
<1>3. InFlight' = Unset
  BY <1>1 DEF InFlight
<1>4. script \in Seq(Steps) /\ DOMAIN script = 1..Len(script) /\ Len(script) \in Nat
  BY <1>2, RunParts
<1>5. runs[r].next = Len(script) + 1
  <2>1. runs[r].next \in 1..(Len(script) + 1)
    BY <1>2 DEF AInv, SendsItsOwn
  <2>2. runs[r].next \notin DOMAIN script
    BY <1>1, <1>2 DEF AInv, SucceedsAtItsEnd
  <2> QED BY <1>4, <2>1, <2>2
<1>6. PICK order, stages : /\ Ordered(script, Handled(r), order)
                           /\ Staged(script, order, stages, load.staged)
  BY <1>1 DEF AInv, StagesAll
<1>7. Handled(r) = {k \in DOMAIN script : [run |-> r, step |-> k] \notin calls}
  BY <1>4, <1>5 DEF Handled
<1>8. \A k \in DOMAIN script : script[k].waited => k \in Handled(r)
  <2> SUFFICES ASSUME NEW k \in DOMAIN script, script[k].waited, k \notin Handled(r)
               PROVE  FALSE
    OBVIOUS
  <2>1. PICK c : c = [run |-> r, step |-> k]
    OBVIOUS
  <2>2. c \in calls /\ c.run = r /\ c.step = k
    BY <1>7, <2>1
  <2>3. StepOf(c).waited
    BY <2>2 DEF StepOf
  <2> QED BY <1>1, <1>2, <2>2, <2>3 DEF AInv, SucceedsAtItsEnd
<1> HIDE DEF script, r
<1>9. order \in Atomic!Orders(script)
  <2>1. Handled(r) \in SUBSET DOMAIN script
    BY <1>7
  <2> QED BY <1>4, <1>6, <1>8, <2>1, OrderTaken
<1>10. order \in Seq(Nat) /\ StagesOf(script, order, stages)
  BY <1>6 DEF Ordered, Staged, StagesOf
<1>11. Atomic!Stages(script, order) = stages
  BY <1>10, StagesAgree
<1>12. \A n \in DOMAIN order : ~Atomic!Invalid(stages[n - 1], script[order[n]])
  <2>1. DOMAIN order = 1..Len(order)
    BY <1>10
  <2> QED BY <1>6, <2>1, SameEdits DEF Staged
<1>13. live' = Atomic!Replaced(live, stages[Len(order)])
  BY <1>1, <1>6, SameEdits DEF Staged
<1> QED BY <1>2, <1>3, <1>9, <1>11, <1>12, <1>13 DEF Atomic!Commit

\* How a run ends.
LEMMA CompletionAtomic ==
  ASSUME TypeOK, CInv, AInv, NEW o \in finished, Completes(o)
  PROVE  Atomic!Commit \/ Atomic!Discard
<1>1. load # Unset /\ load' = Unset
  BY DEF Completes, Commits, FailsToMove, FailsToForward, Drops, Finishes
<1>2. InFlight # Unset /\ InFlight' = Unset
  BY <1>1, FlightParts DEF InFlight
<1>3. CASE live' = live
  BY <1>2, <1>3, DefaultPortAssumption DEF Atomic!Discard
<1>4. CASE FailsToForward(o)
  <2>1. live' = Moved(live, load.staged.listen)
    BY <1>4 DEF FailsToForward
  <2>2. load.staged.listen \in Ports \cup {Unset}
    BY <1>1 DEF TypeOK, Loaded, Configs
  <2>3. CASE load.staged.listen \in Ports
    BY <1>2, <2>1, <2>3, SameEdits DEF Atomic!Discard
  <2>4. CASE load.staged.listen = Unset
    <3>1. live' = live
      BY <2>1, <2>4 DEF Moved, TypeOK, Configs
    <3> QED BY <1>3, <3>1
  <2> QED BY <2>2, <2>3, <2>4
<1> QED BY <1>3, <1>4, CommitIsWhole DEF Completes, FailsToMove, Drops

\* Every step is a step of the abstract specification, or changes nothing of it.
LEMMA StepsAreAtomic ==
  ASSUME TypeOK, CInv, AInv, [Next]_vars
  PROVE  [Atomic!Next]_(Atomic!vars)
<1>0. RunsKept
  BY TypeStep
<1>1. ASSUME live' = live, load' = load
      PROVE  UNCHANGED Atomic!vars
  BY <1>0, <1>1, FlightStands DEF Atomic!vars
<1>2. CASE \E r \in DOMAIN runs : ScriptStep(r)
  BY <1>1, <1>2 DEF ScriptStep, Sends, Succeeds, Exits, NotRun, TimesOut, Ends
<1>3. ASSUME NEW k \in calls, HandlesCall(k)
      PROVE  [Atomic!Next]_(Atomic!vars)
  <2>1. PICK d \in Commands : StepOf(k).op = d.op /\ StepOf(k).arg = d.arg
    BY CallCommand
  <2>2. /\ load = Unset <=> load' = Unset
        /\ load # Unset => load'.run = load.run
    BY <1>3, <2>1, MutatesParts DEF HandlesCall
  <2>3. InFlight' = InFlight
    BY <1>0, <2>2, FlightStands
  <2>4. Atomic!Edit \/ UNCHANGED Atomic!vars
    BY <1>3, <2>1, <2>3, MutatesEdits DEF HandlesCall
  <2> QED BY <2>4 DEF Atomic!Next
<1>4. CASE \E c \in Clients : HandlesClient(c)
  BY <1>4, ClientEdits DEF Atomic!Next
<1>5. CASE \E c \in Clients : Asks(c)
  BY <1>1, <1>5 DEF Asks
<1>6. CASE \E o \in finished : Completes(o)
  BY <1>6, CompletionAtomic DEF Atomic!Next
<1>7. CASE Restarts
  <2>1. live' = Boot /\ load' = Unset
    BY <1>7, Zenon DEF Restarts
  <2>2. live' = Atomic!Boot /\ InFlight' = Unset
    BY <2>1, SameEdits DEF InFlight
  <2> QED BY <2>2 DEF Atomic!Next, Atomic!Restart
<1>8. CASE UNCHANGED vars
  BY <1>1, <1>8 DEF vars
<1> QED BY <1>2, <1>3, <1>4, <1>5, <1>6, <1>7, <1>8 DEF Next

\* Loads are atomic: while a daemon's death takes its scripts with it, what the
\* state task does with staging, ids, calls and completions is what a
\* configuration replaced at one instant, or left alone, would do.
THEOREM LoadsImplementAtomic ==
  ASSUME Supervised
  PROVE  Spec => LoadsAreAtomic
<1>1. Init => TypeOK /\ CInv /\ ToldApart /\ AInv
  BY TypeInit DEF Init, CInv, LoadStarted, WatchedInFlight, OneCompletion,
                  CompletionIsOfItsRun, ToldApart, AInv, StagesAll, WaitsForLast,
                  SendsItsOwn, SucceedsAtItsEnd
<1>2. TypeOK /\ CInv /\ ToldApart /\ AInv /\ [Next]_vars
        => (TypeOK /\ CInv /\ ToldApart /\ AInv)'
  BY TypeStep, CStep, SpeaksStep, AtomicStep
<1>3. Init => Atomic!Init
  BY SameEdits DEF Init, Atomic!Init, InFlight
<1>4. TypeOK /\ CInv /\ AInv /\ [Next]_vars => [Atomic!Next]_(Atomic!vars)
  BY StepsAreAtomic
<1> QED BY <1>1, <1>2, <1>3, <1>4, PTL DEF Spec, LoadsAreAtomic, Atomic!Spec
=============================================================================
