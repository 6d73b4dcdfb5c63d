-------------------------------- MODULE Loads --------------------------------
(***************************************************************************)
(* The state task of the daemon: commands that edit the live configuration *)
(* at once, init runs whose commands are told apart by the load id they    *)
(* carry and staged, and the end of a run, which commits the staging or    *)
(* drops it.                                                               *)
(* Source: src/nhop/src/daemon/ (state, staging, init_script).             *)
(*                                                                         *)
(* The state task handles one request or one completion at a time, so each *)
(* handler is one action.  Around it run, in any order: the scripts, the   *)
(* processes a script leaves behind without waiting for them, the clients  *)
(* at their terminals, and the task watching the script in flight.         *)
(* What a connection accepted during a commit sees of it is not here.      *)
(***************************************************************************)
EXTENDS Config, FiniteSets

CONSTANTS Scripts,       \* the script in the file at each path that has one
          DefaultPort,   \* where the front ends listen at first
          DefaultPath,   \* paths.init_file()
          Clients,       \* callers that are no script's process
          Booting,       \* the daemon's own first reload, one of Clients
          Requests,      \* what the other clients ask for
          Supervised,    \* whether a daemon that dies takes its scripts with it
          MaxRules,      \* bound: live rules up to which a client adds one
          MaxRuns,       \* bound: scripts started
          MaxRestarts    \* bound: times the daemon dies and is started again

Steps == {[op |-> c.op, arg |-> c.arg, waited |-> w] : c \in Commands, w \in BOOLEAN}

Paths == DOMAIN Scripts \cup {DefaultPath}

Outcomes == {"succeeded", "exited", "timed_out", "not_run"}

\* InFlight: the run in flight, what it staged, and the command it failed on.
Loaded == [id : Nat, run : Nat, client : Clients, staged : Configs,
           failed : {"add_rule", "set_upstreams", "add_forward", Unset}]

\* A script started: its file, its id, the next of its steps, whether it runs,
\* waits for an answer or has ended, and whether a daemon will learn of its end.
Started == [path : DOMAIN Scripts, id : Nat, next : Nat,
            phase : {"running", "waiting", "ended"}, watched : BOOLEAN]

\* off, and reload with a path or without one; `on` is a reload without one.
Asked == Commands \cup [op : {"off"}, arg : {Unset}] \cup [op : {"reload"}, arg : Paths \cup {Unset}]

ASSUME ScriptsAssumption == \A path \in DOMAIN Scripts : Scripts[path] \in Seq(Steps)
ASSUME DefaultPortAssumption == DefaultPort \in Ports
ASSUME RequestsAssumption == Requests \subseteq Asked /\ Booting \in Clients
ASSUME LoadsBoundsAssumption == {MaxRules, MaxRuns, MaxRestarts} \subseteq Nat /\ Supervised \in BOOLEAN
ASSUME UnsetAssumption ==
  /\ Unset \notin Lists \cup Ports \cup Paths \cup Nat
  /\ Unset \notin Asked
  /\ Unset \notin Loaded \cup {"add_rule", "set_upstreams", "add_forward"}

VARIABLES
  live,         \* the configuration serving traffic
  load,         \* the run in flight
  last,         \* how the last run ended, as `status` reports it
  issued,       \* the last load id
  remembered,   \* the path of the last script started
  runs,         \* every script started, in order
  calls,        \* commands of scripts sent and not handled yet
  finished,     \* completions the state task has not taken yet
  client,       \* what each client waits for an answer to
  restarts

vars == <<live, load, last, issued, remembered, runs, calls, finished, client, restarts>>

Boot == [Nothing EXCEPT !.listen = DefaultPort]

ScriptOf(r) == Scripts[runs[r].path]
StepOf(k) == ScriptOf(k.run)[k.step]

ReloadOf(path) == [op |-> "reload", arg |-> path]
Held == [op |-> "held", arg |-> Unset]

-----------------------------------------------------------------------------
(* Where a mutating command applies, and what it does there *)

\* Fault: whatever carries an id is staged while a run is in flight.
TargetAnyId(id) ==
  IF load = Unset THEN IF id = Unset THEN "live" ELSE "refused"
  ELSE IF id # Unset THEN "staged" ELSE "refused"

Target(id) ==
  IF load = Unset THEN IF id = Unset THEN "live" ELSE "refused"
  ELSE IF id = load.id THEN "staged" ELSE "refused"

\* The first command refused is kept; it fails the run whatever the exit status.
StagedBy(c) ==
  IF Invalid(load.staged, c)
  THEN [load EXCEPT !.failed = IF @ = Unset THEN c.op ELSE @]
  ELSE [load EXCEPT !.staged = Applied(@, c)]

\* Whether a live command has to open an address, which may fail.
Opens(c) ==
  \/ c.op = "set_listen" /\ c.arg # live.listen
  \/ c.op = "add_forward"

Mutates(id, c) ==
  LET target == Target(id)
      edited == IF Invalid(live, c) THEN live ELSE Applied(live, c)
  IN  /\ load' = IF target = "staged" THEN StagedBy(c) ELSE load
      /\ live' \in IF target = "live" THEN {edited} \cup (IF Opens(c) THEN {live} ELSE {})
                   ELSE {live}

-----------------------------------------------------------------------------
Init ==
  /\ live = Boot
  /\ load = Unset
  /\ last = Unset
  /\ issued = 0
  /\ remembered = DefaultPath
  /\ runs = <<>>
  /\ calls = {}
  /\ finished = {}
  /\ client = [c \in Clients |-> IF c = Booting THEN ReloadOf(Unset) ELSE Unset]
  /\ restarts = 0

-----------------------------------------------------------------------------
(* The scripts *)

\* The script sends its next command, and waits for the answer or goes on.
Sends(r) ==
  /\ runs[r].phase = "running"
  /\ runs[r].next \in DOMAIN ScriptOf(r)
  /\ calls' = calls \cup {[run |-> r, step |-> runs[r].next]}
  /\ runs' = [runs EXCEPT ![r].next = @ + 1,
                          ![r].phase = IF ScriptOf(r)[runs[r].next].waited THEN "waiting" ELSE @]
  /\ UNCHANGED <<live, load, last, issued, remembered, finished, client, restarts>>

\* Only the daemon that started a script learns how it ended.
Ends(r, outcome) ==
  /\ runs[r].phase # "ended"
  /\ runs' = [runs EXCEPT ![r].phase = "ended", ![r].watched = FALSE]
  /\ finished' = IF runs[r].watched THEN finished \cup {[run |-> r, outcome |-> outcome]}
                 ELSE finished
  /\ UNCHANGED <<live, load, last, issued, remembered, calls, client, restarts>>

\* At its last line the script exits zero: it need not stop at a refused command.
Succeeds(r) ==
  /\ runs[r].phase = "running"
  /\ runs[r].next \notin DOMAIN ScriptOf(r)
  /\ Ends(r, "succeeded")

\* It exits otherwise or is killed, wherever it stands.
Exits(r) == Ends(r, "exited")

\* The program cannot be started, or not be waited for and is killed.
NotRun(r) == runs[r].watched /\ Ends(r, "not_run")

\* Fault: the watching task ends with the script it killed.
TimesOutUnreported(r) ==
  /\ runs[r].watched
  /\ runs' = [runs EXCEPT ![r].phase = "ended", ![r].watched = FALSE]
  /\ UNCHANGED <<live, load, last, issued, remembered, calls, finished, client, restarts>>

\* LOAD_TIMEOUT runs out and the script is killed; what it had sent stays sent.
TimesOut(r) == runs[r].watched /\ Ends(r, "timed_out")

-----------------------------------------------------------------------------
(* The state task: requests *)

\* Fault: a command refused, there or in the staging, is not answered.
HandlesCallSilently(k) ==
  LET refused == Target(runs[k.run].id) = "refused" \/ Invalid(load.staged, StepOf(k)) IN
  /\ k \in calls
  /\ Mutates(runs[k.run].id, StepOf(k))
  /\ calls' = calls \ {k}
  /\ runs' = IF runs[k.run].phase = "waiting" /\ runs[k.run].next = k.step + 1 /\ ~refused
             THEN [runs EXCEPT ![k.run].phase = "running"] ELSE runs
  /\ UNCHANGED <<last, issued, remembered, finished, client, restarts>>

\* A command a script sent is handled, and the script that waits for it goes on.
HandlesCall(k) ==
  /\ k \in calls
  /\ Mutates(runs[k.run].id, StepOf(k))
  /\ calls' = calls \ {k}
  /\ runs' = IF runs[k.run].phase = "waiting" /\ runs[k.run].next = k.step + 1
             THEN [runs EXCEPT ![k.run].phase = "running"] ELSE runs
  /\ UNCHANGED <<last, issued, remembered, finished, client, restarts>>

\* A mutating command of a client carries no load id.
HandlesCommand(c) ==
  /\ client[c] \in Commands
  /\ Mutates(Unset, client[c])
  /\ client' = [client EXCEPT ![c] = Unset]
  /\ UNCHANGED <<last, issued, remembered, runs, calls, finished, restarts>>

TurnsOff(c) ==
  /\ client[c] = [op |-> "off", arg |-> Unset]
  /\ live' = IF load = Unset THEN [live EXCEPT !.rules = <<>>] ELSE live
  /\ client' = [client EXCEPT ![c] = Unset]
  /\ UNCHANGED <<load, last, issued, remembered, runs, calls, finished, restarts>>

\* The file a reload runs: the one it names, else the one run last.
PathOf(c) == IF client[c].arg = Unset THEN remembered ELSE client[c].arg

Reloading(c) == client[c] \notin {Unset, Held} /\ client[c].op = "reload"

\* Refused while a run is in flight, and when there is no such file.
RefusesReload(c) ==
  /\ Reloading(c)
  /\ load # Unset \/ PathOf(c) \notin DOMAIN Scripts
  /\ client' = [client EXCEPT ![c] = Unset]
  /\ UNCHANGED <<live, load, last, issued, remembered, runs, calls, finished, restarts>>

\* A run starts from nothing, under an id of its own; its client is answered
\* when it ends.
Reloads(c) ==
  /\ Reloading(c)
  /\ load = Unset
  /\ PathOf(c) \in DOMAIN Scripts
  /\ issued' = issued + 1
  /\ remembered' = PathOf(c)
  /\ runs' = Append(runs, [path |-> PathOf(c), id |-> issued + 1, next |-> 1,
                           phase |-> "running", watched |-> TRUE])
  /\ load' = [id |-> issued + 1, run |-> Len(runs) + 1, client |-> c,
              staged |-> Nothing, failed |-> Unset]
  /\ client' = [client EXCEPT ![c] = Held]
  /\ UNCHANGED <<live, last, calls, finished, restarts>>

-----------------------------------------------------------------------------
(* The state task: completions *)

\* Every end of a run takes the load and answers the client that asked for it.
Finishes(o) ==
  /\ o \in finished
  /\ load # Unset
  /\ finished' = finished \ {o}
  /\ load' = Unset
  /\ client' = [client EXCEPT ![load.client] = Unset]
  /\ UNCHANGED <<issued, remembered, runs, calls, restarts>>

\* Whether the addresses the staging asks for have to be opened.
MovesFrontEnds == load.staged.listen \notin {Unset, live.listen}
OpensForward == load.staged.forwards \ live.forwards # {}

Viable(o) == o.outcome = "succeeded" /\ load.failed = Unset

Commits(o) ==
  /\ Finishes(o)
  /\ Viable(o)
  /\ live' = Replaced(live, load.staged)
  /\ last' = [outcome |-> "ok", command |-> Unset]

\* The front ends cannot be moved: nothing was done yet.
FailsToMove(o) ==
  /\ Finishes(o)
  /\ Viable(o)
  /\ MovesFrontEnds
  /\ live' = live
  /\ last' = [outcome |-> "failed", command |-> "set_listen"]

\* Fault: the rules are published before the forwards are opened.
FailsToForwardLate(o) ==
  /\ Finishes(o)
  /\ Viable(o)
  /\ OpensForward
  /\ live' = [Moved(live, load.staged.listen) EXCEPT !.rules = load.staged.rules]
  /\ last' = [outcome |-> "failed", command |-> "add_forward"]

\* A forward cannot be opened: the front ends have moved by then.
FailsToForward(o) ==
  /\ Finishes(o)
  /\ Viable(o)
  /\ OpensForward
  /\ live' = Moved(live, load.staged.listen)
  /\ last' = [outcome |-> "failed", command |-> "add_forward"]

Drops(o) ==
  /\ Finishes(o)
  /\ ~Viable(o)
  /\ live' = live
  /\ last' = IF o.outcome = "timed_out" THEN [outcome |-> "timed_out", command |-> Unset]
             ELSE [outcome |-> "failed",
                   command |-> IF o.outcome = "not_run" THEN Unset ELSE load.failed]

-----------------------------------------------------------------------------
(* The clients, and the daemon itself *)

Asks(c) ==
  /\ c # Booting
  /\ client[c] = Unset
  /\ \E request \in Requests :
       /\ request.op = "add_rule" => Len(live.rules) < MaxRules
       /\ request.op = "reload" => Len(runs) + Cardinality({b \in Clients : Reloading(b)}) < MaxRuns
       /\ client' = [client EXCEPT ![c] = request]
  /\ UNCHANGED <<live, load, last, issued, remembered, runs, calls, finished, restarts>>

\* The daemon dies and is started again: what it held in memory is gone, every
\* client's connection with it.  Its scripts die too under a supervisor that
\* kills the whole process group; else they go on, and those of their commands
\* that had not reached the daemon yet reach the next one.
Restarts ==
  /\ restarts < MaxRestarts /\ Len(runs) < MaxRuns
  /\ restarts' = restarts + 1
  /\ live' = Boot
  /\ load' = Unset
  /\ last' = Unset
  /\ issued' = 0
  /\ remembered' = DefaultPath
  /\ finished' = {}
  /\ client' = [c \in Clients |-> IF c = Booting THEN ReloadOf(Unset) ELSE Unset]
  /\ calls' \in IF Supervised THEN {{}} ELSE SUBSET calls
  /\ runs' = [r \in DOMAIN runs |->
       [runs[r] EXCEPT
          !.watched = FALSE,
          !.phase = CASE Supervised -> "ended"
                      [] ~Supervised /\ @ = "waiting"
                           /\ [run |-> r, step |-> runs[r].next - 1] \notin calls' -> "running"
                      [] OTHER -> @]]

ScriptStep(r) == Sends(r) \/ Succeeds(r) \/ Exits(r) \/ NotRun(r) \/ TimesOut(r)

HandlesClient(c) == HandlesCommand(c) \/ TurnsOff(c) \/ RefusesReload(c) \/ Reloads(c)

Completes(o) == Commits(o) \/ FailsToMove(o) \/ FailsToForward(o) \/ Drops(o)

Next ==
  \/ \E r \in DOMAIN runs : ScriptStep(r)
  \/ \E k \in calls : HandlesCall(k)
  \/ \E c \in Clients : HandlesClient(c) \/ Asks(c)
  \/ \E o \in finished : Completes(o)
  \/ Restarts

Spec == Init /\ [][Next]_vars

\* The inbox is served in order and a completion is not passed over for ever;
\* a script in flight is killed at LOAD_TIMEOUT.  A script itself is owed
\* nothing: it may hang.
Fairness ==
  /\ \A c \in Clients : WF_vars(HandlesClient(c))
  /\ \A r \in 1..MaxRuns : WF_vars(r \in DOMAIN runs /\ TimesOut(r))
  /\ WF_vars(\E o \in finished : Completes(o))

LiveSpec == Spec /\ Fairness

-----------------------------------------------------------------------------
(* Properties *)

\* Shapes of the state: nothing unreadable is staged or serves traffic, and a
\* call is a step its run has sent.
TypeOK ==
  /\ live \in Configs
  /\ load \in Loaded \cup {Unset}
  /\ issued \in Nat /\ restarts \in Nat
  /\ remembered \in Paths
  /\ runs \in Seq(Started)
  /\ calls \subseteq [run : Nat, step : Nat]
  /\ \A k \in calls : k.run \in DOMAIN runs /\ k.step \in DOMAIN ScriptOf(k.run)
                     /\ k.step < runs[k.run].next
  /\ finished \subseteq [run : Nat, outcome : Outcomes]
  /\ client \in [Clients -> Asked \cup {Held, Unset}]

\* A script that waits for an answer has its command with the daemon, refused
\* commands and those of runs over and done with included: no script sits out
\* LOAD_TIMEOUT over a command that is gone.
NoScriptWaitsForNothing ==
  \A r \in DOMAIN runs :
    runs[r].phase = "waiting" => [run |-> r, step |-> runs[r].next - 1] \in calls

\* The completions waiting are of the run in flight, and a run in flight is
\* watched until its own completion waits: a completion names no run, so one
\* that came late would end the next run.
CompletionIsOfItsRun ==
  /\ \A o \in finished : load # Unset /\ o.run = load.run
  /\ load # Unset => runs[load.run].watched # (\E o \in finished : o.run = load.run)

\* What a run stages comes from its own script or what that script left behind,
\* whatever else is sent meanwhile.
StagedByItsRun ==
  [][load # Unset /\ load' # Unset /\ load'.run = load.run /\ load' # load
       => \E k \in calls \ calls' : k.run = load.run]_vars

\* Loads are atomic: the state task implements AtomicLoad.
InFlight == IF load = Unset THEN Unset ELSE runs[load.run].path

Atomic == INSTANCE AtomicLoad WITH config <- live, running <- InFlight
LoadsAreAtomic == Atomic!Spec

\* Every client is answered, the one whose reload is running included.
EveryClientAnswered == \A c \in Clients : client[c] # Unset ~> client[c] = Unset

=============================================================================
