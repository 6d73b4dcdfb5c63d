--------------------------------- MODULE Cli ---------------------------------
(***************************************************************************)
(* The command line: what an invocation of nhop reads of its arguments,    *)
(* asks the daemon over its socket, does to the proxy settings of macOS or *)
(* prints of the log, and the code it exits with.                          *)
(* Source: src/nhop/src/cli (mod, client, tail, explain, status), the      *)
(* handlers of daemon/state.rs it reaches and daemon/ipc_server.rs.        *)
(*                                                                         *)
(* Every caller runs its invocations one after the other; one of them is   *)
(* the init script of the run in flight.  The daemon is seen from outside: *)
(* each request is handled in one step, and what it answers after reading  *)
(* the settings or dialling the upstreams takes steps of its own.  Modules *)
(* Loads and FrontEnds look inside.  Which invocations, faults and changes *)
(* of the surroundings a behaviour may have is the plan it starts with.    *)
(***************************************************************************)
EXTENDS Doctor, Matchers, Logs
LOCAL INSTANCE FiniteSets

CONSTANTS Callers,      \* processes that run nhop
          Script,       \* the one that is the init script
          Bad, Unset,
          Listens,      \* pairs of addresses the front ends can have
          DefaultListen,
          PlanKeys, PlanOf(_)

ASSUME CliAssumption ==
  Script \in Callers /\ Unset \notin Callers \cup Nat /\ DefaultListen \in Listens
ASSUME ListensAssumption == Listens \subseteq [http : Addresses, socks : Addresses]

\* What can be asked of nhop but to start: require, prefer and never are one, and
\* a word that is none of them or asks for help ends at once.
Verbs == {"rule", "rules", "upstream", "listen", "forward", "on", "off", "reload", "status", "test",
          "tail", "doctor", "proxy", "logs", "help", "unknown"}

Classes == {"never", "require", "prefer"}
MatcherKinds == {"suffix", "cidr", "port", "keyword"}

WrittenRules ==
  {RuleOf(class, kind, value) : class \in Classes, kind \in MatcherKinds, value \in Words}
ReadableRules == {rule \in WrittenRules : Readable(rule)}

\* The settings a behaviour starts with, and the invocations of a caller with
\* arguments that argh could read.
ASSUME PlansAssumption ==
  \A key \in PlanKeys, c \in Callers :
    LET calls == PlanOf(key).calls[c] IN
    /\ PlanOf(key).settings \in Settings
    /\ Len(calls) \in Nat /\ DOMAIN calls = 1..Len(calls)
    /\ \A i \in DOMAIN calls : calls[i].verb = "logs" =>
         calls[i].follow \in BOOLEAN /\ calls[i].cutoff \in Nat
    /\ \A i \in DOMAIN calls : calls[i].verb \in Verbs
    /\ \A i \in DOMAIN calls : calls[i].verb = "listen" => calls[i].listen \in Listens
    /\ \A i \in DOMAIN calls : calls[i].verb = "rule" =>
         calls[i].class \in Classes /\ calls[i].value \in Words
    /\ \A i \in DOMAIN calls : calls[i].verb = "test" => calls[i].target \in Words

\* Config's commands over rules, upstream lists and addresses that can be read.
Conf == INSTANCE Config WITH
  Rules <- ReadableRules,
  Lists <- {list \in Seq(STRING) : TRUE},
  Ports <- Listens \cup Addresses

VARIABLES
  plan,       \* the key of the plan
  left,       \* what of its faults and changes may still happen
  daemon,
  call,       \* the invocation each caller is at
  settings,   \* of the network service, in macOS
  world,      \* the files the daemon looks at, the upstreams that answer
  seen        \* history: what a doctor's checks could have found since it asked

cliVars == <<plan, left, daemon, call, settings, world, seen>>
vars == <<plan, left, daemon, call, settings, world, seen, today, files, born, cut, reader>>

-----------------------------------------------------------------------------
(* Exit codes *)

Success == 0
Failed == 1
Missing == 2
UpstreamDown == 3
InvalidArgs == 4

OfErr(kind) ==
  CASE kind = "not_found" -> Missing
    [] kind = "upstream_down" -> UpstreamDown
    [] kind = "invalid_args" -> InvalidArgs
    [] kind \in {"load_in_progress", "internal"} -> Failed

ErrKinds == {"not_found", "upstream_down", "invalid_args", "load_in_progress", "internal"}

\* No daemon, a connection closed or failed, and a line that cannot be read.
Unreachables == {"no_daemon", "closed", "io", "malformed"}
OfUnreachable(failure) == IF failure = "malformed" THEN Failed ELSE Missing

\* render: an error is told by its kind, whatever else was answered succeeded.
ExitOfReply(kind) ==
  CASE kind \in ErrKinds -> OfErr(kind)
    [] kind \in Unreachables -> OfUnreachable(kind)
    [] OTHER -> Success

-----------------------------------------------------------------------------
(* The command line *)

\* An invocation: its verb and what argh made of the words behind it.
Calls(c) == PlanOf(plan).calls[c]
Argv(c) == Calls(c)[call[c].n]

\* from_args: an unknown word, or one that cannot be read as what is wanted.
Malformed(argv) ==
  CASE argv.verb = "unknown" -> TRUE
    [] argv.verb = "rule" -> argv.kind \notin MatcherKinds
    [] argv.verb \in {"test", "forward"} -> ParseDestination(argv.target) = Unread
    [] OTHER -> FALSE

\* One upstream goes out as the command every daemon reads.
Upstreams(list) == [op |-> IF Len(list) = 1 THEN "set_upstream" ELSE "set_upstreams", arg |-> list]

\* What dispatch sends, the rules and upstreams still as they were typed.
CommandOf(argv) ==
  CASE argv.verb = "rule" -> [op |-> "add_rule", arg |-> RuleOf(argv.class, argv.kind, argv.value)]
    [] argv.verb = "upstream" -> Upstreams(argv.list)
    [] argv.verb = "listen" -> [op |-> "set_listen", arg |-> argv.listen]
    [] argv.verb = "forward" -> [op |-> "add_forward", arg |-> argv.listen]
    [] argv.verb \in {"on", "reload"} -> [op |-> "reload", arg |-> Unset]
    [] argv.verb = "proxy" -> [op |-> "status", arg |-> Unset]
    [] argv.verb = "test" -> [op |-> "test", arg |-> ParseDestination(argv.target)]
    [] OTHER -> [op |-> argv.verb, arg |-> Unset]

\* Command::unreadable_upstream: one address no daemon reads.
UnreadableUpstream == [op |-> "set_upstream", arg |-> <<[socket |-> "unread"]>>]

Mutators == {"rule", "upstream", "listen", "forward", "off", "on", "reload"}

-----------------------------------------------------------------------------
(* The daemon's side of a request *)

\* The command as the state task reads it.
Read(command) ==
  CASE command.op = "add_rule" ->
         [op |-> "add_rule", arg |-> IF Readable(command.arg) THEN command.arg ELSE Bad]
    [] command.op \in {"set_upstream", "set_upstreams"} ->
         [op |-> "set_upstreams",
          arg |-> IF ReadableUpstreams(command.arg) THEN SocketsOf(command.arg) ELSE Bad]
    [] OTHER -> command

\* A list is unknown to a daemon older than fallbacks, a line can be too long.
Parsed(command, long) == ~long /\ (command.op = "set_upstreams" => PlanOf(plan).fallbacks)

\* The daemon is in a run of the init file; runs are numbered from one.
Loading == daemon.load.id # 0

Target(load) ==
  IF ~Loading THEN IF load = Unset THEN "live" ELSE "refused"
  ELSE IF load = daemon.load.id THEN "staged" ELSE "refused"

\* A run of the init file, which it may not have the permission for.  History: how
\* many lists of upstreams were refused in it, how many refusals not followed up.
Started(id, caller) ==
  [id |-> id, caller |-> caller, runs |-> world.init = "executable", staged |-> Conf!Nothing,
   failed |-> FALSE, refused |-> 0, lost |-> 0]

NoLoad == [id |-> 0, caller |-> Unset, runs |-> FALSE, staged |-> Conf!Nothing,
           failed |-> FALSE, refused |-> 0, lost |-> 0]

Booted ==
  LET loading == world.init \in {"plain", "executable"} IN
  [up |-> TRUE,
   config |-> [Conf!Nothing EXCEPT !.listen = DefaultListen],
   issued |-> IF loading THEN 1 ELSE 0,
   load |-> IF loading THEN Started(1, Unset) ELSE NoLoad,
   last |-> "none"]

Entries(config) == IF config.upstream = Unset THEN <<>> ELSE config.upstream

\* The daemon's own five checks, made when the request is handled.
Findings(last) ==
  [check \in {"daemon_reachable", "ports_bound", "init_file", "last_load", "log_writable"} |->
     CASE check = "daemon_reachable" -> TRUE
       [] check = "ports_bound" -> PortsBound(TRUE)
       [] check = "init_file" -> InitFileOk(world.init)
       [] check = "last_load" -> LastLoadOk(last)
       [] check = "log_writable" -> LogWritable(world.logs)]

-----------------------------------------------------------------------------
(* The state of an invocation *)

NoReply == [kind |-> "none"]

\* at: between invocations; the request sent; a reload waiting for its run; the
\* daemon reading the settings, then dialling the upstreams; answered; the
\* settings being written or read by the command itself; a tail, a logs.
Steps == {"idle", "sent", "held", "reading", "dialling", "answered", "writing",
          "tailing", "logging"}

Fresh == [at |-> "idle", n |-> 0, load |-> Unset, command |-> [op |-> "none", arg |-> Unset],
          reply |-> NoReply, told |-> NoReply, read |-> <<>>, broken |-> FALSE,
          ended |-> {}, reached |-> {}, queue |-> <<>>, done |-> 0, exit |-> -1]

\* The invocation is over: what its properties speak of stays.
Ended(c, code) ==
  [call EXCEPT ![c].at = "idle", ![c].exit = code, ![c].queue = <<>>]

Gets(c, reply) == [call EXCEPT ![c].at = "answered", ![c].reply = reply]
Err(kind) == [kind |-> kind]

Doctoring(c) == call[c].n > 0 /\ Argv(c).verb = "doctor"

-----------------------------------------------------------------------------
Init ==
  /\ plan \in PlanKeys
  /\ left = PlanOf(plan).left
  /\ world = PlanOf(plan).world
  /\ settings = PlanOf(plan).settings
  /\ daemon = Booted
  /\ call = [c \in Callers |->
       IF c = Script /\ Loading THEN [Fresh EXCEPT !.load = 1] ELSE Fresh]
  /\ seen = [c \in Callers |-> {}]
  /\ LogsInit

-----------------------------------------------------------------------------
\* What the seven checks would find now, the settings and the upstreams one by one.
Facts(c) ==
  LET asked == call[c].told.kind # "told"
      listen == IF asked THEN daemon.config.listen ELSE call[c].told.listen
      entries == IF asked THEN Entries(daemon.config) ELSE call[c].told.entries
  IN  {<<"daemon_reachable", daemon.up>>, <<"ports_bound", daemon.up>>,
       <<"init_file", world.init = "executable">>, <<"last_load", daemon.last = "ok">>,
       <<"log_writable", world.logs = "writable">>}
      \cup {<<"upstream_reachable", entries[i], entries[i] \in world.answering>> : i \in DOMAIN entries}
      \cup {<<kind, settings[kind] = [on |-> TRUE, at |-> AddressOf(kind, listen)]>> :
              kind \in {"http", "https", "socks"}}

\* history: gathered from when a doctor asks until it exits
Observes ==
  /\ UNCHANGED plan
  /\ seen' = [c \in Callers |->
       CASE ~Doctoring(c)' -> {}
         [] Doctoring(c)' /\ call'[c].n # call[c].n -> Facts(c)'
         [] OTHER -> IF call[c].at = "idle" THEN seen[c] ELSE seen[c] \cup Facts(c)']

-----------------------------------------------------------------------------
(* An invocation starts *)

\* The script runs its commands while its own run is in flight.
Starting(c) ==
  /\ call[c].at = "idle"
  /\ call[c].n < Len(Calls(c))
  /\ c = Script => daemon.up /\ Loading /\ daemon.load.runs

Coming(c) == Calls(c)[call[c].n + 1]
Begun(c) == [Fresh EXCEPT !.n = call[c].n + 1, !.load = call[c].load]

NeedsRoot(argv) == argv.verb = "proxy" /\ argv.action # "status"

\* Over before anything is asked: the help, arguments that make no sense, a
\* change of the settings by somebody who may not make it.
EndsAtOnce(c) ==
  LET argv == Coming(c)
      code == CASE argv.verb = "help" -> Success
                [] Malformed(argv) -> InvalidArgs
                [] OTHER -> Failed
  IN
  /\ Starting(c)
  /\ argv.verb = "help" \/ Malformed(argv) \/ (NeedsRoot(argv) /\ ~PlanOf(plan).root)
  /\ call' = [call EXCEPT ![c] = [Begun(c) EXCEPT !.exit = code]]
  /\ UNCHANGED <<left, daemon, settings, world, logVars>>
  /\ Observes

Asking(argv) ==
  /\ argv.verb \notin {"help", "logs"}
  /\ ~Malformed(argv)
  /\ argv.verb = "proxy" => argv.action = "on" /\ PlanOf(plan).root

\* The request is on its way: a daemon has the socket.
Sends(c) ==
  /\ Starting(c)
  /\ Asking(Coming(c))
  /\ daemon.up
  /\ call' = [call EXCEPT ![c] = [Begun(c) EXCEPT !.at = "sent", !.command = CommandOf(Coming(c))]]
  /\ UNCHANGED <<left, daemon, settings, world, logVars>>
  /\ Observes

\* No daemon is there, or the socket fails.
CannotSend(c) ==
  /\ Starting(c)
  /\ Asking(Coming(c))
  /\ \/ ~daemon.up /\ UNCHANGED left
     \/ daemon.up /\ left.io > 0 /\ left' = [left EXCEPT !.io = @ - 1]
  /\ call' = [call EXCEPT ![c] =
       [Begun(c) EXCEPT !.at = "answered",
                        !.reply = Err(IF daemon.up THEN "io" ELSE "no_daemon")]]
  /\ UNCHANGED <<daemon, settings, world, logVars>>
  /\ Observes

\* proxy off and proxy status ask no daemon.
StartsSettings(c) ==
  LET argv == Coming(c) IN
  /\ Starting(c)
  /\ argv.verb = "proxy"
  /\ argv.action = "status" \/ (argv.action = "off" /\ PlanOf(plan).root)
  /\ call' = [call EXCEPT ![c] =
       IF argv.action = "status" THEN [Begun(c) EXCEPT !.at = "reading"]
       ELSE [Begun(c) EXCEPT !.at = "writing", !.queue = Disabling]]
  /\ UNCHANGED <<left, daemon, settings, world, logVars>>
  /\ Observes

StartsLogs(c) ==
  LET argv == Coming(c) IN
  /\ Starting(c)
  /\ argv.verb = "logs"
  /\ \/ StartsReading(argv.follow, argv.cutoff, TRUE) /\ UNCHANGED left
     \/ /\ left.io > 0 /\ left' = [left EXCEPT !.io = @ - 1]
        /\ StartsReading(argv.follow, argv.cutoff, FALSE)
  /\ call' = [call EXCEPT ![c] =
       [Begun(c) EXCEPT !.at = IF reader'.at = "off" THEN "idle" ELSE "logging",
                        !.exit = reader'.exit]]
  /\ UNCHANGED <<daemon, settings, world>>
  /\ Observes

-----------------------------------------------------------------------------
(* The daemon handles a request *)

Handling(c, ops) == call[c].at = "sent" /\ daemon.up /\ call[c].command.op \in ops

Long(c) == call[c].command.op = "add_rule" /\ Argv(c).long

\* history: another list was refused in the run in flight, whose script sent it
Refusing(c) ==
  IF Loading /\ daemon.load.id = call[c].load THEN [daemon EXCEPT !.load.refused = @ + 1] ELSE daemon

\* The connection refuses a line it cannot read before the state task sees it;
\* behind one that is too long it hangs up, on a client that may still write.
Unparsed(c) ==
  /\ Handling(c, {"add_rule", "set_upstreams"})
  /\ ~Parsed(call[c].command, Long(c))
  /\ \/ /\ call' = Gets(c, Err("invalid_args"))
        /\ daemon' = IF call[c].command.op = "set_upstreams" THEN Refusing(c) ELSE daemon
     \/ Long(c) /\ call' = Gets(c, Err("io")) /\ UNCHANGED daemon
  /\ UNCHANGED <<left, settings, world, logVars>>
  /\ Observes

\* Fault: a command that is refused is answered like one that was taken.
MutatesAnsweringOk(c) ==
  LET command == Read(call[c].command)
      target == Target(call[c].load)
      config == IF target = "staged" THEN daemon.load.staged ELSE daemon.config
  IN
  /\ Handling(c, {"add_rule", "set_upstream", "set_upstreams", "set_listen", "add_forward"})
  /\ Parsed(call[c].command, Long(c))
  /\ daemon' = CASE target = "live" /\ ~Conf!Invalid(config, command) ->
                      [daemon EXCEPT !.config = Conf!Applied(@, command)]
                 [] target = "staged" /\ ~Conf!Invalid(config, command) ->
                      [daemon EXCEPT !.load.staged = Conf!Applied(@, command)]
                 [] OTHER -> daemon
  /\ call' = Gets(c, [kind |-> "ok"])
  /\ UNCHANGED <<left, settings, world, logVars>>
  /\ Observes

\* A mutating command: refused, or read and applied live or to the staging.
Mutates(c) ==
  LET command == Read(call[c].command)
      target == Target(call[c].load)
      config == IF target = "staged" THEN daemon.load.staged ELSE daemon.config
      invalid == Conf!Invalid(config, command)
      taken == [Gets(c, [kind |-> "ok"]) EXCEPT ![c].done = @ + 1]
  IN
  /\ Handling(c, {"add_rule", "set_upstream", "set_upstreams", "set_listen", "add_forward"})
  /\ Parsed(call[c].command, Long(c))
  /\ \/ /\ target = "refused"
        /\ call' = Gets(c, Err("load_in_progress"))
        /\ UNCHANGED daemon
     \/ /\ target # "refused" /\ invalid
        /\ call' = Gets(c, Err("invalid_args"))
        /\ daemon' = IF target # "staged" THEN daemon
                     ELSE [(IF command.op = "set_upstreams" THEN Refusing(c) ELSE daemon)
                             EXCEPT !.load.failed = TRUE]
     \/ /\ target = "staged" /\ ~invalid
        /\ call' = taken
        /\ daemon' = [daemon EXCEPT !.load.staged = Conf!Applied(@, command)]
     \/ /\ target = "live" /\ ~invalid
        /\ call' = taken
        /\ daemon' = [daemon EXCEPT !.config = Conf!Applied(@, command)]
  /\ UNCHANGED <<left, settings, world, logVars>>
  /\ Observes

\* The addresses a live command asks for cannot be bound.
CannotBind(c) ==
  /\ Handling(c, {"set_listen", "add_forward"})
  /\ Target(call[c].load) = "live"
  /\ ~Conf!Invalid(daemon.config, Read(call[c].command))
  /\ left.binds > 0 /\ left' = [left EXCEPT !.binds = @ - 1]
  /\ call' = Gets(c, Err("internal"))
  /\ UNCHANGED <<daemon, settings, world, logVars>>
  /\ Observes

TurnsOff(c) ==
  /\ Handling(c, {"off"})
  /\ \/ /\ ~Loading
        /\ daemon' = [daemon EXCEPT !.config.rules = <<>>]
        /\ call' = [Gets(c, [kind |-> "ok"]) EXCEPT ![c].done = @ + 1]
     \/ /\ Loading
        /\ call' = Gets(c, Err("load_in_progress"))
        /\ UNCHANGED daemon
  /\ UNCHANGED <<left, settings, world, logVars>>
  /\ Observes

\* rules and test answer from the live rules; the hop of an upstream decision
\* is the entry selected then, which is Upstream's concern: any of the list.
Answers(c) ==
  LET config == daemon.config
      entries == Entries(config)
  IN
  /\ Handling(c, {"rules", "test"})
  /\ \E via \in IF entries = <<>> THEN {"none"} ELSE {entries[i] : i \in DOMAIN entries} :
       call' = [Gets(c, IF call[c].command.op = "rules"
                        THEN [kind |-> "rules", rules |-> RuleViews(config.rules)]
                        ELSE DecisionView(config.rules, via, call[c].command.arg.host,
                                          call[c].command.arg.port))
                  EXCEPT ![c].told = [kind |-> "rules", rules |-> config.rules]]
  /\ UNCHANGED <<left, daemon, settings, world, logVars>>
  /\ Observes

\* Reload: refused during a run and without a file, else held until the run ends.
Reloads(c) ==
  LET found == world.init \in {"plain", "executable"}
      id == daemon.issued + 1
  IN
  /\ Handling(c, {"reload"})
  /\ \/ /\ Loading \/ ~found
        /\ call' = Gets(c, Err(IF Loading THEN "load_in_progress" ELSE "not_found"))
        /\ UNCHANGED daemon
     \/ /\ ~Loading /\ found
        /\ daemon' = [daemon EXCEPT
             !.issued = id,
             !.load = Started(id, c)]
        /\ call' = [call EXCEPT ![c].at = "held", ![Script] = [Fresh EXCEPT !.load = id]]
  /\ UNCHANGED <<left, settings, world, logVars>>
  /\ Observes

\* What status and doctor need of the state task; the rest is done off it.
Snapshot(config, last) ==
  [kind |-> "told", listen |-> config.listen, entries |-> Entries(config), findings |-> Findings(last)]

Captures(c) ==
  /\ Handling(c, {"status", "doctor"})
  /\ call' = [call EXCEPT ![c].at = "reading", ![c].told = Snapshot(daemon.config, daemon.last)]
  /\ UNCHANGED <<left, daemon, settings, world, logVars>>
  /\ Observes

Subscribes(c) ==
  /\ Handling(c, {"tail"})
  /\ call' = [call EXCEPT ![c].at = "tailing"]
  /\ UNCHANGED <<left, daemon, settings, world, logVars>>
  /\ Observes

-----------------------------------------------------------------------------
(* An init run ends *)

InRun == daemon.up /\ Loading /\ call[Script].at = "idle"

AllRun == InRun /\ daemon.load.runs /\ call[Script].n = Len(Calls(Script))

\* Fault: only the state is cleared, and the reload waits on.
DropsUntold(last) ==
  /\ daemon' = [daemon EXCEPT !.load = NoLoad, !.last = last]
  /\ call' = [call EXCEPT ![Script] = Fresh]

\* The staging is dropped, and a reload that waits is told.
Drops(last) ==
  /\ daemon' = [daemon EXCEPT !.load = NoLoad, !.last = last]
  /\ call' = [IF daemon.load.caller = Unset THEN call ELSE Gets(daemon.load.caller, Err("internal"))
                EXCEPT ![Script] = Fresh]

\* A script that exits with zero commits, unless a command of it was refused.
ScriptSucceeds ==
  LET load == daemon.load IN
  /\ AllRun
  /\ \/ load.failed /\ Drops("failed")
     \/ /\ ~load.failed
        /\ daemon' = [daemon EXCEPT !.load = NoLoad, !.last = "ok",
                                   !.config = Conf!Replaced(@, load.staged)]
        /\ call' = [c \in Callers |->
             CASE c = Script -> Fresh
               [] c # Script /\ c = load.caller ->
                    [call[c] EXCEPT !.at = "reading", !.done = 1,
                                   !.told = Snapshot(daemon'.config, "ok")]
               [] OTHER -> call[c]]
  /\ UNCHANGED <<left, settings, world, logVars>>
  /\ Observes

\* Another exit code, LOAD_TIMEOUT, or a program that cannot be run.
ScriptFails ==
  /\ InRun
  /\ \/ ~daemon.load.runs /\ Drops("failed") /\ UNCHANGED left
     \/ /\ daemon.load.runs
        /\ left.ends > 0 /\ left' = [left EXCEPT !.ends = @ - 1]
        /\ Drops("failed") \/ Drops("timed_out")
  /\ UNCHANGED <<settings, world, logVars>>
  /\ Observes

\* The staging is whole and its addresses cannot be bound: with the forwards it
\* is the front ends that have moved already.
CommitFails ==
  LET load == daemon.load
      moved == Conf!Moved(daemon.config, load.staged.listen)
  IN
  /\ AllRun /\ ~load.failed
  /\ left.binds > 0 /\ left' = [left EXCEPT !.binds = @ - 1]
  /\ \/ moved # daemon.config /\ daemon' = [daemon EXCEPT !.load = NoLoad, !.last = "failed"]
     \/ /\ load.staged.forwards \ daemon.config.forwards # {}
        /\ daemon' = [daemon EXCEPT !.load = NoLoad, !.last = "failed", !.config = moved]
  /\ call' = [IF load.caller = Unset THEN call ELSE Gets(load.caller, Err("internal"))
                EXCEPT ![Script] = Fresh]
  /\ UNCHANGED <<settings, world, logVars>>
  /\ Observes

-----------------------------------------------------------------------------
(* The settings and the upstreams are looked at, off the state task *)

Local(c) == Argv(c).verb = "proxy" /\ Argv(c).action = "status"

\* status answers with every setting off when one cannot be read.
Reported(c, read) ==
  CASE Local(c) -> [call EXCEPT ![c].at = "idle", ![c].read = read,
                                ![c].exit = IF Len(read) = 3 THEN Success ELSE Failed]
    [] Doctoring(c) -> [call EXCEPT ![c].at = "dialling", ![c].read = read]
    [] OTHER -> [Gets(c, [kind |-> "status", listen |-> call[c].told.listen]) EXCEPT
                   ![c].read = IF Len(read) = 3 THEN read ELSE <<Nowhere, Nowhere, Nowhere>>]

\* networksetup reports one setting after the other.
ReadsSetting(c) ==
  LET read == Append(call[c].read, ParseReport(settings[ProxyKinds[Len(call[c].read) + 1]])) IN
  /\ call[c].at = "reading"
  /\ \/ /\ call' = IF Len(read) = 3 THEN Reported(c, read) ELSE [call EXCEPT ![c].read = read]
        /\ UNCHANGED left
     \/ /\ left.refusals > 0 /\ left' = [left EXCEPT !.refusals = @ - 1]
        /\ call' = [Reported(c, call[c].read) EXCEPT ![c].broken = TRUE]
  /\ UNCHANGED <<daemon, settings, world, logVars>>
  /\ Observes

\* One of the dials is answered, refused or given up, each at its own time.
DialEnds(c) ==
  LET entries == call[c].told.entries IN
  /\ call[c].at = "dialling"
  /\ \E i \in DOMAIN entries \ call[c].ended :
       call' = [call EXCEPT ![c].ended = @ \cup {i},
                            ![c].reached = IF entries[i] \in world.answering THEN @ \cup {i} ELSE @]
  /\ UNCHANGED <<left, daemon, settings, world, logVars>>
  /\ Observes

\* All have ended, and the report is made.
DialsUpstreams(c) ==
  LET told == call[c].told
      found == [system_proxy |-> SystemProxyOk(call[c].read, told.listen),
                upstream_reachable |-> UpstreamReachable(told.entries, call[c].reached)]
      findings == [check \in CheckNames |->
                     IF check \in DOMAIN found THEN found[check] ELSE told.findings[check]]
  IN
  /\ call[c].at = "dialling" /\ DOMAIN told.entries \subseteq call[c].ended
  /\ call' = Gets(c, [kind |-> "doctor", checks |-> Report(findings)])
  /\ UNCHANGED <<left, daemon, settings, world, logVars>>
  /\ Observes

-----------------------------------------------------------------------------
(* The answer arrives *)

FailsItsLoad(c) ==
  /\ call[c].command.op = "set_upstreams"
  /\ call[c].load # Unset
  /\ call[c].reply.kind = "invalid_args"

\* What the report says when the daemon answered nothing.
UnreachableReport == Report([check \in {"daemon_reachable"} |-> FALSE])

\* Followed up, a refused list exits with its own answer, whatever became of the
\* follow-up.
CodeOf(c) ==
  LET reply == IF call[c].told.kind = "refused" THEN Err("invalid_args") ELSE call[c].reply IN
  CASE Doctoring(c) /\ reply.kind = "doctor" -> ExitOf(reply.checks)
    [] Doctoring(c) /\ reply.kind \in Unreachables -> ExitOf(UnreachableReport)
    [] OTHER -> ExitOfReply(reply.kind)

ProxyOn(c) == Argv(c).verb = "proxy" /\ call[c].reply.kind = "status"

Receives(c) ==
  /\ call[c].at = "answered"
  /\ ~FailsItsLoad(c) /\ ~ProxyOn(c)
  /\ call' = Ended(c, CodeOf(c))
  /\ UNCHANGED <<left, daemon, settings, world, logVars>>
  /\ Observes

\* Fault: the refusal is reported and that is all.
FollowsUpNever(c) ==
  /\ call[c].at = "answered"
  /\ FailsItsLoad(c)
  /\ call' = Ended(c, InvalidArgs)
  /\ UNCHANGED <<left, daemon, settings, world, logVars>>
  /\ Observes

\* history: the refusal of a list is not followed up in the run in flight
Losing(c) ==
  IF Loading /\ daemon.load.id = call[c].load THEN [daemon EXCEPT !.load.lost = @ + 1] ELSE daemon

\* set_upstreams: a list refused within a load is followed by a command that
\* fails the load, or by one that does not get through, which goes unnoticed.
\* The script is gone when its daemon is: those that live on are module Loads'.
FollowsUp(c) ==
  /\ call[c].at = "answered"
  /\ FailsItsLoad(c)
  /\ \/ /\ UNCHANGED <<left, daemon>>
        /\ call' = [call EXCEPT ![c].at = "sent", ![c].command = UnreadableUpstream,
                                ![c].told = [kind |-> "refused"]]
     \/ /\ left.io > 0 /\ left' = [left EXCEPT !.io = @ - 1]
        /\ call' = Ended(c, InvalidArgs)
        /\ daemon' = Losing(c)
  /\ UNCHANGED <<settings, world, logVars>>
  /\ Observes

\* proxy on takes the front ends' addresses out of the status.
Points(c) ==
  /\ call[c].at = "answered"
  /\ ProxyOn(c)
  /\ call' = [call EXCEPT ![c].at = "writing", ![c].queue = Enabling(call[c].reply.listen)]
  /\ UNCHANGED <<left, daemon, settings, world, logVars>>
  /\ Observes

\* system_proxy::apply, one invocation at a time, up to the first one refused.
WritesSetting(c) ==
  /\ call[c].at = "writing"
  /\ \/ /\ settings' = Invoked(settings, Head(call[c].queue))
        /\ call' = IF Len(call[c].queue) = 1 THEN Ended(c, Success)
                   ELSE [call EXCEPT ![c].queue = Tail(@)]
        /\ UNCHANGED left
     \/ /\ left.refusals > 0 /\ left' = [left EXCEPT !.refusals = @ - 1]
        /\ call' = Ended(c, Failed)
        /\ UNCHANGED settings
  /\ UNCHANGED <<daemon, world, logVars>>
  /\ Observes

ReadsLogs(c) ==
  /\ call[c].at = "logging"
  /\ \/ (ReadsFile \/ Polls) /\ UNCHANGED left
     \/ left.io > 0 /\ left' = [left EXCEPT !.io = @ - 1] /\ PollFails
  /\ call' = IF reader'.at = "off" THEN Ended(c, reader'.exit) ELSE call
  /\ UNCHANGED <<daemon, settings, world>>
  /\ Observes

-----------------------------------------------------------------------------
(* The daemon dies and starts, and the surroundings change *)

\* What is left of an invocation whose daemon is gone: what was not answered
\* never will be, and an answer may have been written in part.
FateOf(c) ==
  LET gone == [call[c] EXCEPT !.at = "answered", !.reply = Err("closed")]
      torn == [call[c] EXCEPT !.at = "answered", !.reply = Err("malformed")]
      over(code) == [call[c] EXCEPT !.at = "idle", !.exit = code]
  IN  CASE c = Script -> {Fresh}
        [] c # Script /\ call[c].at \in {"sent", "held", "dialling"} -> {gone}
        [] c # Script /\ call[c].at = "reading" -> IF Local(c) THEN {call[c]} ELSE {gone}
        [] c # Script /\ call[c].at = "answered" /\ call[c].reply.kind \notin Unreachables ->
             {call[c], gone, torn}
        [] c # Script /\ call[c].at = "tailing" -> {over(Success), over(Failed)}
        [] OTHER -> {call[c]}

Dies ==
  /\ daemon.up
  /\ left.deaths > 0 /\ left' = [left EXCEPT !.deaths = @ - 1]
  /\ daemon' = [Booted EXCEPT !.up = FALSE, !.load = NoLoad]
  /\ call' \in {f \in [Callers -> UNION {FateOf(c) : c \in Callers}] :
                  \A c \in Callers : f[c] \in FateOf(c)}
  /\ files' = Torn(files)
  /\ UNCHANGED <<settings, world, today, born, cut, reader>>
  /\ Observes

\* A daemon starts: its first request is its own reload.
StartsDaemon ==
  /\ ~daemon.up
  /\ left.starts > 0 /\ left' = [left EXCEPT !.starts = @ - 1]
  /\ daemon' = Booted
  /\ call' = [call EXCEPT ![Script] =
       IF Loading' THEN [Fresh EXCEPT !.load = 1] ELSE Fresh]
  /\ UNCHANGED <<settings, world, logVars>>
  /\ Observes

Changes ==
  /\ left.changes > 0 /\ left' = [left EXCEPT !.changes = @ - 1]
  /\ world' \in PlanOf(plan).worlds
  /\ UNCHANGED <<daemon, call, settings, logVars>>
  /\ Observes

LogsALine ==
  /\ daemon.up
  /\ \/ left.lines > 0 /\ left' = [left EXCEPT !.lines = @ - 1] /\ WritesPart
     \/ WritesRest /\ UNCHANGED left
  /\ UNCHANGED <<daemon, call, settings, world>>
  /\ Observes

DayPasses ==
  /\ \/ left.days > 0 /\ left' = [left EXCEPT !.days = @ - 1] /\ MidnightPasses
     \/ /\ left.cuts > 0 /\ left' = [left EXCEPT !.cuts = @ - 1]
        /\ \E d \in DOMAIN files : Truncates(d)
  /\ UNCHANGED <<daemon, call, settings, world>>
  /\ Observes

-----------------------------------------------------------------------------
Begins(c) == EndsAtOnce(c) \/ Sends(c) \/ CannotSend(c) \/ StartsSettings(c) \/ StartsLogs(c)

Handles(c) ==
  \/ Unparsed(c) \/ Mutates(c) \/ CannotBind(c) \/ TurnsOff(c) \/ Answers(c) \/ Reloads(c)
  \/ Captures(c) \/ Subscribes(c) \/ DialEnds(c) \/ DialsUpstreams(c)

GoesOn(c) == Receives(c) \/ FollowsUp(c) \/ Points(c) \/ WritesSetting(c) \/ ReadsLogs(c)
             \/ ReadsSetting(c)

Next ==
  \/ \E c \in Callers : Begins(c) \/ Handles(c) \/ GoesOn(c)
  \/ ScriptSucceeds \/ ScriptFails \/ CommitFails
  \/ Dies \/ StartsDaemon \/ Changes \/ LogsALine \/ DayPasses

-----------------------------------------------------------------------------
(* Properties *)

Over(c) == call[c].at = "idle" /\ call[c].n > 0

\* An exit code tells the operator what happened, whatever the daemon, its
\* version and the connection did: a mutating command that exits 0 was applied,
\* one that exits 4 was not, one that exits 1 was not unless the answer came
\* torn, and no command is applied twice.
SuccessMeansDone ==
  \A c \in Callers : Over(c) /\ Argv(c).verb \in Mutators =>
    /\ call[c].done <= 1
    /\ call[c].exit = Success => call[c].done = 1
    /\ call[c].exit = InvalidArgs => call[c].done = 0
    /\ call[c].exit = Failed /\ call[c].reply.kind # "malformed" => call[c].done = 0

\* A load in which a list of upstreams was refused never commits although the
\* script goes on after it, but on a daemon older than lists, which refuses one
\* before it reads the load id, and there only if every command sent after such a
\* refusal to fail the load was lost.
RefusedListNeverCommits ==
  [][LET load == daemon.load IN
     /\ Loading /\ ~Loading'
     /\ load.refused > (IF PlanOf(plan).fallbacks THEN 0 ELSE load.lost)
     => daemon'.last # "ok"]_vars

\* What `test` says is what the rules mean, read label by label: hosts and
\* suffixes are compared without case and without the root's dot; the first
\* never rule that matches decides, else the first other one; and a next hop
\* that is the destination reads back as the destination it was asked about.
LabelsOf(word) ==
  LET dots == {i \in DOMAIN word : word[i] = "."} \cup {0, Len(word) + 1}
      nextDot(i) == CHOOSE j \in dots : j > i /\ \A k \in dots : k > i => j <= k
  IN  {<<i, SubSeq(word, i + 1, nextDot(i) - 1)>> : i \in dots \ {Len(word) + 1}}

Meaning(word) == Lowered(IF word # <<>> /\ word[Len(word)] = "." THEN SubSeq(word, 1, Len(word) - 1) ELSE word)

EndsInLabels(host, suffix) ==
  LET shift == Len(host) - Len(suffix)
  IN  /\ shift >= 0
      /\ \A label \in LabelsOf(suffix) : <<label[1] + shift, label[2]>> \in LabelsOf(host)

Meant(rule, host, port) ==
  CASE rule.kind = "suffix" -> EndsInLabels(Meaning(host), Meaning(rule.value))
    [] rule.kind = "keyword" -> \E i, j \in 1..Len(Meaning(host)) :
                                  SubSeq(Meaning(host), i, j) = Lowered(rule.value)
    [] OTHER -> Matches(rule.matcher, NormalizedHost(host), port)

TestTells ==
  \A c \in Callers : call[c].at = "answered" /\ call[c].reply.kind = "decision" =>
    LET asked == call[c].command.arg
        reply == call[c].reply
        rules == call[c].told.rules
        meant(i) == Meant(rules[i], asked.host, asked.port)
    IN  /\ IF reply.rule = 0 THEN \A i \in DOMAIN rules : ~meant(i)
           ELSE /\ meant(reply.rule) /\ reply.class = rules[reply.rule].class
                /\ \A i \in DOMAIN rules : meant(i) /\ i # reply.rule =>
                     \/ reply.class = "never" /\ rules[i].class # "never"
                     \/ i > reply.rule /\ (rules[i].class = "never" => reply.class = "never")
        /\ reply.decision # "upstream" =>
             /\ reply.via = "itself"
             /\ {"[", "]"} \cap {asked.host[i] : i \in DOMAIN asked.host} = {}
                  => ParseDestination(reply.hop) = asked

\* A doctor's exit code against what could be seen from its start to its end: 0
\* only if each check held at some time and some upstream was seen answering, 3 only
\* if all checks but the upstreams' held and each upstream was seen not answering at
\* some time, and 1 only if another check was found wanting or could not be made.
\* The upstreams are dialled each on its own, so a doctor may exit 3 although there
\* was no instant at which none of them answered.  An IPv6 front end is never found
\* to be the one the settings point at: the two spellings of its address differ.
DoctorTells ==
  \A c \in Callers : Over(c) /\ Doctoring(c) =>
    LET held(fact) == <<fact, TRUE>> \in seen[c]
        others == (CheckNames \ {"system_proxy", "upstream_reachable"})
                    \cup {"http", "https", "socks"}
        told == call[c].told
        answered(i, did) == <<"upstream_reachable", told.entries[i], did>> \in seen[c]
    IN  /\ call[c].exit \in {Success, Failed, UpstreamDown}
        /\ call[c].exit \in {Success, UpstreamDown} =>
             told.kind = "told" /\ \A fact \in others : held(fact)
        /\ call[c].exit = Success => \E i \in DOMAIN told.entries : answered(i, TRUE)
        /\ call[c].exit = UpstreamDown => \A i \in DOMAIN told.entries : answered(i, FALSE)
        /\ call[c].exit = Failed =>
             \/ \E fact \in others : <<fact, FALSE>> \in seen[c]
             \/ call[c].broken \/ call[c].reply.kind = "io"
             \/ told.kind = "told" /\ {told.listen.http, told.listen.socks} \cap V6 # {}

-----------------------------------------------------------------------------
Spec == Init /\ [][Next]_vars

\* Every process that was started gets on with its work, the daemon with its
\* requests, a script with its lines.
LiveSpec ==
  /\ Spec
  /\ \A c \in Callers : WF_vars(Handles(c) \/ GoesOn(c) \/ (c = Script /\ Begins(c)))
  /\ WF_vars(ScriptSucceeds \/ ScriptFails)

\* Every invocation ends, whatever becomes of its daemon, of the run it waits
\* for and of the files it reads; tail and logs -f are made to go on.
Waits(c) ==
  /\ call[c].at \notin {"idle", "tailing"}
  /\ call[c].at = "logging" => reader.at # "polling"
EveryVerbEnds == \A c \in Callers : Waits(c) ~> ~Waits(c)
=============================================================================
