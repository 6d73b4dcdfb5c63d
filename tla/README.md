# nhop in TLA+

nhop is a local proxy daemon: it accepts HTTP, SOCKS5 and raw TCP connections,
decides by a rule list whether each goes out directly or through an upstream
SOCKS5 proxy, and is configured by an init script that calls the `nhop` command
line back. This directory holds TLA+ models of the daemon, the TLC runs that
check them on small instances, and TLAPS proofs of what holds on all of them.

Paths below are relative to `src/nhop/src/` unless they start with `src/`.

## 1. Inventory

| part | state | operations | talks to |
|---|---|---|---|
| selection, `upstream/select.rs` | none (pure); the observed selection, a mutex | `select`, `observe` | verdicts, clock, log |
| verdicts, `upstream/health.rs` | one atomically swapped `{state, changed_at}` per upstream | `set_at`, `settle` | written by dials and probes |
| published list, `upstream/entries.rs`, `daemon/state.rs` | an atomically swapped list of entries with their handles and a publication number | `publish`, `adopted`, `snapshot` | written by the state task, read by all |
| patrol, `upstream/mod.rs` | sequences pending between rounds | one round: probe every entry, advance, observe | verdicts, list |
| dial, `upstream/mod.rs` | a snapshot and the entry selected | `routed`, `require`/`prefer`, failure classification | verdicts, list, upstream |
| state task, `daemon/state.rs` | live configuration, run in flight, last outcome, issued ids, remembered path | one handler per command, `settle`, `commit` | inbox, scripts, front ends |
| init run, `daemon/init_script.rs`, `daemon/staging.rs` | the child process, its staging | start, wait, kill at `LOAD_TIMEOUT`, complete | state task, control socket |
| front ends, `daemon/mod.rs` | two listeners, the forwards with their target cells, an accept task each | `rebind`, `rebind_forwards`, accept | state task, connections |
| live cells, `daemon/state.rs` | rules, upstream list | publish, read at accept or dial | connections |
| instance guard, `daemon/mod.rs` | pid file and its lock, socket file | `acquire`, `drop` | other daemons, the file system |
| control socket, `daemon/ipc_server.rs` | one conversation per client, event subscriptions | a line in, a line out, stream of events | state task, CLI |
| events, `proxy/mod.rs` | a bounded queue per subscriber and a count of drops | subscribe, publish | connections, `tail` |
| rules, `rules/` | ordered list | `push`, `decide` | connections, `test`, `explain` |
| HTTP, SOCKS5, forward, `proxy/` | per connection | request, decision, dial, relay, one event | rules, next hop, events |
| CLI, `cli/` | one request, its answer and an exit code per invocation | the verbs | control socket, settings, log |
| doctor, `cli/doctor.rs` | the findings of seven checks | five checks in the daemon's handler, two after it | daemon, settings, upstreams, files |
| macOS settings, `cli/system_proxy.rs` | three settings of a network service | one call of `networksetup` each | `proxy`, `status`, `doctor` |
| logging, `logging.rs` | daily files; a reader's offset | write, rotate, remove; list, read, poll | `logs`, the operator |
| open-file limit, `daemon/open_files.rs` | a limit | raise | system |

What is hard in it, and hardly reachable by a test:

* the patrol, every connection and the state task share atomically swapped
  cells and no lock, so each acts on what it read some time ago: a dial's
  verdict arrives after the list it selected from was replaced, a selection is
  observed after a newer one, a probe's stamp is older than a dial's that came
  before it;
* a run is a process the daemon does not control: its commands come back over
  the socket, some of them late, one of them refused, while clients send their
  own, and the completion that ends the run names no run;
* a commit binds addresses that may be taken, opens forwards after the front
  ends have moved, then writes three cells one after the other, while accept
  loops and connections read them;
* the daemon may be killed and started again while the scripts it started live;
* several daemons may start at once, beside one that is stopping, and each call
  they make on the pid file, its lock and the socket file is a step of its own;
* a connection may be lost at any of its awaits, and still owes one log line and
  one event that says how it went, to subscribers that may be slow or gone;
* an answer may be lost or torn with the daemon, after the command was applied
  or before, and a daemon older than its client refuses a list of upstreams its
  script goes on without;
* the settings are read and written one call after the other, while loads move
  the front ends, the operator runs another `nhop proxy`, and a call is refused;
* the log is read without a lock while it is written, rotated, removed, emptied
  by the operator and left torn by a daemon that died.

PROJECT.json lists each of these as a hazard at the line where it bites, with
the properties that cover it.

## 2. Plan

| step | modules | state |
|---|---|---|
| selection, verdicts, patrol, dials, loads of the list | `Select`, `SelectScan`, `Upstream`, `UpstreamHistory` and their proofs | done |
| state task, staging, init runs; the abstract specification of loads | `Config`, `AtomicLoad`, `Loads`, `LoadsProofs` | done |
| listeners, forwards, live cells and the connections reading them | `FrontEnds`, `FrontEndsProofs` | done |
| instance guard, start, failed start and shutdown, with several daemons | `Instance`, `InstanceProofs` | done |
| rules and decisions, the connection protocols with their one log line and event, subscribers' queues and drop counts | `Events`, `Connections`, `ConnectionsProofs` | done |
| the four matchers against a reference, and the decision over them | `Matchers` | done |
| the command line with doctor, settings and log, beside a daemon that refuses, fails and dies | `SystemProxy`, `Doctor`, `Logs`, `Cli`, `CliProofs` | done |
| proof: what a doctor's exit code agrees with (`DoctorTells`) | `CliProofs` | done |
| proofs: who loses its connections (`UpInServiceKeeps`); the steps of `Loads` map to steps of `AtomicLoad` | `UpstreamProofs`, `LoadsProofs` | done |
| proof: what `test` says (`TestTells`), down to the characters of a word | `Matchers`, `CliProofs` | done |

`Loads` and `FrontEnds` look at one commit from two sides. `Loads` takes a
commit as one step and follows what is committed and by whom. `FrontEnds` takes
apart the commit into its binds and writes, and reduces what is written to the
number of the order that wrote it. `Upstream` takes up one cell of it, the list,
and follows what the verdicts make of it. `Connections` follows one connection
between the cells: it leaves open which upstream is selected and what becomes of
the dial, and takes the rules as they were read at the accept. `Cli` sees the
daemon from outside: a request is handled in one step, as the state task handles
it, and what matters is what becomes of the answer.

## 3. Modules

### Select, SelectScan: the selection

`Select` is the three steps `select` documents (the first entry that has held,
else the one up longest, list order breaking ties, else none), as a choice over
sets of indices. `SelectScan` has the loop as it is written, a recursive function
over the entries that carries the longest one so far, and lets verdicts turn over and the wall clock move
both ways. An instant later than now counts as not held, as `duration_since`
failing does in the code.

### Upstream, UpstreamHistory: verdicts, patrol, dials

| variable | code |
|---|---|
| `lists` | the lists `LiveUpstream` has published; a snapshot is a position in it |
| `verdict` | `HealthHandle`'s cell; a handle is its address and the publication that made it, which is what `Arc::ptr_eq` tells apart |
| `dial` | the local state of `routed` in each connection task |
| `patrol` | the patrol task: its round, probes out, `Pending` sequences |
| `observed` | `Selection`'s mutex |
| `logged` | the switch the last swap of it yielded |

Actions: `Publish`; `DialSelects`, `DialObserves`, `DialReturns`, `DialJudges`
for a connection; `RoundStarts`, `ProbeReturns`, `RoundEnds`, `PatrolObserves` for the
patrol; `Tick`. The clock is relative: the present is the instant `Hold` and
remembered instants age; 0 stands for everything at least a hold ago, which
`select` treats alike, so no bound on time is needed. The instant of a Down
verdict is left out: `select` reads those of the Up entries only.
`HealthHandle::set` reads the clock before it swaps the verdict, so a dial's
stamp (`DialReturns`) and its swap (`DialJudges`) are two steps, and two dials
may swap against the order of their stamps. Reading the list and the
verdicts in it is one step (the verdicts a snapshot gives are read in one short
loop), and so are the swap of the observed selection and the switch it yields
(two tasks may still write their log lines in the other order). A probe's read
of the verdict and its write are one step: the write does nothing when the
verdict already says what was seen, so it is as if both were made at the write.
SOCKS replies and I/O errors are reduced to the four outcomes `failed_dial`
tells apart. The direct route and keepalive touch none of this state.

`UpstreamHistory` adds a record of what the probes of this round and the one
before answered. No action reads it.

### Config, AtomicLoad, Loads: commands and loads

`Config` holds what is common to the live state and a staging: what may be
configured, what a command does, what a commit replaces. `AtomicLoad` is the
promise of nhop's README, "Loads are atomic": a script's declarations replace
the configuration at one instant, or the routing is left alone; nobody edits
meanwhile; there are no processes, ids or queues. A step a script does not wait
for may take effect late, or not at all (`Orders`), and none of those that do may
be refused on what the ones before it declared (`Stages`). A load that fails may have moved the
front ends already: the code says so and the abstract `Discard` allows it.

`Loads` is the state task with everything around it: scripts that send their
steps one by one and wait for an answer or do not (`Sends`), that succeed, exit,
cannot be run or time out; the inbox (`calls`, `client`: any order between
senders, one request at a time); the handlers; the completion, which commits,
fails on a bind or drops the staging; and a daemon that dies and is started
again with or without its scripts. Every handler is one action because the state
task awaits nothing inside one. `SetUpstream` and `SetUpstreams` are one
operation, `On` is a reload without a path, a listen pair is one address, a
forward is its address (its target is in `FrontEnds`), and whether a bind
succeeds is left open where one is needed. Commands that only read change
nothing and are left out.

`Scripts` gives the file at each path; a path with none is a reload refused.
`Supervised` says whether a daemon that dies takes its scripts with it, as under
a supervisor that kills the process group.

### FrontEnds: listeners, cells, connections

One action per bind and per write to a cell another task reads, in the order
`commit`, `publish`, `rebind` and `rebind_forwards` make them: `Takes`, then
`Rebinds`/`KeepsFrontEnds`/`CannotRebind`, `BindsForwards`/`CannotBindForwards`,
`Points` for each forward kept, `OpensForwards`, `PublishesRules`,
`PublishesList`. An aborted accept task keeps its socket, and may accept once
more, until the runtime drops it (`closing`, `Releases`); so an address just let
go may still be taken. A connection is accepted, reads the rules, for a forward
then its target, and reads the list when it dials. `conn[c].since` and
`.accepted` record what was answered and published at the accept, for the
properties only. A bind may also fail for reasons outside the daemon;
`local_addr` failing on a bound socket is not considered, nor are ephemeral
ports.

### Instance: daemons around one pid file

Daemons are processes, each started once; an action is one call to the system,
since another process may act between any two. `phase` is the last call each
made. `acquire` is `Opens`, `Locks` or `IsRefused`, `ClearsSocket`, `Empties`,
`WritesPid`; `start_paced` goes on with `BindsSocket`, `SetsMode`, `BindsPorts`,
or `FailsToStart` at any of the three; `shutdown` is `Stops`, `RemovesSocket`,
and the guard's drop `RemovesPidFile`, `Unlocks`; `Ends` is the process gone, at
any point, its lock and ports with it. A file is told by a number from another
that had its name (`pidFile` is the one that has it now, `file` the one each
daemon has open), since a lock is of the file and a removal of the name. `socket`
is whose socket the socket file is; it outlives its owner. A daemon that moves
its front ends (`MovesAway`) leaves the first addresses to others. `beside` and
`removed` are history, for the properties only: whether another daemon was alive
during this one's life, whether the name was removed so far. The disk, directory
and signal handlers are taken to be in order, and the ports to be taken by
daemons only.

### Events, Connections: a connection and those who watch

`Events` has the subscribers of `proxy/mod.rs` with their queues of
`SUBSCRIBER_CAPACITY` and the counts of what did not fit, which the next event
that does carries. Publishing is one action, since the hub's lock is held over
all subscribers. `since` and `told` are history: what was published before the
subscription, and what was taken from the queue.

A connection of `Connections` is a task of its own, and `at` is the await it is
at. Its input is its visit: the protocol, the destination, the rules read at the
accept, what the head says of the body, what the client sends and how much of it
comes with the head. `Handshakes` is everything before a request is known,
`Decides` the decision with the loop guard, `Dials` is `NextHop::dial`, and
`Serves` the answer, the relay, the log line and the event. `tried` records every
way out a socket was asked for, `hop` and `via` what `Routed` keeps for the
report. A refusal that cannot be written takes the place of the dial's failure
as what `serve` returns, as in the code. Parsing is data (a head is readable or
not, at any time), and so is matching (a rule has the set of destinations it
matches); of the relay only the bytes of the client are counted, for
`OnlyItsBody`. A body with `Transfer-Encoding` ends with the client
(`proxy/http.rs:248`), which is why that property is about requests with a
length.

### Matchers: words, rules, decisions

Pure operators. A word is a sequence of the characters the parsers tell apart:
two letters in both cases, dot, star, blank, colon, brackets, slash, plus and two
digits. There may be others (`Characters`); the run has none, the proofs any. The four kinds of value are read (`ParseSuffix`, `ParseKeyword`,
`ParseIpNet`, `ParseU16`) and matched (`SuffixMatches`, `Matches`) as the code
does it: a suffix by `strip_suffix` and the dot before it, a host without case
and without the dot of the root. Addresses and ports are written in binary and
are `Bits` and `PortBits` wide; the parsers of the standard library and of
`ipnet` are external, and modelled by what they accept. `Decide` is the two
passes of `Ruleset::decide`, `DecisionView` what `test` prints, including the
brackets a host with a colon is given. An upstream is known by the socket it
reads as.

### SystemProxy, Doctor: settings and checks

A setting is on or off and keeps its address when it is off. `Enabling` and
`Disabling` are the invocations `nhop proxy` makes, in their order; `Invoked` is
what `networksetup` does (external), `ParseReport` what is read back. The bypass
list is written and never read, so it is an invocation that changes nothing. The
two spellings of an address that the doctor compares are kept apart
(`EndpointSpelled`, `AddressSpelled`). `Doctor` has the seven checks as whether
they pass, the report that counts a check not made as failed, and the exit code.

### Logs: the files and their reader

| variable | code |
|---|---|
| `today` | the date the rolling writer goes by |
| `files` | the log directory: by day, the complete lines and what follows the last line break |
| `reader` | the one `nhop logs`: files still to print, the offset, what it has printed |
| `born`, `cut` | history: the day of each line and whether it was written whole; what the operator cut off |

`WritesPart` and `WritesRest` are one write, of which a reader may find a part;
`Rolled` opens the file of the day and removes the oldest; `Torn` is what a dead
daemon leaves, behind which the next line cannot be read as JSON; `Truncates` the
operator. `StartsReading`, `ReadsFile`, `Polls`, `PollFails` are the verb.
Lines are numbered, which is their timestamp, and all of one length, so an
offset counts lines. Listing the directory is one step and reading a file
another; printing does not fail.

### Cli: invocations beside a daemon

| variable | code |
|---|---|
| `call` | each process that runs `nhop`: where it is, its request, the answer, the exit code; `done` counts how often its command took effect |
| `daemon` | the daemon from outside: configuration, run in flight with its staging, last outcome, issued ids |
| `settings` | the three settings of the network service |
| `world` | the files the daemon looks at, the upstreams that answer |
| `seen` | history: what a doctor's checks could have found since it asked |
| `plan`, `left` | the behaviour's plan, and what of its faults and changes is left |

An invocation ends at once (`EndsAtOnce`: help, arguments, no permission), sends
its request (`Sends`, `CannotSend`) or needs no daemon (`StartsSettings`,
`StartsLogs`). The daemon refuses the line (`Unparsed`), handles it (`Mutates`,
`CannotBind`, `TurnsOff`, `Answers`, `Reloads`, `Captures`, `Subscribes`) and,
off the state task, reads the settings one by one and dials every upstream at
once (`ReadsSetting`, `DialEnds`, `DialsUpstreams`): a dial ends at a time of its
own, so the list is never judged at one instant. The answer ends the invocation
(`Receives`), is followed by the command that fails the load (`FollowsUp`: or by
one that does not get through, which the code ignores), or gives the addresses
`proxy on` writes (`Points`, `WritesSetting`). The run in flight counts, as
history, the lists of its script that were refused, where the daemon refuses them
(`Refusing`), and the follow-ups that were lost (`Losing`). One caller is the init script: its
invocations carry the load's id, and the run ends by `ScriptSucceeds`,
`ScriptFails` or `CommitFails`. `Dies` gives every open invocation what is left
of it: no answer, a torn one, or the one already received.

Abstractions: a script ends between two of its commands and is gone with its
daemon (scripts that live on, and commands in the background, are in `Loads`);
the boot's own reload is in flight in the first state; there is one service and
one reader of the log; `start` is module `Instance`. The words of findings, help
and errors are left out; `Malformed` is which arguments are refused.

### MC modules

`MCSelectScan`, `MCUpstream`, `MCUpstreamHistory`, `MCLoads`, `MCFrontEnds` give
the lists, scripts, requests and orders of the runs below (`MCUpstreamHistory`
for `upstream_reloads`); `MCInstance` the symmetry of its daemons;
`MCConnections` the visits; `MCCli` the plans.

## 4. Runs

| run | result | what it shows |
|---|---|---|
| `select_scan` | holds | the loop computes the three documented steps for every list of up to three entries over four instants, the clock moving back included; time alone only promotes; a fresh turnover elsewhere leaves the selection alone |
| `upstream_verdicts` | holds | with one list of two upstreams: an upstream in service that stays up loses its connections only to a higher-ranked one that has held or ties with it, or to one turned up in that step on an older stamp (a probe's round start, or a dial that stamped before and swapped after); an upstream that answers one way is judged so; one ranked first that stays up gets its connections back, on record, with no connection to notice |
| `upstream_reloads` | holds | with lists that keep, move, drop and bring back an address while a dial and probes are out: handles are one uninterrupted publication of an address, no dial turns the verdict of an address dropped and added back, the switch log ends where the observed selection is, a load is logged once, and a probe turns a verdict only together with the probe of the round before, of the same handle, whatever dials and loads do in between |
| `upstream_displaced` | violated | finding 1 |
| `loads` | holds | the state task implements `AtomicLoad`; a waiting completion is of the run in flight; only a run's own script stages into it; no script waits for a command that is gone; every client is answered |
| `loads_orphans` | violated | finding 2 |
| `front_ends` | holds | what `status` reports is served by one listener each; a listener is let go only when every address wanted of its kind is bound; once a load is answered, connections are routed by it or a later one; no connection takes a load's rules to an earlier load's target |
| `front_ends_hop` | violated | finding 3 |
| `instance` | holds | a start fails only beside another living daemon, whatever was left behind; a daemon alone for its life is the one the socket reaches and the pid file names, and leaves neither when signalled; at most one has a claim until the first removal of the pid file |
| `instance_claim` | violated | finding 4 |
| `connections` | holds | whichever write or dial fails: a connection decided leaves one log line; a failure is answered with its reason; no socket is opened that the rules forbid, and none to nhop itself; the event names the way dialled last; a request's body is passed on whole and nothing after it; a subscriber is told of every event it missed |
| `cli` | holds | whatever becomes of the daemon and the connection: a mutating command that exits 0 was applied, once, and one that exits 4 was not; a load with a refused list does not commit, on a daemon older than lists unless every command sent to fail the load was lost; `test` says what the rules mean, label by label; a doctor's exit code agrees, fact by fact and upstream by upstream, with what there was to see while it looked; `logs` prints in order, no line twice, none left out in the middle of a day; every verb ends |

Bounds, and why they are enough:

* `Entries`, `MaxTime`, `Hold` of `SelectScan`: three entries make every shape
  of the loop (a held one before, between and after the longest), four instants
  with hold two make held, not held, tied, and in the future.
* `MaxPublications`: 2 for the runs on verdicts (the empty list the daemon
  starts with and one more), 4 for the others: an address listed, dropped and
  listed again, with a dial still holding the first list.
* `Dials`: two in `upstream_verdicts`, one turning an entry up between the stamp
  and the swap of the other; the run meets that displacement. `Hold = 1` there:
  a stamp is of this instant or has held, which is enough for one to overtake the
  other. One in the other runs, whose properties are about one dial against the
  patrol and the loads; the proofs have any number of dials and any hold.
* `MaxRuns = 2`, `MaxRestarts = 1`, `MaxRules = 2`: a run, what it left behind,
  and a second run it could disturb, in the same daemon or in the next one.
* `MaxOrders = 4`, one connection, four addresses: a forward opened, kept,
  closed and its address taken by a front end, with a connection accepted before
  any of it. Connections do not influence each other except through the accept
  loop they block, which only delays.
* Four daemons in `instance`: one stopping, one that opened the file before, two
  newcomers, so that a file without a name, its successor and what both left are
  there together. They are interchangeable and no property is about liveness,
  so the symmetry is sound. Three suffice for `instance_claim`.
* Three connections in `connections`, and `Capacity = 1`: one event waits, one is
  dropped, one reports the drop. One connection may be of any kind with any list
  of up to two matching rules, a longer list with a rule for somewhere else, or
  any body of up to two bytes of which up to three are sent, cut anywhere; the
  other two are alike, so exchanging them is sound (no property is about
  liveness). A property about one connection needs no other beside it.
* The plans of `cli`: each names the invocations of two or three callers and how
  many deaths, starts, failed calls, refused binds and settings, failing scripts,
  changes of the surroundings, lines, midnights and emptied files may happen
  (`left`), anywhere. One of each kind is enough to meet every step of an
  invocation; the plans with a script, a shell beside it and a death have the
  fault before, between and after the request, its effect and its answer. `test`
  goes over suffixes and hosts of up to three characters, which hold an empty
  label, a dot at either end, a suffix inside a label and both cases;
  `Bits = 2` and `PortBits = 2` make networks of every length and a port too
  large. `KEPT_FILES = 2` and `MaxDays = 3` let a file be removed while it is
  listed, followed or being read.

Deadlock is checked in every run but those of `Instance`, where every daemon may
have ended, `Connections`, where every connection may be done, and `Cli`, where
every caller may be.

Fairness. `Upstream`: the patrol loop runs for the life of the daemon and every
probe is cut off at `PROBE_TIMEOUT`, so its next step always comes; so does time.
Dials are owed nothing. `Loads`: the state task serves its inbox in order and
takes completions from the same `select!`; a run still watched is killed at
`LOAD_TIMEOUT`. Scripts are owed nothing: one may hang for ever, and
`EveryClientAnswered` holds because the daemon gives up on it. `Cli`: a process
that was started gets on with its work, the daemon with the requests it has, and
a run is over at `LOAD_TIMEOUT` at the latest. Nobody need start an invocation
but the script, the daemon need not die, and one that died need not start again.

## 5. Where comments and code differ

1. `upstream_displaced`: `upstream/select.rs:43-45` says a selected entry that
   is up is never displaced by a lower-ranked one while the clock does not move
   back. A round stamps the verdicts it turns with its start
   (`upstream/mod.rs:540`); a dial through the first entry that turns it up
   during the round is stamped later than the second entry, whose probe returns
   afterwards, so the second has been up "longest" and takes over.
2. `loads_orphans`: `daemon/staging.rs:169` says a load id is one no earlier run
   has carried. Ids start from zero in each daemon (`:171`), so a script that
   outlives a killed daemon speaks with the id of the next daemon's first run,
   and its command is staged there. With `Supervised` the property holds
   (`loads`, and proved).
3. `front_ends_hop`: `proxy/mod.rs:462-463` says a load that commits
   mid-connection cannot move the connection to another next hop, and
   `daemon/state.rs:103` that a list is for connections accepted from then on.
   The list is read when the connection dials (`upstream/mod.rs:178`).
4. `instance_claim`: `daemon/mod.rs:104` calls the guard an exclusive claim, held
   for as long as the daemon runs. Its drop removes the name, then the lock
   (`:141-142`). A daemon that opened the file before the removal then locks a
   file without a name, while a third makes a new one and locks that. The later
   of the two removes the other's socket and can notice it only at the ports,
   which the other may have left. Before the first removal the claim is exclusive
   (`OneClaimUntilRemoved`, proved).

Met while modelling, and stated as exceptions in the properties rather than as
runs:

* The doctor compares the setting's `host:port` with a socket address, which puts
  an IPv6 host in brackets (`cli/doctor.rs`, `cli/system_proxy.rs`): with an IPv6
  front end the check of the settings never passes (`DoctorTells`).
* `logs -f` reads the newest file only: lines written to the file of a day after
  its last poll and before the first line of the next are not shown. What it
  misses is the end of a day (`ShownWithoutGaps`).
* A log file that was emptied and has grown past the reader's offset by the next
  poll is read on from the offset (`ShownWithoutGaps`, `cut`).
* `nhop upstream` ignores whether the command that fails its load got through
  (`cli/mod.rs`, `set_upstreams`). A daemon older than lists keeps nothing of the
  refusal itself, so when every such command of a script is lost and the script
  goes on to exit zero, the load commits without the list
  (`RefusedListNeverCommits`, `lost`). A current daemon drops the load by itself.
* The doctor's dials end at different times. It may exit 3, each upstream having
  been seen not to answer, although at no instant all of them were silent
  (`DoctorTells` claims the facts one by one).
* An answer torn by the daemon's death exits 1, although the command may have
  been applied (`SuccessMeansDone`).

## 6. Proofs

All from the named assumptions on the constants only: lists, hold, scripts,
numbers of dials, clients, runs and restarts are arbitrary, and so are the
connections, their visits and rules, the subscribers, and the finite number of
daemons.

| theorem | states | argument |
|---|---|---|
| `SelectIsUp`, `TimePromotes` | the selection is an entry that is up if there is one; a later instant keeps it or moves it up | the least element of the entries that have held, or of the longest ones, exists (`FirstExists`, `LongestExists`: well-foundedness of the naturals), and `SelectCases` tells which case applies |
| `ScanComputesSelect`, `ScanAgrees` | the loop of `select` is the declarative selection | induction over the entries: `Carries` says what the loop knows past the first *k* of them, `VisitCarries` that one turn keeps it |
| `ScanTimeOnlyPromotes`, `ScanFreshTurnover` | the action properties of `SelectScan` | from the above |
| `TypeCorrect` | `Upstream!TypeOK` | inductive; `Publish` needs that an adopted list is made of handles and that earlier positions of `lists` stay |
| `SwitchLogTells`, `ReloadsLogOnce` | the switch log | inductive over `TypeOK`; publication numbers only grow |
| `HandlesAreRuns`, `VerdictsStayInTheirRun` | handles are uninterrupted publications; so no dial reaches across a removal | `HandleIsOneRun` alone is not inductive: a fresh handle must differ from every earlier one, hence `BornBefore` (a handle is no younger than a list it is in) |
| `SelectedUpKeeps` | `UpInServiceKeeps`: connections leave an upstream that stays Up only for a better one, or for one a probe or a dial turns up in that step on an older stamp | with a relative clock the entry selected is the one up longest (`SelectsLongestUp`), there is one such (`OneLongestUp`), time keeps the order of the stamps, and of a single verdict that turns only the turned entry can gain (`TurnsSelection`) |
| `SequencesAreAnswered`, `ProbesAgree` | a probe turns a verdict only with the one before | `PendingAnswered` with `OutOnlyProbing` (no probe is out between rounds) |
| `LoadsTypeCorrect` | `Loads!TypeOK` | inductive: a command is checked before it is applied, live or staged |
| `CompletionsEndTheirRun` | a waiting completion is of the run in flight | not inductive alone: `CInv` adds that the run in flight was started under its id, that only the run in flight is watched, and that at most one completion waits |
| `ScriptsWaitForAnswers` | no script waits for a command that is gone | inductive over `TypeOK` |
| `RunsStageTheirOwn` | under a supervisor, only its own script stages into a run | `ToldApart`: a run that can still speak and has the id of the run in flight is that run |
| `LoadsImplementAtomic` | under a supervisor, `Loads` implements `AtomicLoad` | `AInv`: what a run that has not failed has staged is what its steps handled so far declare, in an order that `AtomicLoad` allows (`StagesAll`; the order and its stages grow by one with each command handled, `OrderGrows`, `StagesGrow`), a step that is waited for is the last one sent, and a script that succeeded has sent all and waits for nothing; so a commit finds the script whole (`CommitIsWhole`), and each other step is an edit, a begin, a discard, a restart or a stutter (`StepsAreAtomic`) |
| `InstanceTypeCorrect`, `OneClaim` | `Instance!TypeOK`, with the lock held from lock to unlock; exclusive claims until the first removal | each daemon makes at most one file, so the files suffice (`FilesSuffice`, cardinality); `OneFile`: until a removal every daemon has the named file open |
| `SoleIsReachable`, `SoleLeavesNothing`, `LeftoversAreCleared` | what a daemon alone can count on | none is inductive: `HeldByLiving` (locks and ports are of living daemons) with `SoleIsAlone` (a daemon never beside another is the only one alive, and what its files are at each phase) |
| `ConnectionsTypeCorrect` | `Connections!TypeOK`, with the queues within their capacity | inductive; every step of a connection is a step or a stutter of `Events` (`NextIsEventStep`) |
| `StreamsTellGaps` | a subscriber can account for every event since it subscribed | inductive over the types with `Fresh`: one who has not subscribed has an empty stream |
| `DecisionsAreLogged`, `FailuresAreAnswered`, `EventsReport` | log line, answer and event of a connection | none is inductive: `Course` says for every place what is already answered, dialled, recorded and logged; a step of one connection leaves the others' courses alone (`OthersStand`) |
| `RulesBind` | no socket against the rules | `Allowed`, a part of `Course`, ties every way tried to the decision; `DecisionTells` ties the decision to the rules, where the first match exists because the naturals are well-founded |
| `BodiesArePassedOn` | of a request with a length exactly its body is passed on | `Body`: at every place of a relay, what was passed on and what is still held from behind the head are, in order, the first bytes of the body (`BodyInv`, over `CourseInv`) |
| `FrontEndsTypeCorrect`, `StatusIsTrue` | `FrontEnds!TypeOK`; the addresses reported are served by one listener each | not inductive alone: `ServedInv` adds what each step of an order can be about (`Shapes`), what is recorded between the steps (`Recorded`), and that the listeners bound for an order clash with none that stays (`Apart`) |
| `NothingClosedUnreplaced` | no order leaves fewer listeners by failing | an action property, step by step over `ServedInv` |
| `AnsweredLoads`, `TargetsKeepUp` | a connection is routed by the load answered at its accept or a later one; never by a load's rules to an earlier load's target | `InForceInv`: listeners known are no younger than the order (`OpenedBefore`), the cells only grow (`CellsGrow`), a load points its forwards before it publishes (`TargetsFirst`), what a connection read lies between what was answered and what is published (`ReadsBetween`) |
| `CodesAreTrue` | `SuccessMeansDone`: exit codes of mutating commands | `CliInv`: `Truthful` says at every place of an invocation what the daemon has done of its command and what the answer on its way will say; `Waiting` that a reload waits for the run it started |
| `RefusedIsDropped` | `RefusedListNeverCommits`, an action property | `Refusals`: the run in flight is the script's; where lists are known a refused one has failed it; on an older daemon, while it has not failed, no more lists were refused in it than follow-ups were lost, but for the one whose follow-up the script still owes (`Owing`, `Balanced`), which it owes no longer when it ends |
| `DoctorsAgree` | `DoctorTells`: the exit code of a doctor agrees with what could be seen while it ran | `DoctorInv`: `Examining` says at every place of a doctor that what it was told, what it has read and what each dial that has ended found could be seen (`ToldTruly`, `Looked`, `FoundSoFar`) and that its report accounts for its code (`Accounted`, from what the codes of a report mean, `ReportTells`); only its own steps and the death of its daemon move it (`DoctorsMoves`), and what could be seen once stays seen (`ExaminingStands`) |
| `TestsTell` | `TestTells`: `test` says what the rules mean, and its next hop reads back | `TestInv`: an answered `test` holds the answer made of the rules that were live (`Told`; only the handler of `test` makes such an answer, `OnlyTestsDecide`), the live rules are ones that can be read (`Placed`) and what was asked about is a word read as a destination (`Worded`). Then word by word: a suffix that matches is one of whole labels and back (`LabelsMatched`), a keyword one found anywhere (`KeywordParts`), hence `MatchesAsMeant` and, with the first rule that matches, `DecisionTells`; the digits of a port are read back as the port (`PortReadBack`), so the hop printed is the destination typed (`ReadsBack`) |
| `LogsInOrder` | lines in order, none twice | `LogsInv`: what is written (`FilesInv`: the days are disjoint stretches of the numbers), and that whatever the reader has still to read is later than whatever it has shown (`ReaderInv`) |
| `LogsLeaveNoGaps` | nothing left out | `GapsInv`: the file of a day holds what was written whole (`Stored`); what is printed of a day is gapless from the window on, `logs -f` has printed all that lies before its offset, and what `logs` owes is shown, cut or still in a file queued (`NoneMissed`) |

The theorem statements are about the specifications TLC runs, and need no more
than the `ASSUME`s of their modules, and `Supervised` in two theorems of
`Loads`. `Cli` takes the value for none (`Unset`) to be no caller and no load id
(`CliAssumption`), and has one
assumption about its plans
(`PlansAssumption`: a plan gives each caller a sequence of invocations of the
verbs there are, `logs` its window as a number, `listen` its addresses, a rule
its class and a word as its value and `test` a word as its target, and starts from
settings that can be read) and one about front ends (`ListensAssumption`: they
listen on addresses); `SystemProxy` tells an address from there being none
(`AddressesAssumption`). A word is any sequence of characters, of which
`Matchers` names those its parsers look for and leaves open whether there are
others (`CharactersAssumption`); the widths of an address and of a port are any
(`WidthAssumption`).

Loops over data are recursive functions where something is proved of them
(`Scan`, `InOrder`, the `Stages` of `AtomicLoad`, `Number` and `Halves` of
`Matchers`). The induction theorems of the library take the property as
an operator and cannot be instantiated here; so each induction is by least
counterexample: the places at which the property fails are a set of numbers,
which has a least element if it is not empty (`FirstExists`, `LeastOf`), and the
step of the loop denies it (`NoneFails`, `NoneEverFails`). That the recursive function exists, or
that there is only one, is shown the same way (`ScanRuns`, `StagesAreOne`, `NumberRuns`,
`HalvesRun`).

`Upstream!TypeOK`, `PendingAnswered` and `Loads!TypeOK` hold for every value of the
constants by these proofs and are not part of a run.

Only model-checked: the liveness properties `PatrolConverges`, `FirstTakesBack`,
`EveryClientAnswered` and `EveryVerbEnds` (fairness and `ENABLED` are beyond this
prover). Every other property of a passing run is a theorem. Without a supervisor
neither `StagedByItsRun` nor `LoadsAreAtomic` is claimed: `Supervised` is a
hypothesis of both theorems, and `loads_orphans` shows what it is for.

## 7. Not modelled

* The reading and rewriting of HTTP heads and SOCKS5 messages (`proxy/http.rs`,
  `proxy/socks5.rs`): in `Connections` a head is readable or not, and
  what is written to the next hop is not looked at. They are sequential functions
  over bytes that keep no state between two connections.
* What a command prints, its JSON form and its help; the encoding of requests and
  answers; the paths under the home directory: sequential code without state. Of
  the encoding `Cli` keeps which daemon reads which command and that a line may
  be too long.
* Failing accepts, which are logged and tried again after a pause, and the set-up
  of tasks at the start.
* The open-file limit: one call at the start whose failure is logged and
  ignored.
