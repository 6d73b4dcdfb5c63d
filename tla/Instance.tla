------------------------------ MODULE Instance ------------------------------
(***************************************************************************)
(* The single-instance guard: daemons that start, are refused, fail to     *)
(* bind, stop when signalled or die, around one pid file, one control      *)
(* socket and one pair of ports.                                           *)
(* Source: src/nhop/src/daemon/ (mod, ipc_server).                         *)
(*                                                                         *)
(* A daemon is a process; an action is one call to the system, since       *)
(* another process may act between any two.  A file is told from another   *)
(* that had its name by a number.  The directory, disk and permissions are *)
(* in order, and nobody but a daemon takes the ports.                      *)
(***************************************************************************)
EXTENDS Naturals, FiniteSets

CONSTANTS Daemons,   \* processes, each started once
          Nobody     \* no process

ASSUME DaemonsAssumption == IsFiniteSet(Daemons) /\ Nobody \notin Daemons

\* Every daemon creates at most one pid file; 0 is no file.
Files == 1..Cardinality(Daemons)
NoFile == 0

VARIABLES
  phase,     \* the last thing each daemon did
  pidFile,   \* the file that has the pid file's name
  created,   \* pid files ever created
  file,      \* the file each daemon has open
  lock,      \* who holds the lock of each file
  pid,       \* what each file says
  socket,    \* whose socket the socket file is, dead or alive
  ports,     \* who is bound to the front ends' first addresses
  beside,    \* whether another daemon was alive during each one's life
  removed    \* whether a daemon removed the pid file's name so far

vars == <<phase, pidFile, created, file, lock, pid, socket, ports, beside, removed>>

\* Before acquire has returned, after it, and on the way out.
Claiming == {"opened", "locked", "cleared", "emptied"}
Claimed == {"claimed", "bound", "listening", "serving", "stopped", "dropping"}
Phases == {"new", "refused", "unlinked", "leaving", "dead"} \cup Claiming \cup Claimed

Alive == {d \in Daemons : phase[d] \notin {"new", "dead"}}

Init ==
  /\ phase = [d \in Daemons |-> "new"]
  /\ pidFile = NoFile /\ created = 0
  /\ file = [d \in Daemons |-> NoFile]
  /\ lock = [f \in Files |-> Nobody]
  /\ pid = [f \in Files |-> Nobody]
  /\ socket = Nobody /\ ports = Nobody
  /\ beside = [d \in Daemons |-> FALSE]
  /\ removed = FALSE

\* The daemon did one thing more.
Did(d, from, to) == phase[d] = from /\ phase' = [phase EXCEPT ![d] = to]

-----------------------------------------------------------------------------
(* InstanceGuard::acquire *)

\* The pid file is opened, and made if there is none.
Opens(d) ==
  /\ Did(d, "new", "opened")
  /\ created' = IF pidFile = NoFile THEN created + 1 ELSE created
  /\ pidFile' = IF pidFile = NoFile THEN created + 1 ELSE pidFile
  /\ file' = [file EXCEPT ![d] = pidFile']
  /\ beside' = [e \in Daemons |-> beside[e] \/ (Alive # {} /\ e \in Alive \cup {d})]
  /\ UNCHANGED <<lock, pid, socket, ports, removed>>

\* Fault: the lock is taken whoever holds it.
LocksAnyway(d) ==
  /\ Did(d, "opened", "locked")
  /\ lock' = [lock EXCEPT ![file[d]] = d]
  /\ UNCHANGED <<pidFile, created, file, pid, socket, ports, beside, removed>>

Locks(d) ==
  /\ Did(d, "opened", "locked")
  /\ lock[file[d]] = Nobody
  /\ lock' = [lock EXCEPT ![file[d]] = d]
  /\ UNCHANGED <<pidFile, created, file, pid, socket, ports, beside, removed>>

\* AlreadyRunning.
IsRefused(d) ==
  /\ Did(d, "opened", "refused")
  /\ lock[file[d]] # Nobody
  /\ UNCHANGED <<pidFile, created, file, lock, pid, socket, ports, beside, removed>>

\* Fault: the socket file is left where it is.
ClearsNothing(d) ==
  /\ Did(d, "locked", "cleared")
  /\ UNCHANGED <<pidFile, created, file, lock, pid, socket, ports, beside, removed>>

\* Whatever socket file there is goes.
ClearsSocket(d) ==
  /\ Did(d, "locked", "cleared")
  /\ socket' = Nobody
  /\ UNCHANGED <<pidFile, created, file, lock, pid, ports, beside, removed>>

Empties(d) ==
  /\ Did(d, "cleared", "emptied")
  /\ pid' = [pid EXCEPT ![file[d]] = Nobody]
  /\ UNCHANGED <<pidFile, created, file, lock, socket, ports, beside, removed>>

\* Fault: the number is still in a buffer.
WritesPidUnflushed(d) ==
  /\ Did(d, "emptied", "claimed")
  /\ UNCHANGED <<pidFile, created, file, lock, pid, socket, ports, beside, removed>>

WritesPid(d) ==
  /\ Did(d, "emptied", "claimed")
  /\ pid' = [pid EXCEPT ![file[d]] = d]
  /\ UNCHANGED <<pidFile, created, file, lock, socket, ports, beside, removed>>

-----------------------------------------------------------------------------
(* start_paced *)

BindsSocket(d) ==
  /\ Did(d, "claimed", "bound")
  /\ socket = Nobody
  /\ socket' = d
  /\ UNCHANGED <<pidFile, created, file, lock, pid, ports, beside, removed>>

\* The mode is set by name, on whatever has the name then.
SetsMode(d) ==
  /\ Did(d, "bound", "listening")
  /\ socket # Nobody
  /\ UNCHANGED <<pidFile, created, file, lock, pid, socket, ports, beside, removed>>

BindsPorts(d) ==
  /\ Did(d, "listening", "serving")
  /\ ports = Nobody
  /\ ports' = d
  /\ UNCHANGED <<pidFile, created, file, lock, pid, socket, beside, removed>>

\* Fails at any of the three: the guard is dropped, a socket file bound stays.
FailsToStart(d) ==
  /\ \/ Did(d, "claimed", "dropping") /\ socket # Nobody
     \/ Did(d, "bound", "dropping") /\ socket = Nobody
     \/ Did(d, "listening", "dropping") /\ ports # Nobody
  /\ UNCHANGED <<pidFile, created, file, lock, pid, socket, ports, beside, removed>>

-----------------------------------------------------------------------------
(* A daemon serving, and its end *)

\* A load or a command moves the front ends to other addresses.
MovesAway(d) ==
  /\ phase[d] = "serving"
  /\ ports = d
  /\ ports' = Nobody
  /\ UNCHANGED <<phase, pidFile, created, file, lock, pid, socket, beside, removed>>

\* A signal: no more clients are accepted.
Stops(d) ==
  /\ Did(d, "serving", "stopped")
  /\ UNCHANGED <<pidFile, created, file, lock, pid, socket, ports, beside, removed>>

\* Fault: the socket file stays.
RemovesNoSocket(d) ==
  /\ Did(d, "stopped", "dropping")
  /\ UNCHANGED <<pidFile, created, file, lock, pid, socket, ports, beside, removed>>

RemovesSocket(d) ==
  /\ Did(d, "stopped", "dropping")
  /\ socket' = Nobody
  /\ UNCHANGED <<pidFile, created, file, lock, pid, ports, beside, removed>>

\* InstanceGuard::drop: the name goes, whichever file has it ...
RemovesPidFile(d) ==
  /\ Did(d, "dropping", "unlinked")
  /\ pidFile' = NoFile
  /\ removed' = TRUE
  /\ UNCHANGED <<created, file, lock, pid, socket, ports, beside>>

\* ... then the lock.
Unlocks(d) ==
  /\ Did(d, "unlinked", "leaving")
  /\ lock' = [lock EXCEPT ![file[d]] = Nobody]
  /\ UNCHANGED <<pidFile, created, file, pid, socket, ports, beside, removed>>

\* The process ends, of itself or killed: its lock and its ports go with it, the
\* files stay.
Ends(d) ==
  /\ d \in Alive
  /\ phase' = [phase EXCEPT ![d] = "dead"]
  /\ lock' = [f \in Files |-> IF lock[f] = d THEN Nobody ELSE lock[f]]
  /\ ports' = IF ports = d THEN Nobody ELSE ports
  /\ UNCHANGED <<pidFile, created, file, pid, socket, beside, removed>>

Acquires(d) ==
  Opens(d) \/ Locks(d) \/ IsRefused(d) \/ ClearsSocket(d) \/ Empties(d) \/ WritesPid(d)

Starts(d) == BindsSocket(d) \/ SetsMode(d) \/ BindsPorts(d) \/ FailsToStart(d)

ShutsDown(d) == Stops(d) \/ RemovesSocket(d) \/ RemovesPidFile(d) \/ Unlocks(d)

Next == \E d \in Daemons : Acquires(d) \/ Starts(d) \/ MovesAway(d) \/ ShutsDown(d) \/ Ends(d)

Spec == Init /\ [][Next]_vars

-----------------------------------------------------------------------------
(* Properties *)

\* Shapes of the state: whoever is between its lock and its unlock holds the lock
\* of the file it has open.
TypeOK ==
  /\ phase \in [Daemons -> Phases]
  /\ created \in 0..Cardinality({d \in Daemons : phase[d] # "new"})
  /\ pidFile \in 0..created
  /\ file \in [Daemons -> 0..created]
  /\ lock \in [Files -> Daemons \cup {Nobody}] /\ pid \in [Files -> Daemons \cup {Nobody}]
  /\ {socket, ports} \subseteq Daemons \cup {Nobody}
  /\ beside \in [Daemons -> BOOLEAN] /\ removed \in BOOLEAN
  /\ \A d \in Daemons :
       /\ phase[d] # "new" => file[d] # NoFile
       /\ phase[d] \in (Claiming \ {"opened"}) \cup Claimed \cup {"unlinked"} => lock[file[d]] = d

\* Leftovers never block a start: whatever a daemon that stopped, failed or died
\* at any point left behind, the next one fails only if another was alive in its
\* lifetime.
LeftoversBlockNobody ==
  [][\A d \in Daemons : IsRefused(d) \/ FailsToStart(d) => beside[d]]_vars

\* A daemon that had the machine to itself can be reached and is the one the pid
\* file names, for as long as it serves.
AloneIsReachable ==
  \A d \in Daemons : phase[d] = "serving" /\ ~beside[d]
    => socket = d /\ pidFile = file[d] /\ pid[pidFile] = d

\* A daemon that stops when signalled, having had the machine to itself, leaves
\* neither file.
StopLeavesNothing ==
  \A d \in Daemons : phase[d] = "leaving" /\ ~beside[d] => socket = Nobody /\ pidFile = NoFile

\* Until a daemon removes the pid file, at most one has a claim, however many
\* start at once and die in between.
OneClaimUntilRemoved ==
  ~removed => \A d, e \in Daemons : {phase[d], phase[e]} \subseteq Claimed => d = e

\* What InstanceGuard says: the claim on the pid file is exclusive, and held for
\* as long as the daemon runs.
ClaimIsExclusive ==
  \A d, e \in Daemons : {phase[d], phase[e]} \subseteq Claimed => d = e

=============================================================================
