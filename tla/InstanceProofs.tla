--------------------------- MODULE InstanceProofs ---------------------------
(***************************************************************************)
(* The single-instance guard, for any number of daemons: types, what holds *)
(* of a daemon that had the machine to itself, and that only the removal   *)
(* of the pid file can ever let two claims stand side by side.             *)
(***************************************************************************)
EXTENDS Instance, FiniteSetTheorems, TLAPS

\* The daemons started so far: each made at most one file.
Began == {d \in Daemons : phase[d] # "new"}

Locking == (Claiming \ {"opened"}) \cup Claimed \cup {"unlinked"}

\* There is a file for every daemon.
LEMMA FilesSuffice ==
  ASSUME TypeOK
  PROVE  /\ IsFiniteSet(Began) /\ Cardinality(Began) \in Nat
         /\ Cardinality(Daemons) \in Nat /\ Cardinality(Began) <= Cardinality(Daemons)
         /\ created \in Nat /\ created <= Cardinality(Began)
<1>1. IsFiniteSet(Daemons) /\ Began \in SUBSET Daemons
  BY DaemonsAssumption DEF Began
<1>2. IsFiniteSet(Began) /\ Cardinality(Began) <= Cardinality(Daemons)
  BY <1>1, FS_Subset
<1>3. Cardinality(Began) \in Nat /\ Cardinality(Daemons) \in Nat
  BY <1>1, <1>2, FS_CardinalityType
<1>4. created \in 0..Cardinality(Began)
  BY DEF TypeOK, Began
<1> QED BY <1>2, <1>3, <1>4

\* A file a daemon has open has a number.
LEMMA OpenedFile ==
  ASSUME TypeOK, NEW d \in Daemons, phase[d] # "new"
  PROVE  file[d] \in Files
<1>1. file[d] \in 0..created /\ file[d] # 0
  BY DEF TypeOK, NoFile
<1> QED BY <1>1, FilesSuffice DEF Files

\* Once begun, a daemon stays begun.
LEMMA BeganStands ==
  ASSUME TypeOK, NEW d \in Daemons, NEW from, NEW to, Did(d, from, to), from # "new", to # "new"
  PROVE  Began' = Began
BY DEF Did, TypeOK, Began

\* A step that opens, locks and unlocks nothing keeps the types.
LEMMA PlainStep ==
  ASSUME TypeOK, NEW d \in Daemons, NEW from \in Phases \ {"new"}, NEW to \in Phases \ {"new"},
         Did(d, from, to), to \in Locking => from \in Locking,
         pidFile' \in {pidFile, NoFile}, UNCHANGED <<created, file, lock, beside>>,
         pid' \in [Files -> Daemons \cup {Nobody}],
         {socket', ports'} \subseteq Daemons \cup {Nobody}, removed' \in BOOLEAN
  PROVE  TypeOK'
<1>1. phase' \in [Daemons -> Phases] /\ phase'[d] = to /\ phase[d] = from
      /\ \A e \in Daemons : e # d => phase'[e] = phase[e]
  BY DEF Did, TypeOK
<1>2. created' \in 0..Cardinality({e \in Daemons : phase'[e] # "new"})
  BY BeganStands DEF TypeOK, Began
<1>3. pidFile' \in 0..created' /\ file' \in [Daemons -> 0..created']
  BY FilesSuffice DEF TypeOK, NoFile
<1>4. \A e \in Daemons : phase'[e] # "new" => file'[e] # NoFile
  BY <1>1 DEF TypeOK
<1>5. \A e \in Daemons : phase'[e] \in Locking => lock'[file'[e]] = e
  BY <1>1 DEF TypeOK, Locking
<1> QED BY <1>1, <1>2, <1>3, <1>4, <1>5 DEF TypeOK, Locking

\* Opening makes at most one file more, for the one daemon more.
LEMMA OpensType ==
  ASSUME TypeOK, NEW d \in Daemons, Opens(d)
  PROVE  TypeOK'
<1>1. phase' \in [Daemons -> Phases] /\ phase'[d] = "opened" /\ phase[d] = "new"
      /\ \A e \in Daemons : e # d => phase'[e] = phase[e]
  BY DEF Opens, Did, TypeOK, Phases, Claiming
<1>2. Cardinality(Began') = Cardinality(Began) + 1
  <2>1. Began' = Began \cup {d} /\ d \notin Began
    BY <1>1 DEF Began
  <2> QED BY <2>1, FilesSuffice, FS_AddElement
<1>3. created' \in 0..Cardinality(Began') /\ created <= created'
      /\ pidFile' \in 0..created' /\ pidFile' # NoFile
  BY <1>2, FilesSuffice DEF Opens, TypeOK, NoFile
<1>4. file' \in [Daemons -> 0..created'] /\ file'[d] = pidFile'
      /\ \A e \in Daemons : e # d => file'[e] = file[e]
  BY <1>3, FilesSuffice DEF Opens, TypeOK
<1>5. beside' \in [Daemons -> BOOLEAN]
  BY DEF Opens, TypeOK
<1>6. \A e \in Daemons : phase'[e] # "new" => file'[e] # NoFile
  BY <1>1, <1>3, <1>4 DEF TypeOK
<1>7. \A e \in Daemons : phase'[e] \in Locking => lock'[file'[e]] = e
  BY <1>1, <1>4 DEF TypeOK, Locking, Opens, Claiming, Claimed
<1> QED BY <1>1, <1>3, <1>4, <1>5, <1>6, <1>7 DEF TypeOK, Opens, Locking, Began

\* A lock taken was nobody's, so every other holder keeps its own.
LEMMA LocksType ==
  ASSUME TypeOK, NEW d \in Daemons, Locks(d)
  PROVE  TypeOK'
<1>1. phase' \in [Daemons -> Phases] /\ phase'[d] = "locked" /\ phase[d] = "opened"
      /\ \A e \in Daemons : e # d => phase'[e] = phase[e]
  BY DEF Locks, Did, TypeOK, Phases, Claiming
<1>2. created' \in 0..Cardinality({e \in Daemons : phase'[e] # "new"})
  BY BeganStands DEF TypeOK, Began, Locks
<1>3. file[d] \in Files /\ lock[file[d]] = Nobody
  BY <1>1, OpenedFile DEF Locks
<1>4. lock' \in [Files -> Daemons \cup {Nobody}]
  BY DEF Locks, TypeOK
<1>5. \A e \in Daemons : phase'[e] \in Locking => lock'[file'[e]] = e
  <2> SUFFICES ASSUME NEW e \in Daemons, phase'[e] \in Locking PROVE lock'[file[e]] = e
    BY DEF Locks
  <2>1. CASE e = d
    BY <1>3, <2>1 DEF Locks, TypeOK
  <2>2. CASE e # d
    <3>1. lock[file[e]] = e
      BY <1>1, <2>2 DEF TypeOK, Locking
    <3>2. file[e] # file[d]
      BY <1>3, <3>1, DaemonsAssumption
    <3> QED BY <3>1, <3>2 DEF Locks, TypeOK
  <2> QED BY <2>1, <2>2
<1>6. \A e \in Daemons : phase'[e] # "new" => file'[e] # NoFile
  BY <1>1 DEF TypeOK, Locks
<1> QED BY <1>1, <1>2, <1>4, <1>5, <1>6 DEF TypeOK, Locks, Locking

\* Whoever lets go of locks lets go of its own.
LEMMA ReleaseType ==
  ASSUME TypeOK, NEW d \in Daemons, Unlocks(d) \/ Ends(d)
  PROVE  TypeOK'
<1>1. phase' \in [Daemons -> Phases] /\ phase'[d] \in {"leaving", "dead"} /\ phase[d] # "new"
      /\ \A e \in Daemons : e # d => phase'[e] = phase[e]
  BY DEF Unlocks, Ends, Alive, Did, TypeOK, Phases
<1>2. created' \in 0..Cardinality({e \in Daemons : phase'[e] # "new"})
  <2>1. {e \in Daemons : phase'[e] # "new"} = Began
    BY <1>1 DEF Began
  <2> QED BY <2>1 DEF TypeOK, Began, Unlocks, Ends
<1>3. lock' \in [Files -> Daemons \cup {Nobody}]
      /\ \A f \in Files : lock[f] # d => lock'[f] = lock[f]
  <2>1. CASE Unlocks(d)
    <3>1. lock[file[d]] = d
      BY <2>1 DEF Unlocks, Did, TypeOK
    <3> QED BY <2>1, <3>1 DEF Unlocks, TypeOK
  <2>2. CASE Ends(d)
    BY <2>2 DEF Ends, TypeOK
  <2> QED BY <2>1, <2>2
<1>4. \A e \in Daemons : phase'[e] \in Locking => lock'[file'[e]] = e
  <2> SUFFICES ASSUME NEW e \in Daemons, phase'[e] \in Locking PROVE lock'[file[e]] = e
    BY DEF Unlocks, Ends
  <2>1. e # d
    BY <1>1 DEF Locking, Claiming, Claimed
  <2>2. lock[file[e]] = e /\ file[e] \in Files
    BY <1>1, <2>1, OpenedFile DEF TypeOK, Locking, Claiming, Claimed
  <2> QED BY <1>3, <2>1, <2>2
<1>5. \A e \in Daemons : phase'[e] # "new" => file'[e] # NoFile
  BY <1>1 DEF TypeOK, Unlocks, Ends
<1>6. {socket', ports'} \subseteq Daemons \cup {Nobody}
  BY DEF Unlocks, Ends, TypeOK
<1> QED BY <1>1, <1>2, <1>3, <1>4, <1>5, <1>6 DEF TypeOK, Unlocks, Ends, Locking

\* The steps that open, lock and unlock nothing.
Plain(d) ==
  \/ IsRefused(d) \/ ClearsSocket(d) \/ Empties(d) \/ WritesPid(d) \/ BindsSocket(d)
  \/ SetsMode(d) \/ BindsPorts(d) \/ FailsToStart(d) \/ Stops(d) \/ RemovesSocket(d)
  \/ RemovesPidFile(d)

\* Every step keeps the types.
LEMMA TypeStep == TypeOK /\ [Next]_vars => TypeOK'
<1> SUFFICES ASSUME TypeOK, [Next]_vars PROVE TypeOK'
  OBVIOUS
<1>1. ASSUME NEW d \in Daemons, Plain(d) PROVE TypeOK'
  <2>1. PICK from \in Phases \ {"new"}, to \in Phases \ {"new"} :
          Did(d, from, to) /\ (to \in Locking => from \in Locking)
    BY <1>1 DEF Plain, IsRefused, ClearsSocket, Empties, WritesPid, BindsSocket, SetsMode, BindsPorts,
             FailsToStart, Stops, RemovesSocket, RemovesPidFile, Phases, Claiming, Claimed, Locking
  <2>2. pid' \in [Files -> Daemons \cup {Nobody}]
    BY <1>1 DEF Plain, IsRefused, ClearsSocket, Empties, WritesPid, BindsSocket, SetsMode, BindsPorts,
             FailsToStart, Stops, RemovesSocket, RemovesPidFile, TypeOK
  <2>3. /\ pidFile' \in {pidFile, NoFile} /\ UNCHANGED <<created, file, lock, beside>>
        /\ {socket', ports'} \subseteq Daemons \cup {Nobody} /\ removed' \in BOOLEAN
    BY <1>1 DEF Plain, IsRefused, ClearsSocket, Empties, WritesPid, BindsSocket, SetsMode, BindsPorts,
             FailsToStart, Stops, RemovesSocket, RemovesPidFile, TypeOK
  <2> QED BY <2>1, <2>2, <2>3, PlainStep
<1>2. ASSUME NEW d \in Daemons, MovesAway(d) PROVE TypeOK'
  BY <1>2 DEF MovesAway, TypeOK
<1>3. CASE UNCHANGED vars
  BY <1>3 DEF vars, TypeOK
<1>4. ASSUME NEW d \in Daemons, Opens(d) \/ Locks(d) \/ Unlocks(d) \/ Ends(d) PROVE TypeOK'
  BY <1>4, OpensType, LocksType, ReleaseType
<1>5. Next => \E d \in Daemons : \/ Plain(d) \/ MovesAway(d)
                                 \/ Opens(d) \/ Locks(d) \/ Unlocks(d) \/ Ends(d)
  BY Zenon DEF Next, Acquires, Starts, ShutsDown, Plain
<1> QED BY <1>1, <1>2, <1>3, <1>4, <1>5

\* Nobody has begun.
LEMMA TypeInit == Init => TypeOK
<1> SUFFICES ASSUME Init PROVE TypeOK
  OBVIOUS
<1>1. {d \in Daemons : phase[d] # "new"} = {}
  BY DEF Init
<1>2. created \in 0..Cardinality({d \in Daemons : phase[d] # "new"})
  BY <1>1, FS_EmptySet DEF Init
<1>3. phase \in [Daemons -> Phases] /\ pidFile \in 0..created /\ file \in [Daemons -> 0..created]
      /\ \A d \in Daemons : phase[d] = "new"
  BY DEF Init, Phases, NoFile
<1>4. lock \in [Files -> Daemons \cup {Nobody}] /\ pid \in [Files -> Daemons \cup {Nobody}]
      /\ {socket, ports} \subseteq Daemons \cup {Nobody}
  BY DEF Init
<1>5. beside \in [Daemons -> BOOLEAN] /\ removed \in BOOLEAN
  BY Zenon DEF Init
<1> QED BY <1>2, <1>3, <1>4, <1>5 DEF TypeOK, Claiming, Claimed

\* The guard keeps its types: whoever is past its lock and before its unlock
\* holds the lock of its own file, whatever the others do.
THEOREM InstanceTypeCorrect == Spec => []TypeOK
BY TypeInit, TypeStep, PTL DEF Spec

-----------------------------------------------------------------------------
\* Until the name is removed there is one file: every daemon has that one open.
OneFile == ~removed => \A d \in Daemons : file[d] \in {NoFile, pidFile}

\* Only an opening changes which file a daemon has, only a removal the name.
LEMMA OneFileStep == TypeOK /\ OneFile /\ [Next]_vars => OneFile'
<1> SUFFICES ASSUME TypeOK, OneFile, [Next]_vars PROVE OneFile'
  OBVIOUS
<1>1. ASSUME NEW d \in Daemons, Opens(d) PROVE OneFile'
  <2> SUFFICES ASSUME ~removed, NEW e \in Daemons PROVE file'[e] \in {NoFile, pidFile'}
    BY <1>1 DEF Opens, OneFile
  <2>1. CASE e = d
    BY <1>1, <2>1 DEF Opens, TypeOK
  <2>2. CASE e # d
    BY <1>1, <2>2 DEF Opens, TypeOK, OneFile
  <2> QED BY <2>1, <2>2
<1>2. ASSUME NEW d \in Daemons, RemovesPidFile(d) PROVE OneFile'
  BY <1>2 DEF RemovesPidFile, OneFile
<1>3. CASE UNCHANGED <<file, pidFile, removed>>
  BY <1>3 DEF OneFile
<1> QED BY <1>1, <1>2, <1>3
        DEF Next, Acquires, Starts, ShutsDown, Locks, IsRefused, ClearsSocket, Empties, WritesPid,
            BindsSocket, SetsMode, BindsPorts, FailsToStart, MovesAway, Stops, RemovesSocket, Unlocks,
            Ends, vars

\* Crashes and simultaneous starts never give two claims: only once a daemon has
\* removed the pid file can there be two.
THEOREM OneClaim == Spec => []OneClaimUntilRemoved
<1>1. Init => OneFile
  BY DEF Init, OneFile
<1>2. TypeOK /\ OneFile => OneClaimUntilRemoved
  <2> SUFFICES ASSUME TypeOK, OneFile, ~removed, NEW d \in Daemons, NEW e \in Daemons,
                      phase[d] \in Claimed, phase[e] \in Claimed
               PROVE  d = e
    BY DEF OneClaimUntilRemoved
  <2>1. file[d] = pidFile /\ file[e] = pidFile
    BY DEF OneFile, TypeOK, Claimed
  <2>2. lock[file[d]] = d /\ lock[file[e]] = e
    BY DEF TypeOK
  <2> QED BY <2>1, <2>2
<1> QED BY <1>1, <1>2, OneFileStep, TypeInit, TypeStep, PTL DEF Spec

-----------------------------------------------------------------------------
Bound == {"serving", "stopped", "dropping", "unlinked", "leaving"}

\* A lock is of the file its holder has open, and ports are of a living daemon.
HeldByLiving ==
  /\ \A f \in Files : lock[f] # Nobody => phase[lock[f]] \in Locking /\ f = file[lock[f]]
  /\ ports # Nobody => phase[ports] \in Bound

\* What a daemon that has the machine to itself finds at each point.
Sole(d) ==
  /\ phase[d] # "refused"
  /\ pidFile = IF phase[d] \in {"unlinked", "leaving"} THEN NoFile ELSE file[d]
  /\ phase[d] \in {"cleared", "emptied", "claimed", "dropping", "unlinked", "leaving"}
       => socket = Nobody
  /\ phase[d] \in {"bound", "listening", "serving", "stopped"} => socket = d
  /\ phase[d] \in {"claimed", "bound", "listening", "serving"} => pid[file[d]] = d

SoleIsAlone == \A d \in Alive : ~beside[d] => Alive = {d} /\ Sole(d)

\* A step of a daemon under way leaves the others as they are.
LEMMA OthersStand ==
  ASSUME TypeOK, NEW d \in Daemons, Plain(d) \/ Locks(d) \/ Unlocks(d)
  PROVE  /\ phase' \in [Daemons -> Phases] /\ \A e \in Daemons : e # d => phase'[e] = phase[e]
         /\ d \in Alive /\ Alive' = Alive /\ file' = file /\ beside' = beside
<1>1. PICK from \in Phases \ {"new", "dead"}, to \in Phases \ {"new", "dead"} : Did(d, from, to)
  BY DEF Plain, IsRefused, ClearsSocket, Empties, WritesPid, BindsSocket, SetsMode, BindsPorts,
         FailsToStart, Stops, RemovesSocket, RemovesPidFile, Locks, Unlocks, Phases, Claiming, Claimed
<1>2. file' = file /\ beside' = beside
  BY DEF Plain, IsRefused, ClearsSocket, Empties, WritesPid, BindsSocket, SetsMode, BindsPorts,
         FailsToStart, Stops, RemovesSocket, RemovesPidFile, Locks, Unlocks
<1>3. /\ phase' \in [Daemons -> Phases] /\ \A e \in Daemons : e # d => phase'[e] = phase[e]
      /\ phase[d] = from /\ phase'[d] = to
  BY <1>1 DEF Did, TypeOK
<1> QED BY <1>2, <1>3 DEF Alive

\* Locks and ports stay with the living.
LEMMA HeldStep == TypeOK /\ HeldByLiving /\ [Next]_vars => HeldByLiving'
<1> SUFFICES ASSUME TypeOK, HeldByLiving, [Next]_vars PROVE HeldByLiving'
  OBVIOUS
<1> USE DaemonsAssumption
<1>1. ASSUME NEW d \in Daemons, Plain(d) PROVE HeldByLiving'
  <2>1. /\ phase[d] \in Locking \/ phase[d] = "opened"
        /\ phase[d] \in Locking => phase'[d] \in Locking
        /\ phase[d] = "opened" => phase'[d] = "refused"
        /\ phase[d] \in Bound => phase'[d] \in Bound
    BY <1>1 DEF Plain, IsRefused, ClearsSocket, Empties, WritesPid, BindsSocket, SetsMode, BindsPorts,
         FailsToStart, Stops, RemovesSocket, RemovesPidFile, Did, TypeOK, Bound, Locking, Claiming, Claimed
  <2>2. lock' = lock /\ (ports' = ports \/ (ports' = d /\ phase'[d] = "serving"))
    BY <1>1 DEF Plain, IsRefused, ClearsSocket, Empties, WritesPid, BindsSocket, SetsMode, BindsPorts,
         FailsToStart, Stops, RemovesSocket, RemovesPidFile, Did, TypeOK
  <2>3. \A e \in Daemons : /\ phase[e] \in Locking => phase'[e] \in Locking
                           /\ phase[e] \in Bound => phase'[e] \in Bound
    BY <1>1, <2>1, OthersStand
  <2> QED BY <1>1, <2>2, <2>3, OthersStand DEF HeldByLiving, TypeOK, Bound
<1>2. ASSUME NEW d \in Daemons, Opens(d) PROVE HeldByLiving'
  <2>1. phase[d] \notin Locking \cup Bound /\ lock' = lock /\ ports' = ports
        /\ \A e \in Daemons : e # d => phase'[e] = phase[e] /\ file'[e] = file[e]
    BY <1>2 DEF Opens, Did, TypeOK, Locking, Bound, Claiming, Claimed
  <2> QED BY <2>1 DEF HeldByLiving, TypeOK
<1>3. ASSUME NEW d \in Daemons, Locks(d) PROVE HeldByLiving'
  <2>1. phase'[d] = "locked" /\ phase[d] = "opened" /\ ports' = ports
        /\ \A f \in Files : lock'[f] = IF f = file[d] THEN d ELSE lock[f]
    BY <1>3 DEF Locks, Did, TypeOK
  <2>2. "locked" \in Locking /\ "opened" \notin Locking \cup Bound
    BY DEF Locking, Bound, Claiming, Claimed
  <2> QED BY <1>3, <2>1, <2>2, OthersStand DEF HeldByLiving, TypeOK
<1>4. ASSUME NEW d \in Daemons, Unlocks(d) PROVE HeldByLiving'
  <2>1. phase'[d] = "leaving" /\ ports' = ports
        /\ \A f \in Files : lock'[f] = IF f = file[d] THEN Nobody ELSE lock[f]
    BY <1>4 DEF Unlocks, Did, TypeOK
  <2>2. \A f \in Files : lock'[f] # Nobody => lock[f] = lock'[f] /\ lock[f] # d
    BY <2>1 DEF HeldByLiving
  <2> QED BY <1>4, <2>1, <2>2, OthersStand DEF HeldByLiving, TypeOK, Bound
<1>5. ASSUME NEW d \in Daemons, Ends(d) PROVE HeldByLiving'
  <2>1. /\ \A f \in Files : lock'[f] # Nobody => lock'[f] = lock[f] /\ lock[f] # d
        /\ ports' # Nobody => ports' = ports /\ ports # d
        /\ file' = file /\ \A e \in Daemons : e # d => phase'[e] = phase[e]
    BY <1>5 DEF Ends, TypeOK
  <2> QED BY <2>1 DEF HeldByLiving, TypeOK
<1>6. ASSUME NEW d \in Daemons, MovesAway(d) PROVE HeldByLiving'
  BY <1>6 DEF MovesAway, HeldByLiving
<1>7. CASE UNCHANGED vars
  BY <1>7 DEF vars, HeldByLiving
<1>8. Next => \E d \in Daemons : \/ Plain(d) \/ MovesAway(d)
                                 \/ Opens(d) \/ Locks(d) \/ Unlocks(d) \/ Ends(d)
  BY Zenon DEF Next, Acquires, Starts, ShutsDown, Plain
<1> QED BY <1>1, <1>2, <1>3, <1>4, <1>5, <1>6, <1>7, <1>8

\* A daemon alone in the machine finds nothing in its way: no lock on the file it
\* opened, no socket file, nobody on the ports.
LEMMA SoleFinds ==
  ASSUME TypeOK, HeldByLiving, SoleIsAlone, NEW d \in Alive, ~beside[d]
  PROVE  /\ phase[d] = "opened" => lock[file[d]] = Nobody
         /\ phase[d] = "claimed" => socket = Nobody
         /\ phase[d] = "bound" => socket # Nobody
         /\ phase[d] = "listening" => ports = Nobody
<1> USE DaemonsAssumption
<1>0. Alive = {d} /\ Sole(d) /\ d \in Daemons
  BY DEF SoleIsAlone, Alive
<1>1. ASSUME NEW e \in Daemons, phase[e] \in Locking \cup Bound PROVE e = d
  <2>1. e \in Alive
    BY <1>1 DEF Alive, Locking, Bound, Claiming, Claimed
  <2> QED BY <1>0, <2>1
<1>2. phase[d] = "opened" => lock[file[d]] = Nobody
  <2> SUFFICES ASSUME phase[d] = "opened", lock[file[d]] # Nobody PROVE FALSE
    OBVIOUS
  <2>1. file[d] \in Files
    BY <1>0, OpenedFile
  <2>2. lock[file[d]] \in Daemons /\ phase[lock[file[d]]] \in Locking
    BY <2>1 DEF HeldByLiving, TypeOK
  <2>3. lock[file[d]] = d
    BY <1>1, <2>2
  <2> QED BY <2>2, <2>3 DEF Locking, Claiming, Claimed
<1>3. phase[d] = "listening" => ports = Nobody
  <2> SUFFICES ASSUME phase[d] = "listening", ports # Nobody PROVE FALSE
    OBVIOUS
  <2>1. ports \in Daemons /\ phase[ports] \in Bound
    BY DEF HeldByLiving, TypeOK
  <2>2. ports = d
    BY <1>1, <2>1
  <2> QED BY <2>1, <2>2 DEF Bound
<1> QED BY <1>0, <1>2, <1>3 DEF Sole

\* So it goes on alone, from what it found to what it made.
LEMMA SoleGoesOn ==
  ASSUME TypeOK, HeldByLiving, SoleIsAlone, NEW d \in Alive, ~beside[d],
         Plain(d) \/ Locks(d) \/ Unlocks(d)
  PROVE  Sole(d)'
<1>0. d \in Daemons /\ Sole(d) /\ (phase[d] # "new" => file[d] \in Files)
  BY OpenedFile DEF SoleIsAlone, Alive
<1>1. CASE Plain(d)
  <2>1. ~IsRefused(d) /\ ~FailsToStart(d)
    BY SoleFinds DEF IsRefused, FailsToStart, Did
  <2>2. CASE ClearsSocket(d) \/ Empties(d)
    BY <1>0, <2>2 DEF Sole, ClearsSocket, Empties, Did, TypeOK
  <2>3. CASE WritesPid(d)
    BY <1>0, <2>3 DEF Sole, WritesPid, Did, TypeOK
  <2>4. CASE BindsSocket(d) \/ SetsMode(d) \/ BindsPorts(d)
    BY <1>0, <2>4 DEF Sole, BindsSocket, SetsMode, BindsPorts, Did, TypeOK
  <2>5. CASE Stops(d) \/ RemovesSocket(d) \/ RemovesPidFile(d)
    BY <1>0, <2>5 DEF Sole, Stops, RemovesSocket, RemovesPidFile, Did, TypeOK
  <2> QED BY <1>1, <2>1, <2>2, <2>3, <2>4, <2>5 DEF Plain
<1>2. CASE Locks(d)
  BY <1>0, <1>2 DEF Sole, Locks, Did, TypeOK
<1>3. CASE Unlocks(d)
  BY <1>0, <1>3 DEF Sole, Unlocks, Did, TypeOK
<1> QED BY <1>1, <1>2, <1>3

\* Another daemon ends the solitude of those alive and has none itself.
LEMMA SoleStep == TypeOK /\ HeldByLiving /\ SoleIsAlone /\ [Next]_vars => SoleIsAlone'
<1> SUFFICES ASSUME TypeOK, HeldByLiving, SoleIsAlone, [Next]_vars PROVE SoleIsAlone'
  OBVIOUS
<1>1. ASSUME NEW e \in Daemons, Plain(e) \/ Locks(e) \/ Unlocks(e) PROVE SoleIsAlone'
  <2> SUFFICES ASSUME NEW d \in Alive', ~beside'[d] PROVE (Alive = {d} /\ Sole(d))'
    BY DEF SoleIsAlone
  <2>1. e \in Alive /\ Alive' = Alive /\ beside' = beside
    BY <1>1, OthersStand
  <2>2. Alive = {d} /\ e = d
    BY <2>1 DEF SoleIsAlone
  <2> QED BY <1>1, <2>1, <2>2, SoleGoesOn
<1>2. ASSUME NEW e \in Daemons, Opens(e) PROVE SoleIsAlone'
  <2> SUFFICES ASSUME NEW d \in Alive', ~beside'[d] PROVE (Alive = {d} /\ Sole(d))'
    BY DEF SoleIsAlone
  <2>1. phase'[e] = "opened" /\ Alive' = Alive \cup {e} /\ e \notin Alive
    BY <1>2 DEF Opens, Did, Alive, TypeOK
  <2>2. Alive = {}
    BY <1>2, <2>1 DEF Opens, Alive
  <2>3. d = e /\ Alive' = {e}
    BY <2>1, <2>2
  <2>4. pidFile' = file'[e]
    BY <1>2 DEF Opens, TypeOK
  <2> QED BY <2>1, <2>3, <2>4 DEF Sole
<1>3. ASSUME NEW e \in Daemons, Ends(e) PROVE SoleIsAlone'
  <2> SUFFICES ASSUME NEW d \in Alive', ~beside'[d] PROVE FALSE
    BY DEF SoleIsAlone
  <2>1. d \in Alive /\ e \in Alive /\ d # e /\ beside' = beside
    BY <1>3 DEF Ends, Alive, TypeOK
  <2> QED BY <2>1 DEF SoleIsAlone
<1>4. CASE UNCHANGED <<phase, pidFile, file, pid, socket, beside>>
  BY <1>4 DEF SoleIsAlone, Sole, Alive
<1>5. \/ \E e \in Daemons : Plain(e) \/ Locks(e) \/ Unlocks(e) \/ Opens(e) \/ Ends(e)
      \/ UNCHANGED <<phase, pidFile, file, pid, socket, beside>>
  <2>1. Next => \E d \in Daemons : \/ Plain(d) \/ MovesAway(d)
                                   \/ Opens(d) \/ Locks(d) \/ Unlocks(d) \/ Ends(d)
    BY Zenon DEF Next, Acquires, Starts, ShutsDown, Plain
  <2> QED BY <2>1 DEF MovesAway, vars
<1> QED BY <1>1, <1>2, <1>3, <1>4, <1>5

\* The invariant behind the three theorems that follow.
LEMMA Solitude == Spec => [](TypeOK /\ HeldByLiving /\ SoleIsAlone)
<1>1. Init => HeldByLiving /\ SoleIsAlone
  BY DEF Init, HeldByLiving, SoleIsAlone, Alive
<1> QED BY <1>1, HeldStep, SoleStep, TypeInit, TypeStep, PTL DEF Spec

\* A daemon that had the machine to itself can be reached and is the one the pid
\* file names.
THEOREM SoleIsReachable == Spec => []AloneIsReachable
<1>1. TypeOK /\ SoleIsAlone => AloneIsReachable
  BY DEF SoleIsAlone, Sole, AloneIsReachable, Alive, TypeOK
<1> QED BY <1>1, Solitude, PTL

\* A signalled daemon that had the machine to itself leaves neither file.
THEOREM SoleLeavesNothing == Spec => []StopLeavesNothing
<1>1. TypeOK /\ SoleIsAlone => StopLeavesNothing
  BY DEF SoleIsAlone, Sole, StopLeavesNothing, Alive, TypeOK
<1> QED BY <1>1, Solitude, PTL

\* Leftovers block nobody: a start fails only beside another daemon.
THEOREM LeftoversAreCleared == Spec => LeftoversBlockNobody
<1>1. TypeOK /\ HeldByLiving /\ SoleIsAlone
        => \A d \in Daemons : IsRefused(d) \/ FailsToStart(d) => beside[d]
  <2> SUFFICES ASSUME TypeOK, HeldByLiving, SoleIsAlone, NEW d \in Daemons,
                      IsRefused(d) \/ FailsToStart(d)
               PROVE  beside[d]
    OBVIOUS
  <2>1. d \in Alive
    BY DEF IsRefused, FailsToStart, Did, Alive
  <2> QED BY <2>1, SoleFinds DEF IsRefused, FailsToStart, Did
<1> QED BY <1>1, Solitude, PTL DEF LeftoversBlockNobody

=============================================================================
