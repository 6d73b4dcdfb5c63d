-------------------------------- MODULE Logs --------------------------------
(***************************************************************************)
(* The daily log files a daemon writes and `nhop logs` reads, without any  *)
(* lock between them.                                                      *)
(* Source: src/nhop/src/logging.rs and the logs verb of cli/mod.rs; the    *)
(* rolling writer is tracing_appender's.                                   *)
(*                                                                         *)
(* A line is known by its number, in the order the lines are written: its  *)
(* timestamp.  A file is its complete lines and what follows the last line *)
(* break.  All lines have one length, so an offset counts lines.           *)
(***************************************************************************)
EXTENDS Integers, Sequences
LOCAL INSTANCE FiniteSets

CONSTANTS KEPT_FILES,   \* daily files kept
          MaxDays       \* bound: days

ASSUME LogsAssumption == KEPT_FILES \in Nat \ {0} /\ MaxDays \in Nat \ {0}

VARIABLES
  today,
  files,    \* the files there are, by day
  born,     \* history: the day of each line, and whether all of it was written
  cut,      \* history: the lines cut off by the operator
  reader    \* the one `nhop logs` there is

logVars == <<today, files, born, cut, reader>>

\* After the last line break: nothing, a line being written, a piece a dead
\* daemon left, or a line being written behind such a piece.
Ends == {"break", "line", "piece", "glued"}

Lines == [n : Nat, stamped : BOOLEAN]

\* A log file as read_from finds it.
Files == [lines : Seq(Lines), end : Ends]

\* The day a line is born on, and whether all of it was written.
Births == [day : 1..MaxDays, whole : BOOLEAN]

\* cutoff is the first line --since lets through, 0 without it.
Readers == [at : {"off", "reading", "polling"}, follow : BOOLEAN, cutoff : Nat, queue : Seq(Nat),
            offset : Nat, shown : Seq(Nat), owed : SUBSET Nat, exit : {-1, 0, 1, 2}]

LogsTypeOK ==
  /\ today \in 1..MaxDays
  /\ DOMAIN files \subseteq 1..MaxDays
  /\ \A d \in DOMAIN files : files[d] \in Files
  /\ born \in Seq(Births)
  /\ cut \subseteq DOMAIN born
  /\ reader \in Readers

Idle == [at |-> "off", follow |-> FALSE, cutoff |-> 0, queue |-> <<>>,
         offset |-> 0, shown |-> <<>>, owed |-> {}, exit |-> -1]

EmptyFile == [lines |-> <<>>, end |-> "break"]

-----------------------------------------------------------------------------
(* The writer *)

\* The file of the day is opened at the first line of the day: the oldest are
\* removed so that KEPT_FILES remain with it.
Rolled ==
  IF today \in DOMAIN files THEN files
  ELSE LET kept == {d \in DOMAIN files :
                      Cardinality({e \in DOMAIN files : e > d}) < KEPT_FILES - 1}
       IN  [d \in kept \cup {today} |-> IF d = today THEN EmptyFile ELSE files[d]]

BeingWritten(end) == end \in {"line", "glued"}

Writing == \E d \in DOMAIN files : BeingWritten(files[d].end)

\* A line goes out in one write, of which a reader may find a part.
WritesPart ==
  /\ ~Writing
  /\ files' = [Rolled EXCEPT ![today].end = IF @ = "piece" THEN "glued" ELSE "line"]
  /\ born' = Append(born, [day |-> today, whole |-> FALSE])
  /\ UNCHANGED <<today, cut, reader>>

\* Behind a piece the line cannot be read as JSON, and has no timestamp.
WritesRest ==
  /\ \E d \in DOMAIN files :
       /\ BeingWritten(files[d].end)
       /\ files' = [files EXCEPT ![d] =
            [lines |-> Append(@.lines, [n |-> Len(born), stamped |-> @.end = "line"]),
             end |-> "break"]]
       /\ born' = [born EXCEPT ![Len(born)].whole = files[d].end = "line"]
  /\ UNCHANGED <<today, cut, reader>>

\* The daemon dies: what it was writing stays as it is.
Torn(fs) == [d \in DOMAIN fs |->
               IF BeingWritten(fs[d].end) THEN [fs[d] EXCEPT !.end = "piece"] ELSE fs[d]]

MidnightPasses ==
  /\ today < MaxDays
  /\ today' = today + 1
  /\ UNCHANGED <<files, born, cut, reader>>

\* The operator empties a file; the daemon goes on appending to it.
Truncates(d) ==
  /\ d \in DOMAIN files
  /\ files[d].lines # <<>>
  /\ cut' = cut \cup {files[d].lines[i].n : i \in DOMAIN files[d].lines}
  /\ files' = [files EXCEPT ![d] =
       [EmptyFile EXCEPT !.end = IF BeingWritten(files[d].end) THEN "glued" ELSE "break"]]
  /\ UNCHANGED <<today, born, reader>>

-----------------------------------------------------------------------------
(* The reader *)

\* The values at the places kept, in the order of the places.
InOrder(from, to, kept, value) ==
  LET upTo[i \in from..to] ==
        IF i = from THEN <<>>
        ELSE IF i \in kept THEN Append(upTo[i - 1], value[i]) ELSE upTo[i - 1]
  IN  upTo[to]

\* files(): chronological, the one being written last.
Listed == InOrder(0, MaxDays, DOMAIN files, [d \in DOMAIN files |-> d])

Newest == CHOOSE d \in DOMAIN files : \A e \in DOMAIN files : e <= d

\* Window::holds: a line that cannot be placed in time is in no window but All.
Holds(cutoff, line) == cutoff = 0 \/ (line.stamped /\ line.n >= cutoff)

\* read_from and the window: the complete lines past an offset, a file shorter
\* than the offset from its start.
Printed(lines, offset, cutoff) ==
  InOrder(IF Len(lines) < offset THEN 0 ELSE offset, Len(lines),
          {i \in DOMAIN lines : Holds(cutoff, lines[i])}, [i \in DOMAIN lines |-> lines[i].n])

\* What there is to print when the files are listed.
Owed(cutoff) ==
  UNION {{files[d].lines[i].n : i \in {j \in DOMAIN files[d].lines : Holds(cutoff, files[d].lines[j])}} :
         d \in DOMAIN files}

\* The directory cannot be read, or holds no log: the addressed thing is not there.
StartsReading(follow, cutoff, listed) ==
  /\ reader' = IF ~listed \/ DOMAIN files = {} THEN [Idle EXCEPT !.exit = 2]
               ELSE [Idle EXCEPT !.at = "reading", !.follow = follow, !.cutoff = cutoff,
                                 !.queue = Listed, !.owed = Owed(cutoff)]
  /\ UNCHANGED <<today, files, born, cut>>

\* Fault: the last file listed counts as one of the kept ones, and its offset
\* is not remembered.
ReadsFileForgetting ==
  LET day == Head(reader.queue) IN
  /\ reader.at = "reading"
  /\ reader' =
       IF day \notin DOMAIN files THEN [reader EXCEPT !.at = "off", !.exit = 1]
       ELSE [reader EXCEPT
               !.shown = @ \o Printed(files[day].lines, 0, reader.cutoff),
               !.queue = IF Len(@) = 1 THEN @ ELSE Tail(@),
               !.at = IF Len(reader.queue) > 1 THEN @ ELSE IF reader.follow THEN "polling" ELSE "off",
               !.exit = IF Len(reader.queue) = 1 /\ ~reader.follow THEN 0 ELSE @]
  /\ UNCHANGED <<today, files, born, cut>>

\* The files listed are printed one after the other; one that is gone ends the
\* command.  After the last one `logs` is done, and `logs -f` remembers where
\* that file stood.
ReadsFile ==
  LET day == Head(reader.queue)
      last == Len(reader.queue) = 1
  IN
  /\ reader.at = "reading"
  /\ reader' =
       IF day \notin DOMAIN files THEN [reader EXCEPT !.at = "off", !.exit = 1]
       ELSE [reader EXCEPT
               !.shown = @ \o Printed(files[day].lines, 0, reader.cutoff),
               !.queue = IF last THEN @ ELSE Tail(@),
               !.offset = IF last THEN Len(files[day].lines) ELSE @,
               !.at = IF ~last THEN @ ELSE IF reader.follow THEN "polling" ELSE "off",
               !.exit = IF last /\ ~reader.follow THEN 0 ELSE @]
  /\ UNCHANGED <<today, files, born, cut>>

\* Fault: the offset into the file of the day before is kept for the new one.
PollsKeeping ==
  LET newest == Newest IN
  /\ reader.at = "polling"
  /\ DOMAIN files # {}
  /\ reader' = [reader EXCEPT !.queue = <<newest>>,
                              !.offset = Len(files[newest].lines),
                              !.shown = @ \o Printed(files[newest].lines, reader.offset, reader.cutoff)]
  /\ UNCHANGED <<today, files, born, cut>>

\* Every FOLLOW_INTERVAL the newest file is read from where it stood, another
\* one than before from its start.
Polls ==
  LET newest == Newest
      offset == IF reader.queue = <<newest>> THEN reader.offset ELSE 0
  IN
  /\ reader.at = "polling"
  /\ DOMAIN files # {}
  /\ reader' = [reader EXCEPT !.queue = <<newest>>,
                              !.offset = Len(files[newest].lines),
                              !.shown = @ \o Printed(files[newest].lines, offset, reader.cutoff)]
  /\ UNCHANGED <<today, files, born, cut>>

\* The directory cannot be listed any more.
PollFails ==
  /\ reader.at = "polling"
  /\ reader' = [reader EXCEPT !.at = "off", !.exit = 2]
  /\ UNCHANGED <<today, files, born, cut>>

-----------------------------------------------------------------------------
LogsInit ==
  /\ today = 1
  /\ files = <<>>
  /\ born = <<>>
  /\ cut = {}
  /\ reader = Idle

\* What is printed comes in the order it was written and no line twice, through
\* midnights, files removed, cut short or left torn, and daemons that die.
ShownOnceInOrder ==
  \A i, j \in DOMAIN reader.shown : i < j => reader.shown[i] < reader.shown[j]

\* Nothing is missing between the window's start and a line shown, within the
\* file of a day: what `logs -f` loses at midnight is the end of the day before,
\* never its middle.  A file the operator cut short is another matter: grown
\* past the offset again it is read on from there.  And `logs` that succeeds has
\* shown everything there was to print when it listed the files.
ShownWithoutGaps ==
  LET shown == {reader.shown[i] : i \in DOMAIN reader.shown}
      Whole(d) == \A k \in cut : born[k].day # d
  IN  /\ \A n \in shown, m \in DOMAIN born :
           /\ m < n /\ born[m].day = born[n].day /\ Whole(born[n].day)
           /\ born[m].whole
           /\ m >= reader.cutoff
           => m \in shown
      /\ reader.exit = 0 => reader.owed \subseteq shown \cup cut
=============================================================================
