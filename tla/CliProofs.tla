------------------------------ MODULE CliProofs ------------------------------
(***************************************************************************)
(* What is proved of the command line and of the logs it prints.           *)
(*                                                                         *)
(* The logs first.  What is printed of a file is defined by recursion over *)
(* its lines, and is told by induction: a property of every place of a     *)
(* range has no least counterexample.  FilesInv is what the reader relies  *)
(* on the writer for, Onward what a step of the writer leaves of it, and   *)
(* ReaderInv where the reader stands: the days it has still to read come   *)
(* after every line it has shown.  GapsInv adds that the file of a day     *)
(* holds what was written whole, that logs -f has shown what its file held *)
(* up to where it stands, and that what logs owes is still to be read.     *)
(*                                                                         *)
(* Then the invocations.  CliInv follows each of them to its exit code:    *)
(* Truthful says at every step what the daemon has done of a mutating      *)
(* command, and what its answer will say of it.  A reload waits for the    *)
(* run it started (Waiting), and a run that has not failed has as many     *)
(* follow-ups lost as lists refused, but for the one its script is at      *)
(* (Refusals).  A step of one invocation is lemma OneBalances, OneMoves if *)
(* it leaves the load alone, one of the daemon that ends it is LoadEnds.   *)
(*                                                                         *)
(* Then what a doctor exits with.  DoctorInv follows each doctor from its  *)
(* request (Examining): what the daemon told it could be seen (ToldTruly), *)
(* and so could each setting it has read (Looked) and what each dial that  *)
(* has ended found (FoundSoFar), its report and its code are accounted for by *)
(* what was there to be seen (Accounted).  It rests                        *)
(* on front ends that have addresses and on settings that can be read      *)
(* (Addressed), whatever another invocation does to either meanwhile.      *)
(*                                                                         *)
(* Last what test says.  The words it is asked with are read character by  *)
(* character: MatchesAsMeant relates the matchers to labels, ReadsBack the *)
(* hop that is printed to the destination that was typed.  TestInv keeps   *)
(* the answer of each test together with the rules it was made of (Told).  *)
(***************************************************************************)
EXTENDS Cli, TLAPS
Orders == INSTANCE WellFoundedInduction

\* A set of numbers that is not empty has a least.
LEMMA LeastOf ==
  ASSUME NEW S \in SUBSET Nat, S # {}
  PROVE  \E i \in S : \A j \in S : i <= j
<1> DEFINE R == Orders!OpToRel(<, Nat)
<1>1. Orders!IsWellFoundedOn(R, Nat) BY Orders!NatLessThanWellFounded
<1>2. \A i, j \in Nat : i < j => <<i, j>> \in R BY DEF Orders!OpToRel
<1> HIDE DEF R
<1>3. PICK i \in S : \A j \in S : ~(<<j, i>> \in R) BY <1>1, Orders!WFMin
<1>4. ASSUME NEW j \in S PROVE i <= j
  <2>1. i \in Nat /\ j \in Nat OBVIOUS
  <2>2. ~(j < i) BY <1>2, <1>3, <2>1
  <2> QED BY <2>1, <2>2
<1> QED BY <1>4

\* What holds at the first place of a range and at each one after a place where
\* it holds, holds in the whole range: no first counterexample is left.
LEMMA NoneFails ==
  ASSUME NEW from \in Nat, NEW to \in Nat, NEW fails \in SUBSET (from..to),
         from \notin fails, \A i \in (from + 1)..to : i \in fails => i - 1 \in fails
  PROVE  fails = {}
<1> SUFFICES ASSUME fails # {} PROVE FALSE
  OBVIOUS
<1>1. fails \in SUBSET Nat OBVIOUS
<1>2. PICK m \in fails : \A j \in fails : m <= j BY <1>1, LeastOf
<1>3. m \in (from + 1)..to OBVIOUS
<1>4. m - 1 \in fails BY <1>3
<1> QED BY <1>2, <1>3, <1>4

\* The same for the places from the beginning.
LEMMA NoneEverFails ==
  ASSUME NEW to \in Nat, NEW fails \in SUBSET (0..to),
         0 \notin fails, \A i \in 1..to : i \in fails => i - 1 \in fails
  PROVE  fails = {}
<1> SUFFICES ASSUME fails # {} PROVE FALSE
  OBVIOUS
<1>1. fails \in SUBSET Nat OBVIOUS
<1>2. PICK m \in fails : \A j \in fails : m <= j BY <1>1, LeastOf
<1>3. m \in 1..to OBVIOUS
<1>4. m - 1 \in fails BY <1>3
<1> QED BY <1>2, <1>3, <1>4

\* One more turn of InOrder for a function of the places.
Turned(from, to, kept, value, f) ==
  [i \in from..to |-> IF i = from THEN <<>>
                      ELSE IF i \in kept THEN Append(f[i - 1], value[i]) ELSE f[i - 1]]

\* The recursion of InOrder has a solution.
LEMMA InOrderRuns ==
  ASSUME NEW from \in Nat, NEW to \in Nat, from <= to, NEW kept, NEW value
  PROVE  \E f : f = Turned(from, to, kept, value, f)
<1> DEFINE Turn(f, i) == IF i = from THEN <<>>
                         ELSE IF i \in kept THEN Append(f[i - 1], value[i]) ELSE f[i - 1]
           Runs(k) == \E f : f = [i \in from..k |-> Turn(f, i)]
           fails == {k \in from..to : ~Runs(k)}
<1>1. from \notin fails
  <2> DEFINE f == [i \in from..from |-> <<>>]
  <2>1. f = [i \in from..from |-> Turn(f, i)] OBVIOUS
  <2> QED BY <2>1
<1>2. ASSUME NEW k \in (from + 1)..to, Runs(k - 1) PROVE Runs(k)
  <2>1. PICK g : g = [i \in from..(k - 1) |-> Turn(g, i)] BY <1>2
  <2> DEFINE f == [i \in from..k |-> IF i = k THEN Turn(g, k) ELSE g[i]]
  <2>2. ASSUME NEW i \in from..k PROVE f[i] = Turn(f, i)
    <3>1. CASE i = k
      <4>1. k - 1 \in from..k /\ k - 1 # k /\ k # from OBVIOUS
      <4>2. f[k - 1] = g[k - 1] BY <4>1
      <4>3. Turn(g, k) = Turn(f, k) BY <4>2
      <4> QED BY <3>1, <4>3
    <3>2. CASE i # k
      <4>1. i \in from..(k - 1) BY <3>2
      <4>2. f[i] = g[i] BY <3>2
      <4>3. g[i] = Turn(g, i) BY <2>1, <4>1
      <4>4. i # from => i - 1 \in from..k /\ i - 1 # k BY <4>1
      <4>5. i # from => f[i - 1] = g[i - 1] BY <4>4
      <4>6. Turn(g, i) = Turn(f, i) BY <4>5
      <4> QED BY <4>2, <4>3, <4>6
    <3> QED BY <3>1, <3>2
  <2>3. f = [i \in from..k |-> f[i]] OBVIOUS
  <2> HIDE DEF f, Turn
  <2>4. f = [i \in from..k |-> Turn(f, i)] BY <2>2, <2>3
  <2> QED BY <2>4
<1>3. \A k \in (from + 1)..to : k \in fails => k - 1 \in fails
  <2> SUFFICES ASSUME NEW k \in (from + 1)..to, k - 1 \notin fails PROVE k \notin fails
    OBVIOUS
  <2>1. k - 1 \in from..to OBVIOUS
  <2>2. Runs(k - 1) BY <2>1
  <2> QED BY <1>2, <2>2
<1> HIDE DEF Runs
<1>4. fails = {}
  <2>1. fails \in SUBSET (from..to) OBVIOUS
  <2> HIDE DEF fails
  <2> QED BY <1>1, <1>3, <2>1, NoneFails
<1>5. Runs(to) BY <1>4
<1> QED BY <1>5 DEF Runs, Turned

\* Values of kept places only, of all of them, in their order.
KeptInOrder(from, to, kept, value, q) ==
  /\ q \in Seq(Nat)
  /\ \A n \in DOMAIN q : \E i \in (from + 1)..to : i \in kept /\ q[n] = value[i]
  /\ \A i \in (from + 1)..to : i \in kept => \E n \in DOMAIN q : q[n] = value[i]
  /\ \A m, n \in DOMAIN q : m < n => q[m] < q[n]

\* What InOrder returns.
LEMMA InOrderTells ==
  ASSUME NEW from \in Nat, NEW to \in Nat, from <= to, NEW kept, NEW value,
         \A i \in (from + 1)..to : i \in kept => value[i] \in Nat,
         \A i, j \in (from + 1)..to : i \in kept /\ j \in kept /\ i < j => value[i] < value[j]
  PROVE  KeptInOrder(from, to, kept, value, InOrder(from, to, kept, value))
<1> DEFINE Body(f) == Turned(from, to, kept, value, f)
           run == CHOOSE f : f = Body(f)
           Tells(q, k) == KeptInOrder(from, k, kept, value, q)
<1>1. InOrder(from, to, kept, value) = run[to] BY DEF InOrder, Turned
<1>2. run = Body(run)
  <2>1. \E f : f = Body(f) BY InOrderRuns
  <2> QED BY <2>1
<1>a. run = [i \in from..to |-> IF i = from THEN <<>>
                      ELSE IF i \in kept THEN Append(run[i - 1], value[i]) ELSE run[i - 1]]
  <2> HIDE DEF run
  <2> QED BY <1>2 DEF Turned
<1> HIDE DEF run
<1>3. Tells(run[from], from)
  <2>1. run[from] = <<>> BY <1>a
  <2> QED BY <2>1 DEF KeptInOrder
<1>4. ASSUME NEW k \in (from + 1)..to, Tells(run[k - 1], k - 1) PROVE Tells(run[k], k)
  <2>0. k \in from..to /\ k # from /\ k - 1 \in Nat OBVIOUS
  <2>1. run[k] = IF k \in kept THEN Append(run[k - 1], value[k]) ELSE run[k - 1] BY <1>a, <2>0
  <2>2. PICK q \in Seq(Nat) : q = run[k - 1] /\ Tells(q, k - 1) BY <1>4 DEF KeptInOrder
  <2>3. CASE k \notin kept
    BY <2>1, <2>2, <2>3 DEF KeptInOrder
  <2>4. CASE k \in kept
    <3>1. value[k] \in Nat BY <2>4
    <3>2. PICK len \in Nat : len = Len(q) /\ DOMAIN q = 1..len BY <2>2
    <3>3. PICK p : p = run[k] OBVIOUS
    <3>4. /\ p \in Seq(Nat) /\ DOMAIN p = 1..(len + 1) /\ p[len + 1] = value[k]
          /\ \A n \in 1..len : p[n] = q[n]
      BY <2>1, <2>2, <2>4, <3>1, <3>2, <3>3
    <3>5. \A n \in 1..len : \E i \in (from + 1)..(k - 1) : i \in kept /\ q[n] = value[i]
      BY <2>2, <3>2 DEF KeptInOrder
    <3>6. \A n \in 1..len : q[n] < value[k]
      <4> TAKE n \in 1..len
      <4>1. PICK i \in (from + 1)..(k - 1) : i \in kept /\ q[n] = value[i] BY <3>5
      <4>2. i \in (from + 1)..to /\ i < k OBVIOUS
      <4> QED BY <2>4, <4>1, <4>2
    <3>7. \A n \in DOMAIN p : \E i \in (from + 1)..k : i \in kept /\ p[n] = value[i]
      <4> TAKE n \in DOMAIN p
      <4>1. CASE n = len + 1 BY <2>4, <3>4, <4>1
      <4>2. CASE n # len + 1
        <5>1. n \in 1..len BY <3>4, <4>2
        <5>2. PICK i \in (from + 1)..(k - 1) : i \in kept /\ q[n] = value[i] BY <3>5, <5>1
        <5>3. i \in (from + 1)..k OBVIOUS
        <5> QED BY <3>4, <5>1, <5>2, <5>3
      <4> QED BY <4>1, <4>2
    <3>8. \A i \in (from + 1)..k : i \in kept => \E n \in DOMAIN p : p[n] = value[i]
      <4> SUFFICES ASSUME NEW i \in (from + 1)..k, i \in kept PROVE \E n \in DOMAIN p : p[n] = value[i]
        OBVIOUS
      <4>1. CASE i = k BY <3>2, <3>4, <4>1
      <4>2. CASE i # k
        <5>1. i \in (from + 1)..(k - 1) BY <4>2
        <5>2. PICK n \in 1..len : q[n] = value[i] BY <2>2, <3>2, <5>1 DEF KeptInOrder
        <5>3. n \in DOMAIN p /\ p[n] = q[n] BY <3>4
        <5> QED BY <5>2, <5>3
      <4> QED BY <4>1, <4>2
    <3>9. \A m, n \in 1..len : m < n => q[m] < q[n] BY <2>2, <3>2 DEF KeptInOrder
    <3>10. \A m, n \in DOMAIN p : m < n => p[m] < p[n]
      <4> SUFFICES ASSUME NEW m \in 1..(len + 1), NEW n \in 1..(len + 1), m < n PROVE p[m] < p[n]
        BY <3>4
      <4>1. m \in 1..len OBVIOUS
      <4>2. CASE n = len + 1 BY <3>4, <3>6, <4>1, <4>2
      <4>3. CASE n # len + 1 BY <3>4, <3>9, <4>1, <4>3
      <4> QED BY <4>2, <4>3
    <3> QED BY <3>3, <3>4, <3>7, <3>8, <3>10 DEF KeptInOrder
  <2> QED BY <2>3, <2>4
<1> DEFINE fails == {k \in from..to : ~Tells(run[k], k)}
<1>5. from \notin fails BY <1>3
<1>6. \A k \in (from + 1)..to : k \in fails => k - 1 \in fails
  <2> SUFFICES ASSUME NEW k \in (from + 1)..to, k - 1 \notin fails PROVE k \notin fails
    OBVIOUS
  <2>1. k - 1 \in from..to OBVIOUS
  <2> HIDE DEF Tells
  <2>2. Tells(run[k - 1], k - 1) BY <2>1
  <2> QED BY <1>4, <2>2
<1> HIDE DEF Tells
<1>7. fails = {}
  <2>1. fails \in SUBSET (from..to) OBVIOUS
  <2> HIDE DEF fails
  <2> QED BY <1>5, <1>6, <2>1, NoneFails
<1>8. Tells(run[to], to) BY <1>7
<1> QED BY <1>1, <1>8 DEF Tells
-----------------------------------------------------------------------------
(* The files *)

\* A line that is in its file, or that no daemon will write any more.
Finished(n) == n \in DOMAIN born /\ (Writing => n < Len(born))

\* The files as the reader relies on them: one line is written at a time, to the
\* file of its day; a file's lines are finished ones of its day, in their order;
\* days pass in order, and the file of a day with lines is there until it ends.
FilesInv ==
  /\ DOMAIN files \subseteq 1..today
  /\ \A d, e \in DOMAIN files : BeingWritten(files[d].end) /\ BeingWritten(files[e].end) => d = e
  /\ \A d \in DOMAIN files : BeingWritten(files[d].end) => born # <<>> /\ born[Len(born)].day = d
  /\ \A d \in DOMAIN files : \A i \in DOMAIN files[d].lines :
       Finished(files[d].lines[i].n) /\ born[files[d].lines[i].n].day = d
  /\ \A d \in DOMAIN files : \A i, j \in DOMAIN files[d].lines :
       i < j => files[d].lines[i].n < files[d].lines[j].n
  /\ \A n \in DOMAIN born : born[n].day <= today
  /\ \A m, n \in DOMAIN born : m < n => born[m].day <= born[n].day

FilesTypeOK ==
  /\ today \in 1..MaxDays
  /\ DOMAIN files \subseteq 1..MaxDays
  /\ \A d \in DOMAIN files : files[d] \in Files
  /\ born \in Seq(Births)
  /\ cut \subseteq DOMAIN born

\* What becomes of a file in a step: nothing, it is new, it was emptied, or the
\* line being written is in it now.
FileGoesOn(d) ==
  \/ d \in DOMAIN files /\ files'[d].lines = files[d].lines
  \/ files'[d].lines = <<>>
  \/ /\ d \in DOMAIN files
     /\ \E line \in Lines : /\ files'[d].lines = Append(files[d].lines, line)
                            /\ \A n : Finished(n) => n < line.n

\* What a step of the writer leaves for the reader to rely on.
Onward ==
  /\ \A n : Finished(n) => Finished(n)'
  /\ \A n \in DOMAIN born : n \in DOMAIN born' /\ born'[n].day = born[n].day
  /\ \A d \in DOMAIN files : \E e \in DOMAIN files' : d <= e
  /\ \A d \in DOMAIN files' : FileGoesOn(d)

FileStep ==
  \/ WritesPart \/ WritesRest \/ MidnightPasses
  \/ \E d \in DOMAIN files : Truncates(d)
  \/ files' = Torn(files) /\ UNCHANGED <<today, born, cut>>
  \/ UNCHANGED <<today, files, born, cut>>

\* The parts of a file.
LEMMA FileParts ==
  /\ \A f \in Files : f.lines \in Seq(Lines) /\ f.end \in Ends
  /\ \A f \in Files : \A end \in Ends :
       /\ [f EXCEPT !.end = end] \in Files
       /\ [f EXCEPT !.end = end].lines = f.lines /\ [f EXCEPT !.end = end].end = end
  /\ \A lines \in Seq(Lines), end \in Ends : [lines |-> lines, end |-> end] \in Files
BY DEF Files

\* The parts of a birth.
LEMMA BirthParts ==
  /\ \A b \in Births : b.day \in 1..MaxDays /\ b.day \in Nat
  /\ \A d \in 1..MaxDays, w \in BOOLEAN :
       [day |-> d, whole |-> w] \in Births /\ [day |-> d, whole |-> w].day = d
                                        /\ [day |-> d, whole |-> w].whole = w
  /\ \A b \in Births, w \in BOOLEAN :
       [b EXCEPT !.whole = w] \in Births /\ [b EXCEPT !.whole = w].day = b.day
                                      /\ [b EXCEPT !.whole = w].whole = w
BY DEF Births

\* What rolling leaves: files that were there as they were, and the one of today.
LEMMA RolledTells ==
  ASSUME FilesTypeOK
  PROVE  /\ today \in DOMAIN Rolled /\ DOMAIN Rolled \subseteq DOMAIN files \cup {today}
         /\ \A d \in DOMAIN Rolled : /\ Rolled[d] \in Files
                                     /\ d \in DOMAIN files => Rolled[d] = files[d]
                                     /\ d \notin DOMAIN files => Rolled[d] = EmptyFile
         /\ today \in DOMAIN files => Rolled = files
<1>1. EmptyFile \in Files BY DEF EmptyFile, Files, Ends
<1>2. CASE today \in DOMAIN files BY <1>2 DEF Rolled, FilesTypeOK
<1>3. CASE today \notin DOMAIN files
  <2>1. PICK kept \in SUBSET DOMAIN files :
          Rolled = [d \in kept \cup {today} |-> IF d = today THEN EmptyFile ELSE files[d]]
    BY <1>3 DEF Rolled
  <2> QED BY <1>1, <1>3, <2>1 DEF FilesTypeOK
<1> QED BY <1>2, <1>3

\* A line begins.
LEMMA PartWritten ==
  ASSUME FilesTypeOK, FilesInv, WritesPart
  PROVE  FilesTypeOK' /\ FilesInv' /\ Onward
<1>1. PICK r : r = Rolled OBVIOUS
<1>2. /\ today \in DOMAIN r /\ DOMAIN r \subseteq DOMAIN files \cup {today}
      /\ \A d \in DOMAIN r : r[d] \in Files
      /\ \A d \in DOMAIN r : d \in DOMAIN files => r[d] = files[d]
      /\ \A d \in DOMAIN r : d \notin DOMAIN files => r[d] = EmptyFile
  BY <1>1, RolledTells
<1>3. PICK last \in Ends : /\ BeingWritten(last)
                           /\ files' = [r EXCEPT ![today] = [r[today] EXCEPT !.end = last]]
  <2>1. files' = [r EXCEPT ![today].end = IF @ = "piece" THEN "glued" ELSE "line"]
    BY <1>1 DEF WritesPart
  <2> QED BY <2>1 DEF Ends, BeingWritten
<1>4. /\ DOMAIN files' = DOMAIN r
      /\ \A d \in DOMAIN r : files'[d] \in Files /\ files'[d].lines = r[d].lines
      /\ \A d \in DOMAIN r : d # today => files'[d] = r[d]
      /\ files'[today].end = last
  <2>1. PICK now \in Files : /\ now = [r[today] EXCEPT !.end = last]
                             /\ now.lines = r[today].lines /\ now.end = last
    <3>1. r[today] \in Files BY <1>2
    <3>2. /\ [r[today] EXCEPT !.end = last] \in Files
          /\ [r[today] EXCEPT !.end = last].lines = r[today].lines
          /\ [r[today] EXCEPT !.end = last].end = last
      BY <3>1, FileParts
    <3> QED BY <3>2
  <2>2. files' = [r EXCEPT ![today] = now] BY <1>3, <2>1
  <2> QED BY <1>2, <2>1, <2>2
<1>5. /\ today' = today /\ cut' = cut /\ ~Writing
      /\ born' = Append(born, [day |-> today, whole |-> FALSE])
  BY DEF WritesPart
<1>6. PICK len \in Nat : len = Len(born) /\ DOMAIN born = 1..len
  BY DEF FilesTypeOK
<1>7. /\ Len(born') = len + 1 /\ DOMAIN born' = 1..(len + 1)
      /\ born'[len + 1].day = today /\ \A n \in 1..len : born'[n] = born[n]
  BY <1>5, <1>6, BirthParts DEF FilesTypeOK
<1>8. born' \in Seq(Births)
  <2>1. today \in 1..MaxDays /\ born \in Seq(Births) BY DEF FilesTypeOK
  <2>2. [day |-> today, whole |-> FALSE] \in Births BY <2>1, BirthParts
  <2> QED BY <1>5, <2>1, <2>2
<1>9. FilesTypeOK'
  BY <1>2, <1>4, <1>5, <1>6, <1>7, <1>8 DEF FilesTypeOK
<1>10. \A d \in DOMAIN files : ~BeingWritten(files[d].end) BY <1>5 DEF Writing
<1>11. \A d \in DOMAIN r : d # today => ~BeingWritten(files'[d].end)
  BY <1>2, <1>4, <1>10
<1>12. Writing' BY <1>2, <1>3, <1>4 DEF Writing
<1>13. \A n : Finished(n) <=> n \in 1..len BY <1>5, <1>6 DEF Finished
<1>14. \A n : Finished(n)' <=> n \in 1..len
  BY <1>6, <1>7, <1>12 DEF Finished
<1>15. \A d \in DOMAIN r : \/ d \in DOMAIN files /\ files'[d].lines = files[d].lines
                           \/ files'[d].lines = <<>>
  BY <1>2, <1>4 DEF EmptyFile
<1>16. FilesInv'
  <2>1. DOMAIN files' \subseteq 1..today'
    BY <1>2, <1>4, <1>5 DEF FilesInv, FilesTypeOK
  <2>2. \A d \in DOMAIN files' : \A i \in DOMAIN files'[d].lines :
          Finished(files[d].lines[i].n)' /\ born'[files'[d].lines[i].n].day = d
    <3> SUFFICES ASSUME NEW d \in DOMAIN files', NEW i \in DOMAIN files'[d].lines
                 PROVE  files'[d].lines[i].n \in 1..len /\ born'[files'[d].lines[i].n].day = d
      BY <1>14
    <3>1. d \in DOMAIN files /\ files'[d].lines = files[d].lines BY <1>4, <1>15
    <3>2. files[d].lines[i].n \in 1..len /\ born[files[d].lines[i].n].day = d
      BY <1>13, <3>1 DEF FilesInv
    <3> QED BY <1>7, <3>1, <3>2
  <2>3. \A d \in DOMAIN files' : \A i, j \in DOMAIN files'[d].lines :
          i < j => files'[d].lines[i].n < files'[d].lines[j].n
    BY <1>4, <1>15 DEF FilesInv
  <2>4. \A n \in DOMAIN born' : born'[n].day <= today'
    BY <1>5, <1>6, <1>7 DEF FilesInv, FilesTypeOK
  <2>5. \A m, n \in DOMAIN born' : m < n => born'[m].day <= born'[n].day
    BY <1>5, <1>6, <1>7 DEF FilesInv, FilesTypeOK
  <2>6. born' # <<>> BY <1>7
  <2> QED BY <1>4, <1>7, <1>11, <2>1, <2>2, <2>3, <2>4, <2>5, <2>6 DEF FilesInv
<1>17. Onward
  <2>1. \A d \in DOMAIN files : d <= today BY DEF FilesInv, FilesTypeOK
  <2>2. \A d \in DOMAIN files' : FileGoesOn(d) BY <1>4, <1>15 DEF FileGoesOn
  <2> QED BY <1>2, <1>4, <1>6, <1>7, <1>13, <1>14, <2>1, <2>2 DEF Onward
<1> QED BY <1>9, <1>16, <1>17

\* The rest of a line is written: it is in its file.
LEMMA RestWritten ==
  ASSUME FilesTypeOK, FilesInv, WritesRest
  PROVE  FilesTypeOK' /\ FilesInv' /\ Onward
<1>1. PICK d \in DOMAIN files :
        /\ BeingWritten(files[d].end)
        /\ files' = [files EXCEPT ![d] =
             [lines |-> Append(@.lines, [n |-> Len(born), stamped |-> @.end = "line"]),
              end |-> "break"]]
        /\ born' = [born EXCEPT ![Len(born)].whole = files[d].end = "line"]
  BY DEF WritesRest
<1>2. PICK len \in Nat : len = Len(born) /\ DOMAIN born = 1..len
  BY DEF FilesTypeOK
<1>3. len > 0 /\ born[len].day = d BY <1>1, <1>2 DEF FilesInv, FilesTypeOK
<1>4. PICK line \in Lines : line = [n |-> len, stamped |-> files[d].end = "line"]
  <2>1. [n |-> len, stamped |-> files[d].end = "line"] \in Lines BY DEF Lines
  <2> QED BY <2>1
<1>5. files[d].lines \in Seq(Lines) BY <1>1, FileParts DEF FilesTypeOK
<1>6. PICK new \in Files : /\ files' = [files EXCEPT ![d] = new] /\ new.end = "break"
                           /\ new.lines = Append(files[d].lines, line)
  <2>1. PICK more \in Seq(Lines) : more = Append(files[d].lines, line)
    <3>1. Append(files[d].lines, line) \in Seq(Lines) BY <1>5
    <3> QED BY <3>1
  <2>2. [lines |-> more, end |-> "break"] \in Files BY <2>1, FileParts DEF Ends
  <2> QED BY <1>1, <1>2, <1>4, <2>1, <2>2
<1>7. /\ DOMAIN files' = DOMAIN files /\ files'[d] = new
      /\ \A e \in DOMAIN files : e # d => files'[e] = files[e]
  BY <1>1, <1>6
<1>8. PICK w \in BOOLEAN : w = (files[d].end = "line") OBVIOUS
<1>9. /\ born' \in Seq(Births)
      /\ Len(born') = len /\ DOMAIN born' = 1..len
      /\ \A n \in 1..len : born'[n].day = born[n].day
  <2>0. born' = [born EXCEPT ![len].whole = w] BY <1>1, <1>2, <1>8
  <2>1. PICK b \in Births : b = born[len]
    <3>1. len \in 1..Len(born) BY <1>2, <1>3
    <3>2. born \in Seq(Births) BY DEF FilesTypeOK
    <3>3. born[len] \in Births BY <3>1, <3>2
    <3> QED BY <3>3
  <2>2. PICK b2 \in Births : b2 = [b EXCEPT !.whole = w] /\ b2.day = b.day
    <3>1. [b EXCEPT !.whole = w] \in Births
          /\ [b EXCEPT !.whole = w].day = b.day
      BY <1>8, <2>1, BirthParts
    <3> QED BY <3>1
  <2>3. born' = [born EXCEPT ![len] = b2] BY <2>0, <2>1, <2>2
  <2> QED BY <1>2, <1>3, <2>1, <2>2, <2>3 DEF FilesTypeOK
<1>10. today' = today /\ cut' = cut BY DEF WritesRest
<1>11. FilesTypeOK'
  BY <1>2, <1>6, <1>7, <1>9, <1>10 DEF FilesTypeOK
<1>12. \A e \in DOMAIN files : e # d => ~BeingWritten(files[e].end)
  BY <1>1 DEF FilesInv
<1>13. ~Writing' BY <1>6, <1>7, <1>12 DEF Writing, BeingWritten
<1>14. \A n : Finished(n) <=> n \in 1..(len - 1)
  BY <1>1, <1>2 DEF Finished, Writing
<1>15. \A n : Finished(n)' <=> n \in 1..len
  BY <1>9, <1>13 DEF Finished
<1>16. PICK k \in Nat : k = Len(files[d].lines) /\ DOMAIN files[d].lines = 1..k BY <1>5
<1>17. /\ DOMAIN new.lines = 1..(k + 1) /\ new.lines[k + 1] = line
       /\ \A i \in 1..k : new.lines[i] = files[d].lines[i]
  BY <1>5, <1>6, <1>16
<1>18. line.n = len BY <1>4
<1>19. \A i \in 1..k : files[d].lines[i].n \in 1..(len - 1) /\ born[files[d].lines[i].n].day = d
  BY <1>1, <1>14, <1>16 DEF FilesInv
<1>20. FilesInv'
  <2>1. \A e \in DOMAIN files' : \A i \in DOMAIN files'[e].lines :
          Finished(files[e].lines[i].n)' /\ born'[files'[e].lines[i].n].day = e
    <3> SUFFICES ASSUME NEW e \in DOMAIN files, NEW i \in DOMAIN files'[e].lines
                 PROVE  files'[e].lines[i].n \in 1..len /\ born'[files'[e].lines[i].n].day = e
      BY <1>7, <1>15
    <3>1. CASE e = d
      <4>1. CASE i = k + 1 BY <1>3, <1>7, <1>9, <1>17, <1>18, <3>1, <4>1
      <4>2. CASE i # k + 1
        <5>1. i \in 1..k BY <1>7, <1>17, <3>1, <4>2
        <5>2. files'[e].lines[i] = files[d].lines[i] BY <1>7, <1>17, <3>1, <5>1
        <5>3. files[d].lines[i].n \in 1..len /\ born[files[d].lines[i].n].day = d BY <1>19, <5>1
        <5> QED BY <1>9, <3>1, <5>2, <5>3
      <4> QED BY <4>1, <4>2
    <3>2. CASE e # d
      <4>1. files'[e].lines[i].n \in 1..(len - 1) /\ born[files'[e].lines[i].n].day = e
        BY <1>7, <1>14, <3>2 DEF FilesInv
      <4> QED BY <1>9, <4>1
    <3> QED BY <3>1, <3>2
  <2>2. \A e \in DOMAIN files' : \A i, j \in DOMAIN files'[e].lines :
          i < j => files'[e].lines[i].n < files'[e].lines[j].n
    <3> SUFFICES ASSUME NEW e \in DOMAIN files, NEW i \in DOMAIN files'[e].lines,
                        NEW j \in DOMAIN files'[e].lines, i < j
                 PROVE  files'[e].lines[i].n < files'[e].lines[j].n
      BY <1>7
    <3>1. CASE e = d
      <4>1. i \in 1..(k + 1) /\ j \in 1..(k + 1) /\ i \in 1..k BY <1>7, <1>17, <3>1
      <4>2. CASE j = k + 1 BY <1>7, <1>17, <1>18, <1>19, <3>1, <4>1, <4>2
      <4>3. CASE j # k + 1
        <5>1. j \in 1..k BY <4>1, <4>3
        <5>2. files[d].lines[i].n < files[d].lines[j].n BY <1>1, <1>16, <4>1, <5>1 DEF FilesInv
        <5> QED BY <1>7, <1>17, <3>1, <4>1, <5>1, <5>2
      <4> QED BY <4>2, <4>3
    <3>2. CASE e # d BY <1>7, <3>2 DEF FilesInv
    <3> QED BY <3>1, <3>2
  <2>3. \A e \in DOMAIN files' : ~BeingWritten(files'[e].end)
    BY <1>13 DEF Writing
  <2>4. /\ \A n \in DOMAIN born' : born'[n].day <= today'
        /\ \A m, n \in DOMAIN born' : m < n => born'[m].day <= born'[n].day
    BY <1>2, <1>9, <1>10 DEF FilesInv
  <2> QED BY <1>7, <1>10, <2>1, <2>2, <2>3, <2>4 DEF FilesInv
<1>21. Onward
  <2>1. \A e \in DOMAIN files' : FileGoesOn(e)
    <3>1. FileGoesOn(d) BY <1>1, <1>6, <1>7, <1>14, <1>18 DEF FileGoesOn
    <3>2. \A e \in DOMAIN files : e # d => FileGoesOn(e) BY <1>7 DEF FileGoesOn
    <3> QED BY <1>7, <3>1, <3>2
  <2>2. \A e \in DOMAIN files : \E x \in DOMAIN files' : e <= x
    BY <1>7 DEF FilesTypeOK
  <2> QED BY <1>2, <1>9, <1>14, <1>15, <2>1, <2>2 DEF Onward
<1> QED BY <1>11, <1>20, <1>21
\* Every step of the writer keeps what is relied on.
LEMMA FileStepKeeps ==
  ASSUME FilesTypeOK, FilesInv, FileStep
  PROVE  FilesTypeOK' /\ FilesInv' /\ Onward
<1>0. \A d \in DOMAIN files : files[d].lines \in Seq(Lines) /\ files[d].end \in Ends
  BY FileParts DEF FilesTypeOK
<1>1. CASE WritesPart BY <1>1, PartWritten
<1>2. CASE WritesRest BY <1>2, RestWritten
<1>3. CASE MidnightPasses
  <2>1. files' = files /\ born' = born /\ cut' = cut /\ today' = today + 1 /\ today < MaxDays
    BY <1>3 DEF MidnightPasses
  <2>2. Writing' = Writing BY <2>1 DEF Writing
  <2>3. \A n : Finished(n)' <=> Finished(n) BY <2>1, <2>2 DEF Finished
  <2>4. today \in Nat /\ \A n \in DOMAIN born : born[n].day \in Nat
    BY BirthParts DEF FilesTypeOK
  <2>5. \A d \in DOMAIN files : d <= d BY DEF FilesTypeOK
  <2>6. FilesTypeOK' BY <2>1, LogsAssumption DEF FilesTypeOK
  <2>7. FilesInv' BY <2>1, <2>3, <2>4 DEF FilesInv
  <2> QED BY <2>1, <2>3, <2>5, <2>6, <2>7 DEF Onward, FileGoesOn
<1>4. ASSUME NEW d \in DOMAIN files, Truncates(d) PROVE FilesTypeOK' /\ FilesInv' /\ Onward
  <2>1. PICK new \in Files : /\ files' = [files EXCEPT ![d] = new] /\ new.lines = <<>>
                             /\ BeingWritten(new.end) <=> BeingWritten(files[d].end)
    <3>1. PICK last \in Ends : last = IF BeingWritten(files[d].end) THEN "glued" ELSE "break"
      BY DEF Ends
    <3>2. EmptyFile \in Files /\ EmptyFile.lines = <<>> BY DEF EmptyFile, Files, Ends
    <3>3. /\ [EmptyFile EXCEPT !.end = last] \in Files /\ [EmptyFile EXCEPT !.end = last].lines = <<>>
          /\ [EmptyFile EXCEPT !.end = last].end = last
      BY <3>2, FileParts
    <3>4. files' = [files EXCEPT ![d] = [EmptyFile EXCEPT !.end = last]] BY <1>4, <3>1 DEF Truncates
    <3>5. BeingWritten(last) <=> BeingWritten(files[d].end) BY <3>1 DEF BeingWritten
    <3> QED BY <3>3, <3>4, <3>5
  <2>2. born' = born /\ today' = today /\ cut' = cut \cup {files[d].lines[i].n : i \in DOMAIN files[d].lines}
    BY <1>4 DEF Truncates
  <2>3. /\ DOMAIN files' = DOMAIN files /\ files'[d] = new
        /\ \A e \in DOMAIN files : e # d => files'[e] = files[e]
    BY <2>1
  <2>4. \A e \in DOMAIN files : BeingWritten(files'[e].end) <=> BeingWritten(files[e].end)
    BY <2>1, <2>3
  <2>5. \A n : Finished(n)' <=> Finished(n) BY <2>2, <2>3, <2>4 DEF Finished, Writing
  <2>6. cut' \subseteq DOMAIN born BY <2>2 DEF FilesInv, FilesTypeOK, Finished
  <2>7. FilesTypeOK' BY <2>1, <2>2, <2>3, <2>6 DEF FilesTypeOK
  <2>8. \A e \in DOMAIN files : files'[e].lines = files[e].lines \/ files'[e].lines = <<>>
    BY <2>1, <2>3
  <2>9. FilesInv' BY <2>2, <2>3, <2>4, <2>5, <2>8 DEF FilesInv
  <2>10. \A e \in DOMAIN files : e <= e BY DEF FilesTypeOK
  <2> QED BY <2>2, <2>3, <2>5, <2>7, <2>8, <2>9, <2>10 DEF Onward, FileGoesOn
<1>5. CASE files' = Torn(files) /\ UNCHANGED <<today, born, cut>>
  <2>1. DOMAIN files' = DOMAIN files BY <1>5 DEF Torn
  <2>2. ASSUME NEW d \in DOMAIN files
        PROVE  files'[d] \in Files /\ files'[d].lines = files[d].lines /\ ~BeingWritten(files'[d].end)
    <3>1. files'[d] = IF BeingWritten(files[d].end) THEN [files[d] EXCEPT !.end = "piece"] ELSE files[d]
      BY <1>5 DEF Torn
    <3>2. files[d] \in Files /\ "piece" \in Ends BY DEF FilesTypeOK, Ends
    <3>3. /\ [files[d] EXCEPT !.end = "piece"] \in Files
          /\ [files[d] EXCEPT !.end = "piece"].lines = files[d].lines
          /\ [files[d] EXCEPT !.end = "piece"].end = "piece"
      BY <3>2, FileParts
    <3> QED BY <3>1, <3>2, <3>3 DEF BeingWritten
  <2>3. ~Writing' BY <2>1, <2>2 DEF Writing
  <2>4. \A n : Finished(n) => Finished(n)' BY <1>5, <2>3 DEF Finished
  <2>5. FilesTypeOK' BY <1>5, <2>1, <2>2 DEF FilesTypeOK
  <2>6. FilesInv' BY <1>5, <2>1, <2>2, <2>4 DEF FilesInv
  <2>7. \A e \in DOMAIN files : e <= e BY DEF FilesTypeOK
  <2> QED BY <1>5, <2>1, <2>2, <2>4, <2>5, <2>6, <2>7 DEF Onward, FileGoesOn
<1>6. CASE UNCHANGED <<today, files, born, cut>>
  <2>1. Writing' = Writing BY <1>6 DEF Writing
  <2>2. \A n : Finished(n)' <=> Finished(n) BY <1>6, <2>1 DEF Finished
  <2>3. \A e \in DOMAIN files : e <= e BY DEF FilesTypeOK
  <2>4. FilesTypeOK' BY <1>6 DEF FilesTypeOK
  <2>5. FilesInv' BY <1>6, <2>2 DEF FilesInv
  <2> QED BY <1>6, <2>2, <2>3, <2>4, <2>5 DEF Onward, FileGoesOn
<1> QED BY <1>1, <1>2, <1>3, <1>4, <1>5, <1>6 DEF FileStep
-----------------------------------------------------------------------------
(* The reader *)

\* What is shown comes in the order it was written and no line twice.
Rising(shown) == \A i, j \in DOMAIN shown : i < j => shown[i] < shown[j]

\* The days still to be read come after every line shown and rise; no file that
\* is to be read is newer than the newest there is.
AtReading ==
  LET days == reader.queue IN
  /\ days # <<>>
  /\ Rising(days)
  /\ \A i \in DOMAIN reader.shown : born[reader.shown[i]].day < days[1]
  /\ \E e \in DOMAIN files : \A i \in DOMAIN days : days[i] <= e

\* logs -f goes on behind the lines it has shown: in the file it read last, and
\* in the ones of later days.
AtPolling ==
  LET day == reader.queue[1] IN
  /\ Len(reader.queue) = 1
  /\ \A i \in DOMAIN reader.shown : born[reader.shown[i]].day <= day
  /\ \E e \in DOMAIN files : day <= e
  /\ day \in DOMAIN files =>
       LET lines == files[day].lines IN
       \A k \in DOMAIN lines : k > reader.offset \/ Len(lines) < reader.offset =>
         \A i \in DOMAIN reader.shown : reader.shown[i] < lines[k].n

ReaderInv ==
  /\ \A i \in DOMAIN reader.shown : Finished(reader.shown[i])
  /\ Rising(reader.shown)
  /\ reader.at = "reading" => AtReading
  /\ reader.at = "polling" => AtPolling

LogsInv == FilesTypeOK /\ FilesInv /\ reader \in Readers /\ ReaderInv

\* The parts of a reader.
LEMMA ReaderParts ==
  \A r \in Readers :
    /\ r.at \in {"off", "reading", "polling"} /\ r.queue \in Seq(Nat) /\ r.offset \in Nat
    /\ r.shown \in Seq(Nat) /\ r.cutoff \in Nat /\ r.follow \in BOOLEAN
    /\ r.exit \in {-1, 0, 1, 2} /\ r.owed \in SUBSET Nat
BY DEF Readers

\* The reader may rely on what it relied on after a step of the writer.
LEMMA ReaderStands ==
  ASSUME LogsInv, FilesTypeOK', Onward, reader' = reader
  PROVE  ReaderInv'
<1>1. /\ \A n : Finished(n) => Finished(n)'
      /\ \A n \in DOMAIN born : n \in DOMAIN born' /\ born'[n].day = born[n].day
      /\ \A d \in DOMAIN files : \E e \in DOMAIN files' : d <= e
      /\ \A d \in DOMAIN files' : FileGoesOn(d)
  BY DEF Onward
<1>2. /\ DOMAIN files \subseteq Nat /\ DOMAIN files' \subseteq Nat
      /\ \A d \in DOMAIN files : files[d].lines \in Seq(Lines)
  BY FileParts DEF LogsInv, FilesTypeOK
<1>3. PICK shown \in Seq(Nat) : shown = reader.shown BY ReaderParts DEF LogsInv
<1>4. PICK days \in Seq(Nat) : days = reader.queue BY ReaderParts DEF LogsInv
<1>5. PICK offset \in Nat : offset = reader.offset BY ReaderParts DEF LogsInv
<1>6. \A i \in DOMAIN shown : Finished(shown[i]) /\ shown[i] \in DOMAIN born
  BY <1>3 DEF LogsInv, ReaderInv, Finished
<1>7. \A i \in DOMAIN shown : Finished(shown[i])' /\ born'[shown[i]].day = born[shown[i]].day
  BY <1>1, <1>6
<1>8. Rising(shown) BY <1>3 DEF LogsInv, ReaderInv
<1>9. ASSUME reader.at = "reading" PROVE AtReading'
  <2>1. AtReading BY <1>9 DEF LogsInv, ReaderInv
  <2>2. /\ days # <<>> /\ Rising(days) /\ \A i \in DOMAIN shown : born[shown[i]].day < days[1]
        /\ \E e \in DOMAIN files : \A i \in DOMAIN days : days[i] <= e
    BY <1>3, <1>4, <2>1 DEF AtReading
  <2>3. PICK e \in DOMAIN files : \A i \in DOMAIN days : days[i] <= e BY <2>2
  <2>4. PICK later \in DOMAIN files' : e <= later BY <1>1
  <2>5. \A i \in DOMAIN days : days[i] <= later
    <3> TAKE i \in DOMAIN days
    <3>1. days[i] \in Nat /\ e \in Nat /\ later \in Nat BY <1>2
    <3> QED BY <2>3, <2>4, <3>1
  <2> QED BY <1>3, <1>4, <1>7, <2>2, <2>5 DEF AtReading
<1>10. ASSUME reader.at = "polling" PROVE AtPolling'
  <2>1. AtPolling BY <1>10 DEF LogsInv, ReaderInv
  <2>2. PICK day \in Nat : day = days[1] BY <1>4, <2>1 DEF AtPolling
  <2>3. /\ Len(days) = 1 /\ \A i \in DOMAIN shown : born[shown[i]].day <= day
        /\ \E e \in DOMAIN files : day <= e
        /\ day \in DOMAIN files =>
             \A k \in DOMAIN files[day].lines : k > offset \/ Len(files[day].lines) < offset =>
               \A i \in DOMAIN shown : shown[i] < files[day].lines[k].n
    BY <1>3, <1>4, <1>5, <2>1, <2>2 DEF AtPolling
  <2>4. \E e \in DOMAIN files' : day <= e
    <3>1. PICK e \in DOMAIN files : day <= e BY <2>3
    <3>2. PICK later \in DOMAIN files' : e <= later BY <1>1
    <3> QED BY <1>2, <3>1, <3>2
  <2>5. ASSUME day \in DOMAIN files', NEW k \in DOMAIN files'[day].lines,
               k > offset \/ Len(files'[day].lines) < offset, NEW i \in DOMAIN shown
        PROVE  shown[i] < files'[day].lines[k].n
    <3>1. FileGoesOn(day) BY <1>1, <2>5
    <3>2. CASE day \in DOMAIN files /\ files'[day].lines = files[day].lines BY <2>3, <2>5, <3>2
    <3>3. CASE files'[day].lines = <<>> BY <2>5, <3>3
    <3>4. ASSUME day \in DOMAIN files, NEW line \in Lines,
                 files'[day].lines = Append(files[day].lines, line), \A n : Finished(n) => n < line.n
          PROVE  shown[i] < files'[day].lines[k].n
      <4>1. PICK lines \in Seq(Lines) : lines = files[day].lines BY <1>2, <3>4
      <4>2. PICK len \in Nat : len = Len(lines) /\ DOMAIN lines = 1..len BY <4>1
      <4>3. PICK more : more = files'[day].lines OBVIOUS
      <4>4. /\ Len(more) = len + 1 /\ DOMAIN more = 1..(len + 1) /\ more[len + 1] = line
            /\ \A j \in 1..len : more[j] = lines[j]
        BY <3>4, <4>1, <4>2, <4>3
      <4>5. CASE k = len + 1 BY <1>6, <3>4, <4>3, <4>4, <4>5
      <4>6. CASE k # len + 1
        <5>1. k \in 1..len BY <2>5, <4>3, <4>4, <4>6
        <5>2. k > offset \/ len < offset BY <2>5, <4>3, <4>4
        <5> QED BY <2>3, <3>4, <4>1, <4>2, <4>3, <4>4, <5>1, <5>2
      <4> QED BY <4>5, <4>6
    <3> QED BY <3>1, <3>2, <3>3, <3>4 DEF FileGoesOn
  <2>6. \A i \in DOMAIN shown : born'[shown[i]].day <= day BY <1>7, <2>3
  <2> QED BY <1>3, <1>4, <1>5, <2>2, <2>3, <2>4, <2>5, <2>6 DEF AtPolling
<1> QED BY <1>3, <1>7, <1>8, <1>9, <1>10 DEF ReaderInv

\* Two rising sequences, the first below the second, rise together.
LEMMA RisingTogether ==
  ASSUME NEW s \in Seq(Nat), NEW t \in Seq(Nat), Rising(s), Rising(t),
         \A i \in DOMAIN s, j \in DOMAIN t : s[i] < t[j]
  PROVE  /\ s \o t \in Seq(Nat) /\ Rising(s \o t)
         /\ \A k \in DOMAIN (s \o t) : \/ \E i \in DOMAIN s : (s \o t)[k] = s[i]
                                       \/ \E j \in DOMAIN t : (s \o t)[k] = t[j]
         /\ \A i \in DOMAIN s : \E k \in DOMAIN (s \o t) : (s \o t)[k] = s[i]
         /\ \A j \in DOMAIN t : \E k \in DOMAIN (s \o t) : (s \o t)[k] = t[j]
<1>1. PICK m \in Nat : m = Len(s) /\ DOMAIN s = 1..m OBVIOUS
<1>2. PICK n \in Nat : n = Len(t) /\ DOMAIN t = 1..n OBVIOUS
<1>3. PICK u \in Seq(Nat) : u = s \o t
  <2>1. s \o t \in Seq(Nat) OBVIOUS
  <2> QED BY <2>1
<1>4. /\ DOMAIN u = 1..(m + n) /\ \A i \in 1..m : u[i] = s[i]
      /\ \A i \in (m + 1)..(m + n) : u[i] = t[i - m] /\ i - m \in 1..n
  BY <1>1, <1>2, <1>3
<1>5. ASSUME NEW i \in 1..(m + n), NEW j \in 1..(m + n), i < j PROVE u[i] < u[j]
  <2>1. CASE j <= m
    <3>1. i \in 1..m /\ j \in 1..m BY <1>5, <2>1
    <3>2. s[i] < s[j] BY <1>1, <1>5, <3>1 DEF Rising
    <3> QED BY <1>4, <3>1, <3>2
  <2>2. CASE i <= m /\ m < j
    <3>1. i \in 1..m /\ j \in (m + 1)..(m + n) BY <2>2
    <3>2. u[i] = s[i] /\ u[j] = t[j - m] /\ j - m \in 1..n BY <1>4, <3>1
    <3> QED BY <1>1, <1>2, <3>1, <3>2
  <2>3. CASE m < i
    <3>1. i - m \in 1..n /\ j - m \in 1..n /\ i - m < j - m BY <1>4, <1>5, <2>3
    <3>2. t[i - m] < t[j - m] BY <1>2, <3>1 DEF Rising
    <3> QED BY <1>4, <1>5, <2>3, <3>2
  <2> QED BY <2>1, <2>2, <2>3
<1>6. \A j \in 1..n : u[m + j] = t[j] /\ m + j \in 1..(m + n)
  <2> TAKE j \in 1..n
  <2>1. m + j \in (m + 1)..(m + n) /\ (m + j) - m = j OBVIOUS
  <2> QED BY <1>4, <2>1
<1>7. \A k \in 1..(m + n) : (\E i \in 1..m : u[k] = s[i]) \/ (\E j \in 1..n : u[k] = t[j])
  <2> TAKE k \in 1..(m + n)
  <2>1. CASE k <= m
    <3>1. k \in 1..m BY <2>1
    <3> QED BY <1>4, <3>1
  <2>2. CASE ~(k <= m)
    <3>1. k \in (m + 1)..(m + n) BY <2>2
    <3> QED BY <1>4, <3>1
  <2> QED BY <2>1, <2>2
<1>8. Rising(u) BY <1>4, <1>5 DEF Rising
<1>9. \A k \in DOMAIN u : \/ \E i \in DOMAIN s : u[k] = s[i]
                         \/ \E j \in DOMAIN t : u[k] = t[j]
  BY <1>1, <1>2, <1>4, <1>7
<1>10. \A i \in DOMAIN s : \E k \in DOMAIN u : u[k] = s[i]
  <2> TAKE i \in DOMAIN s
  <2>1. i \in DOMAIN u /\ u[i] = s[i] BY <1>1, <1>4
  <2> QED BY <2>1
<1>11. \A j \in DOMAIN t : \E k \in DOMAIN u : u[k] = t[j]
  <2> TAKE j \in DOMAIN t
  <2>1. m + j \in DOMAIN u /\ u[m + j] = t[j] BY <1>2, <1>4, <1>6
  <2> QED BY <2>1
<1> QED BY <1>3, <1>8, <1>9, <1>10, <1>11

\* The lines of the window past the offset, or all of it where the file is shorter.
Shows(lines, offset, cutoff, q) ==
  /\ q \in Seq(Nat) /\ Rising(q)
  /\ \A n \in DOMAIN q : \E k \in DOMAIN lines :
       q[n] = lines[k].n /\ (k > offset \/ Len(lines) < offset) /\ Holds(cutoff, lines[k])
  /\ \A k \in DOMAIN lines : (k > offset \/ Len(lines) < offset) /\ Holds(cutoff, lines[k])
       => \E n \in DOMAIN q : q[n] = lines[k].n

\* What Printed returns of the lines of a file.
LEMMA PrintedTells ==
  ASSUME LogsInv, NEW d \in DOMAIN files, NEW offset \in Nat, NEW cutoff
  PROVE  Shows(files[d].lines, offset, cutoff, Printed(files[d].lines, offset, cutoff))
<1>1. PICK lines \in Seq(Lines) : lines = files[d].lines BY FileParts DEF LogsInv, FilesTypeOK
<1>2. PICK len \in Nat : len = Len(lines) /\ DOMAIN lines = 1..len BY <1>1
<1>3. PICK from \in Nat : from = (IF len < offset THEN 0 ELSE offset) /\ from <= len
  <2>1. (IF len < offset THEN 0 ELSE offset) \in Nat /\ (IF len < offset THEN 0 ELSE offset) <= len
    OBVIOUS
  <2> QED BY <2>1
<1>4. PICK kept : kept = {i \in DOMAIN lines : Holds(cutoff, lines[i])} OBVIOUS
<1>5. PICK value : value = [i \in DOMAIN lines |-> lines[i].n] OBVIOUS
<1>6. Printed(lines, offset, cutoff) = InOrder(from, len, kept, value)
  BY <1>2, <1>3, <1>4, <1>5 DEF Printed
<1>7. \A i \in 1..len : value[i] = lines[i].n /\ value[i] \in Nat
  <2> TAKE i \in 1..len
  <2>1. lines[i] \in Lines BY <1>1, <1>2
  <2> QED BY <1>2, <1>5, <2>1 DEF Lines
<1>8. \A i, j \in 1..len : i < j => value[i] < value[j]
  BY <1>1, <1>2, <1>7 DEF LogsInv, FilesInv
<1>9. PICK q : q = InOrder(from, len, kept, value) OBVIOUS
<1>10. KeptInOrder(from, len, kept, value, q)
  <2>1. \A i \in (from + 1)..len : i \in 1..len OBVIOUS
  <2>2. \A i \in (from + 1)..len : i \in kept => value[i] \in Nat BY <1>7, <2>1
  <2>3. \A i, j \in (from + 1)..len : i \in kept /\ j \in kept /\ i < j => value[i] < value[j]
    BY <1>8, <2>1
  <2> QED BY <1>3, <1>9, <2>2, <2>3, InOrderTells
<1>11. \A i \in 1..len : (i > offset \/ len < offset) <=> i \in (from + 1)..len BY <1>3
<1>12. ASSUME NEW n \in DOMAIN q
       PROVE  \E k \in 1..len : q[n] = lines[k].n /\ (k > offset \/ len < offset) /\ Holds(cutoff, lines[k])
  <2>1. PICK i \in (from + 1)..len : i \in kept /\ q[n] = value[i] BY <1>10 DEF KeptInOrder
  <2>2. i \in 1..len BY <1>3
  <2> QED BY <1>4, <1>7, <1>11, <2>1, <2>2
<1>13. ASSUME NEW k \in 1..len, k > offset \/ len < offset, Holds(cutoff, lines[k])
       PROVE  \E n \in DOMAIN q : q[n] = lines[k].n
  <2>1. k \in (from + 1)..len /\ k \in kept BY <1>2, <1>4, <1>11, <1>13
  <2> QED BY <1>7, <1>10, <2>1 DEF KeptInOrder
<1>14. q \in Seq(Nat) /\ Rising(q) BY <1>10 DEF KeptInOrder, Rising
<1>15. Shows(lines, offset, cutoff, q) BY <1>2, <1>12, <1>13, <1>14 DEF Shows
<1> QED BY <1>1, <1>6, <1>9, <1>15

\* The reader there is before the first logs.
LEMMA IdleParts == Idle \in Readers /\ Idle.at = "off" /\ Idle.shown = <<>> /\ Idle.exit = -1
<1>1. <<>> \in Seq(Nat) OBVIOUS
<1> QED BY <1>1 DEF Idle, Readers

\* There is a newest file where there are files.
LEMMA NewestThere ==
  ASSUME FilesTypeOK, DOMAIN files # {}
  PROVE  Newest \in DOMAIN files /\ \A e \in DOMAIN files : e <= Newest
<1>1. \E d \in DOMAIN files : \A e \in DOMAIN files : e <= d
  <2> DEFINE rest == {MaxDays - d : d \in DOMAIN files}
  <2>1. DOMAIN files \subseteq 1..MaxDays /\ MaxDays \in Nat BY LogsAssumption DEF FilesTypeOK
  <2>2. rest \in SUBSET Nat BY <2>1
  <2>3. rest # {} OBVIOUS
  <2> HIDE DEF rest
  <2>4. PICK i \in rest : \A j \in rest : i <= j BY <2>2, <2>3, LeastOf
  <2>5. PICK d \in DOMAIN files : i = MaxDays - d BY <2>4 DEF rest
  <2>6. \A e \in DOMAIN files : e <= d
    <3> TAKE e \in DOMAIN files
    <3>1. MaxDays - d <= MaxDays - e BY <2>4, <2>5 DEF rest
    <3>2. d \in Int /\ e \in Int BY <2>1
    <3> QED BY <2>1, <3>1, <3>2
  <2> QED BY <2>6
<1> QED BY <1>1 DEF Newest

\* The files are listed in the order of their days, all of them.
LEMMA ListedTells ==
  ASSUME FilesTypeOK
  PROVE  /\ Listed \in Seq(Nat) /\ Rising(Listed)
         /\ \A i \in DOMAIN Listed : Listed[i] \in DOMAIN files
         /\ \A d \in DOMAIN files : \E i \in DOMAIN Listed : Listed[i] = d
<1>1. PICK value : value = [d \in DOMAIN files |-> d] OBVIOUS
<1>2. PICK q : q = InOrder(0, MaxDays, DOMAIN files, value) OBVIOUS
<1>3. MaxDays \in Nat /\ 0 <= MaxDays /\ DOMAIN files \subseteq 1..MaxDays
  BY LogsAssumption DEF FilesTypeOK
<1>4. KeptInOrder(0, MaxDays, DOMAIN files, value, q)
  <2>1. \A i \in (0 + 1)..MaxDays : i \in DOMAIN files => value[i] \in Nat BY <1>1
  <2>2. \A i, j \in (0 + 1)..MaxDays : i \in DOMAIN files /\ j \in DOMAIN files /\ i < j
          => value[i] < value[j]
    BY <1>1
  <2> QED BY <1>2, <1>3, <2>1, <2>2, InOrderTells
<1>5. \A d \in DOMAIN files : \E i \in DOMAIN q : q[i] = d
  <2> TAKE d \in DOMAIN files
  <2>1. d \in (0 + 1)..MaxDays BY <1>3
  <2> QED BY <1>1, <1>4, <2>1 DEF KeptInOrder
<1>6. \A i \in DOMAIN q : q[i] \in DOMAIN files BY <1>1, <1>4 DEF KeptInOrder
<1>7. q \in Seq(Nat) /\ Rising(q) BY <1>4 DEF KeptInOrder, Rising
<1> QED BY <1>1, <1>2, <1>5, <1>6, <1>7 DEF Listed

ReaderStep ==
  /\ \/ \E follow \in BOOLEAN, cutoff \in Nat, listed \in BOOLEAN : StartsReading(follow, cutoff, listed)
     \/ ReadsFile \/ Polls \/ PollFails
  /\ UNCHANGED <<today, files, born, cut>>

\* The lines of a file past an offset, or all where it is shorter, are later than
\* those shown.
AllLater(d, offset) ==
  \A k \in DOMAIN files[d].lines : k > offset \/ Len(files[d].lines) < offset =>
    \A i \in DOMAIN reader.shown : reader.shown[i] < files[d].lines[k].n

\* What is shown when they are printed behind it.
GrownBy(d, offset, shown) ==
  /\ shown \in Seq(Nat) /\ Rising(shown)
  /\ \A i \in DOMAIN shown : Finished(shown[i])
  /\ \A i \in DOMAIN shown : \/ \E j \in DOMAIN reader.shown : shown[i] = reader.shown[j]
                             \/ born[shown[i]].day = d
  /\ \A j \in DOMAIN reader.shown : \E i \in DOMAIN shown : shown[i] = reader.shown[j]
  /\ \A k \in DOMAIN files[d].lines :
       (k > offset \/ Len(files[d].lines) < offset) /\ Holds(reader.cutoff, files[d].lines[k])
       => \E i \in DOMAIN shown : shown[i] = files[d].lines[k].n

\* Printing a file that comes after what is shown keeps the order.
LEMMA ShownGrows ==
  ASSUME LogsInv, NEW d \in DOMAIN files, NEW offset \in Nat, AllLater(d, offset)
  PROVE  GrownBy(d, offset, reader.shown \o Printed(files[d].lines, offset, reader.cutoff))
<1> DEFINE shown == reader.shown \o Printed(files[d].lines, offset, reader.cutoff)
<1>1. PICK lines \in Seq(Lines) : lines = files[d].lines BY FileParts DEF LogsInv, FilesTypeOK
<1>2. PICK q : q = Printed(lines, offset, reader.cutoff) OBVIOUS
<1>3. Shows(lines, offset, reader.cutoff, q) BY <1>1, <1>2, PrintedTells
<1>4. PICK old \in Seq(Nat) : old = reader.shown BY ReaderParts DEF LogsInv
<1>5. Rising(old) /\ \A i \in DOMAIN old : Finished(old[i]) BY <1>4 DEF LogsInv, ReaderInv
<1>6. q \in Seq(Nat) /\ Rising(q) BY <1>3 DEF Shows
<1>7. \A n \in DOMAIN q : \E k \in DOMAIN lines : q[n] = lines[k].n /\ (k > offset \/ Len(lines) < offset)
  BY <1>3 DEF Shows
<1>8. \A i \in DOMAIN old, n \in DOMAIN q : old[i] < q[n] BY <1>1, <1>4, <1>7 DEF AllLater
<1>9. \A n \in DOMAIN q : Finished(q[n]) /\ born[q[n]].day = d
  <2> TAKE n \in DOMAIN q
  <2>1. PICK k \in DOMAIN lines : q[n] = lines[k].n BY <1>7
  <2>2. Finished(lines[k].n) /\ born[lines[k].n].day = d BY <1>1 DEF LogsInv, FilesInv
  <2> QED BY <2>1, <2>2
<1>10. PICK new : new = old \o q OBVIOUS
<1>11. /\ new \in Seq(Nat) /\ Rising(new)
       /\ \A k \in DOMAIN new : (\E i \in DOMAIN old : new[k] = old[i]) \/ (\E j \in DOMAIN q : new[k] = q[j])
       /\ \A i \in DOMAIN old : \E k \in DOMAIN new : new[k] = old[i]
       /\ \A j \in DOMAIN q : \E k \in DOMAIN new : new[k] = q[j]
  BY <1>5, <1>6, <1>8, <1>10, RisingTogether
<1>12. shown = new BY <1>1, <1>2, <1>4, <1>10
<1>13. \A k \in DOMAIN lines : (k > offset \/ Len(lines) < offset) /\ Holds(reader.cutoff, lines[k])
         => \E n \in DOMAIN q : q[n] = lines[k].n
  BY <1>3 DEF Shows
<1>14. \A k \in DOMAIN new : Finished(new[k]) BY <1>5, <1>9, <1>11
<1>15. \A k \in DOMAIN new : (\E i \in DOMAIN old : new[k] = old[i]) \/ born[new[k]].day = d
  <2> TAKE k \in DOMAIN new
  <2>1. CASE \E i \in DOMAIN old : new[k] = old[i] BY <2>1
  <2>2. CASE \E j \in DOMAIN q : new[k] = q[j] BY <1>9, <2>2
  <2> QED BY <1>11, <2>1, <2>2
<1>16. \A k \in DOMAIN lines : (k > offset \/ Len(lines) < offset) /\ Holds(reader.cutoff, lines[k])
         => \E n \in DOMAIN new : new[n] = lines[k].n
  <2> SUFFICES ASSUME NEW k \in DOMAIN lines, (k > offset \/ Len(lines) < offset), Holds(reader.cutoff, lines[k])
               PROVE  \E n \in DOMAIN new : new[n] = lines[k].n
    OBVIOUS
  <2>1. PICK n \in DOMAIN q : q[n] = lines[k].n BY <1>13
  <2> QED BY <1>11, <2>1
<1> HIDE DEF shown
<1>17. GrownBy(d, offset, shown) BY <1>1, <1>4, <1>11, <1>12, <1>14, <1>15, <1>16 DEF GrownBy
<1> QED BY <1>17 DEF shown

\* A line of a later day is a later line.
LEMMA LaterDay ==
  ASSUME LogsInv, NEW m, NEW n, Finished(m), Finished(n), born[m].day < born[n].day
  PROVE  m < n
<1>1. PICK len \in Nat : DOMAIN born = 1..len BY DEF LogsInv, FilesTypeOK
<1>2. m \in 1..len /\ n \in 1..len BY <1>1 DEF Finished
<1>3. born[m].day \in Nat /\ born[n].day \in Nat
  <2>1. born \in Seq(Births) /\ m \in DOMAIN born /\ n \in DOMAIN born BY DEF LogsInv, FilesTypeOK, Finished
  <2>2. born[m] \in Births /\ born[n] \in Births BY <2>1
  <2> QED BY <2>2, BirthParts
<1>4. ~(n < m) BY <1>1, <1>2, <1>3 DEF LogsInv, FilesInv
<1>5. n # m BY <1>3
<1> QED BY <1>2, <1>4, <1>5

\* A reader that has just listed the files.
JustListed(cutoff) ==
  /\ reader' \in Readers /\ reader'.at = "reading" /\ reader'.exit = -1
  /\ reader'.queue = Listed /\ reader'.shown = <<>>
  /\ reader'.owed = Owed(cutoff) /\ reader'.cutoff = cutoff

\* One that found none.
NothingListed ==
  reader' \in Readers /\ reader'.at = "off" /\ reader'.exit = 2 /\ reader'.shown = <<>>
  /\ reader'.owed = {}

\* What a logs that starts finds.
LEMMA StartTells ==
  ASSUME FilesTypeOK, NEW follow \in BOOLEAN, NEW cutoff \in Nat, NEW listed \in BOOLEAN,
         StartsReading(follow, cutoff, listed)
  PROVE  IF ~listed \/ DOMAIN files = {} THEN NothingListed ELSE JustListed(cutoff)
<1>1. CASE ~listed \/ DOMAIN files = {}
  <2>1. reader' = [Idle EXCEPT !.exit = 2] BY <1>1 DEF StartsReading
  <2>2. <<>> \in Seq(Nat) OBVIOUS
  <2>3. NothingListed BY <2>1, <2>2 DEF NothingListed, Idle, Readers
  <2> QED BY <1>1, <2>3
<1>2. CASE ~(~listed \/ DOMAIN files = {})
  <2>1. PICK days \in Seq(Nat) : days = Listed
    <3>1. Listed \in Seq(Nat) BY ListedTells
    <3> QED BY <3>1
  <2>2. PICK owed \in SUBSET Nat : owed = Owed(cutoff)
    <3>1. \A d \in DOMAIN files : files[d].lines \in Seq(Lines) BY FileParts DEF FilesTypeOK
    <3>2. \A d \in DOMAIN files : \A i \in DOMAIN files[d].lines : files[d].lines[i].n \in Nat
      <4> TAKE d \in DOMAIN files
      <4>1. PICK lines \in Seq(Lines) : lines = files[d].lines BY <3>1
      <4>2. \A i \in DOMAIN lines : lines[i] \in Lines BY <4>1
      <4>3. \A line \in Lines : line.n \in Nat BY DEF Lines
      <4> QED BY <4>1, <4>2, <4>3
    <3>3. Owed(cutoff) \in SUBSET Nat BY <3>2 DEF Owed
    <3> QED BY <3>3
  <2>3. reader' = [at |-> "reading", follow |-> follow, cutoff |-> cutoff, queue |-> days,
                   offset |-> 0, shown |-> <<>>, owed |-> owed, exit |-> -1]
    BY <1>2, <2>1, <2>2 DEF StartsReading, Idle
  <2>4. <<>> \in Seq(Nat) OBVIOUS
  <2>5. JustListed(cutoff) BY <2>1, <2>2, <2>3, <2>4 DEF JustListed, Readers
  <2> QED BY <1>2, <2>5
<1> QED BY <1>1, <1>2

\* The files are listed: nothing is shown yet.
LEMMA StartedKeeps ==
  ASSUME LogsInv, NEW follow \in BOOLEAN, NEW cutoff \in Nat, NEW listed \in BOOLEAN,
         StartsReading(follow, cutoff, listed)
  PROVE  reader' \in Readers /\ ReaderInv'
<1>1. FilesTypeOK BY DEF LogsInv
<1>2. IF ~listed \/ DOMAIN files = {} THEN NothingListed ELSE JustListed(cutoff) BY <1>1, StartTells
<1>3. CASE ~listed \/ DOMAIN files = {}
  BY <1>2, <1>3 DEF NothingListed, ReaderInv, Rising
<1>4. CASE ~(~listed \/ DOMAIN files = {})
  <2>1. /\ reader' \in Readers /\ reader'.at = "reading"
        /\ reader'.queue = Listed /\ reader'.shown = <<>>
    BY <1>2, <1>4 DEF JustListed
  <2>2. PICK days : days = Listed OBVIOUS
  <2>3. /\ days \in Seq(Nat) /\ Rising(days)
        /\ \A i \in DOMAIN days : days[i] \in DOMAIN files
        /\ \A d \in DOMAIN files : \E i \in DOMAIN days : days[i] = d
    BY <1>1, <2>2, ListedTells
  <2>4. Newest \in DOMAIN files /\ \A e \in DOMAIN files : e <= Newest BY <1>1, <1>4, NewestThere
  <2>5. days # <<>>
    <3>1. PICK i \in DOMAIN days : days[i] = Newest BY <2>3, <2>4
    <3> QED BY <3>1
  <2>6. \A i \in DOMAIN days : days[i] <= Newest BY <2>3, <2>4
  <2>7. files' = files BY DEF StartsReading
  <2>8. AtReading' BY <2>1, <2>2, <2>3, <2>4, <2>5, <2>6, <2>7 DEF AtReading, Rising
  <2> QED BY <2>1, <2>8 DEF ReaderInv, Rising
<1> QED BY <1>3, <1>4

\* What remains of days that rise, read one after the other.
LEMMA TailRises ==
  ASSUME NEW days \in Seq(Nat), Rising(days), Len(days) > 1
  PROVE  /\ Tail(days) \in Seq(Nat) /\ Tail(days) # <<>> /\ Rising(Tail(days)) /\ days[1] < Tail(days)[1]
         /\ \A i \in DOMAIN Tail(days) : \E j \in DOMAIN days : Tail(days)[i] = days[j]
         /\ \A j \in DOMAIN days : j = 1 \/ \E i \in DOMAIN Tail(days) : Tail(days)[i] = days[j]
<1>1. PICK len \in Nat : len = Len(days) /\ DOMAIN days = 1..len OBVIOUS
<1>2. PICK t \in Seq(Nat) : t = Tail(days)
  <2>1. Tail(days) \in Seq(Nat) OBVIOUS
  <2> QED BY <2>1
<1>3. len > 1 /\ DOMAIN t = 1..(len - 1) /\ \A i \in 1..(len - 1) : t[i] = days[i + 1] /\ i + 1 \in 1..len
  BY <1>1, <1>2
<1>4. \A i, j \in 1..len : i < j => days[i] < days[j] BY <1>1 DEF Rising
<1>5. ASSUME NEW i \in 1..(len - 1), NEW j \in 1..(len - 1), i < j PROVE t[i] < t[j]
  <2>1. i + 1 < j + 1 /\ i + 1 \in 1..len /\ j + 1 \in 1..len BY <1>3, <1>5
  <2> QED BY <1>3, <1>4, <2>1
<1>6. t # <<>> /\ days[1] < t[1] BY <1>1, <1>3, <1>4
<1>7. \A i \in 1..(len - 1) : \E j \in 1..len : t[i] = days[j] BY <1>3
<1>8. \A j \in 1..len : j = 1 \/ \E i \in 1..(len - 1) : t[i] = days[j]
  <2> TAKE j \in 1..len
  <2>1. CASE j # 1
    <3>1. j - 1 \in 1..(len - 1) /\ (j - 1) + 1 = j BY <2>1
    <3>2. t[j - 1] = days[j] BY <1>3, <3>1
    <3> QED BY <3>1, <3>2
  <2> QED BY <2>1
<1>9. Rising(t) BY <1>3, <1>5 DEF Rising
<1>10. \A i \in DOMAIN t : \E j \in DOMAIN days : t[i] = days[j] BY <1>1, <1>3, <1>7
<1>11. \A j \in DOMAIN days : j = 1 \/ \E i \in DOMAIN t : t[i] = days[j] BY <1>1, <1>3, <1>8
<1> QED BY <1>2, <1>6, <1>9, <1>10, <1>11

\* A reader that has read the next of the listed files.
HasRead(day) ==
  /\ reader.at = "reading" /\ Len(reader.queue) > 0 /\ day = reader.queue[1]
  /\ reader'.cutoff = reader.cutoff /\ reader'.owed = reader.owed
  /\ day \notin DOMAIN files => reader'.at = "off" /\ reader'.exit = 1 /\ reader'.shown = reader.shown
  /\ day \in DOMAIN files => GrownBy(day, 0, reader'.shown)
  /\ day \in DOMAIN files /\ Len(reader.queue) > 1 =>
       reader'.at = "reading" /\ reader'.queue = Tail(reader.queue) /\ reader'.exit = reader.exit
  /\ day \in DOMAIN files /\ Len(reader.queue) = 1 =>
       /\ reader'.queue = reader.queue /\ reader'.offset = Len(files[day].lines)
       /\ reader'.at = IF reader.follow THEN "polling" ELSE "off"
       /\ reader'.exit = IF reader.follow THEN reader.exit ELSE 0
  /\ UNCHANGED <<today, files, born, cut>>

\* What the next of the listed files makes of the reader.
LEMMA ReadTells ==
  ASSUME LogsInv, ReadsFile
  PROVE  reader' \in Readers /\ \E day \in Nat : HasRead(day)
<1>1. AtReading /\ reader.at = "reading" BY DEF LogsInv, ReaderInv, ReadsFile
<1>2. PICK days \in Seq(Nat) : days = reader.queue BY ReaderParts DEF LogsInv
<1>3. PICK len \in Nat : len = Len(days) /\ DOMAIN days = 1..len BY <1>2
<1>4. len > 0 /\ \A i \in DOMAIN reader.shown : born[reader.shown[i]].day < days[1]
  BY <1>1, <1>2, <1>3 DEF AtReading
<1>5. PICK day \in Nat : day = days[1] /\ day = Head(reader.queue) BY <1>2, <1>3, <1>4
<1>6. UNCHANGED <<today, files, born, cut>> BY DEF ReadsFile
<1>7. /\ reader \in Readers /\ reader.shown \in Seq(Nat) /\ reader.offset \in Nat /\ reader.exit \in {-1, 0, 1, 2}
      /\ \A i \in DOMAIN reader.shown : Finished(reader.shown[i])
  BY ReaderParts DEF LogsInv, ReaderInv
<1>8. CASE day \notin DOMAIN files
  <2>1. reader' = [reader EXCEPT !.at = "off", !.exit = 1] BY <1>5, <1>8 DEF ReadsFile
  <2>2. /\ reader' \in Readers /\ reader'.at = "off" /\ reader'.exit = 1 /\ reader'.shown = reader.shown
        /\ reader'.cutoff = reader.cutoff /\ reader'.owed = reader.owed
    BY <1>7, <2>1 DEF Readers
  <2>3. HasRead(day) BY <1>1, <1>2, <1>3, <1>4, <1>5, <1>6, <1>8, <2>2 DEF HasRead
  <2> QED BY <2>2, <2>3
<1>9. CASE day \in DOMAIN files
  <2>1. PICK lines \in Seq(Lines) : lines = files[day].lines BY <1>9, FileParts DEF LogsInv, FilesTypeOK
  <2>2. PICK shown : shown = reader.shown \o Printed(lines, 0, reader.cutoff) OBVIOUS
  <2>3. ASSUME NEW k \in DOMAIN lines, NEW i \in DOMAIN reader.shown
        PROVE  reader.shown[i] < lines[k].n
    <3>1. Finished(lines[k].n) /\ born[lines[k].n].day = day
      BY <1>9, <2>1 DEF LogsInv, FilesInv
    <3>2. Finished(reader.shown[i]) /\ born[reader.shown[i]].day < day BY <1>4, <1>5, <1>7
    <3> QED BY <3>1, <3>2, LaterDay
  <2>4. GrownBy(day, 0, shown)
    <3>1. AllLater(day, 0) BY <2>1, <2>3 DEF AllLater
    <3>2. 0 \in Nat OBVIOUS
    <3> QED BY <1>9, <2>1, <2>2, <3>1, <3>2, ShownGrows
  <2>5. PICK queue \in Seq(Nat) : queue = IF len = 1 THEN days ELSE Tail(days)
    <3>1. len # 1 => Tail(days) \in Seq(Nat) BY <1>3, <1>4
    <3> QED BY <3>1
  <2>6. PICK offset \in Nat : offset = IF len = 1 THEN Len(lines) ELSE reader.offset
    BY <1>7, <2>1
  <2>7. PICK at \in {"off", "reading", "polling"} :
          at = IF len # 1 THEN "reading" ELSE IF reader.follow THEN "polling" ELSE "off"
    OBVIOUS
  <2>8. PICK exit \in {-1, 0, 1, 2} : exit = IF len = 1 /\ ~reader.follow THEN 0 ELSE reader.exit
    BY <1>7
  <2>9. reader' = [reader EXCEPT !.shown = shown, !.queue = queue, !.offset = offset, !.at = at, !.exit = exit]
    BY <1>1, <1>2, <1>3, <1>5, <1>9, <2>1, <2>2, <2>5, <2>6, <2>7, <2>8 DEF ReadsFile
  <2>10. /\ reader' \in Readers /\ reader'.shown = shown /\ reader'.queue = queue
         /\ reader'.offset = offset /\ reader'.at = at /\ reader'.exit = exit
         /\ reader'.cutoff = reader.cutoff /\ reader'.owed = reader.owed
    <3>1. PICK r \in Readers : r = reader BY <1>7
    <3>2. PICK next : next = reader' OBVIOUS
    <3>3. PICK show \in Seq(Nat) : show = shown BY <2>4 DEF GrownBy
    <3>4. next = [r EXCEPT !.shown = show, !.queue = queue, !.offset = offset, !.at = at, !.exit = exit]
      BY <2>9, <3>1, <3>2, <3>3
    <3>5. /\ next \in Readers /\ next.shown = show /\ next.queue = queue /\ next.offset = offset /\ next.at = at
          /\ next.exit = exit /\ next.cutoff = r.cutoff /\ next.owed = r.owed
      BY <3>4 DEF Readers
    <3> QED BY <3>1, <3>2, <3>3, <3>5
  <2>11. CASE len = 1
    <3>1. Len(reader.queue) = 1 /\ ~(Len(reader.queue) > 1) BY <1>2, <1>3, <2>11
    <3>2. queue = days /\ offset = Len(lines) BY <2>5, <2>6, <2>11
    <3>3. at = (IF reader.follow THEN "polling" ELSE "off")
          /\ exit = (IF reader.follow THEN reader.exit ELSE 0)
      BY <2>7, <2>8, <2>11
    <3> QED BY <1>1, <1>2, <1>5, <1>6, <1>9, <2>1, <2>4, <2>10, <3>1, <3>2, <3>3 DEF HasRead
  <2>12. CASE len # 1
    <3>1. Len(reader.queue) # 1 /\ Len(reader.queue) > 0 BY <1>2, <1>3, <1>4, <2>12
    <3> QED BY <1>1, <1>2, <1>5, <1>6, <1>9, <2>4, <2>5, <2>7, <2>8, <2>10, <2>12, <3>1 DEF HasRead
  <2> QED BY <2>10, <2>11, <2>12
<1> QED BY <1>8, <1>9

\* The next of the listed files is printed.
LEMMA FileReadKeeps ==
  ASSUME LogsInv, ReadsFile
  PROVE  reader' \in Readers /\ ReaderInv'
<1>1. PICK day \in Nat : HasRead(day) BY ReadTells
<1>2. AtReading BY <1>1 DEF LogsInv, ReaderInv, HasRead
<1>3. PICK days \in Seq(Nat) : days = reader.queue BY ReaderParts DEF LogsInv
<1>4. PICK len \in Nat : len = Len(days) /\ DOMAIN days = 1..len BY <1>3
<1>5. /\ len > 0 /\ Rising(days) /\ day = days[1]
      /\ \A i \in DOMAIN reader.shown : born[reader.shown[i]].day < day
      /\ \E e \in DOMAIN files : \A i \in DOMAIN days : days[i] <= e
      /\ UNCHANGED <<today, files, born, cut>>
  BY <1>1, <1>2, <1>3, <1>4 DEF AtReading, HasRead
<1>6. reader' \in Readers BY ReadTells
<1>7. PICK shown : shown = reader'.shown OBVIOUS
<1>8. \A n : Finished(n) <=> Finished(n)' BY <1>5 DEF Finished, Writing
<1>9. CASE day \notin DOMAIN files
  <2>1. reader'.at = "off" /\ reader'.shown = reader.shown BY <1>1, <1>9 DEF HasRead
  <2> QED BY <1>6, <1>8, <2>1 DEF LogsInv, ReaderInv
<1>10. CASE day \in DOMAIN files
  <2>1. PICK lines \in Seq(Lines) : lines = files[day].lines BY <1>10, FileParts DEF LogsInv, FilesTypeOK
  <2>2. /\ Rising(shown) /\ \A i \in DOMAIN shown : Finished(shown[i])
        /\ \A i \in DOMAIN shown : \/ \E j \in DOMAIN reader.shown : shown[i] = reader.shown[j]
                                   \/ born[shown[i]].day = day
    BY <1>1, <1>7, <1>10 DEF HasRead, GrownBy
  <2>3. \A i \in DOMAIN shown : born[shown[i]].day <= day /\ born[shown[i]].day \in Nat
    <3> TAKE i \in DOMAIN shown
    <3>1. born[shown[i]].day \in Nat
      <4>1. born \in Seq(Births) /\ shown[i] \in DOMAIN born BY <2>2 DEF LogsInv, FilesTypeOK, Finished
      <4>2. born[shown[i]] \in Births BY <4>1
      <4> QED BY <4>2, BirthParts
    <3>2. CASE born[shown[i]].day = day BY <3>1, <3>2
    <3>3. ASSUME NEW j \in DOMAIN reader.shown, shown[i] = reader.shown[j] PROVE born[shown[i]].day <= day
      BY <1>5, <3>1, <3>3
    <3> QED BY <2>2, <3>1, <3>2, <3>3
  <2>4. CASE len > 1
    <3>1. PICK queue : queue = reader'.queue OBVIOUS
    <3>2. reader'.at = "reading" /\ queue = Tail(days)
      BY <1>1, <1>3, <1>4, <1>10, <2>4, <3>1 DEF HasRead
    <3>3. /\ queue \in Seq(Nat) /\ queue # <<>> /\ Rising(queue) /\ days[1] < queue[1]
          /\ \A i \in DOMAIN queue : \E j \in DOMAIN days : queue[i] = days[j]
      BY <1>4, <1>5, <2>4, <3>2, TailRises
    <3>4. \A i \in DOMAIN shown : born[shown[i]].day < queue[1]
      <4>1. queue[1] \in Nat BY <3>3
      <4> QED BY <1>5, <2>3, <3>3, <4>1
    <3>5. \E e \in DOMAIN files : \A i \in DOMAIN queue : queue[i] <= e BY <1>5, <3>3
    <3>6. AtReading' BY <1>5, <1>7, <3>1, <3>3, <3>4, <3>5 DEF AtReading, Rising
    <3> QED BY <1>6, <1>7, <1>8, <2>2, <3>2, <3>6 DEF ReaderInv, Rising
  <2>5. CASE ~(len > 1)
    <3>0. Len(days) = 1 BY <1>4, <1>5, <2>5
    <3>1. /\ reader'.queue = days /\ Len(days) = 1 /\ reader'.offset = Len(lines)
          /\ reader'.at = "polling" \/ reader'.at = "off"
      BY <1>1, <1>3, <1>10, <2>1, <3>0 DEF HasRead
    <3>2. \A k \in DOMAIN lines : ~(k > Len(lines)) /\ ~(Len(lines) < Len(lines)) BY <2>1
    <3>3. \E e \in DOMAIN files : day <= e
      <4>1. PICK e \in DOMAIN files : \A i \in DOMAIN days : days[i] <= e BY <1>5
      <4>2. 1 \in DOMAIN days BY <1>4, <1>5
      <4> QED BY <1>5, <4>1, <4>2
    <3>4. AtPolling' BY <1>5, <1>7, <1>10, <2>1, <2>3, <3>1, <3>2, <3>3 DEF AtPolling
    <3> QED BY <1>6, <1>7, <1>8, <2>2, <3>1, <3>4 DEF ReaderInv, Rising
  <2> QED BY <2>4, <2>5
<1> QED BY <1>9, <1>10

\* Where logs -f goes on reading the newest file: where it stood, or at its start.
From(newest) == IF reader.queue[1] = newest THEN reader.offset ELSE 0

\* A reader that has looked again.
HasPolled(newest) ==
  /\ reader.at = "polling" /\ Len(reader.queue) = 1
  /\ newest \in DOMAIN files /\ (\A e \in DOMAIN files : e <= newest)
  /\ GrownBy(newest, From(newest), reader'.shown)
  /\ reader'.at = "polling" /\ reader'.queue = <<newest>> /\ reader'.offset = Len(files[newest].lines)
  /\ reader'.cutoff = reader.cutoff /\ reader'.owed = reader.owed /\ reader'.exit = reader.exit
  /\ UNCHANGED <<today, files, born, cut>>

\* What a look at the newest file makes of logs -f.
LEMMA PollTells ==
  ASSUME LogsInv, Polls
  PROVE  reader' \in Readers /\ \E newest \in Nat : HasPolled(newest)
<1>1. AtPolling /\ reader.at = "polling" /\ DOMAIN files # {} BY DEF LogsInv, ReaderInv, Polls
<1>2. PICK days \in Seq(Nat) : days = reader.queue BY ReaderParts DEF LogsInv
<1>3. PICK day \in Nat : Len(days) = 1 /\ day = days[1]
  <2>1. Len(days) = 1 BY <1>1, <1>2 DEF AtPolling
  <2>2. 1 \in DOMAIN days BY <2>1
  <2>3. \A i \in DOMAIN days : days[i] \in Nat OBVIOUS
  <2>4. days[1] \in Nat BY <2>2, <2>3
  <2> QED BY <2>1, <2>4
<1>4. PICK newest \in DOMAIN files : newest = Newest /\ (\A e \in DOMAIN files : e <= newest) /\ newest \in Nat
  <2>1. FilesTypeOK BY DEF LogsInv
  <2> QED BY <1>1, <2>1, NewestThere DEF FilesTypeOK
<1>5. PICK lines \in Seq(Lines) : lines = files[newest].lines BY <1>4, FileParts DEF LogsInv, FilesTypeOK
<1>6. /\ reader \in Readers /\ reader.shown \in Seq(Nat) /\ reader.offset \in Nat /\ reader.exit \in {-1, 0, 1, 2}
      /\ \A i \in DOMAIN reader.shown : Finished(reader.shown[i])
  BY ReaderParts DEF LogsInv, ReaderInv
<1>7. /\ \A i \in DOMAIN reader.shown : born[reader.shown[i]].day <= day
      /\ \E e \in DOMAIN files : day <= e
      /\ day \in DOMAIN files =>
           \A k \in DOMAIN files[day].lines : k > reader.offset \/ Len(files[day].lines) < reader.offset =>
             \A i \in DOMAIN reader.shown : reader.shown[i] < files[day].lines[k].n
  BY <1>1, <1>2, <1>3 DEF AtPolling
<1>8. day <= newest
  <2>1. PICK e \in DOMAIN files : day <= e BY <1>7
  <2>2. e \in Nat BY DEF LogsInv, FilesTypeOK
  <2> QED BY <1>4, <2>1, <2>2
<1>9. days = <<newest>> <=> day = newest
  <2>1. days = <<days[1]>> BY <1>3
  <2> QED BY <1>3, <2>1
<1>10. PICK offset \in Nat : offset = (IF days = <<newest>> THEN reader.offset ELSE 0) /\ offset = From(newest)
  BY <1>2, <1>3, <1>6, <1>9 DEF From
<1>11. \A n : Finished(n) => n \in DOMAIN born /\ born[n].day \in Nat
  <2> SUFFICES ASSUME NEW n, Finished(n) PROVE n \in DOMAIN born /\ born[n].day \in Nat OBVIOUS
  <2>1. born \in Seq(Births) /\ n \in DOMAIN born BY DEF LogsInv, FilesTypeOK, Finished
  <2>2. born[n] \in Births BY <2>1
  <2> QED BY <2>1, <2>2, BirthParts
<1>12. ASSUME NEW k \in DOMAIN lines, k > offset \/ Len(lines) < offset, NEW i \in DOMAIN reader.shown
       PROVE  reader.shown[i] < lines[k].n
  <2>1. CASE day = newest
    BY <1>4, <1>5, <1>7, <1>9, <1>10, <1>12, <2>1
  <2>2. CASE day # newest
    <3>1. Finished(lines[k].n) /\ born[lines[k].n].day = newest
      BY <1>4, <1>5 DEF LogsInv, FilesInv
    <3>2. Finished(reader.shown[i]) /\ born[reader.shown[i]].day < newest
      BY <1>4, <1>6, <1>7, <1>8, <1>11, <2>2
    <3> QED BY <3>1, <3>2, LaterDay
  <2> QED BY <2>1, <2>2
<1>13. PICK shown : shown = reader.shown \o Printed(lines, offset, reader.cutoff) OBVIOUS
<1>14. GrownBy(newest, offset, shown)
  <2>1. AllLater(newest, offset) BY <1>5, <1>12 DEF AllLater
  <2> QED BY <1>5, <1>13, <2>1, ShownGrows
<1>15. PICK queue \in Seq(Nat) : queue = <<newest>>
  <2>1. <<newest>> \in Seq(Nat) BY <1>4
  <2> QED BY <2>1
<1>16. PICK len \in Nat : len = Len(lines) BY <1>5
<1>17. reader' = [reader EXCEPT !.shown = shown, !.queue = queue, !.offset = len,
                                !.at = reader.at, !.exit = reader.exit]
  <2>1. reader' = [reader EXCEPT !.queue = queue, !.offset = len, !.shown = shown]
    BY <1>2, <1>4, <1>5, <1>10, <1>13, <1>15, <1>16 DEF Polls
  <2> QED BY <1>6, <2>1 DEF Readers
<1>18. /\ reader' \in Readers /\ reader'.shown = shown /\ reader'.queue = queue
       /\ reader'.offset = len /\ reader'.at = "polling"
       /\ reader'.cutoff = reader.cutoff /\ reader'.owed = reader.owed /\ reader'.exit = reader.exit
  <2>1. PICK r \in Readers : r = reader BY <1>6
  <2>2. PICK next : next = reader' OBVIOUS
  <2>3. PICK show \in Seq(Nat) : show = shown BY <1>14 DEF GrownBy
  <2>4. PICK at \in {"off", "reading", "polling"}, exit \in {-1, 0, 1, 2} : at = r.at /\ exit = r.exit
    BY ReaderParts
  <2>5. next = [r EXCEPT !.shown = show, !.queue = queue, !.offset = len, !.at = at, !.exit = exit]
    BY <1>17, <2>1, <2>2, <2>3, <2>4
  <2>6. /\ next \in Readers /\ next.shown = show /\ next.queue = queue /\ next.offset = len /\ next.at = at
        /\ next.cutoff = r.cutoff /\ next.owed = r.owed /\ next.exit = exit
    BY <2>5 DEF Readers
  <2> QED BY <1>1, <2>1, <2>2, <2>3, <2>4, <2>6
<1>19. UNCHANGED <<today, files, born, cut>> BY DEF Polls
<1>20. HasPolled(newest)
  BY <1>1, <1>2, <1>3, <1>4, <1>5, <1>10, <1>14, <1>15, <1>16, <1>18, <1>19 DEF HasPolled
<1> QED BY <1>4, <1>18, <1>20

\* logs -f looks again at the newest file.
LEMMA PolledKeeps ==
  ASSUME LogsInv, Polls
  PROVE  reader' \in Readers /\ ReaderInv'
<1>1. PICK newest \in Nat : HasPolled(newest) BY PollTells
<1>2. /\ AtPolling /\ newest \in DOMAIN files /\ (\A e \in DOMAIN files : e <= newest)
      /\ UNCHANGED <<today, files, born, cut>>
  BY <1>1 DEF LogsInv, ReaderInv, HasPolled
<1>3. reader' \in Readers BY PollTells
<1>4. PICK shown : shown = reader'.shown OBVIOUS
<1>5. /\ Rising(shown) /\ \A i \in DOMAIN shown : Finished(shown[i])
      /\ \A i \in DOMAIN shown : \/ \E j \in DOMAIN reader.shown : shown[i] = reader.shown[j]
                                 \/ born[shown[i]].day = newest
  BY <1>1, <1>4 DEF HasPolled, GrownBy
<1>6. PICK day \in Nat : day = reader.queue[1] /\ day <= newest
  <2>1. PICK days \in Seq(Nat) : days = reader.queue BY ReaderParts DEF LogsInv
  <2>2. 1 \in DOMAIN days BY <1>2, <2>1 DEF AtPolling
  <2>3. days[1] \in Nat BY <2>1, <2>2
  <2>4. PICK e \in DOMAIN files : days[1] <= e BY <1>2, <2>1 DEF AtPolling
  <2>5. e \in Nat BY DEF LogsInv, FilesTypeOK
  <2> QED BY <1>2, <2>1, <2>3, <2>4, <2>5
<1>7. \A i \in DOMAIN shown : born[shown[i]].day <= newest
  <2> TAKE i \in DOMAIN shown
  <2>1. born[shown[i]].day \in Nat
    <3>1. born \in Seq(Births) /\ shown[i] \in DOMAIN born BY <1>5 DEF LogsInv, FilesTypeOK, Finished
    <3>2. born[shown[i]] \in Births BY <3>1
    <3> QED BY <3>2, BirthParts
  <2>2. CASE born[shown[i]].day = newest BY <2>1, <2>2
  <2>3. ASSUME NEW j \in DOMAIN reader.shown, shown[i] = reader.shown[j] PROVE born[shown[i]].day <= newest
    <3>1. born[shown[i]].day <= day BY <1>2, <1>6, <2>3 DEF AtPolling
    <3> QED BY <1>6, <2>1, <3>1
  <2> QED BY <1>5, <2>2, <2>3
<1>8. PICK lines \in Seq(Lines) : lines = files[newest].lines BY <1>2, FileParts DEF LogsInv, FilesTypeOK
<1>9. \A k \in DOMAIN lines : ~(k > Len(lines)) /\ ~(Len(lines) < Len(lines)) BY <1>8
<1>10. /\ reader'.at = "polling" /\ reader'.queue = <<newest>> /\ reader'.offset = Len(lines)
       /\ newest <= newest
  BY <1>1, <1>8 DEF HasPolled
<1>11. AtPolling' BY <1>2, <1>4, <1>7, <1>8, <1>9, <1>10 DEF AtPolling
<1>12. \A i \in DOMAIN shown : Finished(shown[i])' BY <1>2, <1>5 DEF Finished, Writing
<1> QED BY <1>3, <1>4, <1>5, <1>10, <1>11, <1>12 DEF ReaderInv, Rising

\* Every step of the reader keeps what it relies on.
LEMMA ReaderStepKeeps ==
  ASSUME LogsInv, ReaderStep
  PROVE  LogsInv'
<1>1. UNCHANGED <<today, files, born, cut>> BY DEF ReaderStep
<1>2. FileStep BY <1>1 DEF FileStep
<1>3. FilesTypeOK' /\ FilesInv' BY <1>2, FileStepKeeps DEF LogsInv
<1>4. reader' \in Readers /\ ReaderInv'
  <2>1. ASSUME NEW follow \in BOOLEAN, NEW cutoff \in Nat, NEW listed \in BOOLEAN,
               StartsReading(follow, cutoff, listed)
        PROVE  reader' \in Readers /\ ReaderInv'
    BY <2>1, StartedKeeps
  <2>2. CASE ReadsFile BY <2>2, FileReadKeeps
  <2>3. CASE Polls BY <2>3, PolledKeeps
  <2>4. CASE PollFails
    <3>1. reader' = [reader EXCEPT !.at = "off", !.exit = 2] BY <2>4 DEF PollFails
    <3>2. reader' \in Readers /\ reader'.at = "off" /\ reader'.shown = reader.shown
      BY <3>1 DEF LogsInv, Readers
    <3>3. \A n : Finished(n) <=> Finished(n)' BY <1>1 DEF Finished, Writing
    <3> QED BY <3>2, <3>3 DEF LogsInv, ReaderInv
  <2> QED BY <2>1, <2>2, <2>3, <2>4 DEF ReaderStep
<1> QED BY <1>3, <1>4 DEF LogsInv

\* A step of the files or of the reader.
LogsStep == (FileStep /\ reader' = reader) \/ ReaderStep

\* A step of the writer or of the reader.
LEMMA LogsStepKeeps ==
  ASSUME LogsInv, LogsStep
  PROVE  LogsInv'
<1>1. CASE FileStep /\ reader' = reader
  <2>1. FilesTypeOK' /\ FilesInv' /\ Onward BY <1>1, FileStepKeeps DEF LogsInv
  <2>2. ReaderInv' BY <1>1, <2>1, ReaderStands
  <2> QED BY <1>1, <2>1, <2>2 DEF LogsInv
<1>2. CASE ReaderStep BY <1>2, ReaderStepKeeps
<1> QED BY <1>1, <1>2 DEF LogsStep

\* Before the first line.
LEMMA LogsInitially == LogsInit => LogsInv
<1> SUFFICES ASSUME LogsInit PROVE LogsInv OBVIOUS
<1>1. reader = Idle /\ today = 1 /\ files = <<>> /\ born = <<>> /\ cut = {} BY DEF LogsInit
<1>2. reader \in Readers /\ reader.at = "off" /\ reader.shown = <<>> BY <1>1, IdleParts
<1>3. FilesTypeOK BY <1>1, LogsAssumption DEF FilesTypeOK
<1>4. FilesInv BY <1>1 DEF FilesInv
<1> QED BY <1>2, <1>3, <1>4 DEF LogsInv, ReaderInv, Rising
-----------------------------------------------------------------------------
(* Nothing is left out *)

\* Nothing of the file of a day was cut off.
Uncut(d) == \A k \in cut : born[k].day # d

\* What was written whole is in its file, placed in time: until the file goes
\* or is cut short.
WholeLines(d) ==
  \A n \in DOMAIN born : born[n].day = d /\ born[n].whole /\ Uncut(d) =>
    \E i \in DOMAIN files[d].lines : files[d].lines[i].n = n /\ files[d].lines[i].stamped

\* A line is among those shown.
Seen(n) == \E i \in DOMAIN reader.shown : reader.shown[i] = n

\* No line of a day is left out before one that is shown.
Gapless ==
  \A n, m \in DOMAIN born :
    /\ Seen(n) /\ m < n /\ born[m].day = born[n].day /\ Uncut(born[n].day)
    /\ born[m].whole /\ m >= reader.cutoff
    => Seen(m)

\* A line is in the file of a day, as long as there is one.
StillIn(d, n) ==
  d \in DOMAIN files =>
    \E i \in DOMAIN files[d].lines : files[d].lines[i].n = n /\ Holds(reader.cutoff, files[d].lines[i])

\* What is owed is shown, was cut off, or is in a file still to be read.
Ahead == \A n \in reader.owed : \/ Seen(n) \/ n \in cut
                                \/ \E i \in DOMAIN reader.queue : StillIn(reader.queue[i], n)

\* logs -f has shown what the file it read last holds up to where it stands.
Caught ==
  LET day == reader.queue[1] IN
  day \in DOMAIN files /\ Uncut(day) =>
    LET lines == files[day].lines IN
    /\ reader.offset <= Len(lines)
    /\ \A k \in DOMAIN lines : k <= reader.offset /\ Holds(reader.cutoff, lines[k]) => Seen(lines[k].n)

\* There is a file for a day with lines, and it holds what was written whole.
Stored ==
  /\ \A n \in DOMAIN born : born[n].day = today => today \in DOMAIN files
  /\ \A d \in DOMAIN files : WholeLines(d)

\* What becomes of the lines of a file in a step: it is new and the newest, they
\* are the same, there is one more, or they were cut off.
LinesGoOn(d) ==
  \/ d \notin DOMAIN files /\ \A e \in DOMAIN files : e < d
  \/ d \in DOMAIN files /\ files'[d].lines = files[d].lines
  \/ d \in DOMAIN files /\ \E line \in Lines : files'[d].lines = Append(files[d].lines, line)
  \/ /\ d \in DOMAIN files /\ files[d].lines # <<>>
     /\ \A i \in DOMAIN files[d].lines : files[d].lines[i].n \in cut'

\* What a step of the writer leaves of what is written whole.
Further ==
  /\ cut \subseteq cut'
  /\ \A d \in DOMAIN files' : LinesGoOn(d)
  /\ \A m \in DOMAIN born' : \/ m \in DOMAIN born /\ (born'[m].whole => born[m].whole)
                             \/ \A n : Finished(n) => n < m

\* A line that begins leaves the lines there are.
LEMMA PartTells ==
  ASSUME FilesTypeOK, FilesInv, WritesPart
  PROVE  /\ today' = today /\ cut' = cut /\ ~Writing
         /\ today \in DOMAIN files' /\ DOMAIN files' \subseteq DOMAIN files \cup {today}
         /\ \A d \in DOMAIN files' : IF d \in DOMAIN files THEN files'[d].lines = files[d].lines
                                     ELSE d = today /\ files'[d].lines = <<>>
         /\ \E len \in Nat : /\ DOMAIN born = 1..len /\ DOMAIN born' = 1..(len + 1)
                             /\ \A n \in 1..len : born'[n] = born[n]
                             /\ born'[len + 1].day = today /\ ~born'[len + 1].whole
<1>1. PICK r : r = Rolled OBVIOUS
<1>2. /\ today \in DOMAIN r /\ DOMAIN r \subseteq DOMAIN files \cup {today}
      /\ \A d \in DOMAIN r : r[d] \in Files
      /\ \A d \in DOMAIN r : d \in DOMAIN files => r[d] = files[d]
      /\ \A d \in DOMAIN r : d \notin DOMAIN files => r[d] = EmptyFile
  BY <1>1, RolledTells
<1>3. PICK last \in Ends : files' = [r EXCEPT ![today] = [r[today] EXCEPT !.end = last]]
  <2>1. files' = [r EXCEPT ![today].end = IF @ = "piece" THEN "glued" ELSE "line"]
    BY <1>1 DEF WritesPart
  <2> QED BY <2>1 DEF Ends
<1>4. DOMAIN files' = DOMAIN r /\ \A d \in DOMAIN r : files'[d].lines = r[d].lines
  <2>1. PICK now \in Files : now = [r[today] EXCEPT !.end = last] /\ now.lines = r[today].lines
    <3>1. r[today] \in Files BY <1>2
    <3>2. /\ [r[today] EXCEPT !.end = last] \in Files
          /\ [r[today] EXCEPT !.end = last].lines = r[today].lines
      BY <3>1, FileParts
    <3> QED BY <3>2
  <2>2. files' = [r EXCEPT ![today] = now] BY <1>3, <2>1
  <2> QED BY <1>2, <2>1, <2>2
<1>5. /\ today' = today /\ cut' = cut /\ ~Writing
      /\ born' = Append(born, [day |-> today, whole |-> FALSE])
  BY DEF WritesPart
<1>6. PICK len \in Nat : len = Len(born) /\ DOMAIN born = 1..len BY DEF FilesTypeOK
<1>7. /\ DOMAIN born' = 1..(len + 1) /\ \A n \in 1..len : born'[n] = born[n]
      /\ born'[len + 1].day = today /\ ~born'[len + 1].whole
  BY <1>5, <1>6, BirthParts DEF FilesTypeOK
<1> QED BY <1>2, <1>4, <1>5, <1>6, <1>7 DEF EmptyFile

\* A line that begins leaves stored what was.
LEMMA PartStored ==
  ASSUME FilesTypeOK, FilesInv, Stored, WritesPart
  PROVE  Stored' /\ Further
<1>1. /\ today' = today /\ cut' = cut /\ ~Writing
      /\ today \in DOMAIN files' /\ DOMAIN files' \subseteq DOMAIN files \cup {today}
      /\ \A d \in DOMAIN files' : IF d \in DOMAIN files THEN files'[d].lines = files[d].lines
                                  ELSE d = today /\ files'[d].lines = <<>>
  BY PartTells
<1>2. PICK len \in Nat : /\ DOMAIN born = 1..len /\ DOMAIN born' = 1..(len + 1)
                         /\ \A n \in 1..len : born'[n] = born[n]
                         /\ born'[len + 1].day = today /\ ~born'[len + 1].whole
  BY PartTells
<1>3. \A d : Uncut(d)' <=> Uncut(d) BY <1>1, <1>2 DEF Uncut, FilesTypeOK
<1>4. ASSUME NEW d \in DOMAIN files' PROVE WholeLines(d)'
  <2> SUFFICES ASSUME NEW n \in DOMAIN born', born'[n].day = d, born'[n].whole, Uncut(d)'
               PROVE  \E i \in DOMAIN files'[d].lines : files'[d].lines[i].n = n /\ files'[d].lines[i].stamped
    BY DEF WholeLines
  <2>1. n \in 1..len /\ born[n].day = d /\ born[n].whole /\ Uncut(d) BY <1>2, <1>3
  <2>2. d \in DOMAIN files BY <1>1, <1>2, <2>1 DEF Stored
  <2>3. WholeLines(d) BY <2>2 DEF Stored
  <2> QED BY <1>1, <1>2, <2>1, <2>2, <2>3 DEF WholeLines
<1>5. Stored' BY <1>1, <1>4 DEF Stored
<1>6. \A d \in DOMAIN files' : LinesGoOn(d)
  <2> TAKE d \in DOMAIN files'
  <2>1. CASE d \in DOMAIN files BY <1>1, <2>1 DEF LinesGoOn
  <2>2. CASE d \notin DOMAIN files
    <3>1. d = today /\ \A e \in DOMAIN files : e \in 1..today BY <1>1, <2>2 DEF FilesInv
    <3>2. today \in Nat BY DEF FilesTypeOK
    <3> QED BY <2>2, <3>1, <3>2 DEF LinesGoOn
  <2> QED BY <2>1, <2>2
<1>7. \A m \in DOMAIN born' : m \in DOMAIN born /\ born'[m].whole => born[m].whole BY <1>2
<1>8. \A m \in DOMAIN born' : m \notin DOMAIN born => \A n : Finished(n) => n < m BY <1>2 DEF Finished
<1> QED BY <1>1, <1>2, <1>5, <1>6, <1>7, <1>8 DEF Further

\* The rest of the last line is put into the file of its day.
RestOf(d, line, len) ==
  /\ today' = today /\ cut' = cut /\ BeingWritten(files[d].end)
  /\ len > 0 /\ DOMAIN born = 1..len /\ Len(born) = len /\ born[len].day = d
  /\ line.n = len /\ files[d].lines \in Seq(Lines)
  /\ DOMAIN files' = DOMAIN files /\ files'[d].lines = Append(files[d].lines, line)
  /\ \A e \in DOMAIN files : e # d => files'[e] = files[e]
  /\ DOMAIN born' = 1..len
  /\ \A n \in 1..len : born'[n].day = born[n].day /\ (n # len => born'[n] = born[n])
  /\ born'[len].whole => line.stamped

\* What the rest of a line leaves.
LEMMA RestTells ==
  ASSUME FilesTypeOK, FilesInv, WritesRest
  PROVE  \E d \in DOMAIN files, line \in Lines, len \in Nat : RestOf(d, line, len)
<1>1. PICK d \in DOMAIN files :
        /\ BeingWritten(files[d].end)
        /\ files' = [files EXCEPT ![d] =
             [lines |-> Append(@.lines, [n |-> Len(born), stamped |-> @.end = "line"]),
              end |-> "break"]]
        /\ born' = [born EXCEPT ![Len(born)].whole = files[d].end = "line"]
  BY DEF WritesRest
<1>2. PICK len \in Nat : len = Len(born) /\ DOMAIN born = 1..len BY DEF FilesTypeOK
<1>3. len > 0 /\ born[len].day = d BY <1>1, <1>2 DEF FilesInv, FilesTypeOK
<1>4. PICK w \in BOOLEAN : w = (files[d].end = "line") OBVIOUS
<1>5. PICK line \in Lines : line = [n |-> len, stamped |-> w]
  <2>1. [n |-> len, stamped |-> w] \in Lines BY DEF Lines
  <2> QED BY <2>1
<1>6. files[d].lines \in Seq(Lines) BY <1>1, FileParts DEF FilesTypeOK
<1>7. PICK more \in Seq(Lines) : more = Append(files[d].lines, line)
  <2>1. Append(files[d].lines, line) \in Seq(Lines) BY <1>6
  <2> QED BY <2>1
<1>8. PICK new : new = [lines |-> more, end |-> "break"] OBVIOUS
<1>9. files' = [files EXCEPT ![d] = new] /\ new.lines = more BY <1>1, <1>2, <1>4, <1>5, <1>7, <1>8
<1>10. PICK b \in Births : b = born[len]
  <2>1. len \in 1..Len(born) /\ born \in Seq(Births) BY <1>2, <1>3 DEF FilesTypeOK
  <2>2. born[len] \in Births BY <2>1
  <2> QED BY <2>2
<1>11. PICK b2 \in Births : b2 = [b EXCEPT !.whole = w] /\ b2.day = b.day /\ b2.whole = w
  <2>1. [b EXCEPT !.whole = w] \in Births /\ [b EXCEPT !.whole = w].day = b.day
        /\ [b EXCEPT !.whole = w].whole = w
    BY <1>4, BirthParts
  <2> QED BY <2>1
<1>12. born' = [born EXCEPT ![len] = b2] BY <1>1, <1>2, <1>4, <1>10, <1>11
<1>13. line.n = len /\ line.stamped = w BY <1>5
<1>14. today' = today /\ cut' = cut BY DEF WritesRest
<1>15. /\ DOMAIN born' = 1..len /\ born'[len].whole = w
       /\ \A n \in 1..len : born'[n].day = born[n].day /\ (n # len => born'[n] = born[n])
  BY <1>2, <1>3, <1>10, <1>11, <1>12 DEF FilesTypeOK
<1>16. /\ DOMAIN files' = DOMAIN files /\ files'[d].lines = Append(files[d].lines, line)
       /\ \A e \in DOMAIN files : e # d => files'[e] = files[e]
  BY <1>7, <1>9
<1>17. RestOf(d, line, len) BY <1>1, <1>2, <1>3, <1>6, <1>13, <1>14, <1>15, <1>16 DEF RestOf
<1> QED BY <1>17

\* The rest of a line leaves stored what was, and stores the line if it is whole.
LEMMA RestStored ==
  ASSUME FilesTypeOK, FilesInv, Stored, WritesRest
  PROVE  Stored' /\ Further
<1>0. PICK d \in DOMAIN files, line \in Lines, len \in Nat : RestOf(d, line, len) BY RestTells
<1>1. /\ today' = today /\ cut' = cut /\ BeingWritten(files[d].end)
      /\ len > 0 /\ DOMAIN born = 1..len /\ Len(born) = len /\ born[len].day = d
      /\ line.n = len /\ files[d].lines \in Seq(Lines)
      /\ DOMAIN files' = DOMAIN files /\ files'[d].lines = Append(files[d].lines, line)
      /\ \A e \in DOMAIN files : e # d => files'[e] = files[e]
      /\ DOMAIN born' = 1..len
      /\ \A n \in 1..len : born'[n].day = born[n].day /\ (n # len => born'[n] = born[n])
      /\ born'[len].whole => line.stamped
  BY <1>0 DEF RestOf
<1>2. PICK k \in Nat : k = Len(files[d].lines) /\ DOMAIN files[d].lines = 1..k BY <1>1
<1>3. /\ DOMAIN files'[d].lines = 1..(k + 1) /\ files'[d].lines[k + 1] = line
      /\ \A i \in 1..k : files'[d].lines[i] = files[d].lines[i]
  BY <1>1, <1>2
<1>4. \A e : Uncut(e)' <=> Uncut(e) BY <1>1 DEF Uncut, FilesTypeOK
<1>5. ASSUME NEW e \in DOMAIN files' PROVE WholeLines(e)'
  <2> SUFFICES ASSUME NEW n \in DOMAIN born', born'[n].day = e, born'[n].whole, Uncut(e)'
               PROVE  \E i \in DOMAIN files'[e].lines : files'[e].lines[i].n = n /\ files'[e].lines[i].stamped
    BY DEF WholeLines
  <2>1. CASE n = len
    <3>1. e = d /\ line.stamped BY <1>1, <2>1
    <3>2. k + 1 \in DOMAIN files'[d].lines BY <1>3
    <3> QED BY <1>1, <1>3, <2>1, <3>1, <3>2
  <2>2. CASE n # len
    <3>1. n \in DOMAIN born /\ born[n].day = e /\ born[n].whole /\ Uncut(e) BY <1>1, <1>4, <2>2
    <3>2. WholeLines(e) /\ e \in DOMAIN files BY <1>1 DEF Stored
    <3>3. PICK i \in DOMAIN files[e].lines : files[e].lines[i].n = n /\ files[e].lines[i].stamped
      BY <3>1, <3>2 DEF WholeLines
    <3>4. i \in DOMAIN files'[e].lines /\ files'[e].lines[i] = files[e].lines[i]
      <4>1. CASE e = d BY <1>2, <1>3, <3>3, <4>1
      <4>2. CASE e # d BY <1>1, <3>2, <3>3, <4>2
      <4> QED BY <4>1, <4>2
    <3> QED BY <3>3, <3>4
  <2> QED BY <2>1, <2>2
<1>6. Stored' BY <1>1, <1>5 DEF Stored
<1>7. \A e \in DOMAIN files' : LinesGoOn(e) BY <1>1 DEF LinesGoOn
<1>8. \A n : Finished(n) => n < len BY <1>1 DEF Finished, Writing
<1>9. \A m \in DOMAIN born' : m # len => m \in DOMAIN born /\ (born'[m].whole => born[m].whole) BY <1>1
<1> QED BY <1>1, <1>6, <1>7, <1>8, <1>9 DEF Further

\* What was stored is after every step of the writer.
LEMMA FileStepStores ==
  ASSUME FilesTypeOK, FilesInv, Stored, FileStep
  PROVE  Stored' /\ Further
<1>1. CASE WritesPart BY <1>1, PartStored
<1>2. CASE WritesRest BY <1>2, RestStored
<1>3. CASE MidnightPasses
  <2>1. files' = files /\ born' = born /\ cut' = cut /\ today' = today + 1
    BY <1>3 DEF MidnightPasses
  <2>2. \A n \in DOMAIN born : born[n].day <= today /\ born[n].day \in Nat /\ today \in Nat
    BY BirthParts DEF FilesTypeOK, FilesInv
  <2>3. \A n \in DOMAIN born : born[n].day # today + 1 BY <2>2
  <2>4. \A d : WholeLines(d)' <=> WholeLines(d) BY <2>1 DEF WholeLines, Uncut
  <2> QED BY <2>1, <2>3, <2>4 DEF Stored, Further, LinesGoOn
<1>4. ASSUME NEW d \in DOMAIN files, Truncates(d) PROVE Stored' /\ Further
  <2>1. /\ born' = born /\ today' = today /\ files[d].lines # <<>>
        /\ cut' = cut \cup {files[d].lines[i].n : i \in DOMAIN files[d].lines}
        /\ DOMAIN files' = DOMAIN files /\ \A e \in DOMAIN files : e # d => files'[e] = files[e]
    BY <1>4 DEF Truncates
  <2>2. files[d].lines \in Seq(Lines) BY FileParts DEF FilesTypeOK
  <2>3. 1 \in DOMAIN files[d].lines BY <2>1, <2>2
  <2>4. files[d].lines[1].n \in cut' /\ born[files[d].lines[1].n].day = d BY <2>1, <2>3 DEF FilesInv
  <2>5. ~Uncut(d)' BY <2>1, <2>4 DEF Uncut
  <2>6. \A e : Uncut(e)' => Uncut(e) BY <2>1 DEF Uncut
  <2>7. \A e \in DOMAIN files : e # d => WholeLines(e)' BY <2>1, <2>6 DEF WholeLines, Stored
  <2>8. WholeLines(d)' BY <2>5 DEF WholeLines
  <2>9. Stored' BY <2>1, <2>7, <2>8 DEF Stored
  <2>10. \A e \in DOMAIN files' : LinesGoOn(e) BY <2>1 DEF LinesGoOn
  <2> QED BY <2>1, <2>9, <2>10 DEF Further
<1>5. CASE files' = Torn(files) /\ UNCHANGED <<today, born, cut>>
  <2>1. DOMAIN files' = DOMAIN files BY <1>5 DEF Torn
  <2>2. ASSUME NEW d \in DOMAIN files PROVE files'[d].lines = files[d].lines
    <3>1. files'[d] = IF BeingWritten(files[d].end) THEN [files[d] EXCEPT !.end = "piece"] ELSE files[d]
      BY <1>5 DEF Torn
    <3>2. files[d] \in Files /\ "piece" \in Ends BY DEF FilesTypeOK, Ends
    <3>3. [files[d] EXCEPT !.end = "piece"].lines = files[d].lines BY <3>2, FileParts
    <3> QED BY <3>1, <3>3
  <2>3. \A d : Uncut(d)' <=> Uncut(d) BY <1>5 DEF Uncut
  <2>4. \A d \in DOMAIN files : WholeLines(d)' BY <1>5, <2>2, <2>3 DEF WholeLines, Stored
  <2>5. Stored' BY <1>5, <2>1, <2>4 DEF Stored
  <2> QED BY <1>5, <2>1, <2>2, <2>5 DEF Further, LinesGoOn
<1>6. CASE UNCHANGED <<today, files, born, cut>>
  BY <1>6 DEF Stored, WholeLines, Uncut, Further, LinesGoOn
<1> QED BY <1>1, <1>2, <1>3, <1>4, <1>5, <1>6 DEF FileStep

\* What the reader shows leaves nothing out, and what is owed is shown in the end.
NoneMissed ==
  /\ Gapless
  /\ reader.at = "reading" => reader.exit = -1 /\ Ahead
  /\ reader.at = "polling" => reader.exit = -1 /\ Caught
  /\ reader.exit = 0 => \A n \in reader.owed : Seen(n) \/ n \in cut

\* What both give together is kept by every step.
GapsInv == Stored /\ NoneMissed

\* A line still to be read stays so after a step of the writer, unless it is cut off.
LEMMA StillInAfter ==
  ASSUME LogsInv, Further, reader' = reader, NEW n, NEW d \in Nat, StillIn(d, n),
         \E e \in DOMAIN files : d <= e
  PROVE  StillIn(d, n)' \/ n \in cut'
<1> SUFFICES ASSUME d \in DOMAIN files', n \notin cut'
             PROVE  \E i \in DOMAIN files'[d].lines :
                      files'[d].lines[i].n = n /\ Holds(reader.cutoff, files'[d].lines[i])
  BY DEF StillIn, Holds
<1>1. d \in DOMAIN files
  <2>1. PICK e \in DOMAIN files : d <= e OBVIOUS
  <2>2. e \in Nat BY DEF LogsInv, FilesTypeOK
  <2>3. ~(e < d) BY <2>1, <2>2
  <2> QED BY <2>3 DEF Further, LinesGoOn
<1>2. PICK i \in DOMAIN files[d].lines : files[d].lines[i].n = n /\ Holds(reader.cutoff, files[d].lines[i])
  BY <1>1 DEF StillIn
<1>3. PICK lines \in Seq(Lines) : lines = files[d].lines BY <1>1, FileParts DEF LogsInv, FilesTypeOK
<1>4. LinesGoOn(d) BY DEF Further
<1>5. CASE files'[d].lines = files[d].lines BY <1>2, <1>5
<1>6. ASSUME NEW line \in Lines, files'[d].lines = Append(files[d].lines, line)
      PROVE  i \in DOMAIN files'[d].lines /\ files'[d].lines[i] = lines[i]
  <2>1. PICK more : more = Append(lines, line) OBVIOUS
  <2>2. i \in DOMAIN more /\ more[i] = lines[i] BY <1>2, <1>3, <2>1
  <2> QED BY <1>3, <1>6, <2>1, <2>2
<1>7. CASE \A j \in DOMAIN files[d].lines : files[d].lines[j].n \in cut' BY <1>2, <1>7
<1> QED BY <1>1, <1>2, <1>3, <1>4, <1>5, <1>6, <1>7 DEF LinesGoOn

\* What was cut off stays so.
LEMMA UncutBefore ==
  ASSUME LogsInv, Onward, Further, NEW d, Uncut(d)'
  PROVE  Uncut(d)
<1> SUFFICES ASSUME NEW k \in cut PROVE born[k].day # d BY DEF Uncut
<1>1. k \in cut' /\ k \in DOMAIN born BY DEF Further, LogsInv, FilesTypeOK
<1> QED BY <1>1 DEF Uncut, Onward

\* No step of the writer makes a gap.
LEMMA FilesMissNone ==
  ASSUME LogsInv, NoneMissed, FilesTypeOK', Onward, Further, reader' = reader
  PROVE  NoneMissed'
<1>1. \A n : Seen(n)' <=> Seen(n) BY DEF Seen
<1>2. \A n : Seen(n) => Finished(n) BY DEF Seen, LogsInv, ReaderInv
<1>3. cut \subseteq cut' BY DEF Further
<1>4. Gapless'
  <2> SUFFICES ASSUME NEW n \in DOMAIN born', NEW m \in DOMAIN born',
                      Seen(n), m < n, born'[m].day = born'[n].day,
                      \A k \in cut' : born'[k].day # born'[n].day,
                      born'[m].whole, m >= reader.cutoff
               PROVE  Seen(m)
    BY <1>1 DEF Gapless, Uncut
  <2>1. Finished(n) BY <1>2
  <2>2. n \in DOMAIN born /\ born'[n].day = born[n].day BY <2>1 DEF Finished, Onward
  <2>3. n \in Int /\ m \in Int BY DEF FilesTypeOK
  <2>4. m \in DOMAIN born /\ born[m].whole BY <2>1, <2>3 DEF Further
  <2>5. born[m].day = born[n].day BY <2>2, <2>4 DEF Onward
  <2>6. PICK d : d = born[n].day OBVIOUS
  <2>7. Uncut(d)
    <3>1. Uncut(d)' BY <2>2, <2>6 DEF Uncut
    <3> QED BY <3>1, UncutBefore
  <2> QED BY <2>2, <2>4, <2>5, <2>6, <2>7 DEF NoneMissed, Gapless
<1>5. ASSUME reader.at = "reading" PROVE Ahead'
  <2>1. Ahead /\ AtReading BY <1>5 DEF NoneMissed, LogsInv, ReaderInv
  <2> SUFFICES ASSUME NEW n \in reader.owed
               PROVE  \/ Seen(n) \/ n \in cut'
                      \/ \E i \in DOMAIN reader.queue : StillIn(reader.queue[i], n)'
    BY <1>1 DEF Ahead, StillIn
  <2>2. CASE Seen(n) \/ n \in cut BY <1>3, <2>2
  <2>3. ASSUME NEW i \in DOMAIN reader.queue, StillIn(reader.queue[i], n)
        PROVE  n \in cut' \/ \E j \in DOMAIN reader.queue : StillIn(reader.queue[j], n)'
    <3>1. PICK d \in Nat : d = reader.queue[i]
      <4>1. reader.queue \in Seq(Nat) BY ReaderParts DEF LogsInv
      <4>2. reader.queue[i] \in Nat BY <4>1
      <4> QED BY <4>2
    <3>2. \E e \in DOMAIN files : d <= e BY <2>1, <3>1 DEF AtReading
    <3>3. StillIn(d, n) BY <2>3, <3>1
    <3>4. StillIn(d, n)' \/ n \in cut' BY <3>2, <3>3, StillInAfter
    <3> QED BY <3>1, <3>4
  <2> QED BY <2>1, <2>2, <2>3 DEF Ahead
<1>6. ASSUME reader.at = "polling" PROVE Caught'
  <2>1. Caught /\ AtPolling BY <1>6 DEF NoneMissed, LogsInv, ReaderInv
  <2>2. PICK day : day = reader.queue[1] OBVIOUS
  <2> SUFFICES ASSUME day \in DOMAIN files', Uncut(day)'
               PROVE  /\ reader.offset <= Len(files'[day].lines)
                      /\ \A k \in DOMAIN files'[day].lines :
                           k <= reader.offset /\ Holds(reader.cutoff, files'[day].lines[k])
                           => Seen(files'[day].lines[k].n)
    BY <1>1, <2>2 DEF Caught, Uncut
  <2>3. day \in Nat BY DEF FilesTypeOK
  <2>4. PICK e \in DOMAIN files : day <= e BY <2>1, <2>2 DEF AtPolling
  <2>5. e \in Nat BY DEF LogsInv, FilesTypeOK
  <2>6. ~(e < day) BY <2>3, <2>4, <2>5
  <2>7. LinesGoOn(day) BY DEF Further
  <2>8. day \in DOMAIN files BY <2>4, <2>6, <2>7 DEF LinesGoOn
  <2>9. Uncut(day) BY UncutBefore
  <2>10. PICK lines \in Seq(Lines) : lines = files[day].lines
    BY <2>8, FileParts DEF LogsInv, FilesTypeOK
  <2>11. PICK offset \in Nat : offset = reader.offset BY ReaderParts DEF LogsInv
  <2>12. /\ offset <= Len(lines)
         /\ \A k \in DOMAIN lines : k <= offset /\ Holds(reader.cutoff, lines[k]) => Seen(lines[k].n)
    BY <2>1, <2>2, <2>8, <2>9, <2>10, <2>11 DEF Caught
  <2>13. CASE files'[day].lines = lines BY <2>11, <2>12, <2>13
  <2>14. ASSUME NEW line \in Lines, files'[day].lines = Append(lines, line)
         PROVE  /\ offset <= Len(files'[day].lines)
                /\ \A k \in DOMAIN files'[day].lines :
                     k <= offset /\ Holds(reader.cutoff, files'[day].lines[k])
                     => Seen(files'[day].lines[k].n)
    <3>1. PICK more : more = Append(lines, line) OBVIOUS
    <3>2. PICK len \in Nat : len = Len(lines) /\ DOMAIN lines = 1..len BY <2>10
    <3>3. Len(more) = len + 1 /\ DOMAIN more = 1..(len + 1) /\ \A k \in 1..len : more[k] = lines[k]
      BY <2>10, <3>1, <3>2
    <3>4. \A k \in 1..(len + 1) : k <= offset => k \in 1..len BY <2>12, <3>2
    <3> QED BY <2>12, <2>14, <3>1, <3>2, <3>3, <3>4
  <2>15. ASSUME lines # <<>>, \A i \in DOMAIN lines : lines[i].n \in cut' PROVE FALSE
    <3>1. 1 \in DOMAIN lines BY <2>10, <2>15
    <3>2. Finished(lines[1].n) /\ born[lines[1].n].day = day BY <2>8, <2>10, <3>1 DEF LogsInv, FilesInv
    <3>3. born'[lines[1].n].day = day BY <3>2 DEF Finished, Onward
    <3> QED BY <2>15, <3>1, <3>3 DEF Uncut
  <2> QED BY <2>7, <2>8, <2>10, <2>11, <2>13, <2>14, <2>15 DEF LinesGoOn
<1> QED BY <1>1, <1>3, <1>4, <1>5, <1>6 DEF NoneMissed

\* A file printed behind what is shown leaves no gap, and what it holds is shown.
LEMMA GrowsWithoutGap ==
  ASSUME LogsInv, Stored, Gapless, NEW d \in DOMAIN files, NEW offset \in Nat,
         GrownBy(d, offset, reader'.shown), reader'.cutoff = reader.cutoff,
         UNCHANGED <<today, files, born, cut>>,
         Uncut(d) => \A k \in DOMAIN files[d].lines :
           ~(k > offset \/ Len(files[d].lines) < offset) /\ Holds(reader.cutoff, files[d].lines[k])
           => Seen(files[d].lines[k].n)
  PROVE  /\ Gapless'
         /\ \A n : Seen(n) => Seen(n)'
         /\ Uncut(d) => \A k \in DOMAIN files[d].lines :
              Holds(reader.cutoff, files[d].lines[k]) => Seen(files[d].lines[k].n)'
<1>1. PICK shown : shown = reader'.shown OBVIOUS
<1>2. /\ \A i \in DOMAIN shown : \/ \E j \in DOMAIN reader.shown : shown[i] = reader.shown[j]
                                 \/ born[shown[i]].day = d
      /\ \A j \in DOMAIN reader.shown : \E i \in DOMAIN shown : shown[i] = reader.shown[j]
      /\ \A k \in DOMAIN files[d].lines :
           (k > offset \/ Len(files[d].lines) < offset) /\ Holds(reader.cutoff, files[d].lines[k])
           => \E i \in DOMAIN shown : shown[i] = files[d].lines[k].n
  BY <1>1 DEF GrownBy
<1>3. \A n : Seen(n)' <=> \E i \in DOMAIN shown : shown[i] = n BY <1>1 DEF Seen
<1>4. ASSUME NEW n, Seen(n) PROVE Seen(n)'
  <2>1. PICK j \in DOMAIN reader.shown : reader.shown[j] = n BY <1>4 DEF Seen
  <2>2. PICK i \in DOMAIN shown : shown[i] = reader.shown[j] BY <1>2
  <2> QED BY <1>3, <2>1, <2>2
<1>5. ASSUME NEW n, Seen(n)' PROVE Seen(n) \/ born[n].day = d
  <2>1. PICK i \in DOMAIN shown : shown[i] = n BY <1>3, <1>5
  <2> QED BY <1>2, <2>1 DEF Seen
<1>6. ASSUME Uncut(d), NEW k \in DOMAIN files[d].lines, Holds(reader.cutoff, files[d].lines[k])
      PROVE  Seen(files[d].lines[k].n)'
  <2>1. PICK n : n = files[d].lines[k].n OBVIOUS
  <2>2. CASE k > offset \/ Len(files[d].lines) < offset BY <1>2, <1>3, <1>6, <2>1, <2>2
  <2>3. CASE ~(k > offset \/ Len(files[d].lines) < offset)
    <3>1. Seen(n) BY <1>6, <2>1, <2>3
    <3>2. Seen(n)' BY <1>4, <3>1
    <3> QED BY <2>1, <3>2
  <2> QED BY <2>2, <2>3
<1>7. Gapless'
  <2> SUFFICES ASSUME NEW n \in DOMAIN born, NEW m \in DOMAIN born, Seen(n)', m < n,
                      born[m].day = born[n].day, Uncut(born[n].day), born[m].whole, m >= reader.cutoff
               PROVE  Seen(m)'
    BY DEF Gapless, Uncut
  <2>1. CASE Seen(n)
    <3>1. Seen(m) BY <2>1 DEF Gapless
    <3> QED BY <1>4, <3>1
  <2>2. CASE born[n].day = d
    <3>1. WholeLines(d) BY DEF Stored
    <3>2. PICK i \in DOMAIN files[d].lines : files[d].lines[i].n = m /\ files[d].lines[i].stamped
      BY <2>2, <3>1 DEF WholeLines
    <3>3. Holds(reader.cutoff, files[d].lines[i]) BY <3>2 DEF Holds
    <3>4. Seen(files[d].lines[i].n)' BY <1>6, <2>2, <3>3
    <3> QED BY <3>2, <3>4
  <2> QED BY <1>5, <2>1, <2>2
<1> QED BY <1>4, <1>6, <1>7

\* The files are listed: what is owed is in them.
LEMMA StartMissesNone ==
  ASSUME LogsInv, NEW follow \in BOOLEAN, NEW cutoff \in Nat, NEW listed \in BOOLEAN,
         StartsReading(follow, cutoff, listed)
  PROVE  NoneMissed'
<1>0. FilesTypeOK BY DEF LogsInv
<1>1. IF ~listed \/ DOMAIN files = {} THEN NothingListed ELSE JustListed(cutoff) BY <1>0, StartTells
<1>2. files' = files BY DEF StartsReading
<1>3. CASE NothingListed BY <1>3 DEF NothingListed, NoneMissed, Gapless, Seen
<1>4. CASE JustListed(cutoff)
  <2>1. /\ reader'.at = "reading" /\ reader'.exit = -1 /\ reader'.queue = Listed
        /\ reader'.shown = <<>> /\ reader'.owed = Owed(cutoff) /\ reader'.cutoff = cutoff
    BY <1>4 DEF JustListed
  <2>2. PICK days : days = Listed OBVIOUS
  <2>3. \A d \in DOMAIN files : \E i \in DOMAIN days : days[i] = d BY <1>0, <2>2, ListedTells
  <2>4. ASSUME NEW n \in Owed(cutoff)
        PROVE  \E i \in DOMAIN days : days[i] \in DOMAIN files =>
                 \E k \in DOMAIN files[days[i]].lines :
                   files[days[i]].lines[k].n = n /\ Holds(cutoff, files[days[i]].lines[k])
    <3>1. PICK d \in DOMAIN files : \E k \in DOMAIN files[d].lines :
            files[d].lines[k].n = n /\ Holds(cutoff, files[d].lines[k])
      BY DEF Owed
    <3>2. PICK i \in DOMAIN days : days[i] = d BY <2>3
    <3> QED BY <3>1, <3>2
  <2>5. Ahead' BY <1>2, <2>1, <2>2, <2>4 DEF Ahead, StillIn
  <2>6. Gapless' BY <2>1 DEF Gapless, Seen
  <2> QED BY <2>1, <2>5, <2>6 DEF NoneMissed
<1> QED BY <1>1, <1>3, <1>4

\* The next of the listed files is printed without a gap.
LEMMA ReadMissesNone ==
  ASSUME LogsInv, GapsInv, ReadsFile
  PROVE  NoneMissed'
<1>1. PICK day \in Nat : HasRead(day) BY ReadTells
<1>2. /\ reader.at = "reading" /\ Len(reader.queue) > 0 /\ day = reader.queue[1]
      /\ reader'.cutoff = reader.cutoff /\ reader'.owed = reader.owed
      /\ UNCHANGED <<today, files, born, cut>>
  BY <1>1 DEF HasRead
<1>3. Stored /\ Gapless /\ reader.exit = -1 /\ Ahead BY <1>2 DEF GapsInv, NoneMissed
<1>4. CASE day \notin DOMAIN files
  <2>1. reader'.at = "off" /\ reader'.exit = 1 /\ reader'.shown = reader.shown BY <1>1, <1>4 DEF HasRead
  <2>2. \A n : Seen(n)' <=> Seen(n) BY <2>1 DEF Seen
  <2>3. Gapless' BY <1>2, <1>3, <2>2 DEF Gapless, Uncut
  <2> QED BY <2>1, <2>3 DEF NoneMissed
<1>5. CASE day \in DOMAIN files
  <2>1. GrownBy(day, 0, reader'.shown) BY <1>1, <1>5 DEF HasRead
  <2>2. PICK lines \in Seq(Lines) : lines = files[day].lines
    BY <1>5, FileParts DEF LogsInv, FilesTypeOK
  <2>3. \A k \in DOMAIN lines : k > 0 BY <2>2
  <2>4. /\ Gapless' /\ \A n : Seen(n) => Seen(n)'
        /\ Uncut(day) => \A k \in DOMAIN files[day].lines :
             Holds(reader.cutoff, files[day].lines[k]) => Seen(files[day].lines[k].n)'
    <3>1. 0 \in Nat OBVIOUS
    <3> QED BY <1>2, <1>3, <1>5, <2>1, <2>2, <2>3, <3>1, GrowsWithoutGap
  <2>5. \A k \in DOMAIN lines : Holds(reader.cutoff, lines[k]) => Seen(lines[k].n)'
    BY <2>1, <2>2, <2>3 DEF GrownBy, Seen
  <2>6. ASSUME NEW n, StillIn(day, n) PROVE Seen(n)'
    <3>1. PICK k \in DOMAIN lines : lines[k].n = n /\ Holds(reader.cutoff, lines[k])
      BY <1>5, <2>2, <2>6 DEF StillIn
    <3> QED BY <2>5, <3>1
  <2>7. PICK days \in Seq(Nat) : days = reader.queue BY ReaderParts DEF LogsInv
  <2>8. CASE Len(reader.queue) > 1
    <3>1. PICK rest : rest = Tail(days) OBVIOUS
    <3>2. reader'.at = "reading" /\ reader'.queue = rest /\ reader'.exit = reader.exit
      BY <1>1, <1>5, <2>7, <2>8, <3>1 DEF HasRead
    <3>3. \A j \in DOMAIN days : j = 1 \/ \E i \in DOMAIN rest : rest[i] = days[j]
      <4>1. Rising(days) BY <1>2, <2>7 DEF LogsInv, ReaderInv, AtReading
      <4> QED BY <2>7, <2>8, <3>1, <4>1, TailRises
    <3>4. ASSUME NEW n \in reader.owed
          PROVE  Seen(n)' \/ n \in cut \/ \E i \in DOMAIN rest : StillIn(rest[i], n)
      <4>1. CASE Seen(n) \/ n \in cut BY <2>4, <4>1
      <4>2. ASSUME NEW j \in DOMAIN days, StillIn(days[j], n)
            PROVE  Seen(n)' \/ \E i \in DOMAIN rest : StillIn(rest[i], n)
        <5>1. CASE j = 1 BY <1>2, <2>6, <2>7, <4>2, <5>1
        <5>2. CASE j # 1
          <6>1. PICK i \in DOMAIN rest : rest[i] = days[j] BY <3>3, <5>2
          <6> QED BY <4>2, <6>1
        <5> QED BY <5>1, <5>2
      <4> QED BY <1>3, <2>7, <4>1, <4>2 DEF Ahead
    <3>5. \A n : \A d : StillIn(d, n)' <=> StillIn(d, n) BY <1>2 DEF StillIn, Holds
    <3>6. Ahead'
      <4> SUFFICES ASSUME NEW n \in reader.owed
                   PROVE  Seen(n)' \/ n \in cut \/ \E i \in DOMAIN rest : StillIn(rest[i], n)
        BY <1>2, <3>2, <3>5 DEF Ahead, StillIn, Holds
      <4> QED BY <3>4
    <3> QED BY <1>3, <2>4, <3>2, <3>6 DEF NoneMissed
  <2>9. CASE ~(Len(reader.queue) > 1)
    <3>0. Len(reader.queue) = 1 /\ DOMAIN reader.queue = {1}
      <4>1. PICK len \in Nat : len = Len(days) /\ DOMAIN days = 1..len BY <2>7
      <4>2. len > 0 /\ ~(len > 1)
        <5>1. Len(reader.queue) = len BY <2>7, <4>1
        <5> QED BY <1>2, <2>9, <5>1
      <4>3. len = 1 BY <4>2
      <4> QED BY <2>7, <4>1, <4>3
    <3>1. /\ reader'.queue = reader.queue /\ reader'.offset = Len(files[day].lines)
          /\ reader'.at = IF reader.follow THEN "polling" ELSE "off"
          /\ reader'.exit = IF reader.follow THEN reader.exit ELSE 0
      BY <1>1, <1>5, <3>0 DEF HasRead
    <3>2. \A n \in reader'.owed : Seen(n)' \/ n \in cut'
      <4> SUFFICES ASSUME NEW n \in reader.owed PROVE Seen(n)' \/ n \in cut BY <1>2
      <4>1. \/ Seen(n) \/ n \in cut
            \/ \E i \in DOMAIN reader.queue : StillIn(reader.queue[i], n)
        BY <1>3 DEF Ahead
      <4> QED BY <1>2, <2>4, <2>6, <3>0, <4>1
    <3>3. Caught'
      <4> SUFFICES ASSUME Uncut(day)
                   PROVE  /\ Len(lines) <= Len(lines)
                          /\ \A k \in DOMAIN lines : Holds(reader.cutoff, lines[k]) => Seen(lines[k].n)'
        BY <1>2, <2>2, <3>1 DEF Caught, Uncut
      <4>1. Len(lines) <= Len(lines) BY <2>2
      <4> QED BY <2>5, <4>1
    <3>4. reader.follow \in BOOLEAN BY ReaderParts DEF LogsInv
    <3>5. CASE reader.follow
      <4>1. reader'.at = "polling" /\ reader'.exit = -1 BY <1>3, <3>1, <3>5
      <4> QED BY <2>4, <3>3, <4>1 DEF NoneMissed
    <3>6. CASE ~reader.follow
      <4>1. reader'.at = "off" BY <3>1, <3>6
      <4> QED BY <2>4, <3>2, <4>1 DEF NoneMissed
    <3> QED BY <3>5, <3>6
  <2> QED BY <2>8, <2>9
<1> QED BY <1>4, <1>5

\* logs -f goes on without a gap within a file.
LEMMA PollMissesNone ==
  ASSUME LogsInv, GapsInv, Polls
  PROVE  NoneMissed'
<1>1. PICK newest \in Nat : HasPolled(newest) BY PollTells
<1>2. /\ reader.at = "polling" /\ Len(reader.queue) = 1 /\ newest \in DOMAIN files
      /\ GrownBy(newest, From(newest), reader'.shown)
      /\ reader'.at = "polling" /\ reader'.queue = <<newest>> /\ reader'.offset = Len(files[newest].lines)
      /\ reader'.cutoff = reader.cutoff /\ reader'.owed = reader.owed /\ reader'.exit = reader.exit
      /\ UNCHANGED <<today, files, born, cut>>
  BY <1>1 DEF HasPolled
<1>3. Stored /\ Gapless /\ reader.exit = -1 /\ Caught BY <1>2 DEF GapsInv, NoneMissed
<1>4. PICK lines \in Seq(Lines) : lines = files[newest].lines
  BY <1>2, FileParts DEF LogsInv, FilesTypeOK
<1>5. PICK offset \in Nat : offset = From(newest)
  <2>1. reader.offset \in Nat BY ReaderParts DEF LogsInv
  <2> QED BY <2>1 DEF From
<1>6. ASSUME Uncut(newest), NEW k \in DOMAIN lines, ~(k > offset \/ Len(lines) < offset),
             Holds(reader.cutoff, lines[k])
      PROVE  Seen(lines[k].n)
  <2>1. k \in Nat /\ k > 0 BY <1>4
  <2>2. CASE reader.queue[1] = newest
    <3>1. offset = reader.offset BY <1>5, <2>2 DEF From
    <3>2. k <= offset BY <1>6, <2>1
    <3> QED BY <1>2, <1>3, <1>4, <1>6, <2>2, <3>1, <3>2 DEF Caught
  <2>3. CASE reader.queue[1] # newest BY <1>5, <1>6, <2>1, <2>3 DEF From
  <2> QED BY <2>2, <2>3
<1>7. /\ Gapless'
      /\ Uncut(newest) => \A k \in DOMAIN files[newest].lines :
           Holds(reader.cutoff, files[newest].lines[k]) => Seen(files[newest].lines[k].n)'
  BY <1>2, <1>3, <1>4, <1>5, <1>6, GrowsWithoutGap
<1>8. Caught'
  <2> SUFFICES ASSUME Uncut(newest)
               PROVE  /\ Len(lines) <= Len(lines)
                      /\ \A k \in DOMAIN lines : Holds(reader.cutoff, lines[k]) => Seen(lines[k].n)'
    BY <1>2, <1>4 DEF Caught, Uncut
  <2>1. Len(lines) <= Len(lines) BY <1>4
  <2> QED BY <1>2, <1>4, <1>7, <2>1
<1> QED BY <1>2, <1>3, <1>7, <1>8 DEF NoneMissed

\* No step of the writer or of the reader makes a gap.
LEMMA GapsStepKeeps ==
  ASSUME LogsInv, GapsInv, LogsStep
  PROVE  GapsInv'
<1>1. CASE FileStep /\ reader' = reader
  <2>1. FilesTypeOK' /\ Onward BY <1>1, FileStepKeeps DEF LogsInv
  <2>2. Stored' /\ Further BY <1>1, FileStepStores DEF LogsInv, GapsInv
  <2>3. NoneMissed' BY <1>1, <2>1, <2>2, FilesMissNone DEF GapsInv
  <2> QED BY <2>2, <2>3 DEF GapsInv
<1>2. CASE ReaderStep
  <2>1. UNCHANGED <<today, files, born, cut>> BY <1>2 DEF ReaderStep
  <2>2. FileStep BY <2>1 DEF FileStep
  <2>3. Stored' BY <2>2, FileStepStores DEF LogsInv, GapsInv
  <2>4. CASE PollFails
    <3>1. reader' = [reader EXCEPT !.at = "off", !.exit = 2] BY <2>4 DEF PollFails
    <3>2. reader'.at = "off" /\ reader'.exit = 2 /\ reader'.shown = reader.shown
          /\ reader'.cutoff = reader.cutoff
      BY <3>1 DEF LogsInv, Readers
    <3>3. \A n : Seen(n)' <=> Seen(n) BY <3>2 DEF Seen
    <3>4. Gapless' BY <2>1, <3>2, <3>3 DEF GapsInv, NoneMissed, Gapless, Uncut
    <3> QED BY <2>3, <3>2, <3>4 DEF GapsInv, NoneMissed
  <2> QED BY <1>2, <2>3, <2>4, StartMissesNone, ReadMissesNone, PollMissesNone DEF ReaderStep, GapsInv
<1> QED BY <1>1, <1>2 DEF LogsStep
-----------------------------------------------------------------------------
(* The plan *)

\* The plan of a behaviour is one of those there are.
PlanKept == plan \in PlanKeys

\* No step changes the plan.
LEMMA PlanStays == [Next]_vars => plan' = plan
<1>1. CASE UNCHANGED vars BY <1>1 DEF vars
<1>2. CASE Next
  BY <1>2 DEF Next, Begins, Handles, GoesOn, Observes, EndsAtOnce, Sends, CannotSend, StartsSettings,
     StartsLogs, Unparsed, Mutates, CannotBind, TurnsOff, Answers, Reloads, Captures, Subscribes,
     DialEnds, DialsUpstreams, Receives, FollowsUp, Points, WritesSetting, ReadsLogs, ReadsSetting,
     ScriptSucceeds, ScriptFails, CommitFails, Dies, StartsDaemon, Changes, LogsALine, DayPasses
<1> QED BY <1>1, <1>2
-----------------------------------------------------------------------------
(* What an invocation may end with *)

Fields == DOMAIN Fresh

Mutating(argv) == argv.verb \in Mutators

\* What an invocation of a mutating command may be like on its way to its exit
\* code: until the daemon answers nothing was done, and the answer says what was.
Truthful(argv, r) ==
  /\ r.done \in {0, 1}
  /\ r.told.kind = "refused" => r.done = 0
  /\ r.at = "sent" => /\ r.done = 0
                      /\ r.told.kind # "refused" => r.command = CommandOf(argv)
  /\ r.at = "held" => r.done = 0
  /\ r.at = "reading" => r.done = 1
  /\ r.at = "answered" => \/ r.reply.kind \in {"ok", "status"} /\ r.done = 1
                          \/ r.reply.kind \in ErrKinds /\ r.done = 0
                          \/ r.reply.kind \in Unreachables
  /\ r.at \notin {"dialling", "writing", "tailing", "logging"}
  /\ r.at = "idle" => /\ r.exit = Success => r.done = 1
                      /\ r.exit = InvalidArgs => r.done = 0
                      /\ r.exit = Failed /\ r.reply.kind # "malformed" => r.done = 0

\* A list that was refused in a load is followed by the upstream nobody reads.
Following(r) ==
  r.told.kind = "refused" => /\ r.at \in {"idle", "sent", "answered", "writing"}
                             /\ r.at = "sent" => r.command = UnreadableUpstream

\* What becomes of the invocation of a caller.
Right(c, r) ==
  /\ DOMAIN r = Fields
  /\ r.n \in 0..Len(Calls(c))
  /\ r.n > 0 /\ Mutating(Calls(c)[r.n]) => Truthful(Calls(c)[r.n], r)
  /\ Following(r)
  /\ c # Script => r.load = Unset /\ r.told.kind # "refused"

LoadFields == {"id", "caller", "runs", "staged", "failed", "refused", "lost"}

DaemonShape ==
  /\ DOMAIN daemon = {"up", "config", "issued", "load", "last"}
  /\ DOMAIN daemon.load = LoadFields
  /\ daemon.load.refused \in Nat /\ daemon.load.lost \in Nat
  /\ daemon.issued \in Nat /\ daemon.load.id \in Nat

\* A reload waits for the run it started.
Waiting ==
  Loading /\ daemon.load.caller \notin {Unset, Script} =>
    daemon.load.caller \in Callers /\ call[daemon.load.caller].at = "held"

\* The script still has to see to a list that was refused, or is about to.
Owing(r) ==
  \/ /\ r.at = "answered" /\ r.reply.kind = "invalid_args"
     /\ r.command.op = "set_upstreams" /\ r.load # Unset
  \/ r.at = "sent" /\ r.told.kind = "refused"

\* A run that has not failed refused lists only if the daemon is older than lists,
\* and for each the follow-up was lost or is yet to come.
Balanced(load, owing) ==
  \/ load.failed
  \/ /\ PlanOf(plan).fallbacks => load.refused = 0
     /\ load.refused <= load.lost + (IF owing THEN 1 ELSE 0)

\* The run in flight is the script's, and it is in balance.
Refusals ==
  Loading => /\ call[Script].load = daemon.load.id
             /\ Balanced(daemon.load, Owing(call[Script]))

CliInv ==
  /\ PlanKept
  /\ DOMAIN call = Callers
  /\ \A c \in Callers : Right(c, call[c])
  /\ DaemonShape /\ Waiting /\ Refusals

\* The parts of an invocation.
LEMMA CallParts ==
  ASSUME CliInv, NEW c \in Callers
  PROVE  /\ Right(c, call[c]) /\ DOMAIN call[c] = Fields /\ call[c].n \in 0..Len(Calls(c))
         /\ Len(Calls(c)) \in Nat
BY PlansAssumption DEF CliInv, Right, PlanKept, Calls

\* The load goes on or there is none, before and after.
LoadGoesOn ==
  /\ DaemonShape'
  /\ daemon'.load.id = daemon.load.id /\ daemon'.load.caller = daemon.load.caller

\* And no list is refused in it, or it has failed.
LoadKept ==
  /\ LoadGoesOn
  /\ Loading => \/ daemon'.load.failed
                \/ /\ daemon'.load.failed = daemon.load.failed
                   /\ daemon'.load.refused = daemon.load.refused
                   /\ daemon'.load.lost = daemon.load.lost

\* A step of one invocation that leaves the load in balance.
LEMMA OneBalances ==
  ASSUME CliInv, plan' = plan, LoadGoesOn, NEW c \in Callers, NEW r, call' = [call EXCEPT ![c] = r],
         Right(c, r), r.load = call[c].load, call[c].at # "held",
         Loading => Balanced(daemon'.load, Owing(IF c = Script THEN r ELSE call[Script]))
  PROVE  CliInv'
<1>1. DOMAIN call = Callers /\ \A d \in Callers : Right(d, call[d]) BY DEF CliInv
<1>2. DOMAIN call' = Callers /\ call'[c] = r /\ \A d \in Callers : d # c => call'[d] = call[d]
  BY <1>1
<1>3. ASSUME NEW d \in Callers, NEW q, Right(d, q) PROVE Right(d, q)'
  BY <1>3 DEF Right, Calls
<1>4. \A d \in Callers : Right(d, call[d])'
  <2> TAKE d \in Callers
  <2>1. PICK q : q = call'[d] OBVIOUS
  <2>2. Right(d, q) BY <1>1, <1>2, <2>1
  <2>3. Right(d, q)' BY <1>3, <2>2
  <2> QED BY <2>1, <2>3
<1>5. Waiting'
  <2>1. Waiting BY DEF CliInv
  <2> QED BY <1>2, <2>1 DEF Waiting, Loading, LoadGoesOn
<1>6. Refusals'
  <2>1. Refusals /\ Script \in Callers BY CliAssumption DEF CliInv
  <2>2. PICK q : q = IF c = Script THEN r ELSE call[Script] OBVIOUS
  <2>3. call'[Script] = q /\ q.load = call[Script].load BY <1>2, <2>1, <2>2
  <2>4. PICK load : load = daemon'.load OBVIOUS
  <2>5. Loading => Balanced(load, Owing(q)) BY <2>2, <2>4
  <2>6. ASSUME Loading PROVE Balanced(load, Owing(q))' BY <2>5, <2>6 DEF Balanced, Owing
  <2>7. Loading' <=> Loading BY DEF Loading, LoadGoesOn
  <2> QED BY <2>1, <2>3, <2>4, <2>6, <2>7 DEF Refusals, LoadGoesOn, Loading
<1>7. PlanKept' BY DEF CliInv, PlanKept
<1> QED BY <1>2, <1>4, <1>5, <1>6, <1>7 DEF CliInv, LoadGoesOn

\* A step of one invocation that leaves the load where it is.
LEMMA OneMoves ==
  ASSUME CliInv, plan' = plan, LoadKept, NEW c \in Callers, NEW r, call' = [call EXCEPT ![c] = r],
         Right(c, r), r.load = call[c].load, call[c].at # "held",
         Loading /\ c = Script /\ Owing(call[c]) => daemon'.load.failed
  PROVE  CliInv'
<1>1. ASSUME Loading
      PROVE  Balanced(daemon'.load, Owing(IF c = Script THEN r ELSE call[Script]))
  <2>1. PICK old, new : old = daemon.load /\ new = daemon'.load OBVIOUS
  <2>2. PICK owed, owing : /\ owed = Owing(call[Script]) /\ owed \in BOOLEAN
                           /\ owing = Owing(IF c = Script THEN r ELSE call[Script])
    BY DEF Owing
  <2>3. (owed => owing) \/ new.failed BY <1>1, <2>1, <2>2
  <2>4. Balanced(old, owed) BY <1>1, <2>1, <2>2 DEF CliInv, Refusals
  <2>5. \/ new.failed
        \/ new.failed = old.failed /\ new.refused = old.refused /\ new.lost = old.lost
    BY <1>1, <2>1 DEF LoadKept
  <2>6. old.lost \in Nat /\ old.refused \in Nat BY <2>1 DEF CliInv, DaemonShape
  <2>7. Balanced(new, owing) BY <2>3, <2>4, <2>5, <2>6 DEF Balanced
  <2> QED BY <2>1, <2>2, <2>7
<1> QED BY <1>1, OneBalances DEF LoadKept

\* An invocation that starts.
LEMMA BegunParts ==
  ASSUME CliInv, NEW c \in Callers, Starting(c), NEW b, b = Begun(c)
  PROVE  /\ DOMAIN b = Fields /\ b.at = "idle" /\ b.n = call[c].n + 1 /\ b.n \in 1..Len(Calls(c))
         /\ b.load = call[c].load /\ b.done = 0 /\ b.exit = -1 /\ b.told.kind = "none" /\ b.reply.kind = "none"
         /\ Calls(c)[b.n] = Coming(c) /\ call[c].at = "idle"
<1>1. call[c].n \in 0..Len(Calls(c)) /\ Len(Calls(c)) \in Nat BY CallParts
<1>2. call[c].n < Len(Calls(c)) /\ call[c].at = "idle" BY DEF Starting
<1>3. b = [Fresh EXCEPT !.n = call[c].n + 1, !.load = call[c].load] BY DEF Begun
<1>4. /\ DOMAIN b = Fields /\ b.at = "idle" /\ b.n = call[c].n + 1 /\ b.load = call[c].load
      /\ b.done = 0 /\ b.exit = -1 /\ b.told = NoReply /\ b.reply = NoReply
  BY <1>3 DEF Fresh, Fields
<1> QED BY <1>1, <1>2, <1>4 DEF NoReply, Coming

\* A load that is left alone is kept.
LEMMA LoadUntouched == CliInv /\ UNCHANGED daemon => LoadKept
BY DEF CliInv, DaemonShape, LoadKept, LoadGoesOn, Loading

\* An invocation that is over at once did nothing.
LEMMA EndsAtOnceKeeps ==
  ASSUME CliInv, plan' = plan, NEW c \in Callers, EndsAtOnce(c)
  PROVE  CliInv'
<1>1. Starting(c) BY DEF EndsAtOnce
<1>2. PICK b : b = Begun(c) OBVIOUS
<1>3. PICK code : /\ call' = [call EXCEPT ![c] = [b EXCEPT !.exit = code]]
                  /\ Mutating(Coming(c)) => code \in {InvalidArgs, Failed}
  BY <1>2 DEF EndsAtOnce, Mutating, Mutators
<1>4. PICK r : r = [b EXCEPT !.exit = code] OBVIOUS
<1>5. /\ DOMAIN b = Fields /\ b.at = "idle" /\ b.n = call[c].n + 1 /\ b.n \in 1..Len(Calls(c))
      /\ b.load = call[c].load /\ b.done = 0 /\ b.told.kind = "none" /\ b.reply.kind = "none"
      /\ Calls(c)[b.n] = Coming(c) /\ call[c].at = "idle"
  BY <1>1, <1>2, BegunParts
<1>6. /\ DOMAIN r = Fields /\ r.at = "idle" /\ r.n = b.n /\ r.load = b.load /\ r.done = 0
      /\ r.told.kind = "none" /\ r.reply = b.reply /\ r.exit = code
  BY <1>4, <1>5 DEF Fields, Fresh
<1>7. Right(c, r)
  <2>1. Mutating(Coming(c)) => Truthful(Coming(c), r)
    BY <1>3, <1>6 DEF Truthful, Success, InvalidArgs, Failed
  <2>2. c # Script => call[c].load = Unset BY CallParts DEF Right
  <2> QED BY <1>5, <1>6, <2>1, <2>2 DEF Right, Following
<1>8. LoadKept BY LoadUntouched DEF EndsAtOnce
<1> QED BY <1>3, <1>4, <1>5, <1>6, <1>7, <1>8, OneMoves DEF Owing

\* A request goes out.
LEMMA SendsKeeps ==
  ASSUME CliInv, plan' = plan, NEW c \in Callers, Sends(c)
  PROVE  CliInv'
<1>1. Starting(c) BY DEF Sends
<1>2. PICK b : b = Begun(c) OBVIOUS
<1>3. PICK command : command = CommandOf(Coming(c)) OBVIOUS
<1>4. PICK r : r = [b EXCEPT !.at = "sent", !.command = command] OBVIOUS
<1>5. call' = [call EXCEPT ![c] = r] BY <1>2, <1>3, <1>4 DEF Sends
<1>6. /\ DOMAIN b = Fields /\ b.at = "idle" /\ b.n = call[c].n + 1 /\ b.n \in 1..Len(Calls(c))
      /\ b.load = call[c].load /\ b.done = 0 /\ b.told.kind = "none" /\ b.reply.kind = "none"
      /\ Calls(c)[b.n] = Coming(c) /\ call[c].at = "idle"
  BY <1>1, <1>2, BegunParts
<1>7. /\ DOMAIN r = Fields /\ r.at = "sent" /\ r.n = b.n /\ r.load = b.load /\ r.done = 0
      /\ r.told.kind = "none" /\ r.command = command
  BY <1>4, <1>6 DEF Fields, Fresh
<1>8. Right(c, r)
  <2>1. Truthful(Coming(c), r) BY <1>3, <1>7 DEF Truthful
  <2>2. c # Script => call[c].load = Unset BY CallParts DEF Right
  <2> QED BY <1>6, <1>7, <2>1, <2>2 DEF Right, Following
<1>9. LoadKept BY LoadUntouched DEF Sends
<1> QED BY <1>5, <1>6, <1>7, <1>8, <1>9, OneMoves DEF Owing

\* No daemon is there to do anything.
LEMMA CannotSendKeeps ==
  ASSUME CliInv, plan' = plan, NEW c \in Callers, CannotSend(c)
  PROVE  CliInv'
<1>1. Starting(c) BY DEF CannotSend
<1>2. PICK b : b = Begun(c) OBVIOUS
<1>3. PICK reply : reply = Err(IF daemon.up THEN "io" ELSE "no_daemon") OBVIOUS
<1>4. PICK r : r = [b EXCEPT !.at = "answered", !.reply = reply] OBVIOUS
<1>5. call' = [call EXCEPT ![c] = r] BY <1>2, <1>3, <1>4 DEF CannotSend
<1>6. /\ DOMAIN b = Fields /\ b.at = "idle" /\ b.n = call[c].n + 1 /\ b.n \in 1..Len(Calls(c))
      /\ b.load = call[c].load /\ b.done = 0 /\ b.told.kind = "none" /\ b.reply.kind = "none"
      /\ Calls(c)[b.n] = Coming(c) /\ call[c].at = "idle"
  BY <1>1, <1>2, BegunParts
<1>7. /\ DOMAIN r = Fields /\ r.at = "answered" /\ r.n = b.n /\ r.load = b.load /\ r.done = 0
      /\ r.told.kind = "none" /\ r.reply = reply
  BY <1>4, <1>6 DEF Fields, Fresh
<1>8. reply.kind \in Unreachables BY <1>3 DEF Err, Unreachables
<1>9. Right(c, r)
  <2>1. Truthful(Coming(c), r) BY <1>7, <1>8 DEF Truthful
  <2>2. c # Script => call[c].load = Unset BY CallParts DEF Right
  <2> QED BY <1>6, <1>7, <2>1, <2>2 DEF Right, Following
<1>10. LoadKept BY LoadUntouched DEF CannotSend
<1> QED BY <1>5, <1>6, <1>7, <1>9, <1>10, OneMoves DEF Owing

\* proxy and logs change nothing the daemon has.
LEMMA StartsElseKeeps ==
  ASSUME CliInv, plan' = plan, NEW c \in Callers, StartsSettings(c) \/ StartsLogs(c)
  PROVE  CliInv'
<1>1. Starting(c) BY DEF StartsSettings, StartsLogs
<1>2. PICK b : b = Begun(c) OBVIOUS
<1>3. /\ DOMAIN b = Fields /\ b.at = "idle" /\ b.n = call[c].n + 1 /\ b.n \in 1..Len(Calls(c))
      /\ b.load = call[c].load /\ b.done = 0 /\ b.told.kind = "none" /\ b.reply.kind = "none"
      /\ Calls(c)[b.n] = Coming(c) /\ call[c].at = "idle"
  BY <1>1, <1>2, BegunParts
<1>4. PICK r : /\ call' = [call EXCEPT ![c] = r]
               /\ DOMAIN r = Fields /\ r.n = b.n /\ r.load = b.load /\ r.told.kind = "none"
               /\ r.at # "sent" /\ r.at # "answered"
  <2>1. CASE StartsSettings(c)
    <3>1. PICK r : /\ call' = [call EXCEPT ![c] = r]
                   /\ \/ r = [b EXCEPT !.at = "reading"]
                      \/ r = [b EXCEPT !.at = "writing", !.queue = Disabling]
      BY <1>2, <2>1 DEF StartsSettings
    <3>2. /\ DOMAIN r = Fields /\ r.n = b.n /\ r.load = b.load /\ r.told = b.told
          /\ r.at \in {"reading", "writing"}
      BY <1>3, <3>1 DEF Fields, Fresh
    <3> QED BY <1>3, <3>1, <3>2
  <2>2. CASE StartsLogs(c)
    <3>1. PICK at, exit : at = (IF reader'.at = "off" THEN "idle" ELSE "logging") /\ exit = reader'.exit
      OBVIOUS
    <3>2. PICK r : call' = [call EXCEPT ![c] = r] /\ r = [b EXCEPT !.at = at, !.exit = exit]
      BY <1>2, <2>2, <3>1 DEF StartsLogs
    <3>3. /\ DOMAIN r = Fields /\ r.n = b.n /\ r.load = b.load /\ r.told = b.told
          /\ r.at \in {"idle", "logging"}
      BY <1>3, <3>1, <3>2 DEF Fields, Fresh
    <3> QED BY <1>3, <3>2, <3>3
  <2> QED BY <2>1, <2>2
<1>5. ~Mutating(Coming(c)) BY DEF StartsSettings, StartsLogs, Mutating, Mutators
<1>6. Right(c, r)
  <2>1. c # Script => call[c].load = Unset BY CallParts DEF Right
  <2> QED BY <1>3, <1>4, <1>5, <2>1 DEF Right, Following
<1>7. LoadKept BY LoadUntouched DEF StartsSettings, StartsLogs
<1> QED BY <1>3, <1>4, <1>6, <1>7, OneMoves DEF Owing

\* A request that is handled: what the caller is then.
LEMMA HandledParts ==
  ASSUME CliInv, NEW c \in Callers, call[c].at = "sent"
  PROVE  /\ DOMAIN call[c] = Fields /\ call[c].n \in 0..Len(Calls(c))
         /\ call[c].n > 0 /\ Mutating(Argv(c)) => call[c].done = 0
         /\ call[c].n > 0 /\ Mutating(Argv(c)) /\ call[c].told.kind # "refused"
              => call[c].command = CommandOf(Argv(c))
         /\ call[c].told.kind = "refused" => call[c].command = UnreadableUpstream
         /\ c # Script => call[c].load = Unset /\ call[c].told.kind # "refused"
BY CallParts DEF Right, Truthful, Following, Argv

\* The invocation with an answer to it.
Answered(c, r, reply) ==
  /\ DOMAIN r = Fields /\ r.at = "answered" /\ r.n = call[c].n /\ r.load = call[c].load
  /\ r.told = call[c].told /\ r.reply = reply

\* An answer.
LEMMA GetsParts ==
  ASSUME CliInv, NEW c \in Callers, NEW reply, NEW new, new = Gets(c, reply)
  PROVE  \E r : new = [call EXCEPT ![c] = r] /\ Answered(c, r, reply) /\ r.done = call[c].done
<1>1. DOMAIN call = Callers /\ DOMAIN call[c] = Fields BY CallParts DEF CliInv
<1>2. PICK r : r = [call[c] EXCEPT !.at = "answered", !.reply = reply] OBVIOUS
<1>3. new = [call EXCEPT ![c] = r] BY <1>1, <1>2 DEF Gets
<1>4. Answered(c, r, reply) /\ r.done = call[c].done BY <1>1, <1>2 DEF Answered, Fields, Fresh
<1> QED BY <1>3, <1>4

\* The answer to a command that was taken.
Taken(c, reply) == [Gets(c, reply) EXCEPT ![c].done = @ + 1]

\* An answer to what was done.
LEMMA TakenParts ==
  ASSUME CliInv, NEW c \in Callers, NEW reply
  PROVE  \E r : Taken(c, reply) = [call EXCEPT ![c] = r] /\ Answered(c, r, reply) /\ r.done = call[c].done + 1
<1>1. DOMAIN call = Callers /\ DOMAIN call[c] = Fields BY CallParts DEF CliInv
<1>2. PICK q : Gets(c, reply) = [call EXCEPT ![c] = q] /\ Answered(c, q, reply) /\ q.done = call[c].done
  BY GetsParts
<1>3. PICK r : r = [q EXCEPT !.done = @ + 1] OBVIOUS
<1>4. Taken(c, reply) = [call EXCEPT ![c] = r] BY <1>1, <1>2, <1>3 DEF Taken
<1>5. Answered(c, r, reply) /\ r.done = call[c].done + 1
  BY <1>2, <1>3 DEF Answered, Fields, Fresh
<1> QED BY <1>4, <1>5

\* An answer to a request that tells whether it was done.
LEMMA AnswerKeeps ==
  ASSUME CliInv, plan' = plan, NEW c \in Callers, call[c].at = "sent", LoadKept,
         NEW reply, NEW r, call' = [call EXCEPT ![c] = r], Answered(c, r, reply),
         call[c].n > 0 /\ Mutating(Argv(c)) =>
           \/ reply.kind = "ok" /\ r.done = 1 /\ call[c].told.kind # "refused"
           \/ reply.kind \in ErrKinds \cup Unreachables /\ r.done = 0,
         Loading /\ c = Script /\ call[c].told.kind = "refused" => daemon'.load.failed
  PROVE  CliInv'
<1>1. DOMAIN call[c] = Fields /\ call[c].n \in 0..Len(Calls(c))
      /\ (c # Script => call[c].load = Unset /\ call[c].told.kind # "refused")
  BY HandledParts
<1>2. /\ DOMAIN r = Fields /\ r.at = "answered" /\ r.n = call[c].n /\ r.load = call[c].load
      /\ r.told = call[c].told /\ r.reply = reply
  BY DEF Answered
<1>3. Right(c, r)
  <2>1. r.n > 0 /\ Mutating(Argv(c)) => Truthful(Argv(c), r) BY <1>2 DEF Truthful
  <2> QED BY <1>1, <1>2, <2>1 DEF Right, Following, Argv
<1> QED BY <1>2, <1>3, OneMoves DEF Owing

\* No daemon reads the follow-up of a refused list.
LEMMA UnreadIsInvalid == \A config : Conf!Invalid(config, Read(UnreadableUpstream))
<1>1. ~ReadableUpstreams(<<[socket |-> "unread"]>>) BY DEF ReadableUpstreams
<1>2. Read(UnreadableUpstream) = [op |-> "set_upstreams", arg |-> Bad]
  BY <1>1 DEF Read, UnreadableUpstream
<1> QED BY <1>2 DEF Conf!Invalid

\* The commands that change something.
LEMMA MutatorOps ==
  ASSUME NEW argv, Mutating(argv)
  PROVE  CommandOf(argv).op \in {"add_rule", "set_upstream", "set_upstreams", "set_listen",
                                 "add_forward", "off", "reload"}
BY DEF Mutating, Mutators, CommandOf, Upstreams

\* A command is done once, and answered by what became of it.
LEMMA MutatesKeeps ==
  ASSUME CliInv, plan' = plan, NEW c \in Callers, Mutates(c)
  PROVE  CliInv'
<1>1. call[c].at = "sent" BY DEF Mutates, Handling
<1>2. PICK ok : ok = [kind |-> "ok"] OBVIOUS
<1>3. PICK command, target, config, invalid :
        /\ command = Read(call[c].command) /\ target = Target(call[c].load)
        /\ config = IF target = "staged" THEN daemon.load.staged ELSE daemon.config
        /\ invalid = Conf!Invalid(config, command)
  OBVIOUS
<1>4. DaemonShape /\ Refusals BY DEF CliInv
<1>5. call[c].n > 0 /\ Mutating(Argv(c)) => call[c].done = 0 BY <1>1, HandledParts
<1>6. call[c].told.kind = "refused" => invalid /\ c = Script
  BY <1>1, <1>3, HandledParts, UnreadIsInvalid
<1>7. Loading /\ c = Script => target = "staged" BY <1>3, <1>4 DEF Refusals, Target
<1>8. CASE /\ target = "refused"
           /\ call' = Gets(c, Err("load_in_progress"))
           /\ UNCHANGED daemon
  <2>1. PICK reply : reply = Err("load_in_progress") OBVIOUS
  <2>2. PICK r : call' = [call EXCEPT ![c] = r] /\ Answered(c, r, reply) /\ r.done = call[c].done
    BY <1>8, <2>1, GetsParts
  <2>3. reply.kind \in ErrKinds BY <2>1 DEF Err, ErrKinds
  <2>4. LoadKept BY <1>8, LoadUntouched
  <2>5. ~(Loading /\ c = Script) BY <1>7, <1>8
  <2> QED BY <1>1, <1>5, <2>2, <2>3, <2>4, <2>5, AnswerKeeps
<1>9. CASE /\ target # "refused" /\ invalid
           /\ call' = Gets(c, Err("invalid_args"))
           /\ daemon' = IF target # "staged" THEN daemon
                        ELSE [(IF command.op = "set_upstreams" THEN Refusing(c) ELSE daemon)
                                EXCEPT !.load.failed = TRUE]
  <2>1. PICK reply : reply = Err("invalid_args") OBVIOUS
  <2>2. PICK r : call' = [call EXCEPT ![c] = r] /\ Answered(c, r, reply) /\ r.done = call[c].done
    BY <1>9, <2>1, GetsParts
  <2>3. reply.kind \in ErrKinds BY <2>1 DEF Err, ErrKinds
  <2>4. LoadKept /\ (target = "staged" => daemon'.load.failed)
    <3>1. CASE target = "staged"
      <4>1. PICK counted : /\ counted = daemon \/ counted = [daemon EXCEPT !.load.refused = @ + 1]
                           /\ daemon' = [counted EXCEPT !.load.failed = TRUE]
        BY <1>9, <3>1 DEF Refusing
      <4>2. DaemonShape' /\ daemon'.load.failed /\ daemon'.load.id = daemon.load.id
            /\ daemon'.load.caller = daemon.load.caller
        BY <1>4, <4>1 DEF DaemonShape, LoadFields
      <4> QED BY <4>2 DEF LoadKept, LoadGoesOn
    <3>2. CASE target # "staged" BY <1>9, <3>2, LoadUntouched
    <3> QED BY <3>1, <3>2
  <2> QED BY <1>1, <1>5, <1>7, <2>2, <2>3, <2>4, AnswerKeeps
<1>10. CASE /\ target \in {"staged", "live"} /\ ~invalid
            /\ call' = [Gets(c, ok) EXCEPT ![c].done = @ + 1]
            /\ \/ daemon' = [daemon EXCEPT !.load.staged = Conf!Applied(@, command)]
               \/ daemon' = [daemon EXCEPT !.config = Conf!Applied(@, command)]
  <2>1. PICK r : call' = [call EXCEPT ![c] = r] /\ Answered(c, r, ok) /\ r.done = call[c].done + 1
    <3>1. call' = Taken(c, ok) BY <1>10 DEF Taken
    <3> QED BY <3>1, TakenParts
  <2>2. PICK new : \/ daemon' = [daemon EXCEPT !.load.staged = new]
                   \/ daemon' = [daemon EXCEPT !.config = new]
    BY <1>10
  <2>3. LoadKept BY <1>4, <2>2 DEF LoadKept, LoadGoesOn, DaemonShape, LoadFields
  <2>4. ok.kind = "ok" BY <1>2
  <2>5. call[c].told.kind # "refused" BY <1>6, <1>10
  <2>6. call[c].n > 0 /\ Mutating(Argv(c)) => r.done = 1 BY <1>5, <2>1
  <2> QED BY <1>1, <2>1, <2>3, <2>4, <2>5, <2>6, AnswerKeeps
<1> QED BY <1>2, <1>3, <1>8, <1>9, <1>10 DEF Mutates

\* A line that cannot be read is not done.
LEMMA UnparsedKeeps ==
  ASSUME CliInv, plan' = plan, NEW c \in Callers, Unparsed(c)
  PROVE  CliInv'
<1>1. call[c].at = "sent" BY DEF Unparsed, Handling
<1>2. call[c].told.kind # "refused" BY <1>1, HandledParts DEF Unparsed, Handling, UnreadableUpstream
<1>3. call[c].n > 0 /\ Mutating(Argv(c)) => call[c].done = 0 BY <1>1, HandledParts
<1>4. PICK reply : /\ call' = Gets(c, reply) /\ reply \in {Err("invalid_args"), Err("io")}
                   /\ \/ UNCHANGED daemon
                      \/ /\ call[c].command.op = "set_upstreams" /\ daemon' = Refusing(c)
                         /\ reply = Err("invalid_args")
  BY DEF Unparsed
<1>5. PICK r : r = [call[c] EXCEPT !.at = "answered", !.reply = reply] OBVIOUS
<1>6. /\ call' = [call EXCEPT ![c] = r] /\ Answered(c, r, reply) /\ r.done = call[c].done
      /\ r.command = call[c].command
  BY <1>4, <1>5, CallParts DEF Gets, CliInv, Answered, Fields, Fresh
<1>7. reply.kind \in ErrKinds \cup Unreachables BY <1>4 DEF Err, ErrKinds, Unreachables
<1>8. CASE UNCHANGED daemon
  BY <1>1, <1>2, <1>3, <1>6, <1>7, <1>8, LoadUntouched, AnswerKeeps
<1>9. CASE ~UNCHANGED daemon
  <2>1. /\ call[c].command.op = "set_upstreams" /\ reply = Err("invalid_args")
        /\ Loading /\ daemon.load.id = call[c].load
        /\ daemon' = [daemon EXCEPT !.load.refused = @ + 1]
    BY <1>4, <1>9 DEF Refusing
  <2>2. reply.kind = "invalid_args" BY <2>1 DEF Err
  <2>3. ~PlanOf(plan).fallbacks BY <2>1 DEF Unparsed, Parsed, Long
  <2>4. DaemonShape /\ Refusals BY DEF CliInv
  <2>5. Right(c, call[c]) BY CallParts
  <2>6. c = Script /\ call[c].load # Unset BY <2>1, <2>4, <2>5, CliAssumption DEF Right, DaemonShape
  <2>7. PICK old, new : old = daemon.load /\ new = daemon'.load OBVIOUS
  <2>8. /\ new = [old EXCEPT !.refused = @ + 1] /\ DOMAIN old = LoadFields
        /\ old.refused \in Nat /\ old.lost \in Nat
    BY <2>1, <2>4, <2>7 DEF DaemonShape
  <2>9. new.failed = old.failed /\ new.refused = old.refused + 1 /\ new.lost = old.lost
    BY <2>8 DEF LoadFields
  <2>10. LoadGoesOn BY <2>1, <2>4 DEF LoadGoesOn, DaemonShape, LoadFields
  <2>11. ~Owing(call[c]) BY <1>1, <1>2 DEF Owing
  <2>12. Owing(r) BY <1>6, <2>1, <2>2, <2>6 DEF Owing, Answered
  <2>13. PICK owed, owing : owed = Owing(call[c]) /\ owing = Owing(r) OBVIOUS
  <2>14. Balanced(new, owing)
    <3>1. Balanced(old, owed) BY <2>1, <2>4, <2>6, <2>7, <2>13 DEF Refusals
    <3>2. ~owed /\ owing BY <2>11, <2>12, <2>13
    <3> QED BY <2>3, <2>8, <2>9, <3>1, <3>2 DEF Balanced
  <2>15. Right(c, r)
    <3>1. r.n > 0 /\ Mutating(Argv(c)) => Truthful(Argv(c), r)
      BY <1>2, <1>3, <1>6, <1>7 DEF Truthful, Answered
    <3> QED BY <1>2, <1>6, <2>5, <3>1 DEF Right, Following, Argv, Answered
  <2> QED BY <1>1, <1>6, <2>6, <2>7, <2>10, <2>13, <2>14, <2>15, OneBalances DEF Answered
<1> QED BY <1>8, <1>9

\* What cannot be bound is not done.
LEMMA CannotBindKeeps ==
  ASSUME CliInv, plan' = plan, NEW c \in Callers, CannotBind(c)
  PROVE  CliInv'
<1>1. call[c].at = "sent" BY DEF CannotBind, Handling
<1>2. call[c].told.kind # "refused" BY <1>1, HandledParts DEF CannotBind, Handling, UnreadableUpstream
<1>3. call[c].n > 0 /\ Mutating(Argv(c)) => call[c].done = 0 BY <1>1, HandledParts
<1>4. PICK reply : reply = Err("internal") OBVIOUS
<1>5. PICK r : call' = [call EXCEPT ![c] = r] /\ Answered(c, r, reply) /\ r.done = call[c].done
  BY <1>4, GetsParts DEF CannotBind
<1>6. reply.kind \in ErrKinds BY <1>4 DEF Err, ErrKinds
<1>7. LoadKept BY LoadUntouched DEF CannotBind
<1> QED BY <1>1, <1>2, <1>3, <1>5, <1>6, <1>7, AnswerKeeps

\* off, and its refusal.
LEMMA TurnsOffKeeps ==
  ASSUME CliInv, plan' = plan, NEW c \in Callers, TurnsOff(c)
  PROVE  CliInv'
<1>1. call[c].at = "sent" BY DEF TurnsOff, Handling
<1>2. call[c].told.kind # "refused" BY <1>1, HandledParts DEF TurnsOff, Handling, UnreadableUpstream
<1>3. call[c].n > 0 /\ Mutating(Argv(c)) => call[c].done = 0 BY <1>1, HandledParts
<1>4. DaemonShape /\ Refusals BY DEF CliInv
<1>5. CASE /\ daemon' = [daemon EXCEPT !.config.rules = <<>>]
           /\ call' = [Gets(c, [kind |-> "ok"]) EXCEPT ![c].done = @ + 1]
  <2>0. PICK ok : ok = [kind |-> "ok"] OBVIOUS
  <2>1. ok = [kind |-> "ok"] /\ ok.kind = "ok" BY <2>0
  <2>2. call' = Taken(c, ok) BY <1>5, <2>1 DEF Taken
  <2>3. PICK r : call' = [call EXCEPT ![c] = r] /\ Answered(c, r, ok) /\ r.done = call[c].done + 1
    BY <2>2, TakenParts
  <2>4. PICK config : daemon' = [daemon EXCEPT !.config = config] BY <1>5
  <2>5. LoadKept BY <1>4, <2>4 DEF LoadKept, LoadGoesOn, DaemonShape, LoadFields
  <2>6. call[c].n > 0 /\ Mutating(Argv(c)) => r.done = 1 BY <1>3, <2>3
  <2> QED BY <1>1, <1>2, <2>1, <2>3, <2>5, <2>6, AnswerKeeps
<1>6. CASE call' = Gets(c, Err("load_in_progress")) /\ UNCHANGED daemon
  <2>1. PICK reply : reply = Err("load_in_progress") OBVIOUS
  <2>2. PICK r : call' = [call EXCEPT ![c] = r] /\ Answered(c, r, reply) /\ r.done = call[c].done
    BY <1>6, <2>1, GetsParts
  <2>3. reply.kind \in ErrKinds BY <2>1 DEF Err, ErrKinds
  <2>4. LoadKept BY <1>6, LoadUntouched
  <2> QED BY <1>1, <1>2, <1>3, <2>2, <2>3, <2>4, AnswerKeeps
<1> QED BY <1>5, <1>6 DEF TurnsOff

\* What is asked changes nothing, and no mutating command asks it.
LEMMA AskingKeeps ==
  ASSUME CliInv, plan' = plan, NEW c \in Callers, Answers(c) \/ Captures(c) \/ Subscribes(c)
  PROVE  CliInv'
<1>1. /\ call[c].at = "sent"
      /\ call[c].command.op \in {"rules", "test", "status", "doctor", "tail"}
  BY DEF Answers, Captures, Subscribes, Handling
<1>2. call[c].told.kind # "refused" BY <1>1, HandledParts DEF UnreadableUpstream
<1>3. ~(call[c].n > 0 /\ Mutating(Argv(c))) BY <1>1, <1>2, HandledParts, MutatorOps
<1>4. DOMAIN call = Callers /\ DOMAIN call[c] = Fields BY CallParts DEF CliInv
<1>5. PICK r : /\ call' = [call EXCEPT ![c] = r]
               /\ DOMAIN r = Fields /\ r.n = call[c].n /\ r.load = call[c].load
               /\ r.told.kind # "refused"
  <2>1. CASE Answers(c)
    <3>1. PICK reply, rules :
            call' = [Gets(c, reply) EXCEPT ![c].told = [kind |-> "rules", rules |-> rules]]
      BY <2>1 DEF Answers
    <3>0. PICK told : told = [kind |-> "rules", rules |-> rules] OBVIOUS
    <3>2. told = [kind |-> "rules", rules |-> rules] /\ told.kind = "rules" BY <3>0
    <3>3. PICK q : Gets(c, reply) = [call EXCEPT ![c] = q] /\ Answered(c, q, reply)
      BY GetsParts
    <3>4. PICK r : r = [q EXCEPT !.told = told] OBVIOUS
    <3>5. call' = [call EXCEPT ![c] = r] BY <1>4, <3>1, <3>2, <3>3, <3>4
    <3>6. DOMAIN r = Fields /\ r.n = call[c].n /\ r.load = call[c].load /\ r.told = told
      BY <3>3, <3>4 DEF Answered, Fields, Fresh
    <3> QED BY <3>2, <3>5, <3>6
  <2>2. CASE Captures(c)
    <3>0. PICK told : told = Snapshot(daemon.config, daemon.last) OBVIOUS
    <3>1. told = Snapshot(daemon.config, daemon.last) /\ told.kind = "told" BY <3>0 DEF Snapshot
    <3>2. PICK r : r = [call[c] EXCEPT !.at = "reading", !.told = told] OBVIOUS
    <3>3. call' = [call EXCEPT ![c] = r] BY <1>4, <2>2, <3>1, <3>2 DEF Captures
    <3>4. DOMAIN r = Fields /\ r.n = call[c].n /\ r.load = call[c].load /\ r.told = told
      BY <1>4, <3>2 DEF Fields, Fresh
    <3> QED BY <3>1, <3>3, <3>4
  <2>3. CASE Subscribes(c)
    <3>1. PICK r : r = [call[c] EXCEPT !.at = "tailing"] OBVIOUS
    <3>2. call' = [call EXCEPT ![c] = r] BY <1>4, <2>3, <3>1 DEF Subscribes
    <3>3. DOMAIN r = Fields /\ r.n = call[c].n /\ r.load = call[c].load /\ r.told = call[c].told
      BY <1>4, <3>1 DEF Fields, Fresh
    <3> QED BY <1>2, <3>2, <3>3
  <2> QED BY <2>1, <2>2, <2>3
<1>6. Right(c, r) BY <1>3, <1>5, CallParts DEF Right, Following, Argv
<1>7. LoadKept BY LoadUntouched DEF Answers, Captures, Subscribes
<1> QED BY <1>1, <1>2, <1>5, <1>6, <1>7, OneMoves DEF Owing

\* A dial of a doctor ends.
LEMMA DialEndsKeeps ==
  ASSUME CliInv, plan' = plan, NEW c \in Callers, DialEnds(c)
  PROVE  CliInv'
<1>1. call[c].at = "dialling" BY DEF DialEnds
<1>2. Right(c, call[c]) /\ DOMAIN call = Callers /\ DOMAIN call[c] = Fields BY CallParts DEF CliInv
<1>3. PICK ended, reached : call' = [call EXCEPT ![c].ended = ended, ![c].reached = reached]
  BY DEF DialEnds
<1>4. PICK r : r = [call[c] EXCEPT !.ended = ended, !.reached = reached] OBVIOUS
<1>5. call' = [call EXCEPT ![c] = r] BY <1>2, <1>3, <1>4
<1>6. /\ DOMAIN r = Fields /\ r.at = "dialling" /\ r.n = call[c].n /\ r.load = call[c].load
      /\ r.told = call[c].told
  BY <1>1, <1>2, <1>4 DEF Fields, Fresh
<1>7. ~(call[c].n > 0 /\ Mutating(Argv(c))) /\ call[c].told.kind # "refused"
  BY <1>1, <1>2 DEF Right, Truthful, Following, Argv
<1>8. Right(c, r) BY <1>2, <1>6, <1>7 DEF Right, Following, Argv
<1>9. LoadKept BY LoadUntouched DEF DialEnds
<1> QED BY <1>1, <1>5, <1>6, <1>8, <1>9, OneMoves DEF Owing

\* The last step of a doctor.
LEMMA DialsUpstreamsKeeps ==
  ASSUME CliInv, plan' = plan, NEW c \in Callers, DialsUpstreams(c)
  PROVE  CliInv'
<1>1. call[c].at = "dialling" BY DEF DialsUpstreams
<1>2. PICK reply : call' = Gets(c, reply) BY DEF DialsUpstreams
<1>3. PICK r : call' = [call EXCEPT ![c] = r] /\ Answered(c, r, reply) BY <1>2, GetsParts
<1>4. Right(c, call[c]) BY CallParts
<1>5. ~(call[c].n > 0 /\ Mutating(Argv(c))) /\ call[c].told.kind # "refused"
  BY <1>1, <1>4 DEF Right, Truthful, Following, Argv
<1>6. Right(c, r) BY <1>3, <1>4, <1>5 DEF Right, Following, Answered, Argv
<1>7. LoadKept BY LoadUntouched DEF DialsUpstreams
<1> QED BY <1>1, <1>3, <1>5, <1>6, <1>7, OneMoves DEF Answered, Owing

\* A reload starts a run, or is refused.
LEMMA ReloadsKeeps ==
  ASSUME CliInv, plan' = plan, NEW c \in Callers, Reloads(c)
  PROVE  CliInv'
<1>1. call[c].at = "sent" BY DEF Reloads, Handling
<1>2. call[c].told.kind # "refused" BY <1>1, HandledParts DEF Reloads, Handling, UnreadableUpstream
<1>3. call[c].n > 0 /\ Mutating(Argv(c)) => call[c].done = 0 BY <1>1, HandledParts
<1>4. /\ DOMAIN call = Callers /\ (\A d \in Callers : Right(d, call[d]))
      /\ DaemonShape /\ Waiting /\ Refusals /\ PlanKept
  BY DEF CliInv
<1>5. CASE /\ call' = Gets(c, Err(IF Loading THEN "load_in_progress" ELSE "not_found"))
           /\ UNCHANGED daemon
  <2>1. PICK reply : reply = Err(IF Loading THEN "load_in_progress" ELSE "not_found") OBVIOUS
  <2>2. PICK r : call' = [call EXCEPT ![c] = r] /\ Answered(c, r, reply) /\ r.done = call[c].done
    BY <1>5, <2>1, GetsParts
  <2>3. reply.kind \in ErrKinds BY <2>1 DEF Err, ErrKinds
  <2>4. LoadKept BY <1>5, LoadUntouched
  <2> QED BY <1>1, <1>2, <1>3, <2>2, <2>3, <2>4, AnswerKeeps
<1>6. CASE /\ daemon' = [daemon EXCEPT !.issued = daemon.issued + 1,
                                       !.load = Started(daemon.issued + 1, c)]
           /\ call' = [call EXCEPT ![c].at = "held",
                                   ![Script] = [Fresh EXCEPT !.load = daemon.issued + 1]]
  <2>1. PICK id \in Nat : id = daemon.issued + 1 /\ id # 0 BY <1>4 DEF DaemonShape
  <2>2. PICK load : load = Started(id, c) OBVIOUS
  <2>3. /\ DOMAIN load = LoadFields /\ load.id = id /\ load.caller = c
        /\ load.refused = 0 /\ load.lost = 0
    BY <2>2 DEF Started, LoadFields
  <2>4. /\ DOMAIN daemon' = DOMAIN daemon /\ daemon'.issued = id /\ daemon'.load = load
    BY <1>4, <1>6, <2>1, <2>2 DEF DaemonShape
  <2>5. DaemonShape' BY <1>4, <2>1, <2>3, <2>4 DEF DaemonShape
  <2>6. PICK r : r = [call[c] EXCEPT !.at = "held"] OBVIOUS
  <2>7. PICK script : script = [Fresh EXCEPT !.load = id] OBVIOUS
  <2>8. /\ DOMAIN call' = Callers /\ call'[Script] = script /\ (c # Script => call'[c] = r)
        /\ \A d \in Callers : d # c /\ d # Script => call'[d] = call[d]
    BY <1>4, <1>6, <2>1, <2>6, <2>7, CliAssumption
  <2>9. /\ DOMAIN r = Fields /\ r.at = "held" /\ r.n = call[c].n /\ r.load = call[c].load
        /\ r.told = call[c].told /\ r.done = call[c].done
    BY <2>6, CallParts DEF Fields, Fresh
  <2>10. /\ DOMAIN script = Fields /\ script.n = 0 /\ script.at = "idle" /\ script.told.kind = "none"
         /\ script.load = id
    BY <2>7 DEF Fields, Fresh, NoReply
  <2>11. Right(c, r)
    <3>1. r.n > 0 /\ Mutating(Argv(c)) => Truthful(Argv(c), r) BY <1>2, <1>3, <2>9 DEF Truthful
    <3>2. Right(c, call[c]) BY <1>4
    <3> QED BY <1>2, <2>9, <3>1, <3>2 DEF Right, Following, Argv
  <2>12. Right(Script, script)
    <3>1. Len(Calls(Script)) \in Nat BY CallParts, CliAssumption
    <3> QED BY <2>10, <3>1 DEF Right, Following
  <2>13. ASSUME NEW d \in Callers, NEW q, Right(d, q) PROVE Right(d, q)'
    BY <2>13 DEF Right, Calls
  <2>14. \A d \in Callers : Right(d, call[d])'
    <3> TAKE d \in Callers
    <3>1. PICK q : q = call'[d] OBVIOUS
    <3>2. Right(d, q) BY <1>4, <2>8, <2>11, <2>12, <3>1
    <3>3. Right(d, q)' BY <2>13, <3>2
    <3> QED BY <3>1, <3>3
  <2>15. Waiting' BY <2>3, <2>4, <2>8, <2>9 DEF Waiting
  <2>16. Refusals' BY <2>3, <2>4, <2>8, <2>10 DEF Refusals, Balanced
  <2> QED BY <1>4, <2>5, <2>8, <2>14, <2>15, <2>16 DEF CliInv, PlanKept
<1> QED BY <1>5, <1>6 DEF Reloads
-----------------------------------------------------------------------------
(* Answers arrive *)

\* An invocation that is over.
LEMMA EndedParts ==
  ASSUME CliInv, NEW c \in Callers, NEW code
  PROVE  \E r : /\ Ended(c, code) = [call EXCEPT ![c] = r]
                /\ DOMAIN r = Fields /\ r.at = "idle" /\ r.n = call[c].n /\ r.load = call[c].load
                /\ r.told = call[c].told /\ r.reply = call[c].reply /\ r.done = call[c].done
                /\ r.exit = code
<1>1. DOMAIN call = Callers /\ DOMAIN call[c] = Fields BY CallParts DEF CliInv
<1>2. PICK r : r = [call[c] EXCEPT !.at = "idle", !.exit = code, !.queue = <<>>] OBVIOUS
<1>3. Ended(c, code) = [call EXCEPT ![c] = r] BY <1>1, <1>2 DEF Ended
<1>4. /\ DOMAIN r = Fields /\ r.at = "idle" /\ r.n = call[c].n /\ r.load = call[c].load
      /\ r.told = call[c].told /\ r.reply = call[c].reply /\ r.done = call[c].done
      /\ r.exit = code
  BY <1>1, <1>2 DEF Fields, Fresh
<1> QED BY <1>3, <1>4

\* The code of an answer is the code of what was done.
LEMMA CodeTells ==
  ASSUME NEW c \in Callers, call[c].n > 0, Mutating(Argv(c)), Truthful(Argv(c), call[c]),
         call[c].at = "answered", NEW code, code = CodeOf(c)
  PROVE  /\ code = Success => call[c].done = 1
         /\ code = InvalidArgs => call[c].done = 0
         /\ code = Failed /\ call[c].reply.kind # "malformed" => call[c].done = 0
<1>1. ~Doctoring(c) BY DEF Doctoring, Mutating, Mutators
<1>2. CASE call[c].told.kind = "refused"
  <2>1. PICK kind : kind = "invalid_args" OBVIOUS
  <2>2. code = ExitOfReply(kind) BY <1>1, <1>2, <2>1 DEF CodeOf, Err
  <2>3. kind \in ErrKinds BY <2>1 DEF ErrKinds
  <2>4. code = OfErr(kind) BY <2>2, <2>3 DEF ExitOfReply, ErrKinds, Unreachables
  <2>5. code = InvalidArgs BY <2>1, <2>4 DEF OfErr
  <2> QED BY <1>2, <2>5 DEF Truthful, InvalidArgs, Success
<1>3. CASE call[c].told.kind # "refused"
  <2>1. PICK kind : kind = call[c].reply.kind OBVIOUS
  <2>2. code = ExitOfReply(kind) BY <1>1, <1>3, <2>1 DEF CodeOf
  <2>3. CASE kind \in {"ok", "status"} /\ call[c].done = 1
    <3>1. code = Success BY <2>2, <2>3 DEF ExitOfReply, ErrKinds, Unreachables
    <3> QED BY <2>3, <3>1 DEF Success, InvalidArgs, Failed
  <2>4. CASE kind \in ErrKinds /\ call[c].done = 0
    <3>1. code = OfErr(kind) BY <2>2, <2>4 DEF ExitOfReply, ErrKinds, Unreachables
    <3>2. code # Success
      BY <2>4, <3>1 DEF OfErr, ErrKinds, Success, Missing, UpstreamDown, InvalidArgs, Failed
    <3> QED BY <2>4, <3>2
  <2>5. CASE kind \in Unreachables
    <3>1. code = OfUnreachable(kind) BY <2>2, <2>5 DEF ExitOfReply, ErrKinds, Unreachables
    <3> QED BY <2>1, <3>1 DEF OfUnreachable, Success, InvalidArgs, Failed, Missing
  <2> QED BY <2>1, <2>3, <2>4, <2>5 DEF Truthful
<1> QED BY <1>2, <1>3

\* The answer arrives.
LEMMA ReceivesKeeps ==
  ASSUME CliInv, plan' = plan, NEW c \in Callers, Receives(c)
  PROVE  CliInv'
<1>1. call[c].at = "answered" BY DEF Receives
<1>2. PICK code : code = CodeOf(c) OBVIOUS
<1>3. PICK r : /\ call' = [call EXCEPT ![c] = r]
               /\ DOMAIN r = Fields /\ r.at = "idle" /\ r.n = call[c].n /\ r.load = call[c].load
               /\ r.told = call[c].told /\ r.reply = call[c].reply /\ r.done = call[c].done
               /\ r.exit = code
  BY <1>2, EndedParts DEF Receives
<1>4. Right(c, call[c]) BY CallParts
<1>5. Right(c, r)
  <2>1. ASSUME r.n > 0, Mutating(Argv(c)) PROVE Truthful(Argv(c), r)
    <3>1. Truthful(Argv(c), call[c]) /\ call[c].n > 0 BY <1>3, <1>4, <2>1 DEF Right, Argv
    <3>2. /\ code = Success => call[c].done = 1
          /\ code = InvalidArgs => call[c].done = 0
          /\ code = Failed /\ call[c].reply.kind # "malformed" => call[c].done = 0
      BY <1>1, <1>2, <2>1, <3>1, CodeTells
    <3> QED BY <1>3, <3>1, <3>2 DEF Truthful
  <2> QED BY <1>3, <1>4, <2>1 DEF Right, Following, Argv
<1>6. LoadKept BY LoadUntouched DEF Receives
<1>7. ~Owing(call[c]) BY <1>1 DEF Owing, Receives, FailsItsLoad
<1> QED BY <1>1, <1>3, <1>5, <1>6, <1>7, OneMoves

\* A refused list is followed up, or the follow-up cannot be sent.
LEMMA FollowsUpKeeps ==
  ASSUME CliInv, plan' = plan, NEW c \in Callers, FollowsUp(c)
  PROVE  CliInv'
<1>1. call[c].at = "answered" /\ call[c].load # Unset /\ call[c].reply.kind = "invalid_args"
  BY DEF FollowsUp, FailsItsLoad
<1>2. Right(c, call[c]) /\ DOMAIN call = Callers /\ DOMAIN call[c] = Fields BY CallParts DEF CliInv
<1>3. c = Script BY <1>1, <1>2 DEF Right
<1>4. call[c].n > 0 /\ Mutating(Argv(c)) => call[c].done = 0
  <2>1. "invalid_args" \notin Unreachables /\ "invalid_args" \notin {"ok", "status"} BY DEF Unreachables
  <2> QED BY <1>1, <1>2, <2>1 DEF Right, Truthful, Argv
<1>5. DaemonShape /\ Refusals BY DEF CliInv
<1>8. Owing(call[c]) BY <1>1 DEF Owing, FollowsUp, FailsItsLoad
<1>9. Loading => Balanced(daemon.load, TRUE) BY <1>3, <1>5, <1>8 DEF Refusals
<1>6. CASE /\ UNCHANGED daemon
           /\ call' = [call EXCEPT ![c].at = "sent", ![c].command = UnreadableUpstream,
                                   ![c].told = [kind |-> "refused"]]
  <2>1. PICK told : told = [kind |-> "refused"] OBVIOUS
  <2>2. told.kind = "refused" BY <2>1
  <2>3. PICK r : r = [call[c] EXCEPT !.at = "sent", !.command = UnreadableUpstream, !.told = told]
    OBVIOUS
  <2>4. call' = [call EXCEPT ![c] = r] BY <1>2, <1>6, <2>1, <2>3
  <2>5. /\ DOMAIN r = Fields /\ r.at = "sent" /\ r.n = call[c].n /\ r.load = call[c].load
        /\ r.told = told /\ r.done = call[c].done /\ r.command = UnreadableUpstream
    BY <1>2, <2>3 DEF Fields, Fresh
  <2>6. Right(c, r)
    <3>1. r.n > 0 /\ Mutating(Argv(c)) => Truthful(Argv(c), r) BY <1>4, <2>2, <2>5 DEF Truthful
    <3> QED BY <1>2, <1>3, <2>5, <3>1 DEF Right, Following, Argv
  <2>7. Owing(r) BY <2>2, <2>5 DEF Owing
  <2>8. LoadGoesOn BY <1>6, LoadUntouched DEF LoadKept
  <2> QED BY <1>1, <1>3, <1>6, <1>9, <2>4, <2>5, <2>6, <2>7, <2>8, OneBalances
<1>7. CASE call' = Ended(c, InvalidArgs) /\ daemon' = Losing(c)
  <2>1. PICK code : code = InvalidArgs OBVIOUS
  <2>2. PICK r : /\ call' = [call EXCEPT ![c] = r]
                 /\ DOMAIN r = Fields /\ r.at = "idle" /\ r.n = call[c].n /\ r.load = call[c].load
                 /\ r.told = call[c].told /\ r.reply = call[c].reply /\ r.done = call[c].done
                 /\ r.exit = code
    BY <1>7, <2>1, EndedParts
  <2>3. Right(c, r)
    <3>1. r.n > 0 /\ Mutating(Argv(c)) => Truthful(Argv(c), r)
      BY <1>4, <2>1, <2>2 DEF Truthful, InvalidArgs, Success
    <3> QED BY <1>2, <1>3, <2>2, <3>1 DEF Right, Following, Argv
  <2>4. CASE Loading /\ daemon' = [daemon EXCEPT !.load.lost = @ + 1]
    <3>1. PICK old, new : old = daemon.load /\ new = daemon'.load OBVIOUS
    <3>2. /\ new = [old EXCEPT !.lost = @ + 1] /\ DOMAIN old = LoadFields
          /\ old.refused \in Nat /\ old.lost \in Nat
      BY <1>5, <2>4, <3>1 DEF DaemonShape
    <3>3. new.failed = old.failed /\ new.refused = old.refused /\ new.lost = old.lost + 1
      BY <3>2 DEF LoadFields
    <3>4. LoadGoesOn BY <1>5, <2>4 DEF LoadGoesOn, DaemonShape, LoadFields
    <3>5. Balanced(old, TRUE) BY <1>9, <2>4, <3>1
    <3>6. PICK owing : owing = Owing(r) OBVIOUS
    <3>7. Balanced(new, owing) BY <3>2, <3>3, <3>5 DEF Balanced
    <3> QED BY <1>1, <1>3, <2>2, <2>3, <3>1, <3>4, <3>6, <3>7, OneBalances
  <2>5. CASE UNCHANGED daemon /\ ~Loading
    <3>1. LoadGoesOn BY <2>5, LoadUntouched DEF LoadKept
    <3> QED BY <1>1, <2>2, <2>3, <2>5, <3>1, OneBalances
  <2> QED BY <1>3, <1>5, <1>7, <2>4, <2>5 DEF Losing, Refusals
<1> QED BY <1>6, <1>7 DEF FollowsUp

\* An invocation that is not of a mutating command goes on by itself.
LEMMA AloneKeeps ==
  ASSUME CliInv, plan' = plan, UNCHANGED daemon, NEW c \in Callers, NEW r, call' = [call EXCEPT ![c] = r],
         ~(call[c].n > 0 /\ Mutating(Argv(c))), call[c].at # "held",
         DOMAIN r = Fields, r.n = call[c].n, r.load = call[c].load, r.told = call[c].told,
         r.at # "sent", r.at \in {"idle", "answered", "writing"} \/ r.told.kind # "refused",
         r.at = "answered" => r.told.kind # "refused",
         ~Owing(call[c])
  PROVE  CliInv'
<1>1. Right(c, r) BY CallParts DEF Right, Following, Argv
<1>2. LoadKept BY LoadUntouched
<1> QED BY <1>1, <1>2, OneMoves

\* proxy on and off.
LEMMA SettingsKeep ==
  ASSUME CliInv, plan' = plan, NEW c \in Callers, Points(c) \/ WritesSetting(c)
  PROVE  CliInv'
<1>1. Right(c, call[c]) /\ DOMAIN call = Callers /\ DOMAIN call[c] = Fields BY CallParts DEF CliInv
<1>2. UNCHANGED daemon BY DEF Points, WritesSetting
<1>3. /\ ~(call[c].n > 0 /\ Mutating(Argv(c))) /\ call[c].at \in {"answered", "writing"}
      /\ ~Owing(call[c])
  <2>1. CASE Points(c) BY <2>1 DEF Points, ProxyOn, Mutating, Mutators, Owing
  <2>2. CASE WritesSetting(c) BY <1>1, <2>2 DEF WritesSetting, Right, Truthful, Argv, Owing
  <2> QED BY <2>1, <2>2
<1>4. PICK r : /\ call' = [call EXCEPT ![c] = r]
               /\ DOMAIN r = Fields /\ r.at \in {"idle", "writing"} /\ r.n = call[c].n /\ r.load = call[c].load
               /\ r.told = call[c].told
  <2>1. ASSUME NEW queue, call' = [call EXCEPT ![c].at = "writing", ![c].queue = queue]
        PROVE  \E r : /\ call' = [call EXCEPT ![c] = r]
                      /\ DOMAIN r = Fields /\ r.at \in {"idle", "writing"} /\ r.n = call[c].n
                      /\ r.load = call[c].load /\ r.told = call[c].told
    <3>1. PICK r : r = [call[c] EXCEPT !.at = "writing", !.queue = queue] OBVIOUS
    <3>2. call' = [call EXCEPT ![c] = r] BY <1>1, <2>1, <3>1
    <3>3. DOMAIN r = Fields /\ r.at = "writing" /\ r.n = call[c].n /\ r.load = call[c].load
          /\ r.told = call[c].told
      BY <1>1, <3>1 DEF Fields, Fresh
    <3> QED BY <3>2, <3>3
  <2>2. ASSUME NEW queue, call' = [call EXCEPT ![c].queue = queue], call[c].at = "writing"
        PROVE  \E r : /\ call' = [call EXCEPT ![c] = r]
                      /\ DOMAIN r = Fields /\ r.at \in {"idle", "writing"} /\ r.n = call[c].n
                      /\ r.load = call[c].load /\ r.told = call[c].told
    <3>1. PICK r : r = [call[c] EXCEPT !.queue = queue] OBVIOUS
    <3>2. call' = [call EXCEPT ![c] = r] BY <1>1, <2>2, <3>1
    <3>3. DOMAIN r = Fields /\ r.at = "writing" /\ r.n = call[c].n /\ r.load = call[c].load
          /\ r.told = call[c].told
      BY <1>1, <2>2, <3>1 DEF Fields, Fresh
    <3> QED BY <3>2, <3>3
  <2>3. ASSUME NEW code, call' = Ended(c, code)
        PROVE  \E r : /\ call' = [call EXCEPT ![c] = r]
                      /\ DOMAIN r = Fields /\ r.at \in {"idle", "writing"} /\ r.n = call[c].n
                      /\ r.load = call[c].load /\ r.told = call[c].told
    BY <2>3, EndedParts
  <2>4. CASE Points(c) BY <2>1, <2>4 DEF Points
  <2>5. CASE WritesSetting(c) BY <2>2, <2>3, <2>5 DEF WritesSetting
  <2> QED BY <2>4, <2>5
<1> QED BY <1>2, <1>3, <1>4, AloneKeeps

\* Nothing happens to an invocation or to the load.
LEMMA NothingMoves ==
  ASSUME CliInv, plan' = plan, UNCHANGED <<daemon, call>>
  PROVE  CliInv'
<1>1. ASSUME NEW d \in Callers, NEW q, Right(d, q) PROVE Right(d, q)'
  BY <1>1 DEF Right, Calls
<1>2. \A d \in Callers : Right(d, call[d])'
  <2> TAKE d \in Callers
  <2>1. PICK q : q = call[d] /\ Right(d, q) BY DEF CliInv
  <2>2. Right(d, q)' BY <1>1, <2>1
  <2> QED BY <2>1, <2>2
<1>3. Refusals'
  <2>1. PICK load, owing : load = daemon.load /\ owing = Owing(call[Script]) OBVIOUS
  <2>2. Loading => call[Script].load = load.id /\ Balanced(load, owing)
    BY <2>1 DEF CliInv, Refusals
  <2>3. load = daemon'.load /\ owing = Owing(call[Script])' /\ (Loading' <=> Loading)
    BY <2>1 DEF Owing, Loading
  <2>4. Balanced(load, owing) => Balanced(load, owing)' BY DEF Balanced
  <2> QED BY <2>2, <2>3, <2>4 DEF Refusals
<1> QED BY <1>2, <1>3 DEF CliInv, PlanKept, DaemonShape, Waiting, Loading

\* logs goes on.
LEMMA ReadsLogsKeeps ==
  ASSUME CliInv, plan' = plan, NEW c \in Callers, ReadsLogs(c)
  PROVE  CliInv'
<1>1. Right(c, call[c]) BY CallParts
<1>2. UNCHANGED daemon /\ call[c].at = "logging" BY DEF ReadsLogs
<1>3. ~(call[c].n > 0 /\ Mutating(Argv(c))) BY <1>1, <1>2 DEF Right, Truthful, Argv
<1>4. CASE UNCHANGED call BY <1>2, <1>4, NothingMoves
<1>5. ASSUME NEW code, call' = Ended(c, code) PROVE CliInv'
  <2>1. PICK r : /\ call' = [call EXCEPT ![c] = r]
                 /\ DOMAIN r = Fields /\ r.at = "idle" /\ r.n = call[c].n /\ r.load = call[c].load
                 /\ r.told = call[c].told
    BY <1>5, EndedParts
  <2> QED BY <1>2, <1>3, <2>1, AloneKeeps DEF Owing
<1> QED BY <1>4, <1>5 DEF ReadsLogs

\* The settings as they were read: what the invocation that wants them is then.
Read3(c, r) ==
  /\ DOMAIN r = Fields /\ r.n = call[c].n /\ r.load = call[c].load /\ r.told = call[c].told
  /\ r.done = call[c].done
  /\ \/ r.at = "answered" /\ r.reply.kind = "status"
     \/ r.at \in {"idle", "dialling"} /\ ~(call[c].n > 0 /\ Mutating(Argv(c)))

\* The settings have been read.
LEMMA ReportedParts ==
  ASSUME CliInv, NEW c \in Callers, NEW read
  PROVE  \E r : Reported(c, read) = [call EXCEPT ![c] = r] /\ Read3(c, r)
<1>1. DOMAIN call = Callers /\ DOMAIN call[c] = Fields BY CallParts DEF CliInv
<1>2. CASE Local(c)
  <2>1. PICK code : code = IF Len(read) = 3 THEN Success ELSE Failed OBVIOUS
  <2>2. PICK r : r = [call[c] EXCEPT !.at = "idle", !.read = read, !.exit = code] OBVIOUS
  <2>0. ~Doctoring(c) BY <1>2 DEF Local, Doctoring
  <2>3. Reported(c, read) = [call EXCEPT ![c].at = "idle", ![c].read = read, ![c].exit = code]
    BY <1>2, <2>0, <2>1 DEF Reported
  <2>6. Reported(c, read) = [call EXCEPT ![c] = r] BY <1>1, <2>2, <2>3
  <2>4. ~Mutating(Argv(c)) BY <1>2 DEF Local, Mutating, Mutators
  <2>5. Read3(c, r) BY <1>1, <2>2, <2>4 DEF Read3, Fields, Fresh
  <2> QED BY <2>5, <2>6
<1>3. CASE ~Local(c) /\ Doctoring(c)
  <2>1. PICK r : r = [call[c] EXCEPT !.at = "dialling", !.read = read] OBVIOUS
  <2>2. Reported(c, read) = [call EXCEPT ![c] = r] BY <1>1, <1>3, <2>1 DEF Reported
  <2>3. ~Mutating(Argv(c)) BY <1>3 DEF Doctoring, Mutating, Mutators
  <2>4. Read3(c, r) BY <1>1, <2>1, <2>3 DEF Read3, Fields, Fresh
  <2> QED BY <2>2, <2>4
<1>4. CASE ~Local(c) /\ ~Doctoring(c)
  <2>1. PICK reply : reply = [kind |-> "status", listen |-> call[c].told.listen] OBVIOUS
  <2>2. reply.kind = "status" BY <2>1
  <2>3. PICK found : found = IF Len(read) = 3 THEN read ELSE <<Nowhere, Nowhere, Nowhere>> OBVIOUS
  <2>4. PICK q : Gets(c, reply) = [call EXCEPT ![c] = q] /\ Answered(c, q, reply) /\ q.done = call[c].done
    BY GetsParts
  <2>5. PICK r : r = [q EXCEPT !.read = found] OBVIOUS
  <2>6. Reported(c, read) = [Gets(c, reply) EXCEPT ![c].read = found]
    BY <1>4, <2>1, <2>3 DEF Reported
  <2>7. Reported(c, read) = [call EXCEPT ![c] = r] BY <1>1, <2>4, <2>5, <2>6
  <2>8. Read3(c, r) BY <2>2, <2>4, <2>5 DEF Read3, Answered, Fields, Fresh
  <2> QED BY <2>7, <2>8
<1> QED BY <1>2, <1>3, <1>4

\* One of the settings is read.
LEMMA ReadsSettingKeeps ==
  ASSUME CliInv, plan' = plan, NEW c \in Callers, ReadsSetting(c)
  PROVE  CliInv'
<1>1. Right(c, call[c]) /\ DOMAIN call = Callers /\ DOMAIN call[c] = Fields BY CallParts DEF CliInv
<1>2. UNCHANGED daemon /\ call[c].at = "reading" BY DEF ReadsSetting
<1>3. call[c].told.kind # "refused" BY <1>1, <1>2 DEF Right, Following
<1>4. call[c].n > 0 /\ Mutating(Argv(c)) => call[c].done = 1 BY <1>1, <1>2 DEF Right, Truthful, Argv
<1>5. LoadKept BY <1>2, LoadUntouched
<1>6. ASSUME NEW r, call' = [call EXCEPT ![c] = r], Read3(c, r) PROVE CliInv'
  <2>1. Right(c, r)
    <3>1. r.n > 0 /\ Mutating(Argv(c)) => Truthful(Argv(c), r) BY <1>3, <1>4, <1>6 DEF Truthful, Read3
    <3> QED BY <1>1, <1>3, <1>6, <3>1 DEF Right, Following, Argv, Read3
  <2>2. r.load = call[c].load /\ r.told.kind # "refused" BY <1>3, <1>6 DEF Read3
  <2> QED BY <1>2, <1>5, <1>6, <2>1, <2>2, OneMoves DEF Owing
<1>7. ASSUME NEW read, call' = Reported(c, read) PROVE CliInv'
  BY <1>6, <1>7, ReportedParts
<1>8. ASSUME NEW read, call' = [call EXCEPT ![c].read = read] PROVE CliInv'
  <2>1. PICK r : r = [call[c] EXCEPT !.read = read] OBVIOUS
  <2>2. call' = [call EXCEPT ![c] = r] BY <1>1, <1>8, <2>1
  <2>3. /\ DOMAIN r = Fields /\ r.n = call[c].n /\ r.load = call[c].load /\ r.told = call[c].told
        /\ r.done = call[c].done /\ r.at = "reading"
    BY <1>1, <1>2, <2>1 DEF Fields, Fresh
  <2>4. Right(c, r)
    <3>1. r.n > 0 /\ Mutating(Argv(c)) => Truthful(Argv(c), r) BY <1>3, <1>4, <2>3 DEF Truthful
    <3> QED BY <1>1, <1>3, <2>3, <3>1 DEF Right, Following, Argv
  <2> QED BY <1>2, <1>3, <1>5, <2>2, <2>3, <2>4, OneMoves DEF Owing
<1>9. CASE call' = [Reported(c, call[c].read) EXCEPT ![c].broken = TRUE]
  <2>1. PICK read : read = call[c].read OBVIOUS
  <2>2. PICK q : Reported(c, read) = [call EXCEPT ![c] = q] /\ Read3(c, q) BY ReportedParts
  <2>3. PICK r : r = [q EXCEPT !.broken = TRUE] OBVIOUS
  <2>4. call' = [call EXCEPT ![c] = r] BY <1>1, <1>9, <2>1, <2>2, <2>3
  <2>5. Read3(c, r) BY <2>2, <2>3 DEF Read3, Fields, Fresh
  <2> QED BY <1>6, <2>4, <2>5
<1> QED BY <1>7, <1>8, <1>9 DEF ReadsSetting
-----------------------------------------------------------------------------
(* Runs end, daemons die *)

\* The invocations after a step of the daemon that ends its load, if there was
\* one: each is right, the script has none.
LEMMA LoadEnds ==
  ASSUME CliInv, plan' = plan, DaemonShape', ~Loading', DOMAIN call' = Callers,
         \A c \in Callers : \E r : r = call'[c] /\ Right(c, r)
  PROVE  CliInv'
<1>1. ASSUME NEW d \in Callers, NEW q, Right(d, q) PROVE Right(d, q)'
  BY <1>1 DEF Right, Calls
<1>2. \A d \in Callers : Right(d, call[d])'
  <2> TAKE d \in Callers
  <2>1. PICK q : q = call'[d] /\ Right(d, q) OBVIOUS
  <2>2. Right(d, q)' BY <1>1, <2>1
  <2> QED BY <2>1, <2>2
<1> QED BY <1>2 DEF CliInv, PlanKept, Waiting, Refusals

\* The init script before its first line.
LEMMA FreshRight == ASSUME CliInv, NEW c \in Callers, c = Script PROVE Right(c, Fresh)
<1>1. Len(Calls(c)) \in Nat BY CallParts
<1>2. DOMAIN Fresh = Fields /\ Fresh.n = 0 /\ Fresh.told.kind = "none" /\ Fresh.load = Unset
  BY DEF Fields, Fresh, NoReply
<1> QED BY <1>1, <1>2 DEF Right, Following

\* The reload that waited is told that its run failed.
LEMMA ToldOfFailure ==
  ASSUME CliInv, Loading, NEW new,
         new = [IF daemon.load.caller = Unset THEN call ELSE Gets(daemon.load.caller, Err("internal"))
                  EXCEPT ![Script] = Fresh]
  PROVE  DOMAIN new = Callers /\ \A c \in Callers : Right(c, new[c])
<1>1. DOMAIN call = Callers /\ (\A c \in Callers : Right(c, call[c])) /\ Waiting /\ Script \in Callers
  BY CliAssumption DEF CliInv
<1>2. Right(Script, Fresh) BY <1>1, FreshRight
<1>3. PICK caller : caller = daemon.load.caller OBVIOUS
<1>4. PICK reply : reply = Err("internal") OBVIOUS
<1>5. reply.kind \in ErrKinds BY <1>4 DEF Err, ErrKinds
<1>6. CASE caller = Unset BY <1>1, <1>2, <1>3, <1>6
<1>7. CASE caller # Unset
  <2>1. new = [Gets(caller, reply) EXCEPT ![Script] = Fresh] BY <1>3, <1>4, <1>7
  <2>2. CASE caller = Script
    <3>1. DOMAIN new = Callers /\ new[Script] = Fresh /\ \A c \in Callers : c # Script => new[c] = call[c]
      BY <1>1, <2>1, <2>2 DEF Gets
    <3> QED BY <1>1, <1>2, <3>1
  <2>3. CASE caller # Script
    <3>1. caller \in Callers /\ call[caller].at = "held" BY <1>1, <1>3, <1>7, <2>3 DEF Waiting
    <3>2. PICK r : Gets(caller, reply) = [call EXCEPT ![caller] = r] /\ Answered(caller, r, reply)
                   /\ r.done = call[caller].done
      BY <3>1, GetsParts
    <3>3. /\ DOMAIN new = Callers /\ new[Script] = Fresh /\ new[caller] = r
          /\ \A c \in Callers : c # Script /\ c # caller => new[c] = call[c]
      BY <1>1, <2>1, <2>3, <3>1, <3>2
    <3>4. Right(caller, r)
      <4>1. Right(caller, call[caller]) BY <1>1, <3>1
      <4>2. r.n > 0 /\ Mutating(Argv(caller)) => Truthful(Argv(caller), r)
        BY <1>5, <3>1, <3>2, <4>1 DEF Truthful, Answered, Right, Argv
      <4> QED BY <3>2, <4>1, <4>2 DEF Right, Following, Argv, Answered
    <3> QED BY <1>1, <1>2, <3>3, <3>4
  <2> QED BY <2>2, <2>3
<1> QED BY <1>6, <1>7

\* A run is dropped.
LEMMA DropsKeeps ==
  ASSUME CliInv, plan' = plan, Loading, NEW last, Drops(last)
  PROVE  CliInv'
<1>1. PICK new : new = call' OBVIOUS
<1>2. DOMAIN new = Callers /\ \A c \in Callers : Right(c, new[c])
  BY <1>1, ToldOfFailure DEF Drops
<1>3. DaemonShape' /\ ~Loading'
  BY DEF CliInv, DaemonShape, LoadFields, Drops, NoLoad, Loading
<1>4. \A c \in Callers : \E r : r = call'[c] /\ Right(c, r) BY <1>1, <1>2
<1> QED BY <1>1, <1>2, <1>3, <1>4, LoadEnds

\* A run commits, and the reload that waits is done.
LEMMA ScriptSucceedsKeeps ==
  ASSUME CliInv, plan' = plan, ScriptSucceeds
  PROVE  CliInv'
<1>1. Loading BY DEF ScriptSucceeds, AllRun, InRun
<1>2. CASE Drops("failed") BY <1>1, <1>2, DropsKeeps
<1>3. CASE /\ daemon' = [daemon EXCEPT !.load = NoLoad, !.last = "ok",
                                       !.config = Conf!Replaced(@, daemon.load.staged)]
           /\ call' = [c \in Callers |->
                CASE c = Script -> Fresh
                  [] c # Script /\ c = daemon.load.caller ->
                       [call[c] EXCEPT !.at = "reading", !.done = 1,
                                       !.told = Snapshot(daemon'.config, "ok")]
                  [] OTHER -> call[c]]
  <2>1. PICK told : told = Snapshot(daemon'.config, "ok") OBVIOUS
  <2>2. told.kind = "told" BY <2>1 DEF Snapshot
  <2>3. PICK config : config = Conf!Replaced(daemon.config, daemon.load.staged) OBVIOUS
  <2>4. daemon' = [daemon EXCEPT !.load = NoLoad, !.last = "ok", !.config = config]
    BY <1>3, <2>3
  <2>5. DaemonShape' /\ ~Loading' BY <2>4 DEF CliInv, DaemonShape, LoadFields, NoLoad, Loading
  <2>6. DOMAIN call' = Callers BY <1>3
  <2>7. \A c \in Callers : \E r : r = call'[c] /\ Right(c, r)
    <3> TAKE c \in Callers
    <3>1. Right(c, call[c]) /\ DOMAIN call[c] = Fields BY CallParts
    <3>2. CASE c = Script
      <4>1. call'[c] = Fresh BY <1>3, <3>2
      <4> QED BY <3>2, <4>1, FreshRight
    <3>3. CASE c # Script /\ c = daemon.load.caller
      <4>1. PICK r : r = [call[c] EXCEPT !.at = "reading", !.done = 1, !.told = told] OBVIOUS
      <4>2. call'[c] = r BY <1>3, <2>1, <3>3, <4>1
      <4>3. /\ DOMAIN r = Fields /\ r.at = "reading" /\ r.n = call[c].n /\ r.load = call[c].load
            /\ r.told = told /\ r.done = 1
        BY <3>1, <4>1 DEF Fields, Fresh
      <4>4. r.n > 0 /\ Mutating(Argv(c)) => Truthful(Argv(c), r) BY <2>2, <4>3 DEF Truthful
      <4>5. Right(c, r) BY <2>2, <3>1, <4>3, <4>4 DEF Right, Following, Argv
      <4> QED BY <4>2, <4>5
    <3>4. CASE c # Script /\ c # daemon.load.caller
      <4>1. call'[c] = call[c] BY <1>3, <3>4
      <4> QED BY <3>1, <4>1
    <3> QED BY <3>2, <3>3, <3>4
  <2> QED BY <2>5, <2>6, <2>7, LoadEnds
<1> QED BY <1>2, <1>3 DEF ScriptSucceeds

\* A script fails.
LEMMA ScriptFailsKeeps ==
  ASSUME CliInv, plan' = plan, ScriptFails
  PROVE  CliInv'
<1>1. Loading BY DEF ScriptFails, InRun
<1> QED BY <1>1, DropsKeeps DEF ScriptFails

\* A commit fails.
LEMMA CommitFailsKeeps ==
  ASSUME CliInv, plan' = plan, CommitFails
  PROVE  CliInv'
<1>1. Loading BY DEF CommitFails, AllRun, InRun
<1>2. PICK new : new = call' OBVIOUS
<1>3. DOMAIN new = Callers /\ \A c \in Callers : Right(c, new[c])
  BY <1>1, <1>2, ToldOfFailure DEF CommitFails
<1>4. DaemonShape' /\ ~Loading'
  <2>1. PICK moved : \/ daemon' = [daemon EXCEPT !.load = NoLoad, !.last = "failed"]
                     \/ daemon' = [daemon EXCEPT !.load = NoLoad, !.last = "failed", !.config = moved]
    BY DEF CommitFails
  <2>2. DaemonShape BY DEF CliInv
  <2>3. CASE daemon' = [daemon EXCEPT !.load = NoLoad, !.last = "failed"]
    BY <2>2, <2>3 DEF DaemonShape, LoadFields, NoLoad, Loading
  <2>4. CASE daemon' = [daemon EXCEPT !.load = NoLoad, !.last = "failed", !.config = moved]
    BY <2>2, <2>4 DEF DaemonShape, LoadFields, NoLoad, Loading
  <2> QED BY <2>1, <2>3, <2>4
<1>5. \A c \in Callers : \E r : r = call'[c] /\ Right(c, r) BY <1>2, <1>3
<1> QED BY <1>2, <1>3, <1>4, <1>5, LoadEnds

\* What is left of an invocation whose daemon died ends no better than it was.
LEMMA FatesRight ==
  ASSUME CliInv, NEW c \in Callers, NEW r, r \in FateOf(c)
  PROVE  Right(c, r)
<1>1. Right(c, call[c]) /\ DOMAIN call[c] = Fields BY CallParts
<1>2. CASE c = Script
  <2>1. r = Fresh BY <1>2 DEF FateOf
  <2> QED BY <1>2, <2>1, FreshRight
<1>3. CASE c # Script /\ r = call[c] BY <1>1, <1>3
<1>4. CASE c # Script /\ r \in {[call[c] EXCEPT !.at = "answered", !.reply = Err("closed")],
                                [call[c] EXCEPT !.at = "answered", !.reply = Err("malformed")]}
           /\ call[c].at \in {"sent", "held", "dialling", "reading", "answered"}
  <2>1. PICK reply : /\ r = [call[c] EXCEPT !.at = "answered", !.reply = reply]
                     /\ reply \in {Err("closed"), Err("malformed")}
    BY <1>4
  <2>2. reply.kind \in Unreachables BY <2>1 DEF Err, Unreachables
  <2>3. /\ DOMAIN r = Fields /\ r.at = "answered" /\ r.n = call[c].n /\ r.load = call[c].load
        /\ r.told = call[c].told /\ r.reply = reply /\ r.done = call[c].done
    BY <1>1, <2>1 DEF Fields, Fresh
  <2>4. r.n > 0 /\ Mutating(Argv(c)) => Truthful(Argv(c), r)
    BY <1>1, <2>2, <2>3 DEF Truthful, Right, Argv
  <2> QED BY <1>1, <1>4, <2>3, <2>4 DEF Right, Following, Argv
<1>5. CASE /\ c # Script /\ call[c].at = "tailing"
           /\ r \in {[call[c] EXCEPT !.at = "idle", !.exit = Success],
                     [call[c] EXCEPT !.at = "idle", !.exit = Failed]}
  <2>1. /\ DOMAIN r = Fields /\ r.at = "idle" /\ r.n = call[c].n /\ r.load = call[c].load
        /\ r.told = call[c].told
    BY <1>1, <1>5 DEF Fields, Fresh
  <2>2. ~(call[c].n > 0 /\ Mutating(Argv(c))) BY <1>1, <1>5 DEF Right, Truthful, Argv
  <2> QED BY <1>1, <1>5, <2>1, <2>2 DEF Right, Following, Argv
<1> QED BY <1>2, <1>3, <1>4, <1>5 DEF FateOf

\* The daemon dies.
LEMMA DiesKeeps ==
  ASSUME CliInv, plan' = plan, Dies
  PROVE  CliInv'
<1>1. DOMAIN call' = Callers /\ \A c \in Callers : call'[c] \in FateOf(c) BY DEF Dies
<1>2. \A c \in Callers : \E r : r = call'[c] /\ Right(c, r)
  <2> TAKE c \in Callers
  <2>1. PICK r : r = call'[c] OBVIOUS
  <2>2. Right(c, r) BY <1>1, <2>1, FatesRight
  <2> QED BY <2>1, <2>2
<1>3. DaemonShape' /\ ~Loading'
  <2>1. PICK booted : booted = Booted OBVIOUS
  <2>2. DOMAIN booted = {"up", "config", "issued", "load", "last"} /\ booted.issued \in Nat
    BY <2>1 DEF Booted
  <2>3. daemon' = [booted EXCEPT !.up = FALSE, !.load = NoLoad] BY <2>1 DEF Dies
  <2> QED BY <2>2, <2>3 DEF DaemonShape, LoadFields, NoLoad, Loading
<1> QED BY <1>1, <1>2, <1>3, LoadEnds

\* A daemon that starts may start a run of its own, for nobody.
LEMMA BootedParts ==
  ASSUME NEW booted, booted = Booted
  PROVE  /\ DOMAIN booted = {"up", "config", "issued", "load", "last"} /\ booted.issued \in Nat
         /\ DOMAIN booted.load = LoadFields
         /\ booted.load.id \in {0, 1} /\ booted.load.caller = Unset
         /\ booted.load.refused = 0 /\ booted.load.lost = 0
<1>1. PICK load : load = booted.load OBVIOUS
<1>2. load = Started(1, Unset) \/ load = NoLoad BY <1>1 DEF Booted
<1>3. /\ DOMAIN load = LoadFields
      /\ load.id \in {0, 1} /\ load.caller = Unset /\ load.refused = 0 /\ load.lost = 0
  BY <1>2 DEF Started, NoLoad, LoadFields
<1>4. DOMAIN booted = {"up", "config", "issued", "load", "last"} /\ booted.issued \in Nat BY DEF Booted
<1> QED BY <1>1, <1>3, <1>4

\* The init script of a run that was just started, or of none.
LEMMA NewScript ==
  ASSUME NEW loading, NEW r, r = IF loading THEN [Fresh EXCEPT !.load = 1] ELSE Fresh
  PROVE  /\ DOMAIN r = Fields /\ r.at = "idle" /\ r.n = 0 /\ r.told.kind = "none"
         /\ loading => r.load = 1
BY DEF Fields, Fresh, NoReply

\* A daemon starts.
LEMMA StartsDaemonKeeps ==
  ASSUME CliInv, plan' = plan, StartsDaemon
  PROVE  CliInv'
<1>1. /\ DOMAIN call = Callers /\ (\A c \in Callers : Right(c, call[c])) /\ Script \in Callers
      /\ PlanKept
  BY CliAssumption DEF CliInv
<1>2. PICK booted : booted = daemon' OBVIOUS
<1>3. booted = Booted BY <1>2 DEF StartsDaemon
<1>4. /\ DOMAIN booted = {"up", "config", "issued", "load", "last"} /\ booted.issued \in Nat
      /\ DOMAIN booted.load = LoadFields
      /\ booted.load.id \in {0, 1} /\ booted.load.caller = Unset
      /\ booted.load.refused = 0 /\ booted.load.lost = 0
  BY <1>3, BootedParts
<1>5. PICK script : script = IF Loading' THEN [Fresh EXCEPT !.load = 1] ELSE Fresh OBVIOUS
<1>6. /\ DOMAIN script = Fields /\ script.at = "idle" /\ script.n = 0 /\ script.told.kind = "none"
      /\ Loading' => script.load = 1
  BY <1>5, NewScript
<1>7. /\ DOMAIN call' = Callers /\ call'[Script] = script
      /\ \A c \in Callers : c # Script => call'[c] = call[c]
  BY <1>1, <1>5 DEF StartsDaemon
<1>8. Right(Script, script)
  <2>1. Len(Calls(Script)) \in Nat BY <1>1, CallParts
  <2> QED BY <1>6, <2>1 DEF Right, Following
<1>9. ASSUME NEW d \in Callers, NEW q, Right(d, q) PROVE Right(d, q)'
  BY <1>9 DEF Right, Calls
<1>10. \A d \in Callers : Right(d, call[d])'
  <2> TAKE d \in Callers
  <2>1. PICK q : q = call'[d] OBVIOUS
  <2>2. Right(d, q) BY <1>1, <1>7, <1>8, <2>1
  <2>3. Right(d, q)' BY <1>9, <2>2
  <2> QED BY <2>1, <2>3
<1>11. DaemonShape' BY <1>2, <1>4 DEF DaemonShape
<1>12. Waiting' BY <1>2, <1>4 DEF Waiting
<1>13. Refusals' BY <1>2, <1>4, <1>6, <1>7 DEF Refusals, Balanced, Loading
<1> QED BY <1>1, <1>7, <1>10, <1>11, <1>12, <1>13 DEF CliInv, PlanKept

\* Before the first invocation.
LEMMA CliInitially == Init => CliInv
<1> SUFFICES ASSUME Init PROVE CliInv OBVIOUS
<1>1. PlanKept /\ Script \in Callers BY CliAssumption DEF Init, PlanKept
<1>2. PICK booted : booted = daemon OBVIOUS
<1>3. booted = Booted BY <1>2 DEF Init
<1>4. /\ DOMAIN booted = {"up", "config", "issued", "load", "last"} /\ booted.issued \in Nat
      /\ DOMAIN booted.load = LoadFields
      /\ booted.load.id \in {0, 1} /\ booted.load.caller = Unset
      /\ booted.load.refused = 0 /\ booted.load.lost = 0
  BY <1>3, BootedParts
<1>5. DOMAIN call = Callers BY DEF Init
<1>6. ASSUME NEW c \in Callers
      PROVE  /\ DOMAIN call[c] = Fields /\ call[c].at = "idle" /\ call[c].n = 0
             /\ call[c].told.kind = "none"
             /\ c = Script /\ Loading => call[c].load = 1
             /\ c # Script => call[c].load = Unset
  <2>1. PICK loading : loading = (c = Script /\ Loading) OBVIOUS
  <2>2. PICK r : r = IF loading THEN [Fresh EXCEPT !.load = 1] ELSE Fresh OBVIOUS
  <2>3. call[c] = r BY <2>1, <2>2 DEF Init
  <2>4. /\ DOMAIN r = Fields /\ r.at = "idle" /\ r.n = 0 /\ r.told.kind = "none"
        /\ loading => r.load = 1
    BY <2>2, NewScript
  <2>5. c # Script => r.load = Unset BY <2>1, <2>2 DEF Fresh
  <2> QED BY <2>1, <2>3, <2>4, <2>5
<1>7. \A c \in Callers : Right(c, call[c])
  <2> TAKE c \in Callers
  <2>1. Len(Calls(c)) \in Nat BY <1>1, PlansAssumption DEF PlanKept, Calls
  <2> QED BY <1>6, <2>1 DEF Right, Following
<1>8. DaemonShape BY <1>2, <1>4 DEF DaemonShape
<1>9. Waiting BY <1>2, <1>4 DEF Waiting
<1>10. Refusals BY <1>1, <1>2, <1>4, <1>6 DEF Refusals, Balanced, Loading
<1> QED BY <1>1, <1>5, <1>7, <1>8, <1>9, <1>10 DEF CliInv

\* Every step keeps the invariant.
LEMMA CliSteps == CliInv /\ [Next]_vars => CliInv'
<1> SUFFICES ASSUME CliInv, [Next]_vars PROVE CliInv' OBVIOUS
<1>0. plan' = plan BY PlanStays
<1>1. ASSUME NEW c \in Callers, Begins(c) PROVE CliInv'
  BY <1>0, <1>1, EndsAtOnceKeeps, SendsKeeps, CannotSendKeeps, StartsElseKeeps DEF Begins
<1>2. ASSUME NEW c \in Callers, Handles(c) PROVE CliInv'
  BY <1>0, <1>2, UnparsedKeeps, MutatesKeeps, CannotBindKeeps, TurnsOffKeeps, AskingKeeps,
     ReloadsKeeps, DialEndsKeeps, DialsUpstreamsKeeps DEF Handles
<1>3. ASSUME NEW c \in Callers, GoesOn(c) PROVE CliInv'
  BY <1>0, <1>3, ReceivesKeeps, FollowsUpKeeps, SettingsKeep, ReadsLogsKeeps, ReadsSettingKeeps
     DEF GoesOn
<1>4. CASE ScriptSucceeds BY <1>0, <1>4, ScriptSucceedsKeeps
<1>5. CASE ScriptFails BY <1>0, <1>5, ScriptFailsKeeps
<1>6. CASE CommitFails BY <1>0, <1>6, CommitFailsKeeps
<1>7. CASE Dies BY <1>0, <1>7, DiesKeeps
<1>8. CASE StartsDaemon BY <1>0, <1>8, StartsDaemonKeeps
<1>9. CASE Changes \/ LogsALine \/ DayPasses
  BY <1>0, <1>9, NothingMoves DEF Changes, LogsALine, DayPasses
<1>10. CASE UNCHANGED vars BY <1>0, <1>10, NothingMoves DEF vars
<1> QED BY <1>1, <1>2, <1>3, <1>4, <1>5, <1>6, <1>7, <1>8, <1>9, <1>10 DEF Next

\* Every invocation is on its way to the code that tells what was done, a
\* reload waits for the run it started, and a load in which a list was refused
\* is one that failed, or on a daemon older than lists one whose script has yet to
\* fail it or lost the command that would have.
THEOREM InvocationsCorrect == Spec => []CliInv
BY CliInitially, CliSteps, PTL DEF Spec

\* The exit code of a mutating command, for any plan of invocations, faults and
\* restarts (mod.rs, code_of and render): 0 only for one that was applied, 4 only
\* for one that was not, 1 only for one that was not unless its answer was torn,
\* and none is applied twice.
THEOREM CodesAreTrue == Spec => []SuccessMeansDone
<1>1. CliInv => SuccessMeansDone
  <2> SUFFICES ASSUME CliInv, NEW c \in Callers, Over(c), Argv(c).verb \in Mutators
               PROVE  /\ call[c].done <= 1
                      /\ call[c].exit = Success => call[c].done = 1
                      /\ call[c].exit = InvalidArgs => call[c].done = 0
                      /\ call[c].exit = Failed /\ call[c].reply.kind # "malformed" => call[c].done = 0
    BY DEF SuccessMeansDone
  <2>1. Right(c, call[c]) BY CallParts
  <2>2. Truthful(Argv(c), call[c]) /\ call[c].at = "idle" BY <2>1 DEF Right, Over, Argv, Mutating
  <2> QED BY <2>2 DEF Truthful
<1> QED BY <1>1, InvocationsCorrect, PTL

\* A load in which a list of upstreams was refused is not committed, whatever
\* the script does after it (daemon/state.rs, finish_load): a daemon that reads
\* lists fails the load with the refusal, one older than lists with the command
\* that follows it (mod.rs, set_upstreams), and commits only if each was lost.
THEOREM RefusedIsDropped == Spec => RefusedListNeverCommits
<1> DEFINE Refused(load) == load.refused > (IF PlanOf(plan).fallbacks THEN 0 ELSE load.lost)
<1>1. ASSUME CliInv, [Next]_vars
      PROVE  [Loading /\ ~Loading' /\ Refused(daemon.load) => daemon'.last # "ok"]_vars
  <2> SUFFICES ASSUME Next, Loading, Refused(daemon.load), ~Loading' PROVE daemon'.last # "ok"
    BY <1>1
  <2>1. DaemonShape /\ Refusals BY <1>1 DEF CliInv
  <2>2. ASSUME daemon'.load.id = daemon.load.id PROVE FALSE BY <2>2 DEF Loading
  <2>3. ASSUME NEW c \in Callers, Begins(c) \/ Handles(c) \/ GoesOn(c) PROVE FALSE
    <3>0. ASSUME daemon' = Refusing(c) \/ daemon' = Losing(c) PROVE FALSE
      BY <2>1, <2>2, <3>0 DEF Refusing, Losing, DaemonShape, LoadFields
    <3>1. CASE Mutates(c)
      <4>1. PICK new, counted :
                       \/ UNCHANGED daemon
                       \/ /\ counted = daemon \/ counted = [daemon EXCEPT !.load.refused = @ + 1]
                          /\ daemon' = [counted EXCEPT !.load.failed = TRUE]
                       \/ daemon' = [daemon EXCEPT !.load.staged = new]
                       \/ daemon' = [daemon EXCEPT !.config = new]
        BY <3>1 DEF Mutates, Refusing
      <4> QED BY <2>1, <2>2, <4>1 DEF DaemonShape, LoadFields
    <3>2. CASE TurnsOff(c)
      BY <2>2, <3>2 DEF TurnsOff
    <3>3. CASE Reloads(c) BY <2>2, <3>3 DEF Reloads
    <3>4. CASE Unparsed(c) BY <2>2, <3>0, <3>4 DEF Unparsed
    <3>5. CASE FollowsUp(c) BY <2>2, <3>0, <3>5 DEF FollowsUp
    <3> QED BY <2>2, <2>3, <3>1, <3>2, <3>3, <3>4, <3>5
      DEF Begins, Handles, GoesOn, EndsAtOnce, Sends, CannotSend, StartsSettings, StartsLogs,
          CannotBind, Answers, Captures, Subscribes, DialEnds, DialsUpstreams, Receives, Points,
          WritesSetting, ReadsLogs, ReadsSetting
  <2>4. CASE ScriptSucceeds
    <3>1. ~Owing(call[Script]) BY <2>4 DEF ScriptSucceeds, AllRun, InRun, Owing
    <3>2. PICK load : load = daemon.load OBVIOUS
    <3>3. load.refused \in Nat /\ load.lost \in Nat /\ Refused(load)
      BY <2>1, <3>2 DEF DaemonShape
    <3>4. PICK owed : owed = Owing(call[Script]) OBVIOUS
    <3>5. Balanced(load, owed) /\ ~owed BY <2>1, <3>1, <3>2, <3>4 DEF Refusals
    <3>6. load.failed BY <3>3, <3>5 DEF Balanced
    <3> QED BY <2>1, <2>4, <3>2, <3>6 DEF ScriptSucceeds, Drops, DaemonShape
  <2>5. CASE ScriptFails BY <2>1, <2>5 DEF ScriptFails, Drops, DaemonShape
  <2>6. CASE CommitFails
    <3>1. PICK moved : \/ daemon' = [daemon EXCEPT !.load = NoLoad, !.last = "failed"]
                       \/ daemon' = [daemon EXCEPT !.load = NoLoad, !.last = "failed", !.config = moved]
      BY <2>6 DEF CommitFails
    <3> QED BY <2>1, <3>1 DEF DaemonShape
  <2>7. CASE Dies
    <3>1. PICK booted : booted = Booted OBVIOUS
    <3>2. DOMAIN booted = {"up", "config", "issued", "load", "last"} /\ booted.last = "none"
      BY <3>1 DEF Booted
    <3>3. daemon' = [booted EXCEPT !.up = FALSE, !.load = NoLoad] BY <2>7, <3>1 DEF Dies
    <3> QED BY <3>2, <3>3
  <2>8. CASE StartsDaemon BY <2>8 DEF StartsDaemon, Booted
  <2>9. CASE Changes \/ LogsALine \/ DayPasses BY <2>2, <2>9 DEF Changes, LogsALine, DayPasses
  <2> QED BY <2>3, <2>4, <2>5, <2>6, <2>7, <2>8, <2>9 DEF Next
<1> QED BY <1>1, InvocationsCorrect, PTL DEF Spec, RefusedListNeverCommits
-----------------------------------------------------------------------------
(* The logs in a run of the command line *)

\* A step of the command line is one of the files, one of the reader or neither.
LEMMA CliStepOfLogs ==
  ASSUME CliInv, [Next]_vars
  PROVE  LogsStep
<1>1. ASSUME UNCHANGED logVars PROVE LogsStep BY <1>1 DEF logVars, LogsStep, FileStep
<1>2. CASE UNCHANGED vars BY <1>1, <1>2 DEF vars, logVars
<1>3. CASE Next
  <2>1. ASSUME NEW c \in Callers, Begins(c) PROVE LogsStep
    <3>1. ASSUME StartsLogs(c) PROVE LogsStep
      <4>1. PICK argv : argv = Coming(c) OBVIOUS
      <4>2. Starting(c) /\ argv.verb = "logs" BY <3>1, <4>1 DEF StartsLogs
      <4>3. call[c].n + 1 \in 1..Len(Calls(c)) BY <4>2, BegunParts
      <4>6. argv.follow \in BOOLEAN /\ argv.cutoff \in Nat
        BY <4>1, <4>2, <4>3, PlansAssumption DEF CliInv, PlanKept, Calls, Coming
      <4>4. PICK listed \in BOOLEAN : StartsReading(argv.follow, argv.cutoff, listed)
        BY <3>1, <4>1 DEF StartsLogs
      <4>5. UNCHANGED <<today, files, born, cut>> BY <4>4 DEF StartsReading
      <4> QED BY <4>4, <4>5, <4>6 DEF LogsStep, ReaderStep
    <3> QED BY <1>1, <2>1, <3>1 DEF Begins, EndsAtOnce, Sends, CannotSend, StartsSettings
  <2>2. ASSUME NEW c \in Callers, Handles(c) PROVE LogsStep
    BY <1>1, <2>2 DEF Handles, Unparsed, Mutates, CannotBind, TurnsOff, Answers, Reloads, Captures,
       Subscribes, DialEnds, DialsUpstreams
  <2>3. ASSUME NEW c \in Callers, GoesOn(c) PROVE LogsStep
    <3>1. ASSUME ReadsLogs(c) PROVE LogsStep
      BY <3>1 DEF ReadsLogs, ReadsFile, Polls, PollFails, LogsStep, ReaderStep
    <3> QED BY <1>1, <2>3, <3>1 DEF GoesOn, Receives, FollowsUp, Points, WritesSetting, ReadsSetting
  <2>4. CASE ScriptSucceeds \/ ScriptFails \/ CommitFails \/ StartsDaemon \/ Changes
    BY <1>1, <2>4 DEF ScriptSucceeds, ScriptFails, CommitFails, StartsDaemon, Changes
  <2>5. CASE Dies BY <2>5 DEF Dies, LogsStep, FileStep
  <2>6. CASE LogsALine \/ DayPasses
    BY <2>6 DEF LogsALine, DayPasses, LogsStep, FileStep, WritesPart, WritesRest, MidnightPasses, Truncates
  <2> QED BY <1>3, <2>1, <2>2, <2>3, <2>4, <2>5, <2>6 DEF Next
<1> QED BY <1>2, <1>3

\* The lines a reader relies on are there in every run of the command line.
THEOREM LogsHold == Spec => []LogsInv
<1>1. Init => LogsInv BY LogsInitially DEF Init
<1>2. CliInv /\ LogsInv /\ [Next]_vars => LogsInv'
  <2> SUFFICES ASSUME CliInv, LogsInv, [Next]_vars PROVE LogsInv' OBVIOUS
  <2>1. LogsStep BY CliStepOfLogs
  <2> QED BY <2>1, LogsStepKeeps
<1> QED BY <1>1, <1>2, InvocationsCorrect, PTL DEF Spec

\* `nhop logs`, with and without -f: what is printed comes in the order it was
\* written and no line twice, through midnights, files removed, cut short or
\* left torn, and daemons that die.
THEOREM LogsInOrder == Spec => []ShownOnceInOrder
<1>1. LogsInv => ShownOnceInOrder BY DEF LogsInv, ReaderInv, Rising, ShownOnceInOrder
<1> QED BY <1>1, LogsHold, PTL

\* `nhop logs`, with and without -f: within the file of a day nothing is missing
\* between the window's start and a line shown, unless the file was cut short,
\* and a logs that exits 0 has shown all there was to print when it listed the
\* files, but for what was cut off.
THEOREM LogsLeaveNoGaps == Spec => []ShownWithoutGaps
<1>1. Init => GapsInv
  <2> SUFFICES ASSUME LogsInit PROVE GapsInv BY DEF Init
  <2>1. reader = Idle /\ today = 1 /\ files = <<>> /\ born = <<>> /\ cut = {} BY DEF LogsInit
  <2>2. Idle.at = "off" /\ Idle.exit = -1 BY IdleParts
  <2> QED BY <2>1, <2>2 DEF GapsInv, Stored, NoneMissed, Gapless
<1>2. CliInv /\ LogsInv /\ GapsInv /\ [Next]_vars => GapsInv'
  <2> SUFFICES ASSUME CliInv, LogsInv, GapsInv, [Next]_vars PROVE GapsInv' OBVIOUS
  <2>1. LogsStep BY CliStepOfLogs
  <2> QED BY <2>1, GapsStepKeeps
<1>3. LogsInv /\ GapsInv => ShownWithoutGaps
  <2> SUFFICES ASSUME LogsInv, GapsInv PROVE ShownWithoutGaps OBVIOUS
  <2>1. PICK shown : shown = {reader.shown[i] : i \in DOMAIN reader.shown} OBVIOUS
  <2>2. \A n : n \in shown <=> Seen(n) BY <2>1 DEF Seen
  <2>3. ASSUME NEW n \in shown, NEW m \in DOMAIN born, m < n, born[m].day = born[n].day,
               \A k \in cut : born[k].day # born[n].day, born[m].whole, m >= reader.cutoff
        PROVE  m \in shown
    <3>1. Seen(n) /\ Finished(n) BY <2>2 DEF Seen, LogsInv, ReaderInv
    <3>2. n \in DOMAIN born BY <3>1 DEF Finished
    <3>3. PICK d : d = born[n].day OBVIOUS
    <3>4. Uncut(d) BY <2>3, <3>3 DEF Uncut
    <3>5. Seen(m) BY <2>3, <3>1, <3>2, <3>3, <3>4 DEF GapsInv, NoneMissed, Gapless
    <3> QED BY <2>2, <3>5
  <2>4. reader.exit = 0 => reader.owed \subseteq shown \cup cut BY <2>2 DEF GapsInv, NoneMissed
  <2> QED BY <2>1, <2>3, <2>4 DEF ShownWithoutGaps
<1> QED BY <1>1, <1>2, <1>3, LogsHold, InvocationsCorrect, PTL DEF Spec
-----------------------------------------------------------------------------
(* What a doctor goes by *)

Checked == {"daemon_reachable", "ports_bound", "init_file", "last_load", "log_writable"}

\* A configuration whose front ends have addresses of a set of pairs, and whose
\* rules were read.
Placed(config, listens) ==
  /\ DOMAIN config = {"rules", "upstream", "listen", "forwards"}
  /\ config.listen \in listens
  /\ config.rules \in Seq(ReadableRules)

DaemonAddressed ==
  /\ daemon.up \in BOOLEAN
  /\ Placed(daemon.config, Listens)
  /\ Placed(daemon.load.staged, Listens \cup {Unset})

\* A command that argh and the parsers of the command line made.
Worded(command) ==
  /\ command.op = "set_listen" => command.arg \in Listens
  /\ command.op = "add_rule" => command.arg \in WrittenRules
  /\ command.op = "test" =>
       command.arg # Unread /\ \E target \in Words : command.arg = ParseDestination(target)

CommandsWorded == \A c \in Callers : Worded(call[c].command)

SettingsReadable ==
  /\ DOMAIN settings = {"http", "https", "socks"}
  /\ \A kind \in DOMAIN settings :
       settings[kind] \in [on : BOOLEAN, at : {settings[kind].at}]

\* The front ends have addresses, and the rules, the commands and the settings
\* could be read.
Addressed == DaemonAddressed /\ CommandsWorded /\ SettingsReadable

\* What a doctor's checks look at, the upstreams apart.
Looks == (CheckNames \ {"system_proxy", "upstream_reachable"}) \cup {"http", "https", "socks"}

\* An upstream could be seen answering, or not answering.
Saw(entry, did, found) == <<"upstream_reachable", entry, did>> \in found

\* What DoctorTells says of an exit code, of an invocation r and what was there
\* to be seen during it.
Accounted(code, r, found) ==
  /\ code \in {Success, Failed, UpstreamDown}
  /\ code \in {Success, UpstreamDown} =>
       r.told.kind = "told" /\ \A fact \in Looks : <<fact, TRUE>> \in found
  /\ code = Success => \E i \in DOMAIN r.told.entries : Saw(r.told.entries[i], TRUE, found)
  /\ code = UpstreamDown => \A i \in DOMAIN r.told.entries : Saw(r.told.entries[i], FALSE, found)
  /\ code = Failed =>
       \/ \E fact \in Looks : <<fact, FALSE>> \in found
       \/ r.broken \/ r.reply.kind = "io"
       \/ r.told.kind = "told" /\ {r.told.listen.http, r.told.listen.socks} \cap V6 # {}

\* What the daemon told about itself could be seen.
ToldTruly(told, found) ==
  told.kind = "told" =>
    /\ told.listen \in Listens
    /\ DOMAIN told.findings = Checked
    /\ \A check \in Checked :
         told.findings[check] \in BOOLEAN /\ <<check, told.findings[check]>> \in found

\* And so could whether the settings read so far are those it told of.
Looked(r, found) ==
  /\ \E S : r.read \in Seq(S)
  /\ \A i \in DOMAIN r.read :
       <<ProxyKinds[i], r.read[i] = AddressOf(ProxyKinds[i], r.told.listen)>> \in found

\* And so could what each dial that has ended found.
FoundSoFar(r, found) ==
  /\ r.reached \subseteq r.ended
  /\ \A i \in DOMAIN r.told.entries : i \in r.ended =>
       /\ i \in r.reached => Saw(r.told.entries[i], TRUE, found)
       /\ i \notin r.reached => Saw(r.told.entries[i], FALSE, found)

\* A doctor on its way to its exit code.
Examining(r, found) ==
  /\ r.at \in {"sent", "reading", "dialling", "answered", "idle"}
  /\ r.told.kind \in {"none", "told"} /\ ToldTruly(r.told, found)
  /\ r.at = "sent" => r.command.op = "doctor" /\ r.read = <<>> /\ r.ended = {} /\ r.reached = {}
  /\ r.at \in {"reading", "dialling"} => r.told.kind = "told" /\ Looked(r, found) /\ FoundSoFar(r, found)
  /\ r.at = "reading" => Len(r.read) < 3
  /\ r.at = "dialling" => Len(r.read) = 3 \/ r.broken
  /\ r.at = "answered" =>
       \/ r.reply.kind = "doctor" /\ Accounted(ExitOf(r.reply.checks), r, found)
       \/ r.reply.kind = "io"
       \/ r.reply.kind \in Unreachables /\ <<"daemon_reachable", FALSE>> \in found
  /\ r.at = "idle" => Accounted(r.exit, r, found)

DoctorInv == Addressed /\ \A c \in Callers : Doctoring(c) => Examining(call[c], seen[c])

\* A step of one invocation changes that of no other, but for the init script.
LEMMA OneAtATime ==
  ASSUME CliInv, NEW d \in Callers, Begins(d) \/ Handles(d) \/ GoesOn(d), NEW c \in Callers, c # d
  PROVE  call'[c] = call[c] \/ (c = Script /\ Reloads(d))
<1>0. DOMAIN call = Callers BY DEF CliInv
<1>1. \A reply : Gets(d, reply)[c] = call[c] /\ DOMAIN Gets(d, reply) = Callers BY <1>0 DEF Gets
<1>2. \A code : Ended(d, code)[c] = call[c] BY <1>0 DEF Ended
<1>3. CASE Begins(d)
  BY <1>0, <1>3 DEF Begins, EndsAtOnce, Sends, CannotSend, StartsSettings, StartsLogs
<1>4. CASE Unparsed(d) \/ CannotBind(d) \/ Captures(d) \/ Subscribes(d) \/ DialsUpstreams(d)
  BY <1>0, <1>1, <1>4 DEF Unparsed, CannotBind, Captures, Subscribes, DialsUpstreams
<1>10. CASE DialEnds(d)
  <2>1. PICK ended, reached : call' = [call EXCEPT ![d].ended = ended, ![d].reached = reached]
    BY <1>10 DEF DialEnds
  <2> QED BY <1>0, <2>1
<1>5. CASE Mutates(d) \/ TurnsOff(d)
  BY <1>0, <1>1, <1>5 DEF Mutates, TurnsOff
<1>6. CASE Answers(d)
  <2>1. PICK reply, told : call' = [Gets(d, reply) EXCEPT ![d].told = told] BY <1>6 DEF Answers
  <2> QED BY <1>0, <1>1, <2>1
<1>7. CASE Reloads(d)
  BY <1>0, <1>1, <1>7 DEF Reloads
<1>8. CASE Receives(d) \/ FollowsUp(d) \/ Points(d) \/ WritesSetting(d) \/ ReadsLogs(d)
  BY <1>0, <1>2, <1>8 DEF Receives, FollowsUp, Points, WritesSetting, ReadsLogs
<1>9. CASE ReadsSetting(d)
  <2>1. \A read : Reported(d, read)[c] = call[c] /\ DOMAIN Reported(d, read) = Callers
    BY <1>0, <1>1 DEF Reported
  <2> QED BY <1>0, <1>9, <2>1 DEF ReadsSetting
<1> QED BY <1>3, <1>4, <1>5, <1>6, <1>7, <1>8, <1>9, <1>10 DEF Handles, GoesOn

\* A test has been answered.
Decided(r) == r.at = "answered" /\ r.reply.kind = "decision"

\* What the end of a run does to the invocations: the script is gone, and one
\* that waits for the run goes on.
LEMMA RunEnds ==
  ASSUME CliInv, ScriptSucceeds \/ ScriptFails \/ CommitFails, NEW c \in Callers, c # Script
  PROVE  call'[c] = call[c] \/ (call[c].at = "held" /\ call'[c].command = call[c].command
                              /\ call'[c].n = call[c].n /\ ~Decided(call'[c]))
<1>1. /\ DOMAIN call = Callers /\ DOMAIN call[c] = Fields
      /\ (daemon.load.caller = c => call[c].at = "held")
  <2>1. Loading BY DEF ScriptSucceeds, ScriptFails, CommitFails, AllRun, InRun
  <2> QED BY <2>1, CallParts, CliAssumption DEF CliInv, Waiting
<1>2. \A d, reply : /\ DOMAIN Gets(d, reply) = Callers
                    /\ d # c => Gets(d, reply)[c] = call[c]
  BY <1>1 DEF Gets
<1>3. \A reply : /\ Gets(c, reply)[c].command = call[c].command /\ Gets(c, reply)[c].n = call[c].n
                 /\ Gets(c, reply)[c].reply = reply
  BY <1>1 DEF Gets, Fields, Fresh
<1>4. ASSUME call' = [IF daemon.load.caller = Unset THEN call ELSE Gets(daemon.load.caller, Err("internal"))
                        EXCEPT ![Script] = Fresh]
      PROVE  call'[c] = call[c] \/ (call[c].at = "held" /\ call'[c].command = call[c].command
                              /\ call'[c].n = call[c].n /\ ~Decided(call'[c]))
  <2>1. PICK g : g = IF daemon.load.caller = Unset THEN call ELSE Gets(daemon.load.caller, Err("internal"))
    OBVIOUS
  <2>2. DOMAIN g = Callers BY <1>1, <1>2, <2>1
  <2>3. call'[c] = g[c] BY <1>4, <2>1, <2>2
  <2>4. PICK reply : reply = Err("internal") OBVIOUS
  <2>5. reply.kind # "decision" BY <2>4 DEF Err
  <2> QED BY <1>1, <1>2, <1>3, <2>1, <2>3, <2>4, <2>5 DEF Decided
<1>5. ASSUME NEW last, Drops(last)
      PROVE  call'[c] = call[c] \/ (call[c].at = "held" /\ call'[c].command = call[c].command
                              /\ call'[c].n = call[c].n /\ ~Decided(call'[c]))
  BY <1>4, <1>5 DEF Drops
<1>6. CASE ScriptSucceeds
  <2>1. CASE Drops("failed") BY <1>5, <2>1
  <2>2. CASE ~Drops("failed")
    <3>1. PICK told : call' = [d \in Callers |->
             CASE d = Script -> Fresh
               [] d # Script /\ d = daemon.load.caller ->
                    [call[d] EXCEPT !.at = "reading", !.done = 1, !.told = told]
               [] OTHER -> call[d]]
      BY <1>6, <2>2 DEF ScriptSucceeds
    <3>2. CASE daemon.load.caller = c
      <4>1. call'[c] = [call[c] EXCEPT !.at = "reading", !.done = 1, !.told = told] BY <3>1, <3>2
      <4> QED BY <1>1, <3>2, <4>1 DEF Fields, Fresh, Decided
    <3>3. CASE daemon.load.caller # c BY <3>1, <3>3
    <3> QED BY <3>2, <3>3
  <2> QED BY <2>1, <2>2
<1>7. CASE ScriptFails BY <1>5, <1>7 DEF ScriptFails
<1>8. CASE CommitFails BY <1>4, <1>8 DEF CommitFails
<1> QED BY <1>6, <1>7, <1>8

\* A command that asks for nothing that has to be read: none, or the follow-up of a
\* refused list.
Asks(command) == command.op \notin {"none", "set_upstream"}

\* Which needs no words.
LEMMA NothingAsked == ASSUME NEW command, ~Asks(command) PROVE Worded(command)
BY DEF Asks, Worded

\* An invocation stays the one it is, and its command what it started with, or one
\* that asks for nothing.
LEMMA CommandsStay ==
  ASSUME CliInv, NEW c \in Callers, Handles(c) \/ GoesOn(c)
  PROVE  /\ call'[c].command = call[c].command \/ ~Asks(call'[c].command)
         /\ call'[c].n \in {call[c].n, 0}
<1>0. DOMAIN call = Callers /\ DOMAIN call[c] = Fields BY CallParts DEF CliInv
<1>1. \A reply : /\ Gets(c, reply)[c].command = call[c].command /\ Gets(c, reply)[c].n = call[c].n
                 /\ DOMAIN Gets(c, reply) = Callers /\ DOMAIN Gets(c, reply)[c] = Fields
  BY <1>0 DEF Gets, Fields, Fresh
<1>2. \A code : Ended(c, code)[c].command = call[c].command /\ Ended(c, code)[c].n = call[c].n
  BY <1>0 DEF Ended, Fields, Fresh
<1>12. CASE DialEnds(c)
  <2>1. PICK ended, reached : call' = [call EXCEPT ![c].ended = ended, ![c].reached = reached]
    BY <1>12 DEF DialEnds
  <2> QED BY <1>0, <2>1 DEF Fields, Fresh
<1>3. CASE Unparsed(c) \/ CannotBind(c) \/ DialsUpstreams(c)
  BY <1>1, <1>3 DEF Unparsed, CannotBind, DialsUpstreams
<1>4. CASE Captures(c) \/ Subscribes(c)
  <2>1. CASE Subscribes(c) BY <1>0, <2>1 DEF Subscribes, Fields, Fresh
  <2>2. CASE Captures(c)
    <3>1. PICK told : call' = [call EXCEPT ![c].at = "reading", ![c].told = told]
      BY <2>2 DEF Captures
    <3> QED BY <1>0, <3>1 DEF Fields, Fresh
  <2> QED BY <1>4, <2>1, <2>2
<1>5. CASE Mutates(c) \/ TurnsOff(c)
  <2>1. PICK reply : call' = Gets(c, reply) \/ call' = Taken(c, reply)
    BY <1>5 DEF Mutates, TurnsOff, Taken
  <2>2. Taken(c, reply)[c].command = call[c].command /\ Taken(c, reply)[c].n = call[c].n
    BY <1>1 DEF Taken, Fields, Fresh
  <2> QED BY <1>1, <2>1, <2>2
<1>6. CASE Answers(c)
  <2>1. PICK reply, told : call' = [Gets(c, reply) EXCEPT ![c].told = told] BY <1>6 DEF Answers
  <2> QED BY <1>1, <2>1 DEF Fields, Fresh
<1>7. CASE Reloads(c)
  <2>1. PICK reply, id : \/ call' = Gets(c, reply)
                         \/ call' = [call EXCEPT ![c].at = "held", ![Script] = [Fresh EXCEPT !.load = id]]
    BY <1>7 DEF Reloads
  <2>2. CASE call' = Gets(c, reply) BY <1>1, <2>2
  <2>3. CASE call' = [call EXCEPT ![c].at = "held", ![Script] = [Fresh EXCEPT !.load = id]]
    <3>1. PICK f : f = [Fresh EXCEPT !.load = id] OBVIOUS
    <3>2. ~Asks(f.command) /\ f.n = 0 BY <3>1 DEF Fresh, Asks
    <3>3. CASE c = Script BY <1>0, <2>3, <3>1, <3>2, <3>3
    <3>4. CASE c # Script
      <4>1. call'[c].command = call[c].command /\ call'[c].n = call[c].n
        BY <1>0, <2>3, <3>1, <3>4 DEF Fields, Fresh
      <4> QED BY <4>1
    <3> QED BY <3>3, <3>4
  <2> QED BY <2>1, <2>2, <2>3
<1>8. CASE Receives(c) \/ WritesSetting(c) \/ ReadsLogs(c)
  <2>1. PICK code, queue : call' = Ended(c, code) \/ call' = [call EXCEPT ![c].queue = queue] \/ call' = call
    BY <1>8 DEF Receives, WritesSetting, ReadsLogs
  <2> QED BY <1>0, <1>2, <2>1 DEF Fields, Fresh
<1>9. CASE FollowsUp(c)
  <2>1. PICK told : \/ call' = [call EXCEPT ![c].at = "sent", ![c].command = UnreadableUpstream, ![c].told = told]
                    \/ call' = Ended(c, InvalidArgs)
    BY <1>9 DEF FollowsUp
  <2>2. ~Asks(UnreadableUpstream) BY DEF UnreadableUpstream, Asks
  <2>3. CASE call' = [call EXCEPT ![c].at = "sent", ![c].command = UnreadableUpstream, ![c].told = told]
    <3>1. call'[c].command = UnreadableUpstream /\ call'[c].n = call[c].n
      BY <1>0, <2>3 DEF Fields, Fresh
    <3> QED BY <2>2, <3>1
  <2> QED BY <1>2, <2>1, <2>3
<1>10. CASE Points(c)
  <2>1. PICK queue : call' = [call EXCEPT ![c].at = "writing", ![c].queue = queue] BY <1>10 DEF Points
  <2> QED BY <1>0, <2>1 DEF Fields, Fresh
<1>11. CASE ReadsSetting(c)
  <2>1. ASSUME NEW read
        PROVE  /\ Reported(c, read)[c].command = call[c].command /\ Reported(c, read)[c].n = call[c].n
               /\ DOMAIN Reported(c, read) = Callers /\ DOMAIN Reported(c, read)[c] = Fields
    <3>1. PICK exit, reply, shown :
            \/ Reported(c, read) = [call EXCEPT ![c].at = "idle", ![c].read = read, ![c].exit = exit]
            \/ Reported(c, read) = [call EXCEPT ![c].at = "dialling", ![c].read = read]
            \/ Reported(c, read) = [Gets(c, reply) EXCEPT ![c].read = shown]
      <4>1. PICK exit : exit = IF Len(read) = 3 THEN Success ELSE Failed OBVIOUS
      <4>2. PICK reply : reply = [kind |-> "status", listen |-> call[c].told.listen] OBVIOUS
      <4>3. PICK shown : shown = IF Len(read) = 3 THEN read ELSE <<Nowhere, Nowhere, Nowhere>> OBVIOUS
      <4>4. CASE Local(c)
        <5>1. ~Doctoring(c) BY <4>4 DEF Local, Doctoring
        <5> QED BY <4>1, <4>4, <5>1 DEF Reported
      <4>5. CASE ~Local(c) /\ Doctoring(c) BY <4>5 DEF Reported
      <4>6. CASE ~Local(c) /\ ~Doctoring(c) BY <4>2, <4>3, <4>6 DEF Reported
      <4> QED BY <4>4, <4>5, <4>6
    <3>2. DOMAIN call[c] = {"at", "n", "load", "command", "reply", "told", "read", "broken", "queue",
                            "done", "exit", "ended", "reached"}
      BY <1>0 DEF Fields, Fresh
    <3>3. CASE Reported(c, read) = [call EXCEPT ![c].at = "idle", ![c].read = read, ![c].exit = exit]
      BY <1>0, <3>2, <3>3
    <3>4. CASE Reported(c, read) = [call EXCEPT ![c].at = "dialling", ![c].read = read]
      BY <1>0, <3>2, <3>4
    <3>5. CASE Reported(c, read) = [Gets(c, reply) EXCEPT ![c].read = shown]
      BY <1>0, <1>1, <3>2, <3>5
    <3> QED BY <3>1, <3>3, <3>4, <3>5
  <2>2. PICK read, some : \/ call' = Reported(c, read) \/ call' = [call EXCEPT ![c].read = read]
                          \/ call' = [Reported(c, some) EXCEPT ![c].broken = TRUE]
    BY <1>11 DEF ReadsSetting
  <2>3. PICK told : told = Reported(c, some) OBVIOUS
  <2> QED BY <1>0, <2>1, <2>2, <2>3 DEF Fields, Fresh
<1> QED BY <1>3, <1>4, <1>5, <1>6, <1>7, <1>8, <1>9, <1>10, <1>11, <1>12 DEF Handles, GoesOn

\* An invocation asks for addresses there are, and sends what it could read.
LEMMA CommandsBegin ==
  ASSUME CliInv, NEW c \in Callers, Begins(c)
  PROVE  Worded(call'[c].command)
<1>1. Starting(c) BY DEF Begins, EndsAtOnce, Sends, CannotSend, StartsSettings, StartsLogs
<1>2. PICK b : b = Begun(c) OBVIOUS
<1>3. /\ DOMAIN b = Fields /\ b.n \in 1..Len(Calls(c)) /\ Calls(c)[b.n] = Coming(c)
      /\ DOMAIN call = Callers
  BY <1>1, <1>2, BegunParts DEF CliInv
<1>4. b.command = [op |-> "none", arg |-> Unset]
  <2>1. b = [Fresh EXCEPT !.n = call[c].n + 1, !.load = call[c].load] BY <1>2 DEF Begun
  <2> QED BY <2>1 DEF Fresh
<1>5. PICK command : command = CommandOf(Coming(c)) OBVIOUS
<1>6. (Asking(Coming(c)) /\ call'[c].command = command) \/ call'[c].command = b.command
  <2>1. CASE EndsAtOnce(c)
    <3>1. PICK code : call' = [call EXCEPT ![c] = [b EXCEPT !.exit = code]] BY <1>2, <2>1 DEF EndsAtOnce
    <3> QED BY <1>3, <3>1 DEF Fields, Fresh
  <2>2. CASE Sends(c)
    <3>1. call' = [call EXCEPT ![c] = [b EXCEPT !.at = "sent", !.command = command]]
      BY <1>2, <1>5, <2>2 DEF Sends
    <3>2. Asking(Coming(c)) BY <2>2 DEF Sends
    <3> QED BY <1>3, <3>1, <3>2 DEF Fields, Fresh
  <2>3. CASE CannotSend(c)
    <3>1. PICK reply : call' = [call EXCEPT ![c] = [b EXCEPT !.at = "answered", !.reply = reply]]
      BY <1>2, <2>3 DEF CannotSend
    <3> QED BY <1>3, <3>1 DEF Fields, Fresh
  <2>4. CASE StartsSettings(c)
    <3>1. \/ call' = [call EXCEPT ![c] = [b EXCEPT !.at = "reading"]]
          \/ call' = [call EXCEPT ![c] = [b EXCEPT !.at = "writing", !.queue = Disabling]]
      BY <1>2, <2>4 DEF StartsSettings
    <3> QED BY <1>3, <3>1 DEF Fields, Fresh
  <2>5. CASE StartsLogs(c)
    <3>1. PICK at, exit : call' = [call EXCEPT ![c] = [b EXCEPT !.at = at, !.exit = exit]]
      BY <1>2, <2>5 DEF StartsLogs
    <3> QED BY <1>3, <3>1 DEF Fields, Fresh
  <2> QED BY <2>1, <2>2, <2>3, <2>4, <2>5 DEF Begins
<1>7. CASE call'[c].command = b.command
  BY <1>4, <1>7 DEF Worded
<1>8. CASE Asking(Coming(c)) /\ call'[c].command = command
  <2>1. PICK argv : argv = Coming(c) OBVIOUS
  <2>2. /\ argv.verb \in Verbs /\ (argv.verb = "listen" => argv.listen \in Listens)
        /\ argv.verb = "rule" => argv.class \in Classes /\ argv.value \in Words
        /\ argv.verb = "test" => argv.target \in Words
    <3>1. plan \in PlanKeys /\ Calls(c) = PlanOf(plan).calls[c] BY DEF CliInv, PlanKept, Calls
    <3>2. b.n \in DOMAIN Calls(c) BY <1>3, <3>1, PlansAssumption
    <3> QED BY <1>3, <2>1, <3>1, <3>2, PlansAssumption
  <2>3. ~Malformed(argv) BY <1>8, <2>1 DEF Asking
  <2>4. command = CommandOf(argv) BY <1>5, <2>1
  <2>5. command.op = "set_listen" => command.arg \in Listens
    BY <2>2, <2>4 DEF CommandOf, Upstreams, Verbs
  <2>6. command.op = "add_rule" => command.arg \in WrittenRules
    <3> SUFFICES ASSUME command.op = "add_rule" PROVE command.arg \in WrittenRules OBVIOUS
    <3>1. argv.verb = "rule" BY <2>2, <2>4 DEF CommandOf, Upstreams, Verbs
    <3>2. command.arg = RuleOf(argv.class, argv.kind, argv.value) BY <2>4, <3>1 DEF CommandOf
    <3>3. argv.kind \in MatcherKinds BY <2>3, <3>1 DEF Malformed
    <3> QED BY <2>2, <3>1, <3>2, <3>3 DEF WrittenRules
  <2>7. command.op = "test" =>
          command.arg # Unread /\ \E target \in Words : command.arg = ParseDestination(target)
    <3> SUFFICES ASSUME command.op = "test"
                 PROVE  command.arg # Unread /\ \E target \in Words : command.arg = ParseDestination(target)
      OBVIOUS
    <3>1. argv.verb = "test" BY <2>2, <2>4 DEF CommandOf, Upstreams, Verbs
    <3>2. command.arg = ParseDestination(argv.target) BY <2>4, <3>1 DEF CommandOf
    <3>3. ParseDestination(argv.target) # Unread BY <2>3, <3>1 DEF Malformed
    <3> QED BY <2>2, <3>1, <3>2, <3>3
  <2> QED BY <1>8, <2>5, <2>6, <2>7 DEF Worded
<1> QED BY <1>6, <1>7, <1>8

\* A command leaves the front ends with addresses there are, and adds a rule that
\* was read.
LEMMA AppliedPlaced ==
  ASSUME NEW config, NEW listens, Placed(config, listens), NEW command,
         command.op \in {"add_rule", "set_upstreams", "set_listen", "add_forward"},
         command.op = "set_listen" => command.arg \in listens,
         command.op = "add_rule" => command.arg \in ReadableRules
  PROVE  Placed(Conf!Applied(config, command), listens)
<1>1. CASE command.op = "add_rule"
  <2>1. PICK rules \in Seq(ReadableRules) : rules = config.rules BY DEF Placed
  <2>2. Append(rules, command.arg) \in Seq(ReadableRules) BY <1>1
  <2>3. Conf!Applied(config, command) = [config EXCEPT !.rules = Append(rules, command.arg)]
    BY <1>1, <2>1 DEF Conf!Applied
  <2> QED BY <2>2, <2>3 DEF Placed
<1>2. CASE command.op = "set_upstreams" BY <1>2 DEF Placed, Conf!Applied
<1>3. CASE command.op = "set_listen" BY <1>3 DEF Placed, Conf!Applied
<1>4. CASE command.op = "add_forward" BY <1>4 DEF Placed, Conf!Applied
<1> QED BY <1>1, <1>2, <1>3, <1>4

\* So does a load that moves them.
LEMMA MovedPlaced ==
  ASSUME NEW config, Placed(config, Listens), NEW declared, Placed(declared, Listens \cup {Unset})
  PROVE  /\ Placed(Conf!Moved(config, declared.listen), Listens)
         /\ Placed(Conf!Replaced(config, declared), Listens)
<1>1. PICK moved : moved = Conf!Moved(config, declared.listen) OBVIOUS
<1>2. PICK listen : listen = IF declared.listen = Unset THEN config.listen ELSE declared.listen OBVIOUS
<1>3. listen \in Listens BY <1>2 DEF Placed
<1>4. moved = [config EXCEPT !.listen = listen] BY <1>1, <1>2 DEF Conf!Moved
<1>5. Placed(moved, Listens) BY <1>3, <1>4 DEF Placed
<1>6. PICK upstream : upstream = IF declared.upstream = Unset THEN moved.upstream ELSE declared.upstream
  OBVIOUS
<1>7. Conf!Replaced(config, declared)
        = [moved EXCEPT !.rules = declared.rules, !.forwards = declared.forwards, !.upstream = upstream]
  BY <1>1, <1>6 DEF Conf!Replaced
<1> QED BY <1>1, <1>5, <1>7 DEF Placed

\* A row of nothing.
LEMMA EmptyRow == ASSUME NEW S PROVE <<>> \in Seq(S)
OBVIOUS

\* Nothing is staged yet, or no run is there to stage.
LEMMA NothingPlaced ==
  /\ Placed(NoLoad.staged, Listens \cup {Unset})
  /\ \A id, caller : Placed(Started(id, caller).staged, Listens \cup {Unset})
<1>1. PICK rules \in Seq(ReadableRules) : rules = <<>> BY EmptyRow
<1>2. Placed(Conf!Nothing, Listens \cup {Unset})
  <2>1. Conf!Nothing = [rules |-> rules, upstream |-> Unset, listen |-> Unset, forwards |-> {}]
    BY <1>1 DEF Conf!Nothing
  <2> QED BY <2>1 DEF Placed
<1> QED BY <1>2 DEF NoLoad, Started

\* A daemon starts where it listens by default.
LEMMA BootedPlaced ==
  ASSUME NEW booted, booted = Booted
  PROVE  /\ booted.up = TRUE /\ Placed(booted.config, Listens)
         /\ Placed(booted.load.staged, Listens \cup {Unset})
         /\ DOMAIN booted = {"up", "config", "issued", "load", "last"}
<1>1. PICK config : config = [Conf!Nothing EXCEPT !.listen = DefaultListen] OBVIOUS
<1>2. Placed(config, Listens) BY <1>1, CliAssumption DEF Placed, Conf!Nothing
<1>3. PICK load : load = booted.load OBVIOUS
<1>4. load = Started(1, Unset) \/ load = NoLoad BY <1>3 DEF Booted
<1>5. Placed(load.staged, Listens \cup {Unset}) BY <1>4, NothingPlaced
<1>6. booted.config = config /\ booted.up = TRUE
      /\ DOMAIN booted = {"up", "config", "issued", "load", "last"}
  BY <1>1 DEF Booted
<1> QED BY <1>2, <1>3, <1>5, <1>6

\* The daemon's handlers keep its front ends among the addresses there are.
LEMMA HandlersPlace ==
  ASSUME CliInv, Addressed, NEW c \in Callers, Begins(c) \/ Handles(c) \/ GoesOn(c)
  PROVE  DaemonAddressed'
<1>1. /\ DOMAIN daemon = {"up", "config", "issued", "load", "last"}
      /\ DOMAIN daemon.load = {"id", "caller", "runs", "staged", "failed", "refused", "lost"}
  BY DEF CliInv, DaemonShape, LoadFields
<1>2. DaemonAddressed BY DEF Addressed
<1>3. CASE UNCHANGED daemon BY <1>2, <1>3 DEF DaemonAddressed
<1>7. CASE daemon' = Refusing(c) \/ daemon' = Losing(c)
  <2>1. \/ UNCHANGED daemon
        \/ daemon' = [daemon EXCEPT !.load.refused = @ + 1]
        \/ daemon' = [daemon EXCEPT !.load.lost = @ + 1]
    BY <1>7 DEF Refusing, Losing
  <2> QED BY <1>1, <1>2, <1>3, <2>1 DEF DaemonAddressed
<1>4. CASE Mutates(c)
  <2>1. PICK command : command = Read(call[c].command) OBVIOUS
  <2>2. command.op \in {"add_rule", "set_upstreams", "set_listen", "add_forward"}
    BY <1>4, <2>1 DEF Mutates, Handling, Read
  <2>3. command.op = "set_listen" => command.arg \in Listens
    <3>1. command.op = "set_listen" => command = call[c].command BY <2>1 DEF Read
    <3> QED BY <3>1 DEF Addressed, CommandsWorded, Worded
  <2>a. command.op = "add_rule" =>
          command.arg \in ReadableRules \/ \A config : Conf!Invalid(config, command)
    <3> SUFFICES ASSUME command.op = "add_rule"
                 PROVE  command.arg \in ReadableRules \/ \A config : Conf!Invalid(config, command)
      OBVIOUS
    <3>1. /\ call[c].command.op = "add_rule"
          /\ command.arg = IF Readable(call[c].command.arg) THEN call[c].command.arg ELSE Bad
      BY <1>4, <2>1 DEF Read, Mutates, Handling
    <3>2. call[c].command.arg \in WrittenRules BY <3>1 DEF Addressed, CommandsWorded, Worded
    <3> QED BY <3>1, <3>2 DEF Conf!Invalid, ReadableRules
  <2>4. PICK counted, failing : /\ counted = daemon \/ counted = [daemon EXCEPT !.load.refused = @ + 1]
                                /\ failing = [counted EXCEPT !.load.failed = TRUE]
                                /\ \/ daemon' = failing
                                   \/ ~Conf!Invalid(daemon.load.staged, command)
                                   \/ Target(call[c].load) # "staged"
    BY <1>4, <2>1 DEF Mutates, Refusing
  <2>5. \/ daemon' = daemon \/ daemon' = failing
        \/ /\ daemon' = [daemon EXCEPT !.load.staged = Conf!Applied(@, command)]
           /\ ~Conf!Invalid(daemon.load.staged, command)
        \/ /\ daemon' = [daemon EXCEPT !.config = Conf!Applied(@, command)]
           /\ ~Conf!Invalid(daemon.config, command)
    BY <1>4, <2>1, <2>4 DEF Mutates
  <2>6. CASE daemon' = failing BY <1>1, <1>2, <2>4, <2>6 DEF DaemonAddressed
  <2>7. CASE /\ daemon' = [daemon EXCEPT !.load.staged = Conf!Applied(@, command)]
             /\ ~Conf!Invalid(daemon.load.staged, command)
    <3>1. PICK staged : staged = Conf!Applied(daemon.load.staged, command) OBVIOUS
    <3>2. Placed(staged, Listens \cup {Unset}) BY <1>2, <2>2, <2>3, <2>a, <2>7, <3>1, AppliedPlaced DEF DaemonAddressed
    <3>3. daemon' = [daemon EXCEPT !.load.staged = staged] BY <2>7, <3>1
    <3> QED BY <1>1, <1>2, <3>2, <3>3 DEF DaemonAddressed
  <2>8. CASE /\ daemon' = [daemon EXCEPT !.config = Conf!Applied(@, command)]
             /\ ~Conf!Invalid(daemon.config, command)
    <3>1. PICK config : config = Conf!Applied(daemon.config, command) OBVIOUS
    <3>2. Placed(config, Listens) BY <1>2, <2>2, <2>3, <2>a, <2>8, <3>1, AppliedPlaced DEF DaemonAddressed
    <3>3. daemon' = [daemon EXCEPT !.config = config] BY <2>8, <3>1
    <3> QED BY <1>1, <1>2, <3>2, <3>3 DEF DaemonAddressed
  <2> QED BY <1>3, <2>5, <2>6, <2>7, <2>8
<1>5. CASE TurnsOff(c)
  <2>1. daemon' = [daemon EXCEPT !.config.rules = <<>>] \/ UNCHANGED daemon BY <1>5 DEF TurnsOff
  <2>2. CASE daemon' = [daemon EXCEPT !.config.rules = <<>>]
    <3>1. PICK rules \in Seq(ReadableRules) : rules = <<>> BY EmptyRow
    <3>2. PICK config : config = [daemon.config EXCEPT !.rules = rules] OBVIOUS
    <3>3. Placed(config, Listens) BY <1>2, <3>2 DEF DaemonAddressed, Placed
    <3>4. daemon' = [daemon EXCEPT !.config = config] BY <2>2, <3>1, <3>2
    <3> QED BY <1>1, <1>2, <3>3, <3>4 DEF DaemonAddressed
  <2> QED BY <1>3, <2>1, <2>2
<1>6. CASE Reloads(c)
  <2>1. PICK id, load : /\ load = Started(id, c)
                        /\ daemon' = [daemon EXCEPT !.issued = id, !.load = load] \/ UNCHANGED daemon
    <3>1. PICK id : id = daemon.issued + 1 OBVIOUS
    <3>2. PICK load : load = Started(id, c) OBVIOUS
    <3> QED BY <1>6, <3>1, <3>2 DEF Reloads
  <2>2. Placed(load.staged, Listens \cup {Unset}) BY <2>1, NothingPlaced
  <2>3. CASE daemon' = [daemon EXCEPT !.issued = id, !.load = load]
    BY <1>1, <1>2, <2>2, <2>3 DEF DaemonAddressed
  <2> QED BY <1>3, <2>1, <2>3
<1>8. CASE Begins(c)
  <2>1. UNCHANGED daemon
    BY <1>8 DEF Begins, EndsAtOnce, Sends, CannotSend, StartsSettings, StartsLogs
  <2> QED BY <1>3, <2>1
<1>9. CASE \/ CannotBind(c) \/ Answers(c) \/ Captures(c) \/ Subscribes(c) \/ DialEnds(c)
           \/ DialsUpstreams(c)
  <2>1. UNCHANGED daemon
    BY <1>9 DEF CannotBind, Answers, Captures, Subscribes, DialEnds, DialsUpstreams
  <2> QED BY <1>3, <2>1
<1>10. CASE Receives(c) \/ Points(c) \/ WritesSetting(c) \/ ReadsLogs(c) \/ ReadsSetting(c)
  <2>1. UNCHANGED daemon
    BY <1>10 DEF Receives, Points, WritesSetting, ReadsLogs, ReadsSetting
  <2> QED BY <1>3, <2>1
<1>11. CASE Unparsed(c) \/ FollowsUp(c) BY <1>3, <1>7, <1>11 DEF Unparsed, FollowsUp
<1> QED BY <1>4, <1>5, <1>6, <1>8, <1>9, <1>10, <1>11 DEF Handles, GoesOn

\* So do the end of a run, of a daemon, and its start.
LEMMA EndsPlace ==
  ASSUME CliInv, Addressed, ScriptSucceeds \/ ScriptFails \/ CommitFails \/ Dies \/ StartsDaemon
  PROVE  DaemonAddressed'
<1>1. /\ DOMAIN daemon = {"up", "config", "issued", "load", "last"}
      /\ DOMAIN daemon.load = {"id", "caller", "runs", "staged", "failed", "refused", "lost"}
  BY DEF CliInv, DaemonShape, LoadFields
<1>2. DaemonAddressed BY DEF Addressed
<1>3. PICK none : none = NoLoad OBVIOUS
<1>4. Placed(none.staged, Listens \cup {Unset}) BY <1>3, NothingPlaced
<1>5. ASSUME NEW last, NEW config, Placed(config, Listens),
             daemon' = [daemon EXCEPT !.load = none, !.last = last, !.config = config]
      PROVE  DaemonAddressed'
  BY <1>1, <1>2, <1>4, <1>5 DEF DaemonAddressed
<1>6. ASSUME NEW last, daemon' = [daemon EXCEPT !.load = none, !.last = last]
      PROVE  DaemonAddressed'
  BY <1>1, <1>2, <1>4, <1>6 DEF DaemonAddressed
<1>7. ASSUME NEW last, Drops(last) PROVE DaemonAddressed'
  BY <1>3, <1>6, <1>7 DEF Drops
<1>8. CASE ScriptSucceeds
  <2>1. CASE Drops("failed") BY <1>7, <2>1
  <2>2. CASE ~Drops("failed")
    <3>1. PICK config : config = Conf!Replaced(daemon.config, daemon.load.staged) OBVIOUS
    <3>2. Placed(config, Listens) BY <1>2, <3>1, MovedPlaced DEF DaemonAddressed
    <3>3. daemon' = [daemon EXCEPT !.load = none, !.last = "ok", !.config = config]
      BY <1>3, <1>8, <2>2, <3>1 DEF ScriptSucceeds
    <3> QED BY <1>5, <3>2, <3>3
  <2> QED BY <2>1, <2>2
<1>9. CASE ScriptFails BY <1>7, <1>9 DEF ScriptFails
<1>10. CASE CommitFails
  <2>1. PICK config : config = Conf!Moved(daemon.config, daemon.load.staged.listen) OBVIOUS
  <2>2. Placed(config, Listens) BY <1>2, <2>1, MovedPlaced DEF DaemonAddressed
  <2>3. \/ daemon' = [daemon EXCEPT !.load = none, !.last = "failed"]
        \/ daemon' = [daemon EXCEPT !.load = none, !.last = "failed", !.config = config]
    BY <1>3, <1>10, <2>1 DEF CommitFails
  <2> QED BY <1>5, <1>6, <2>2, <2>3
<1>11. CASE Dies
  <2>1. PICK booted : booted = Booted OBVIOUS
  <2>2. daemon' = [booted EXCEPT !.up = FALSE, !.load = none] BY <1>3, <1>11, <2>1 DEF Dies
  <2> QED BY <1>4, <2>1, <2>2, BootedPlaced DEF DaemonAddressed
<1>12. CASE StartsDaemon
  <2>1. PICK booted : booted = daemon' OBVIOUS
  <2>2. booted = Booted BY <1>12, <2>1 DEF StartsDaemon
  <2> QED BY <2>1, <2>2, BootedPlaced DEF DaemonAddressed
<1> QED BY <1>8, <1>9, <1>10, <1>11, <1>12

\* The script is gone with its run.
LEMMA RunEndsScript ==
  ASSUME CliInv, ScriptSucceeds \/ ScriptFails \/ CommitFails
  PROVE  call'[Script] = Fresh
<1>0. DOMAIN call = Callers /\ Script \in Callers BY CliAssumption DEF CliInv
<1>1. ASSUME NEW g, call' = [g EXCEPT ![Script] = Fresh], DOMAIN g = Callers PROVE call'[Script] = Fresh
  BY <1>0, <1>1
<1>2. PICK g : g = IF daemon.load.caller = Unset THEN call
                   ELSE Gets(daemon.load.caller, Err("internal"))
  OBVIOUS
<1>3. DOMAIN g = Callers BY <1>0, <1>2 DEF Gets
<1>4. \A last : Drops(last) => call'[Script] = Fresh BY <1>1, <1>2, <1>3 DEF Drops
<1>5. CASE ScriptSucceeds
  <2>1. CASE Drops("failed") BY <1>4, <2>1
  <2>2. CASE ~Drops("failed")
    <3>1. PICK told : call' = [c \in Callers |->
             CASE c = Script -> Fresh
               [] c # Script /\ c = daemon.load.caller ->
                    [call[c] EXCEPT !.at = "reading", !.done = 1, !.told = told]
               [] OTHER -> call[c]]
      BY <1>5, <2>2 DEF ScriptSucceeds
    <3> QED BY <1>0, <3>1
  <2> QED BY <2>1, <2>2
<1>6. CASE ScriptFails BY <1>4, <1>6 DEF ScriptFails
<1>7. CASE CommitFails BY <1>1, <1>2, <1>3, <1>7 DEF CommitFails
<1> QED BY <1>5, <1>6, <1>7

\* A call of networksetup leaves settings that can be read.
LEMMA InvokedReadable ==
  ASSUME SettingsReadable, NEW invocation, settings' = Invoked(settings, invocation)
  PROVE  SettingsReadable'
<1>1. CASE invocation.flag = "write"
  <2>1. PICK setting : setting = [on |-> TRUE, at |-> invocation.at] OBVIOUS
  <2>2. setting \in [on : BOOLEAN, at : {setting.at}] BY <2>1
  <2>3. settings' = [settings EXCEPT ![invocation.kind] = setting] BY <1>1, <2>1 DEF Invoked
  <2> QED BY <2>2, <2>3 DEF SettingsReadable
<1>2. CASE invocation.flag = "state"
  <2>1. settings' = [settings EXCEPT ![invocation.kind].on = FALSE] BY <1>2 DEF Invoked
  <2> SUFFICES ASSUME NEW kind \in DOMAIN settings
               PROVE  settings'[kind] \in [on : BOOLEAN, at : {settings'[kind].at}]
    BY <2>1 DEF SettingsReadable
  <2>2. PICK setting : setting = settings[kind] OBVIOUS
  <2>3. PICK at : at = setting.at OBVIOUS
  <2>4. setting \in [on : BOOLEAN, at : {at}] BY <2>2, <2>3 DEF SettingsReadable
  <2>5. PICK turned : turned = settings'[kind] OBVIOUS
  <2>6. turned = setting \/ turned = [setting EXCEPT !.on = FALSE] BY <2>1, <2>2, <2>5
  <2>7. turned \in [on : BOOLEAN, at : {at}] /\ turned.at = at BY <2>4, <2>6
  <2> QED BY <2>5, <2>7
<1>3. CASE invocation.flag \notin {"write", "state"}
  <2>1. settings' = settings BY <1>3 DEF Invoked
  <2> QED BY <2>1 DEF SettingsReadable
<1> QED BY <1>1, <1>2, <1>3

\* Every step keeps the addresses and the settings.
LEMMA AddressedStays == CliInv /\ Addressed /\ [Next]_vars => Addressed'
<1> SUFFICES ASSUME CliInv, Addressed, [Next]_vars PROVE Addressed' OBVIOUS
<1>1. DaemonAddressed /\ CommandsWorded /\ SettingsReadable /\ Script \in Callers /\ DOMAIN call = Callers
  BY CliAssumption DEF Addressed, CliInv
<1>2. ASSUME NEW c \in Callers, Begins(c) \/ Handles(c) \/ GoesOn(c)
      PROVE  Addressed'
  <2>1. ASSUME NEW d \in Callers PROVE Worded(call'[d].command)
    <3>1. CASE d = c
      BY <1>1, <1>2, <3>1, NothingAsked, CommandsStay, CommandsBegin DEF CommandsWorded
    <3>2. CASE d # c /\ call'[d] = call[d] BY <1>1, <3>2 DEF CommandsWorded
    <3>3. CASE d # c /\ call'[d] # call[d]
      <4>1. d = Script /\ Reloads(c) BY <1>2, <3>3, OneAtATime
      <4>2. PICK g, id : \/ call' = Gets(c, g)
                         \/ call' = [call EXCEPT ![c].at = "held", ![Script] = [Fresh EXCEPT !.load = id]]
        BY <4>1 DEF Reloads
      <4>3. Gets(c, g)[d] = call[d] BY <1>1, <3>3 DEF Gets
      <4>4. PICK f : f = [Fresh EXCEPT !.load = id] OBVIOUS
      <4>5. call'[d] = f BY <1>1, <3>3, <4>1, <4>2, <4>3, <4>4
      <4>6. ~Asks(f.command) BY <4>4 DEF Fresh, Asks
      <4> QED BY <4>5, <4>6, NothingAsked
    <3> QED BY <3>1, <3>2, <3>3
  <2>2. SettingsReadable'
    <3>1. UNCHANGED settings \/ \E i : settings' = Invoked(settings, i)
      BY <1>2 DEF Begins, EndsAtOnce, Sends, CannotSend, StartsSettings, StartsLogs, Handles, Unparsed,
         Mutates, CannotBind, TurnsOff, Answers, Reloads, Captures, Subscribes, DialEnds,
         DialsUpstreams, GoesOn,
         Receives, FollowsUp, Points, WritesSetting, ReadsLogs, ReadsSetting
    <3>2. CASE UNCHANGED settings BY <1>1, <3>2 DEF SettingsReadable
    <3> QED BY <1>1, <3>1, <3>2, InvokedReadable
  <2>3. DaemonAddressed' BY <1>2, HandlersPlace
  <2> QED BY <2>1, <2>2, <2>3 DEF Addressed, CommandsWorded
<1>3. CASE ScriptSucceeds \/ ScriptFails \/ CommitFails \/ Dies \/ StartsDaemon
  <2>1. ASSUME NEW d \in Callers
        PROVE  call'[d].command = call[d].command \/ call'[d].command = Fresh.command
    <3>1. PICK f : f = Fresh OBVIOUS
    <3>2. CASE ScriptSucceeds \/ ScriptFails \/ CommitFails
      <4>1. d = Script => call'[d] = f BY <3>1, <3>2, RunEndsScript
      <4> QED BY <3>1, <3>2, <4>1, RunEnds
    <3>3. CASE Dies
      <4>1. call'[d] \in FateOf(d) BY <3>3 DEF Dies
      <4>2. DOMAIN call[d] = Fields BY CallParts
      <4>3. PICK reply, other, code :
              \/ call'[d] = f \/ call'[d] = call[d]
              \/ call'[d] = [call[d] EXCEPT !.at = "answered", !.reply = reply]
              \/ call'[d] = [call[d] EXCEPT !.at = "answered", !.reply = other]
              \/ call'[d] = [call[d] EXCEPT !.at = "idle", !.exit = code]
        <5>1. PICK closed, torn : closed = Err("closed") /\ torn = Err("malformed") OBVIOUS
        <5>2. \/ call'[d] = f \/ call'[d] = call[d]
              \/ call'[d] = [call[d] EXCEPT !.at = "answered", !.reply = closed]
              \/ call'[d] = [call[d] EXCEPT !.at = "answered", !.reply = torn]
              \/ call'[d] = [call[d] EXCEPT !.at = "idle", !.exit = Success]
              \/ call'[d] = [call[d] EXCEPT !.at = "idle", !.exit = Failed]
          BY <3>1, <4>1, <5>1 DEF FateOf
        <5> QED BY <5>2
      <4> QED BY <3>1, <4>2, <4>3 DEF Fields, Fresh
    <3>4. CASE StartsDaemon
      <4>1. PICK r : r = (IF Loading' THEN [Fresh EXCEPT !.load = 1] ELSE Fresh) OBVIOUS
      <4>2. call' = [call EXCEPT ![Script] = r] BY <3>4, <4>1 DEF StartsDaemon
      <4>3. r.command = Fresh.command BY <4>1 DEF Fresh
      <4> QED BY <1>1, <4>2, <4>3
    <3> QED BY <1>3, <3>2, <3>3, <3>4
  <2>2. ~Asks(Fresh.command) BY DEF Fresh, Asks
  <2>3. CommandsWorded'
    <3> SUFFICES ASSUME NEW d \in Callers PROVE Worded(call'[d].command)
      BY DEF CommandsWorded
    <3>1. CASE call'[d].command = call[d].command BY <1>1, <3>1 DEF CommandsWorded
    <3>2. CASE call'[d].command = Fresh.command BY <2>2, <3>2, NothingAsked
    <3> QED BY <2>1, <3>1, <3>2
  <2>4. SettingsReadable'
    <3>1. UNCHANGED settings BY <1>3 DEF ScriptSucceeds, ScriptFails, CommitFails, Dies, StartsDaemon
    <3> QED BY <1>1, <3>1 DEF SettingsReadable
  <2> QED BY <1>3, <2>3, <2>4, EndsPlace DEF Addressed
<1>4. CASE UNCHANGED <<daemon, call, settings>>
  BY <1>1, <1>4 DEF Addressed, DaemonAddressed, CommandsWorded, SettingsReadable
<1> QED BY <1>2, <1>3, <1>4 DEF Next, Changes, LogsALine, DayPasses, vars

\* So does the start.
LEMMA AddressedInitially == Init => Addressed
<1> SUFFICES ASSUME Init PROVE Addressed OBVIOUS
<1>1. DaemonAddressed
  <2>1. PICK booted : booted = daemon OBVIOUS
  <2>2. booted = Booted BY <2>1 DEF Init
  <2> QED BY <2>1, <2>2, BootedPlaced DEF DaemonAddressed
<1>2. CommandsWorded
  <2> SUFFICES ASSUME NEW c \in Callers PROVE call[c].command.op = "none"
    BY DEF CommandsWorded, Worded
  <2>1. PICK r : r = IF c = Script /\ Loading THEN [Fresh EXCEPT !.load = 1] ELSE Fresh OBVIOUS
  <2>2. call[c] = r BY <2>1 DEF Init
  <2> QED BY <2>1, <2>2 DEF Fresh
<1>3. SettingsReadable
  <2>1. plan \in PlanKeys /\ settings = PlanOf(plan).settings /\ Script \in Callers
    BY CliAssumption DEF Init
  <2>2. settings \in Settings BY <2>1, PlansAssumption
  <2> QED BY <2>2 DEF SettingsReadable, Settings, Setting
<1> QED BY <1>1, <1>2, <1>3 DEF Addressed

\* Every step is observed.
LEMMA StepsObserved == Next => Observes
BY DEF Next, Begins, Handles, GoesOn, EndsAtOnce, Sends, CannotSend, StartsSettings,
   StartsLogs, Unparsed, Mutates, CannotBind, TurnsOff, Answers, Reloads, Captures, Subscribes,
   DialEnds, DialsUpstreams, Receives, FollowsUp, Points, WritesSetting, ReadsLogs, ReadsSetting,
   ScriptSucceeds, ScriptFails, CommitFails, Dies, StartsDaemon, Changes, LogsALine, DayPasses

\* What there is to be seen after a step is added to what was seen of the same
\* doctor, and nothing is taken from it.
LEMMA SeenGrows ==
  ASSUME Observes, NEW c \in Callers, Doctoring(c)', NEW facts, facts = Facts(c)'
  PROVE  /\ call'[c].n # call[c].n => seen'[c] = facts
         /\ call'[c].n = call[c].n => seen[c] \subseteq seen'[c]
         /\ call'[c].n = call[c].n /\ call[c].at # "idle" => facts \subseteq seen'[c]
<1>1. seen'[c] = CASE ~Doctoring(c)' -> {}
                   [] Doctoring(c)' /\ call'[c].n # call[c].n -> facts
                   [] OTHER -> IF call[c].at = "idle" THEN seen[c] ELSE seen[c] \cup facts
  BY DEF Observes
<1> QED BY <1>1

\* What can be seen.
LEMMA FactsThere ==
  ASSUME NEW c, NEW facts, facts = Facts(c)'
  PROVE  /\ <<"daemon_reachable", daemon'.up>> \in facts
         /\ <<"ports_bound", daemon'.up>> \in facts
         /\ <<"init_file", world'.init = "executable">> \in facts
         /\ <<"last_load", daemon'.last = "ok">> \in facts
         /\ <<"log_writable", world'.logs = "writable">> \in facts
         /\ call'[c].told.kind = "told" =>
              /\ \A i \in DOMAIN call'[c].told.entries :
                   Saw(call'[c].told.entries[i], call'[c].told.entries[i] \in world'.answering, facts)
              /\ \A kind \in {"http", "https", "socks"} :
                   <<kind, settings'[kind] = [on |-> TRUE, at |-> AddressOf(kind, call'[c].told.listen)]>>
                     \in facts
<1>1. /\ <<"daemon_reachable", daemon'.up>> \in facts
      /\ <<"ports_bound", daemon'.up>> \in facts
      /\ <<"init_file", world'.init = "executable">> \in facts
      /\ <<"last_load", daemon'.last = "ok">> \in facts
      /\ <<"log_writable", world'.logs = "writable">> \in facts
  BY DEF Facts
<1>2. ASSUME call'[c].told.kind = "told", NEW i \in DOMAIN call'[c].told.entries
      PROVE  Saw(call'[c].told.entries[i], call'[c].told.entries[i] \in world'.answering, facts)
  <2>1. PICK entries : entries = call'[c].told.entries OBVIOUS
  <2>2. {<<"upstream_reachable", entries[k], entries[k] \in world'.answering>> : k \in DOMAIN entries}
          \subseteq facts
    BY <1>2, <2>1 DEF Facts
  <2> QED BY <1>2, <2>1, <2>2 DEF Saw
<1>3. ASSUME call'[c].told.kind = "told", NEW kind \in {"http", "https", "socks"}
      PROVE  <<kind, settings'[kind] = [on |-> TRUE, at |-> AddressOf(kind, call'[c].told.listen)]>>
                \in facts
  <2>1. {<<k, settings'[k] = [on |-> TRUE, at |-> AddressOf(k, call'[c].told.listen)]>> :
           k \in {"http", "https", "socks"}} \subseteq facts
    BY <1>3 DEF Facts
  <2> QED BY <2>1
<1> QED BY <1>1, <1>2, <1>3

\* An account stands when more was seen.
LEMMA AccountStands ==
  ASSUME NEW code, NEW r, NEW q, NEW found, NEW more, Accounted(code, r, found), found \subseteq more,
         r.broken => q.broken, r.reply.kind = "io" => q.reply.kind = "io", r.told = q.told
  PROVE  Accounted(code, q, more)
BY DEF Accounted, Saw

\* What was said of a doctor stays true of it.
LEMMA ExaminingStands ==
  ASSUME NEW r, NEW found, NEW more, Examining(r, found), found \subseteq more
  PROVE  Examining(r, more)
<1>1. \A code : Accounted(code, r, found) => Accounted(code, r, more) BY AccountStands
<1>2. ToldTruly(r.told, found) => ToldTruly(r.told, more) BY DEF ToldTruly
<1>3. Looked(r, found) => Looked(r, more) BY DEF Looked
<1>4. FoundSoFar(r, found) => FoundSoFar(r, more) BY DEF FoundSoFar, Saw
<1> QED BY <1>1, <1>2, <1>3, <1>4 DEF Examining

\* Of all that can happen only this changes a doctor's invocation.
LEMMA DoctorsMoves ==
  ASSUME CliInv, Next, plan' = plan, NEW c \in Callers, Doctoring(c), Examining(call[c], seen[c]),
         Doctoring(c)', call'[c].n = call[c].n
  PROVE  \/ call'[c] = call[c] \/ Captures(c) \/ ReadsSetting(c) \/ DialEnds(c) \/ DialsUpstreams(c)
         \/ Receives(c) \/ Dies
<1>1. /\ Argv(c).verb = "doctor" /\ call[c].at \in {"sent", "reading", "dialling", "answered", "idle"}
      /\ call[c].at = "sent" => call[c].command.op = "doctor"
      /\ call[c].at = "answered" => call[c].reply.kind \in {"doctor"} \cup Unreachables
  BY DEF Doctoring, Examining, Unreachables
<1>2. DOMAIN call = Callers /\ call[c].n \in Nat /\ DOMAIN call[c] = Fields /\ Script \in Callers
  BY CallParts, CliAssumption DEF CliInv
<1>3. call'[c].n > 0 BY DEF Doctoring
<1>4. Fresh.n = 0 /\ \A id : [Fresh EXCEPT !.load = id].n = 0 BY DEF Fresh
<1>5. CASE Begins(c)
  <2>1. PICK b : b = Begun(c) OBVIOUS
  <2>2. Starting(c) BY <1>5 DEF Begins, EndsAtOnce, Sends, CannotSend, StartsSettings, StartsLogs
  <2>3. DOMAIN b = Fields /\ b.n = call[c].n + 1 BY <2>1, <2>2, BegunParts
  <2>4. PICK r : call' = [call EXCEPT ![c] = r] /\ r.n = b.n
    <3>1. CASE EndsAtOnce(c)
      <4>1. PICK code : call' = [call EXCEPT ![c] = [b EXCEPT !.exit = code]] BY <2>1, <3>1 DEF EndsAtOnce
      <4>2. PICK r : r = [b EXCEPT !.exit = code] OBVIOUS
      <4> QED BY <2>3, <4>1, <4>2 DEF Fields, Fresh
    <3>2. CASE Sends(c)
      <4>1. PICK command : command = CommandOf(Coming(c)) OBVIOUS
      <4>2. PICK r : r = [b EXCEPT !.at = "sent", !.command = command] OBVIOUS
      <4>3. call' = [call EXCEPT ![c] = r] BY <2>1, <3>2, <4>1, <4>2 DEF Sends
      <4> QED BY <2>3, <4>2, <4>3 DEF Fields, Fresh
    <3>3. CASE CannotSend(c)
      <4>1. PICK reply : reply = Err(IF daemon.up THEN "io" ELSE "no_daemon") OBVIOUS
      <4>2. PICK r : r = [b EXCEPT !.at = "answered", !.reply = reply] OBVIOUS
      <4>3. call' = [call EXCEPT ![c] = r] BY <2>1, <3>3, <4>1, <4>2 DEF CannotSend
      <4> QED BY <2>3, <4>2, <4>3 DEF Fields, Fresh
    <3>4. CASE StartsSettings(c)
      <4>1. PICK r : /\ call' = [call EXCEPT ![c] = r]
                     /\ \/ r = [b EXCEPT !.at = "reading"]
                        \/ r = [b EXCEPT !.at = "writing", !.queue = Disabling]
        BY <2>1, <3>4 DEF StartsSettings
      <4>2. r.n = b.n BY <2>3, <4>1 DEF Fields, Fresh
      <4> QED BY <4>1, <4>2
    <3>5. CASE StartsLogs(c)
      <4>1. PICK at, exit : at = (IF reader'.at = "off" THEN "idle" ELSE "logging") /\ exit = reader'.exit
        OBVIOUS
      <4>2. PICK r : call' = [call EXCEPT ![c] = r] /\ r = [b EXCEPT !.at = at, !.exit = exit]
        BY <2>1, <3>5, <4>1 DEF StartsLogs
      <4> QED BY <2>3, <4>2 DEF Fields, Fresh
    <3> QED BY <1>5, <3>1, <3>2, <3>3, <3>4, <3>5 DEF Begins
  <2> QED BY <1>2, <2>3, <2>4
<1>6. CASE Handles(c) \/ GoesOn(c)
  <2>1. ~Unparsed(c) /\ ~Mutates(c) /\ ~CannotBind(c) /\ ~TurnsOff(c) /\ ~Answers(c) /\ ~Reloads(c)
        /\ ~Subscribes(c)
    BY <1>1 DEF Unparsed, Mutates, CannotBind, TurnsOff, Answers, Reloads, Subscribes, Handling
  <2>2. ~FollowsUp(c) BY <1>1 DEF FollowsUp, FailsItsLoad, Unreachables
  <2>3. ~Points(c) /\ ~WritesSetting(c) /\ ~ReadsLogs(c)
    BY <1>1 DEF Points, ProxyOn, WritesSetting, ReadsLogs
  <2> QED BY <1>6, <2>1, <2>2, <2>3 DEF Handles, GoesOn
<1>7. ASSUME NEW d \in Callers, d # c, Begins(d) \/ Handles(d) \/ GoesOn(d)
      PROVE  call'[c] = call[c]
  <2>1. CASE c = Script /\ Reloads(d)
    <3>1. PICK g, id : \/ call' = Gets(d, g)
                       \/ call' = [call EXCEPT ![d].at = "held", ![Script] = [Fresh EXCEPT !.load = id]]
      BY <2>1 DEF Reloads
    <3>2. Gets(d, g)[c] = call[c] BY <1>2, <1>7 DEF Gets
    <3>3. PICK f : f = [Fresh EXCEPT !.load = id] OBVIOUS
    <3>4. CASE call' = [call EXCEPT ![d].at = "held", ![Script] = [Fresh EXCEPT !.load = id]]
      <4>1. call'[c] = f BY <1>2, <1>7, <2>1, <3>3, <3>4
      <4> QED BY <1>3, <1>4, <3>3, <4>1
    <3> QED BY <3>1, <3>2, <3>4
  <2> QED BY <1>7, <2>1, OneAtATime
<1>8. CASE ScriptSucceeds \/ ScriptFails \/ CommitFails
  <2>1. CASE c # Script BY <1>1, <1>8, <2>1, RunEnds
  <2>2. CASE c = Script
    <3>1. call'[Script] = Fresh BY <1>8, RunEndsScript
    <3> QED BY <1>3, <1>4, <2>2, <3>1
  <2> QED BY <2>1, <2>2
<1>9. CASE StartsDaemon
  <2>1. PICK r : r = (IF Loading' THEN [Fresh EXCEPT !.load = 1] ELSE Fresh) OBVIOUS
  <2>2. call' = [call EXCEPT ![Script] = r] BY <1>9, <2>1 DEF StartsDaemon
  <2>3. r.n = 0 BY <1>4, <2>1
  <2> QED BY <1>2, <1>3, <2>2, <2>3
<1>10. CASE Changes \/ LogsALine \/ DayPasses BY <1>10 DEF Changes, LogsALine, DayPasses
<1> QED BY <1>5, <1>6, <1>7, <1>8, <1>9, <1>10 DEF Next

\* Only an invocation that starts is another one than before.
LEMMA OthersGoOn ==
  ASSUME CliInv, Next, NEW c \in Callers, call'[c].n \notin {call[c].n, 0}
  PROVE  Begins(c)
<1>1. DOMAIN call = Callers /\ DOMAIN call[c] = Fields /\ Script \in Callers
  BY CallParts, CliAssumption DEF CliInv
<1>2. Fresh.n = 0 /\ \A id : [Fresh EXCEPT !.load = id].n = 0 BY DEF Fresh
<1>3. ASSUME NEW d \in Callers, Begins(d) \/ Handles(d) \/ GoesOn(d), ~Begins(c)
      PROVE  FALSE
  <2>1. CASE d = c BY <1>3, <2>1, CommandsStay
  <2>2. CASE d # c
    <3>1. c = Script /\ Reloads(d) BY <1>3, <2>2, OneAtATime
    <3>2. PICK g, id : \/ call' = Gets(d, g)
                       \/ call' = [call EXCEPT ![d].at = "held", ![Script] = [Fresh EXCEPT !.load = id]]
      BY <3>1 DEF Reloads
    <3>3. Gets(d, g)[c] = call[c] BY <1>1, <2>2 DEF Gets
    <3>4. PICK f : f = [Fresh EXCEPT !.load = id] OBVIOUS
    <3>5. CASE call' = [call EXCEPT ![d].at = "held", ![Script] = [Fresh EXCEPT !.load = id]]
      <4>1. call'[c] = f BY <1>1, <2>2, <3>1, <3>4, <3>5
      <4> QED BY <1>2, <3>4, <4>1
    <3> QED BY <3>2, <3>3, <3>5
  <2> QED BY <2>1, <2>2
<1>4. CASE ScriptSucceeds \/ ScriptFails \/ CommitFails
  <2>1. CASE c = Script
    <3>1. call'[Script] = Fresh BY <1>4, RunEndsScript
    <3> QED BY <1>2, <2>1, <3>1
  <2> QED BY <1>4, <2>1, RunEnds
<1>5. CASE Dies
  <2>1. PICK f, closed, torn : f = Fresh /\ closed = Err("closed") /\ torn = Err("malformed") OBVIOUS
  <2>2. \/ call'[c] = f \/ call'[c] = call[c]
        \/ call'[c] = [call[c] EXCEPT !.at = "answered", !.reply = closed]
        \/ call'[c] = [call[c] EXCEPT !.at = "answered", !.reply = torn]
        \/ call'[c] = [call[c] EXCEPT !.at = "idle", !.exit = Success]
        \/ call'[c] = [call[c] EXCEPT !.at = "idle", !.exit = Failed]
    <3>1. call'[c] \in FateOf(c) BY <1>5 DEF Dies
    <3> QED BY <2>1, <3>1 DEF FateOf
  <2> QED BY <1>1, <1>2, <2>1, <2>2 DEF Fields, Fresh
<1>6. CASE StartsDaemon
  <2>1. PICK r : r = (IF Loading' THEN [Fresh EXCEPT !.load = 1] ELSE Fresh) OBVIOUS
  <2>2. call' = [call EXCEPT ![Script] = r] BY <1>6, <2>1 DEF StartsDaemon
  <2>3. r.n = 0 BY <1>2, <2>1
  <2> QED BY <1>1, <2>2, <2>3
<1>7. CASE Changes \/ LogsALine \/ DayPasses BY <1>7 DEF Changes, LogsALine, DayPasses
<1> QED BY <1>3, <1>4, <1>5, <1>6, <1>7 DEF Next

\* A doctor that starts.
LEMMA DoctorBegins ==
  ASSUME CliInv, Addressed, Observes, plan' = plan, NEW c \in Callers, Begins(c), Doctoring(c)',
         call'[c].n # call[c].n
  PROVE  Examining(call'[c], seen'[c])
<1>1. Starting(c) BY DEF Begins, EndsAtOnce, Sends, CannotSend, StartsSettings, StartsLogs
<1>2. PICK b : b = Begun(c) OBVIOUS
<1>3. /\ DOMAIN b = Fields /\ b.n = call[c].n + 1 /\ b.n \in 1..Len(Calls(c)) /\ b.told.kind = "none"
      /\ Calls(c)[b.n] = Coming(c) /\ DOMAIN call = Callers
  BY <1>1, <1>2, BegunParts DEF CliInv
<1>4. b.read = <<>> /\ b.ended = {} /\ b.reached = {}
  <2>1. b = [Fresh EXCEPT !.n = call[c].n + 1, !.load = call[c].load] BY <1>2 DEF Begun
  <2> QED BY <2>1 DEF Fresh
<1>5. PICK r : /\ call' = [call EXCEPT ![c] = r] /\ DOMAIN r = Fields /\ r.n = b.n /\ r.told = b.told
               /\ \/ /\ Sends(c) /\ r.at = "sent" /\ r.command = CommandOf(Coming(c)) /\ r.read = b.read
                     /\ r.ended = b.ended /\ r.reached = b.reached
                  \/ /\ CannotSend(c) /\ r.at = "answered"
                     /\ \/ r.reply.kind = "io"
                        \/ r.reply.kind = "no_daemon" /\ daemon'.up = FALSE
                  \/ ~Sends(c) /\ ~CannotSend(c)
  <2>1. CASE Sends(c)
    <3>1. PICK command : command = CommandOf(Coming(c)) OBVIOUS
    <3>2. PICK r : r = [b EXCEPT !.at = "sent", !.command = command] OBVIOUS
    <3>3. call' = [call EXCEPT ![c] = r] BY <1>2, <2>1, <3>1, <3>2 DEF Sends
    <3>4. /\ DOMAIN r = Fields /\ r.n = b.n /\ r.told = b.told /\ r.at = "sent"
          /\ r.command = command /\ r.read = b.read /\ r.ended = b.ended /\ r.reached = b.reached
      BY <1>3, <3>2 DEF Fields, Fresh
    <3> QED BY <2>1, <3>1, <3>3, <3>4
  <2>2. CASE CannotSend(c)
    <3>1. PICK reply : reply = Err(IF daemon.up THEN "io" ELSE "no_daemon") OBVIOUS
    <3>2. PICK r : r = [b EXCEPT !.at = "answered", !.reply = reply] OBVIOUS
    <3>3. call' = [call EXCEPT ![c] = r] BY <1>2, <2>2, <3>1, <3>2 DEF CannotSend
    <3>4. DOMAIN r = Fields /\ r.n = b.n /\ r.told = b.told /\ r.at = "answered" /\ r.reply = reply
      BY <1>3, <3>2 DEF Fields, Fresh
    <3>5. daemon' = daemon /\ daemon.up \in BOOLEAN BY <2>2 DEF CannotSend, Addressed, DaemonAddressed
    <3>6. reply.kind = "io" \/ (reply.kind = "no_daemon" /\ daemon'.up = FALSE)
      BY <3>1, <3>5 DEF Err
    <3> QED BY <2>2, <3>3, <3>4, <3>6
  <2>3. CASE EndsAtOnce(c) /\ ~Sends(c) /\ ~CannotSend(c)
    <3>1. PICK code : call' = [call EXCEPT ![c] = [b EXCEPT !.exit = code]] BY <1>2, <2>3 DEF EndsAtOnce
    <3>2. PICK r : r = [b EXCEPT !.exit = code] OBVIOUS
    <3> QED BY <1>3, <2>3, <3>1, <3>2 DEF Fields, Fresh
  <2>4. CASE StartsSettings(c) /\ ~Sends(c) /\ ~CannotSend(c)
    <3>1. PICK r : /\ call' = [call EXCEPT ![c] = r]
                   /\ \/ r = [b EXCEPT !.at = "reading"]
                      \/ r = [b EXCEPT !.at = "writing", !.queue = Disabling]
      BY <1>2, <2>4 DEF StartsSettings
    <3> QED BY <1>3, <2>4, <3>1 DEF Fields, Fresh
  <2>5. CASE StartsLogs(c) /\ ~Sends(c) /\ ~CannotSend(c)
    <3>1. PICK at, exit : at = (IF reader'.at = "off" THEN "idle" ELSE "logging") /\ exit = reader'.exit
      OBVIOUS
    <3>2. PICK r : call' = [call EXCEPT ![c] = r] /\ r = [b EXCEPT !.at = at, !.exit = exit]
      BY <1>2, <2>5, <3>1 DEF StartsLogs
    <3> QED BY <1>3, <2>5, <3>2 DEF Fields, Fresh
  <2> QED BY <2>1, <2>2, <2>3, <2>4, <2>5 DEF Begins
<1>6. call'[c] = r BY <1>3, <1>5
<1>7. PICK argv : argv = Coming(c) OBVIOUS
<1>8. argv.verb = "doctor"
  <2>1. Calls(c)' = Calls(c) BY DEF Calls
  <2>2. Argv(c)' = Calls(c)'[r.n] BY <1>6 DEF Argv
  <2>3. Argv(c)' = Coming(c) BY <1>3, <1>5, <2>1, <2>2
  <2> QED BY <1>7, <2>3 DEF Doctoring
<1>9. ~EndsAtOnce(c) /\ ~StartsSettings(c) /\ ~StartsLogs(c)
  BY <1>7, <1>8 DEF EndsAtOnce, StartsSettings, StartsLogs, Malformed, NeedsRoot
<1>10. CommandOf(argv).op = "doctor" BY <1>8 DEF CommandOf
<1>11. PICK facts : facts = Facts(c)' OBVIOUS
<1>12. seen'[c] = facts BY <1>11, SeenGrows
<1>13. <<"daemon_reachable", daemon'.up>> \in facts BY <1>11, FactsThere
<1>14. ToldTruly(r.told, facts) BY <1>3, <1>5 DEF ToldTruly
<1> QED BY <1>3, <1>4, <1>5, <1>6, <1>7, <1>9, <1>10, <1>12, <1>13, <1>14 DEF Begins, Examining, Unreachables

\* The daemon answers with what can be seen at that moment.
LEMMA DoctorCaptured ==
  ASSUME CliInv, Addressed, Observes, NEW c \in Callers, Doctoring(c)',
         Examining(call[c], seen[c]), Captures(c)
  PROVE  Examining(call'[c], seen'[c])
<1>1. DOMAIN call = Callers /\ DOMAIN call[c] = Fields BY CallParts DEF CliInv
<1>2. /\ call[c].at = "sent" /\ daemon.up = TRUE /\ call[c].read = <<>>
      /\ call[c].ended = {} /\ call[c].reached = {}
      /\ daemon' = daemon /\ world' = world /\ daemon.config.listen \in Listens
  BY DEF Captures, Handling, Examining, Addressed, DaemonAddressed, Placed
<1>3. PICK told : told = Snapshot(daemon.config, daemon.last) OBVIOUS
<1>4. call' = [call EXCEPT ![c].at = "reading", ![c].told = told] BY <1>3 DEF Captures
<1>5. PICK r : r = call'[c] OBVIOUS
<1>6. /\ r.at = "reading" /\ r.told = told /\ r.read = <<>> /\ r.n = call[c].n
      /\ r.ended = {} /\ r.reached = {}
  BY <1>1, <1>2, <1>4, <1>5 DEF Fields, Fresh
<1>7. PICK facts : facts = Facts(c)' OBVIOUS
<1>8. facts \subseteq seen'[c] BY <1>2, <1>5, <1>6, <1>7, SeenGrows
<1>9. /\ <<"daemon_reachable", TRUE>> \in facts /\ <<"ports_bound", TRUE>> \in facts
      /\ <<"init_file", world.init = "executable">> \in facts
      /\ <<"last_load", daemon.last = "ok">> \in facts
      /\ <<"log_writable", world.logs = "writable">> \in facts
  BY <1>2, <1>7, FactsThere
<1>10. PICK findings : findings = Findings(daemon.last) OBVIOUS
<1>11. told.kind = "told" /\ told.listen = daemon.config.listen /\ told.findings = findings
  BY <1>3, <1>10 DEF Snapshot
<1>12. DOMAIN findings = Checked BY <1>10 DEF Findings, Checked
<1>13. /\ findings["daemon_reachable"] = TRUE /\ findings["ports_bound"] = TRUE
       /\ findings["init_file"] = (world.init = "executable")
       /\ findings["last_load"] = (daemon.last = "ok")
       /\ findings["log_writable"] = (world.logs = "writable")
  BY <1>10 DEF Findings, PortsBound, InitFileOk, LastLoadOk, LogWritable
<1>14. ASSUME NEW check \in Checked
       PROVE  findings[check] \in BOOLEAN /\ <<check, findings[check]>> \in facts
  BY <1>9, <1>13 DEF Checked
<1>15. ToldTruly(told, seen'[c]) BY <1>2, <1>8, <1>11, <1>12, <1>14 DEF ToldTruly
<1>16. Looked(r, seen'[c])
  <2>1. r.read \in Seq({}) BY <1>6
  <2> QED BY <1>6, <2>1 DEF Looked
<1>17. FoundSoFar(r, seen'[c]) BY <1>6 DEF FoundSoFar
<1> QED BY <1>5, <1>6, <1>11, <1>15, <1>16, <1>17 DEF Examining

\* The doctor of a daemon that reads a setting.
LEMMA DoctorReads ==
  ASSUME CliInv, Addressed, Observes, plan' = plan, NEW c \in Callers, Doctoring(c), Doctoring(c)',
         Examining(call[c], seen[c]), ReadsSetting(c)
  PROVE  Examining(call'[c], seen'[c])
<1>1. DOMAIN call = Callers /\ DOMAIN call[c] = Fields BY CallParts DEF CliInv
<1>2. /\ call[c].at = "reading" /\ call[c].told.kind = "told" /\ ToldTruly(call[c].told, seen[c])
      /\ Looked(call[c], seen[c]) /\ FoundSoFar(call[c], seen[c]) /\ Len(call[c].read) < 3 /\ ~Local(c) /\ settings' = settings
  BY DEF ReadsSetting, Examining, Doctoring, Local
<1>3. PICK old, told, S : old = call[c].read /\ told = call[c].told /\ old \in Seq(S)
  BY <1>2 DEF Looked
<1>4. PICK k, kind, found : /\ k = Len(old) + 1 /\ kind = ProxyKinds[k]
                            /\ found = ParseReport(settings[kind])
  OBVIOUS
<1>5. k \in 1..3 /\ Len(old) \in Nat BY <1>2, <1>3, <1>4
<1>6. kind \in {"http", "https", "socks"} BY <1>4, <1>5 DEF ProxyKinds
<1>7. PICK read : read = Append(old, found) OBVIOUS
<1>8. /\ read \in Seq(S \cup {found}) /\ Len(read) = k /\ DOMAIN read = 1..k /\ read[k] = found
      /\ \A i \in DOMAIN old : read[i] = old[i] /\ i \in 1..k
      /\ \A i \in 1..k : i = k \/ i \in DOMAIN old
  <2>1. old \in Seq(S \cup {found}) BY <1>3
  <2> QED BY <1>4, <1>5, <1>7, <2>1
<1>9. PICK r : r = call'[c] OBVIOUS
<1>10. /\ r.told = told /\ r.n = call[c].n /\ r.ended = call[c].ended /\ r.reached = call[c].reached
       /\ \/ r.read = read /\ Len(read) < 3 /\ r.at = "reading"
          \/ r.read = read /\ Len(read) = 3 /\ r.at = "dialling"
          \/ r.read = old /\ r.broken = TRUE /\ r.at = "dialling"
  <2>1. ASSUME NEW some
        PROVE  Reported(c, some) = [call EXCEPT ![c].at = "dialling", ![c].read = some]
    BY <1>2 DEF Reported
  <2>2. CASE Len(read) # 3 /\ call' = [call EXCEPT ![c].read = read]
    BY <1>1, <1>2, <1>3, <1>5, <1>8, <1>9, <2>2 DEF Fields, Fresh
  <2>3. CASE Len(read) = 3 /\ call' = Reported(c, read)
    <3>1. call' = [call EXCEPT ![c].at = "dialling", ![c].read = read] BY <2>1, <2>3
    <3> QED BY <1>1, <1>3, <1>9, <2>3, <3>1 DEF Fields, Fresh
  <2>4. CASE call' = [Reported(c, old) EXCEPT ![c].broken = TRUE]
    <3>1. PICK dialling : dialling = [call EXCEPT ![c].at = "dialling", ![c].read = old] OBVIOUS
    <3>2. call' = [dialling EXCEPT ![c].broken = TRUE] BY <2>1, <2>4, <3>1
    <3>3. /\ DOMAIN dialling = Callers /\ DOMAIN dialling[c] = Fields /\ dialling[c].at = "dialling"
          /\ dialling[c].read = old /\ dialling[c].told = told /\ dialling[c].n = call[c].n
          /\ dialling[c].ended = call[c].ended /\ dialling[c].reached = call[c].reached
      BY <1>1, <1>3, <3>1 DEF Fields, Fresh
    <3> QED BY <1>9, <3>2, <3>3 DEF Fields, Fresh
  <2>5. \/ call' = IF Len(read) = 3 THEN Reported(c, read) ELSE [call EXCEPT ![c].read = read]
        \/ call' = [Reported(c, old) EXCEPT ![c].broken = TRUE]
    BY <1>3, <1>4, <1>7 DEF ReadsSetting
  <2> QED BY <2>2, <2>3, <2>4, <2>5
<1>11. PICK facts : facts = Facts(c)' OBVIOUS
<1>12. facts \subseteq seen'[c] /\ seen[c] \subseteq seen'[c]
  BY <1>2, <1>9, <1>10, <1>11, SeenGrows
<1>13. PICK addr : addr = AddressOf(kind, told.listen) OBVIOUS
<1>14. <<kind, settings[kind] = [on |-> TRUE, at |-> addr]>> \in facts
  <2>1. call'[c].told = told /\ told.kind = "told" BY <1>2, <1>3, <1>9, <1>10
  <2>2. <<kind, settings'[kind] = [on |-> TRUE, at |-> AddressOf(kind, told.listen)]>> \in facts
    BY <1>6, <1>11, <2>1, FactsThere
  <2> QED BY <1>2, <1>13, <2>2
<1>15. (found = addr) = (settings[kind] = [on |-> TRUE, at |-> addr])
  <2>1. told.listen \in [http : Addresses, socks : Addresses]
    BY <1>2, <1>3, ListensAssumption DEF ToldTruly
  <2>2. addr # Nowhere BY <1>13, <2>1, AddressesAssumption DEF AddressOf
  <2>3. PICK setting : setting = settings[kind] OBVIOUS
  <2>4. setting \in [on : BOOLEAN, at : {setting.at}]
    BY <1>6, <2>3 DEF Addressed, SettingsReadable
  <2>5. found = IF setting.on THEN setting.at ELSE Nowhere BY <1>4, <2>3 DEF ParseReport
  <2>6. setting = [on |-> TRUE, at |-> addr] <=> setting.on = TRUE /\ setting.at = addr
    <3>1. PICK pointed : pointed = [on |-> TRUE, at |-> addr] OBVIOUS
    <3>2. setting.on = TRUE /\ setting.at = addr => setting = pointed BY <2>4, <3>1
    <3>3. setting = pointed => setting.on = TRUE /\ setting.at = addr BY <3>1
    <3> QED BY <3>1, <3>2, <3>3
  <2>7. CASE setting.on = TRUE BY <2>3, <2>5, <2>6, <2>7
  <2>8. CASE setting.on = FALSE BY <2>2, <2>3, <2>5, <2>6, <2>8
  <2> QED BY <2>4, <2>7, <2>8
<1>16. <<kind, found = addr>> \in seen'[c] BY <1>12, <1>14, <1>15
<1>17. \A i \in DOMAIN old : <<ProxyKinds[i], old[i] = AddressOf(ProxyKinds[i], told.listen)>> \in seen'[c]
  BY <1>2, <1>3, <1>12 DEF Looked
<1>18. Looked(r, seen'[c])
  <2>1. CASE r.read = old BY <1>3, <1>10, <1>17, <2>1 DEF Looked
  <2>2. CASE r.read = read
    <3>1. ASSUME NEW i \in 1..k
          PROVE  <<ProxyKinds[i], read[i] = AddressOf(ProxyKinds[i], told.listen)>> \in seen'[c]
      <4>1. CASE i = k BY <1>4, <1>8, <1>13, <1>16, <4>1
      <4>2. CASE i # k
        <5>1. i \in DOMAIN old /\ read[i] = old[i] BY <1>8, <4>2
        <5> QED BY <1>17, <5>1
      <4> QED BY <4>1, <4>2
    <3> QED BY <1>8, <1>10, <2>2, <3>1 DEF Looked
  <2> QED BY <1>10, <2>1, <2>2
<1>19. ToldTruly(told, seen'[c]) BY <1>2, <1>3, <1>12 DEF ToldTruly
<1>20. FoundSoFar(r, seen'[c]) BY <1>2, <1>3, <1>10, <1>12 DEF FoundSoFar, Saw
<1> QED BY <1>2, <1>3, <1>9, <1>10, <1>18, <1>19, <1>20 DEF Examining

\* What a report's code says of the seven checks.
LEMMA ReportTells ==
  ASSUME NEW findings, DOMAIN findings = CheckNames, NEW code, code = ExitOf(Report(findings)),
         \A check \in CheckNames : findings[check] \in BOOLEAN
  PROVE  /\ code \in {Success, Failed, UpstreamDown}
         /\ code = Success => \A check \in CheckNames : findings[check] = TRUE
         /\ code = UpstreamDown => /\ \A check \in CheckNames \ {"upstream_reachable"} : findings[check] = TRUE
                                   /\ findings["upstream_reachable"] = FALSE
         /\ code = Failed => \E check \in CheckNames \ {"upstream_reachable"} : findings[check] = FALSE
<1>1. PICK checks, failed : /\ checks = Report(findings)
                            /\ failed = {checks[i].name : i \in {j \in DOMAIN checks : ~checks[j].ok}}
  OBVIOUS
<1>2. DOMAIN CHECKS = 1..7 /\ CheckNames = {CHECKS[i] : i \in 1..7} BY DEF CheckNames, CHECKS
<1>3. DOMAIN checks = 1..7 /\ \A i \in 1..7 : checks[i].name = CHECKS[i] /\ checks[i].ok = findings[CHECKS[i]]
  BY <1>1, <1>2 DEF Report
<1>4. failed = {check \in CheckNames : findings[check] = FALSE}
  <2>1. \A check \in failed : check \in CheckNames /\ findings[check] = FALSE
    <3> TAKE check \in failed
    <3>1. PICK i \in 1..7 : check = checks[i].name /\ ~checks[i].ok BY <1>1, <1>3
    <3> QED BY <1>2, <1>3, <3>1
  <2>2. \A check \in CheckNames : findings[check] = FALSE => check \in failed
    <3> TAKE check \in CheckNames
    <3> HAVE findings[check] = FALSE
    <3>1. PICK i \in 1..7 : check = CHECKS[i] BY <1>2
    <3> QED BY <1>1, <1>3, <3>1
  <2> QED BY <2>1, <2>2
<1>5. code = CASE failed = {} -> 0 [] failed = {"upstream_reachable"} -> 3 [] OTHER -> 1
  BY <1>1 DEF ExitOf
<1>6. "upstream_reachable" \in CheckNames BY <1>2 DEF CHECKS
<1>7. CASE failed = {} BY <1>4, <1>5, <1>7 DEF Success, Failed, UpstreamDown
<1>8. CASE failed = {"upstream_reachable"}
  BY <1>4, <1>5, <1>6, <1>8 DEF Success, Failed, UpstreamDown
<1>9. CASE failed # {} /\ failed # {"upstream_reachable"}
  <2>1. PICK check \in failed : check # "upstream_reachable" BY <1>9
  <2> QED BY <1>4, <1>5, <1>9, <2>1 DEF Success, Failed, UpstreamDown
<1> QED BY <1>7, <1>8, <1>9

\* Without an answer there is nothing a check could have found well.
LEMMA UnreachableFails == ExitOf(UnreachableReport) = Failed
<1>1. PICK checks, failed : /\ checks = UnreachableReport
                            /\ failed = {checks[i].name : i \in {j \in DOMAIN checks : ~checks[j].ok}}
  OBVIOUS
<1>2. DOMAIN checks = 1..7 /\ checks[1].name = "daemon_reachable" /\ checks[1].ok = FALSE
  <2>1. PICK findings : findings = [check \in {"daemon_reachable"} |-> FALSE] OBVIOUS
  <2>2. checks = Report(findings) BY <1>1, <2>1 DEF UnreachableReport
  <2>3. DOMAIN CHECKS = 1..7 /\ CHECKS[1] = "daemon_reachable" BY DEF CHECKS
  <2>4. DOMAIN checks = 1..7
        /\ checks[1] = [name |-> CHECKS[1],
                        ok |-> CHECKS[1] \in DOMAIN findings /\ findings[CHECKS[1]]]
    BY <2>2, <2>3 DEF Report
  <2>5. ("daemon_reachable" \in DOMAIN findings /\ findings["daemon_reachable"]) = FALSE BY <2>1
  <2>6. PICK first : first = checks[1] OBVIOUS
  <2>7. first = [name |-> "daemon_reachable", ok |-> FALSE] BY <2>3, <2>4, <2>5, <2>6
  <2>8. first.name = "daemon_reachable" /\ first.ok = FALSE BY <2>7
  <2> QED BY <2>4, <2>6, <2>8
<1>3. "daemon_reachable" \in failed BY <1>1, <1>2
<1>4. failed # {} /\ failed # {"upstream_reachable"} BY <1>3
<1>5. ExitOf(checks) = CASE failed = {} -> 0 [] failed = {"upstream_reachable"} -> 3 [] OTHER -> 1
  BY <1>1 DEF ExitOf
<1> QED BY <1>1, <1>4, <1>5 DEF Failed

\* The settings are found right only if each was seen to be, and found wrong only
\* if one was seen to be or could not be told from another.
LEMMA SettingsTell ==
  ASSUME NEW r, NEW found, Looked(r, found), r.told.listen \in Listens
  PROVE  /\ SystemProxyOk(r.read, r.told.listen) =>
              \A kind \in {"http", "https", "socks"} : <<kind, TRUE>> \in found
         /\ ~SystemProxyOk(r.read, r.told.listen) /\ Len(r.read) = 3 =>
              \/ \E kind \in {"http", "https", "socks"} : <<kind, FALSE>> \in found
              \/ {r.told.listen.http, r.told.listen.socks} \cap V6 # {}
<1>1. PICK read, listen, S : read = r.read /\ listen = r.told.listen /\ read \in Seq(S) BY DEF Looked
<1>2. \A i \in DOMAIN read : <<ProxyKinds[i], read[i] = AddressOf(ProxyKinds[i], listen)>> \in found
  BY <1>1 DEF Looked
<1>3. /\ ProxyKinds[1] = "http" /\ ProxyKinds[2] = "https" /\ ProxyKinds[3] = "socks"
  BY DEF ProxyKinds
<1>4. listen \in [http : Addresses, socks : Addresses] BY <1>1, ListensAssumption
<1>5. ASSUME Len(read) = 3, NEW i \in 1..3
      PROVE  LET addr == AddressOf(ProxyKinds[i], listen) IN
             /\ addr \in Addresses /\ addr \in {listen.http, listen.socks} /\ i \in DOMAIN read
             /\ EndpointSpelled(read[i]) = AddressSpelled(addr) => read[i] = addr
             /\ read[i] = addr /\ addr \notin V6 => /\ EndpointSpelled(read[i]) = AddressSpelled(addr)
                                                    /\ read[i] # Nowhere
  <2>1. PICK addr : addr = AddressOf(ProxyKinds[i], listen) OBVIOUS
  <2>2. addr \in Addresses /\ addr \in {listen.http, listen.socks}
    BY <1>4, <2>1 DEF AddressOf
  <2>3. i \in DOMAIN read BY <1>1, <1>5
  <2>4. addr # Nowhere BY <2>2, AddressesAssumption
  <2>5. PICK endpoint, spelled : endpoint = EndpointSpelled(read[i]) /\ spelled = AddressSpelled(addr)
    OBVIOUS
  <2>6. endpoint = spelled => read[i] = addr
    <3>1. endpoint.host = read[i] /\ spelled.host = addr BY <2>5 DEF EndpointSpelled, AddressSpelled
    <3> QED BY <3>1
  <2>7. read[i] = addr /\ addr \notin V6 => endpoint = spelled
    <3>1. ASSUME addr \notin V6 PROVE EndpointSpelled(addr) = AddressSpelled(addr)
      <4>1. (addr \in V6) = FALSE BY <3>1
      <4> QED BY <4>1, Zenon DEF EndpointSpelled, AddressSpelled
    <3> QED BY <2>5, <3>1
  <2> QED BY <2>1, <2>2, <2>3, <2>4, <2>5, <2>6, <2>7
<1>6. ASSUME SystemProxyOk(read, listen), NEW kind \in {"http", "https", "socks"}
      PROVE  <<kind, TRUE>> \in found
  <2>1. PICK i \in 1..3 : kind = ProxyKinds[i] BY <1>3
  <2>2. Len(read) = 3 /\ i \in DOMAIN read
        /\ EndpointSpelled(read[i]) = AddressSpelled(AddressOf(ProxyKinds[i], listen))
    BY <1>1, <1>6 DEF SystemProxyOk
  <2>3. read[i] = AddressOf(ProxyKinds[i], listen) BY <1>5, <2>2
  <2> QED BY <1>2, <2>1, <2>2, <2>3
<1>7. ASSUME ~SystemProxyOk(read, listen), Len(read) = 3,
             {listen.http, listen.socks} \cap V6 = {}
      PROVE  \E kind \in {"http", "https", "socks"} : <<kind, FALSE>> \in found
  <2>1. PICK i \in DOMAIN read :
          ~(/\ read[i] # Nowhere
            /\ EndpointSpelled(read[i]) = AddressSpelled(AddressOf(ProxyKinds[i], listen)))
    BY <1>7 DEF SystemProxyOk
  <2>2. i \in 1..3 BY <1>1, <1>7
  <2>3. read[i] # AddressOf(ProxyKinds[i], listen) BY <1>5, <1>7, <2>1, <2>2
  <2>4. <<ProxyKinds[i], FALSE>> \in found BY <1>2, <2>3
  <2>5. ProxyKinds[i] \in {"http", "https", "socks"} BY <1>3, <2>2
  <2> QED BY <2>4, <2>5
<1> QED BY <1>1, <1>6, <1>7

\* One of the dials of a doctor ends: the upstream could be seen as it found it.
LEMMA DoctorDialEnds ==
  ASSUME CliInv, Observes, plan' = plan, NEW c \in Callers, Doctoring(c), Doctoring(c)',
         Examining(call[c], seen[c]), DialEnds(c)
  PROVE  Examining(call'[c], seen'[c])
<1>1. DOMAIN call = Callers /\ DOMAIN call[c] = Fields BY CallParts DEF CliInv
<1>2. PICK old, entries, facts : /\ old = call[c] /\ entries = call[c].told.entries
                                 /\ facts = Facts(c)'
  OBVIOUS
<1>3. old.at = "dialling" /\ old.told.kind = "told" /\ world' = world /\ FoundSoFar(old, seen[c])
  BY <1>2 DEF DialEnds, Examining
<1>4. PICK i \in DOMAIN entries \ old.ended :
        call' = [call EXCEPT ![c].ended = @ \cup {i},
                             ![c].reached = IF entries[i] \in world.answering THEN @ \cup {i} ELSE @]
  BY <1>2 DEF DialEnds
<1>5. PICK r : r = call'[c] OBVIOUS
<1>6. /\ DOMAIN r = Fields /\ r.at = old.at /\ r.told = old.told /\ r.n = old.n /\ r.read = old.read
      /\ r.broken = old.broken /\ r.ended = old.ended \cup {i}
      /\ r.reached = IF entries[i] \in world.answering THEN old.reached \cup {i} ELSE old.reached
  BY <1>1, <1>2, <1>4, <1>5 DEF Fields, Fresh
<1>7. seen[c] \subseteq seen'[c] /\ facts \subseteq seen'[c]
  BY <1>2, <1>3, <1>5, <1>6, SeenGrows
<1>8. PICK did \in BOOLEAN : did = TRUE <=> entries[i] \in world.answering
  BY Zenon
<1>9. Saw(entries[i], did, seen'[c])
  <2>1. call'[c].told.kind = "told" /\ call'[c].told.entries = entries BY <1>2, <1>3, <1>5, <1>6
  <2>2. Saw(entries[i], entries[i] \in world'.answering, facts) BY <1>2, <1>4, <2>1, FactsThere
  <2>3. CASE entries[i] \in world.answering
    <3>1. did = TRUE BY <1>8, <2>3
    <3>2. (entries[i] \in world'.answering) = TRUE BY <1>3, <2>3
    <3> QED BY <1>7, <2>2, <3>1, <3>2 DEF Saw
  <2>4. CASE entries[i] \notin world.answering
    <3>1. did = FALSE BY <1>8, <2>4
    <3>2. (entries[i] \in world'.answering) = FALSE BY <1>3, <2>4
    <3> QED BY <1>7, <2>2, <3>1, <3>2 DEF Saw
  <2> QED BY <2>3, <2>4
<1>10. FoundSoFar(r, seen'[c])
  <2>1. r.reached \subseteq r.ended /\ r.told.entries = entries
    BY <1>2, <1>3, <1>6 DEF FoundSoFar
  <2>2. ASSUME NEW k \in DOMAIN entries, k \in r.ended
        PROVE  /\ k \in r.reached => Saw(entries[k], TRUE, seen'[c])
               /\ k \notin r.reached => Saw(entries[k], FALSE, seen'[c])
    <3>1. CASE k = i
      <4>1. i \notin old.reached BY <1>3, <1>4 DEF FoundSoFar
      <4>2. i \in r.reached <=> did = TRUE BY <1>6, <1>8, <4>1
      <4> QED BY <1>8, <1>9, <3>1, <4>2
    <3>2. CASE k # i
      <4>1. k \in old.ended /\ (k \in r.reached <=> k \in old.reached) BY <1>6, <2>2, <3>2
      <4>2. /\ k \in old.reached => Saw(entries[k], TRUE, seen[c])
            /\ k \notin old.reached => Saw(entries[k], FALSE, seen[c])
        BY <1>2, <1>3, <4>1 DEF FoundSoFar
      <4> QED BY <1>7, <4>1, <4>2 DEF Saw
    <3> QED BY <3>1, <3>2
  <2> QED BY <2>1, <2>2 DEF FoundSoFar
<1>11. /\ old.told.kind \in {"none", "told"} /\ ToldTruly(old.told, seen'[c])
       /\ Looked(old, seen'[c]) /\ (Len(old.read) = 3 \/ old.broken)
  BY <1>2, <1>3, <1>7, ExaminingStands DEF Examining
<1>12. Looked(r, seen'[c]) BY <1>6, <1>11 DEF Looked
<1> QED BY <1>3, <1>5, <1>6, <1>10, <1>11, <1>12 DEF Examining

\* The report of a doctor whose upstreams were dialled.
LEMMA DoctorDials ==
  ASSUME CliInv, Addressed, Observes, plan' = plan, NEW c \in Callers, Doctoring(c), Doctoring(c)',
         Examining(call[c], seen[c]), DialsUpstreams(c)
  PROVE  Examining(call'[c], seen'[c])
<1>1. DOMAIN call = Callers /\ DOMAIN call[c] = Fields BY CallParts DEF CliInv
<1>2. PICK told, read : told = call[c].told /\ read = call[c].read OBVIOUS
<1>3. /\ call[c].at = "dialling" /\ told.kind = "told" /\ ToldTruly(told, seen[c])
      /\ Looked(call[c], seen[c]) /\ (Len(read) = 3 \/ call[c].broken)
      /\ FoundSoFar(call[c], seen[c]) /\ DOMAIN told.entries \subseteq call[c].ended
  BY <1>2 DEF DialsUpstreams, Examining
<1>4. PICK well, reached : /\ well = SystemProxyOk(read, told.listen)
                           /\ reached = UpstreamReachable(told.entries, call[c].reached)
  OBVIOUS
<1>5. well \in BOOLEAN /\ reached \in BOOLEAN BY <1>4 DEF SystemProxyOk, UpstreamReachable
<1>6. PICK found : found = [system_proxy |-> well, upstream_reachable |-> reached] OBVIOUS
<1>7. PICK findings : findings = [check \in CheckNames |->
                        IF check \in DOMAIN found THEN found[check] ELSE told.findings[check]]
  OBVIOUS
<1>8. PICK reply : reply = [kind |-> "doctor", checks |-> Report(findings)] OBVIOUS
<1>9. call' = Gets(c, reply) BY <1>2, <1>4, <1>6, <1>7, <1>8 DEF DialsUpstreams
<1>10. PICK r : r = call'[c] OBVIOUS
<1>11. /\ r.at = "answered" /\ r.told = told /\ r.n = call[c].n /\ r.reply = reply /\ r.read = read
       /\ r.broken = call[c].broken
  BY <1>1, <1>2, <1>9, <1>10 DEF Gets, Fields, Fresh
<1>12. PICK facts : facts = Facts(c)' OBVIOUS
<1>13. facts \subseteq seen'[c] /\ seen[c] \subseteq seen'[c]
  BY <1>3, <1>10, <1>11, <1>12, SeenGrows
<1>14. /\ reached => \E i \in DOMAIN told.entries : Saw(told.entries[i], TRUE, seen'[c])
       /\ ~reached => \A i \in DOMAIN told.entries : Saw(told.entries[i], FALSE, seen'[c])
  BY <1>2, <1>3, <1>4, <1>13 DEF UpstreamReachable, FoundSoFar, Saw
<1>15. CheckNames = Checked \cup {"system_proxy", "upstream_reachable"}
  BY DEF CheckNames, CHECKS, Checked
<1>16. /\ DOMAIN findings = CheckNames
       /\ findings["system_proxy"] = well /\ findings["upstream_reachable"] = reached
       /\ \A check \in Checked : findings[check] = told.findings[check]
  BY <1>6, <1>7, <1>15 DEF Checked
<1>17. \A check \in Checked : /\ findings[check] \in BOOLEAN
                              /\ <<check, findings[check]>> \in seen'[c]
  BY <1>3, <1>13, <1>16 DEF ToldTruly
<1>18. PICK code : code = ExitOf(Report(findings)) OBVIOUS
<1>19. /\ code \in {Success, Failed, UpstreamDown}
       /\ code = Success => \A check \in CheckNames : findings[check] = TRUE
       /\ code = UpstreamDown => /\ \A check \in CheckNames \ {"upstream_reachable"} : findings[check] = TRUE
                                 /\ findings["upstream_reachable"] = FALSE
       /\ code = Failed => \E check \in CheckNames \ {"upstream_reachable"} : findings[check] = FALSE
  <2>1. \A check \in CheckNames : findings[check] \in BOOLEAN BY <1>5, <1>15, <1>16, <1>17
  <2> QED BY <1>16, <1>18, <2>1, ReportTells
<1>20. /\ well => \A kind \in {"http", "https", "socks"} : <<kind, TRUE>> \in seen'[c]
       /\ ~well /\ Len(read) = 3 =>
            \/ \E kind \in {"http", "https", "socks"} : <<kind, FALSE>> \in seen'[c]
            \/ {told.listen.http, told.listen.socks} \cap V6 # {}
  <2>1. told.listen \in Listens BY <1>3 DEF ToldTruly
  <2> QED BY <1>2, <1>3, <1>4, <1>13, <2>1, SettingsTell
<1>21. Success # Failed /\ Success # UpstreamDown /\ Failed # UpstreamDown
  BY DEF Success, Failed, UpstreamDown
<1>22. Looks = Checked \cup {"http", "https", "socks"} BY <1>15 DEF Checked, Looks
<1>23. Accounted(code, r, seen'[c])
  <2>1. CASE code = Success
    <3>1. \A fact \in Looks : <<fact, TRUE>> \in seen'[c]
      BY <1>15, <1>16, <1>17, <1>19, <1>20, <1>22, <2>1 DEF Checked
    <3>2. \E i \in DOMAIN told.entries : Saw(told.entries[i], TRUE, seen'[c])
      BY <1>14, <1>15, <1>16, <1>19, <2>1
    <3> QED BY <1>3, <1>11, <1>21, <2>1, <3>1, <3>2 DEF Accounted
  <2>2. CASE code = UpstreamDown
    <3>1. \A fact \in Looks : <<fact, TRUE>> \in seen'[c]
      BY <1>15, <1>16, <1>17, <1>19, <1>20, <1>22, <2>2 DEF Checked
    <3>2. \A i \in DOMAIN told.entries : Saw(told.entries[i], FALSE, seen'[c])
      BY <1>14, <1>16, <1>19, <2>2
    <3> QED BY <1>3, <1>11, <1>21, <2>2, <3>1, <3>2 DEF Accounted
  <2>3. CASE code = Failed
    <3>1. PICK check \in CheckNames \ {"upstream_reachable"} : findings[check] = FALSE BY <1>19, <2>3
    <3>2. CASE check \in Checked
      <4>1. <<check, FALSE>> \in seen'[c] /\ check \in Looks BY <1>17, <1>22, <3>1, <3>2
      <4> QED BY <1>21, <2>3, <4>1 DEF Accounted
    <3>3. CASE check = "system_proxy"
      <4>1. ~well BY <1>16, <3>1, <3>3
      <4>2. \/ \E fact \in Looks : <<fact, FALSE>> \in seen'[c]
            \/ r.broken
            \/ {told.listen.http, told.listen.socks} \cap V6 # {}
        BY <1>3, <1>11, <1>20, <1>22, <4>1
      <4> QED BY <1>3, <1>11, <1>21, <2>3, <4>2 DEF Accounted
    <3> QED BY <1>15, <3>1, <3>2, <3>3
  <2> QED BY <1>19, <2>1, <2>2, <2>3
<1>24. reply.kind = "doctor" /\ ExitOf(reply.checks) = code BY <1>8, <1>18
<1>25. ToldTruly(told, seen'[c]) BY <1>3, <1>13 DEF ToldTruly
<1> QED BY <1>3, <1>10, <1>11, <1>23, <1>24, <1>25 DEF Examining

\* The answer of a doctor, or the lack of one, and its exit code.
LEMMA DoctorReceives ==
  ASSUME CliInv, Observes, plan' = plan, NEW c \in Callers, Doctoring(c), Doctoring(c)',
         Examining(call[c], seen[c]), Receives(c)
  PROVE  Examining(call'[c], seen'[c])
<1>1. DOMAIN call = Callers /\ DOMAIN call[c] = Fields BY CallParts DEF CliInv
<1>2. PICK old, reply, told : old = call[c] /\ reply = call[c].reply /\ told = call[c].told OBVIOUS
<1>3. /\ old.at = "answered" /\ told.kind \in {"none", "told"} /\ ToldTruly(told, seen[c])
      /\ \/ reply.kind = "doctor" /\ Accounted(ExitOf(reply.checks), old, seen[c])
         \/ reply.kind = "io"
         \/ reply.kind \in Unreachables /\ <<"daemon_reachable", FALSE>> \in seen[c]
  BY <1>2 DEF Receives, Examining
<1>4. PICK code : code = CodeOf(c) OBVIOUS
<1>5. PICK r : r = call'[c] OBVIOUS
<1>6. /\ DOMAIN r = Fields /\ r.at = "idle" /\ r.exit = code /\ r.told = told /\ r.reply = reply
      /\ r.broken = old.broken /\ r.n = old.n
  <2>1. call' = Ended(c, code) BY <1>4 DEF Receives
  <2> QED BY <1>1, <1>2, <1>5, <2>1 DEF Ended, Fields, Fresh
<1>7. seen[c] \subseteq seen'[c]
  <2>1. PICK facts : facts = Facts(c)' OBVIOUS
  <2> QED BY <1>2, <1>5, <1>6, <2>1, SeenGrows
<1>8. ToldTruly(told, seen'[c]) BY <1>3, <1>7 DEF ToldTruly
<1>9. code = CASE Doctoring(c) /\ reply.kind = "doctor" -> ExitOf(reply.checks)
               [] Doctoring(c) /\ reply.kind \in Unreachables -> ExitOf(UnreachableReport)
               [] OTHER -> ExitOfReply(reply.kind)
  <2>1. told.kind # "refused" BY <1>3
  <2> QED BY <1>2, <1>4, <2>1 DEF CodeOf
<1>10. "doctor" \notin Unreachables /\ "io" \in Unreachables BY DEF Unreachables
<1>11. "daemon_reachable" \in Looks
  BY DEF Looks, CheckNames, CHECKS
<1>12. Success # Failed /\ Failed # UpstreamDown BY DEF Success, Failed, UpstreamDown
<1>13. Accounted(r.exit, r, seen'[c])
  <2>1. CASE reply.kind = "doctor" /\ Accounted(ExitOf(reply.checks), old, seen[c])
    <3>1. code = ExitOf(reply.checks) BY <1>9, <1>10, <2>1
    <3>2. Accounted(code, old, seen[c]) BY <2>1, <3>1
    <3> QED BY <1>2, <1>6, <1>7, <3>2, AccountStands
  <2>2. CASE reply.kind = "io"
    <3>1. code = Failed BY <1>9, <1>10, <2>2, UnreachableFails
    <3> QED BY <1>6, <1>12, <2>2, <3>1 DEF Accounted
  <2>3. CASE reply.kind \in Unreachables /\ <<"daemon_reachable", FALSE>> \in seen[c]
    <3>1. code = Failed BY <1>9, <1>10, <2>3, UnreachableFails
    <3> QED BY <1>6, <1>7, <1>11, <1>12, <2>3, <3>1 DEF Accounted
  <2> QED BY <1>3, <2>1, <2>2, <2>3
<1> QED BY <1>3, <1>5, <1>6, <1>8, <1>13 DEF Examining

\* The daemon of a doctor dies.
LEMMA DoctorDies ==
  ASSUME CliInv, Observes, plan' = plan, NEW c \in Callers, Doctoring(c), Doctoring(c)',
         Examining(call[c], seen[c]), Dies, call'[c].n = call[c].n
  PROVE  Examining(call'[c], seen'[c])
<1>1. DOMAIN call[c] = Fields BY CallParts
<1>2. PICK old, told, facts : old = call[c] /\ told = call[c].told /\ facts = Facts(c)' OBVIOUS
<1>3. seen[c] \subseteq seen'[c] /\ (old.at # "idle" => facts \subseteq seen'[c])
  BY <1>2, SeenGrows
<1>4. daemon'.up = FALSE
  <2>1. daemon' = [Booted EXCEPT !.up = FALSE, !.load = NoLoad] BY DEF Dies
  <2> QED BY <2>1 DEF Booted
<1>5. <<"daemon_reachable", FALSE>> \in facts
  <2>1. <<"daemon_reachable", daemon'.up>> \in facts BY <1>2, FactsThere
  <2> QED BY <1>4, <2>1
<1>6. c # Script
  <2>1. ASSUME c = Script PROVE FALSE
    <3>1. call'[c] \in FateOf(c) BY DEF Dies
    <3>2. call'[c] = Fresh BY <2>1, <3>1 DEF FateOf
    <3> QED BY <3>2 DEF Fresh, Doctoring
  <2> QED BY <2>1
<1>7. Examining(old, seen'[c]) BY <1>2, <1>3, ExaminingStands
<1>8. PICK closed, malformed : closed = Err("closed") /\ malformed = Err("malformed") OBVIOUS
<1>9. PICK gone, torn : /\ gone = [old EXCEPT !.at = "answered", !.reply = closed]
                        /\ torn = [old EXCEPT !.at = "answered", !.reply = malformed]
  OBVIOUS
<1>10. old.at \in {"sent", "reading", "dialling", "answered", "idle"} BY <1>2 DEF Examining
<1>11. call'[c] \in {old} \/ (old.at # "idle" /\ call'[c] \in {gone, torn})
  <2>1. call'[c] \in FateOf(c) BY DEF Dies
  <2>2. CASE old.at = "idle" BY <1>2, <1>6, <2>1, <2>2 DEF FateOf
  <2>3. CASE old.at \in {"sent", "reading", "dialling"}
    BY <1>2, <1>6, <1>8, <1>9, <2>1, <2>3 DEF FateOf
  <2>4. CASE old.at = "answered" BY <1>2, <1>6, <1>8, <1>9, <2>1, <2>4 DEF FateOf
  <2> QED BY <1>10, <2>2, <2>3, <2>4
<1>12. ASSUME NEW r, r \in {gone, torn}, old.at # "idle" PROVE Examining(r, seen'[c])
  <2>1. /\ r.at = "answered" /\ r.told = told /\ r.reply.kind \in Unreachables
    <3>1. DOMAIN old = Fields /\ old.told = told BY <1>1, <1>2
    <3>2. PICK failure : /\ failure \in {closed, malformed}
                         /\ r = [old EXCEPT !.at = "answered", !.reply = failure]
      BY <1>9, <1>12
    <3>3. failure.kind \in Unreachables BY <1>8, <3>2 DEF Err, Unreachables
    <3> QED BY <3>1, <3>2, <3>3 DEF Fields, Fresh
  <2>2. told.kind \in {"none", "told"} /\ ToldTruly(told, seen'[c]) BY <1>2, <1>7 DEF Examining
  <2>3. <<"daemon_reachable", FALSE>> \in seen'[c] BY <1>3, <1>5, <1>12
  <2> QED BY <2>1, <2>2, <2>3 DEF Examining
<1> QED BY <1>7, <1>11, <1>12

\* Whatever happens, a doctor is on its way to its exit code.
LEMMA DoctorStays == CliInv /\ DoctorInv /\ [Next]_vars => DoctorInv'
<1> SUFFICES ASSUME CliInv, DoctorInv, [Next]_vars PROVE DoctorInv'
  OBVIOUS
<1>1. Addressed' BY AddressedStays DEF DoctorInv
<1>2. ASSUME NEW c \in Callers, Doctoring(c)' PROVE Examining(call'[c], seen'[c])
  <2>1. CASE UNCHANGED vars
    <3>1. call' = call /\ seen' = seen /\ plan' = plan BY <2>1 DEF vars
    <3>2. Doctoring(c)
      <4>1. Calls(c)' = Calls(c) BY <3>1 DEF Calls
      <4>2. Argv(c)' = Argv(c) BY <3>1, <4>1 DEF Argv
      <4> QED BY <1>2, <3>1, <4>2 DEF Doctoring
    <3> QED BY <3>1, <3>2 DEF DoctorInv
  <2>2. CASE Next
    <3>1. Observes BY <2>2, StepsObserved
    <3>2. plan' = plan BY <3>1 DEF Observes
    <3>3. CASE call'[c].n # call[c].n
      <4>1. Begins(c) BY <1>2, <2>2, <3>3, OthersGoOn DEF Doctoring
      <4> QED BY <1>2, <3>1, <3>2, <3>3, <4>1, DoctorBegins DEF DoctorInv
    <3>4. CASE call'[c].n = call[c].n
      <4>1. Doctoring(c)
        <5>1. Calls(c)' = Calls(c) BY <3>2 DEF Calls
        <5>2. Argv(c)' = Argv(c) BY <3>4, <5>1 DEF Argv
        <5> QED BY <1>2, <3>4, <5>2 DEF Doctoring
      <4>2. Examining(call[c], seen[c]) /\ Addressed BY <4>1 DEF DoctorInv
      <4>3. CASE call'[c] = call[c]
        <5>1. PICK facts : facts = Facts(c)' OBVIOUS
        <5>2. seen[c] \subseteq seen'[c] BY <1>2, <3>1, <3>4, <5>1, SeenGrows
        <5> QED BY <4>2, <4>3, <5>2, ExaminingStands
      <4>4. CASE Captures(c) BY <1>2, <3>1, <4>2, <4>4, DoctorCaptured
      <4>5. CASE ReadsSetting(c) BY <1>2, <3>1, <3>2, <4>1, <4>2, <4>5, DoctorReads
      <4>9. CASE DialEnds(c) BY <1>2, <3>1, <3>2, <4>1, <4>2, <4>9, DoctorDialEnds
      <4>6. CASE DialsUpstreams(c) BY <1>2, <3>1, <3>2, <4>1, <4>2, <4>6, DoctorDials
      <4>7. CASE Receives(c) BY <1>2, <3>1, <3>2, <4>1, <4>2, <4>7, DoctorReceives
      <4>8. CASE Dies BY <1>2, <3>1, <3>2, <3>4, <4>1, <4>2, <4>8, DoctorDies
      <4> QED BY <1>2, <2>2, <3>2, <3>4, <4>1, <4>2, <4>3, <4>4, <4>5, <4>6, <4>7, <4>8, <4>9, DoctorsMoves
    <3> QED BY <3>3, <3>4
  <2> QED BY <2>1, <2>2
<1> QED BY <1>1, <1>2 DEF DoctorInv

\* Before the first invocation there is no doctor.
LEMMA NobodyExamines == Init => DoctorInv
<1> SUFFICES ASSUME Init PROVE DoctorInv
  OBVIOUS
<1>1. Addressed BY AddressedInitially
<1>2. ASSUME NEW c \in Callers PROVE ~Doctoring(c)
  <2>1. Fresh.n = 0 /\ [Fresh EXCEPT !.load = 1].n = 0 BY DEF Fresh
  <2>2. call[c].n = 0 BY <2>1 DEF Init
  <2> QED BY <2>2 DEF Doctoring
<1> QED BY <1>1, <1>2 DEF DoctorInv

\* cli/doctor.rs exit_code and run, daemon/state.rs status, daemon/health.rs: the
\* exit code of a doctor agrees with what there was to be seen between its request
\* and its end, whatever changes meanwhile, whenever each of the upstreams it dials
\* answers or fails to, and whenever its daemon dies.
THEOREM DoctorsAgree == Spec => []DoctorTells
<1>1. CliInv /\ DoctorInv => DoctorTells
  <2> SUFFICES ASSUME CliInv, DoctorInv, NEW c \in Callers, Over(c), Doctoring(c)
               PROVE  /\ call[c].exit \in {Success, Failed, UpstreamDown}
                      /\ call[c].exit \in {Success, UpstreamDown} =>
                           /\ call[c].told.kind = "told"
                           /\ \A fact \in Looks : <<fact, TRUE>> \in seen[c]
                      /\ call[c].exit = Success =>
                           \E i \in DOMAIN call[c].told.entries :
                             <<"upstream_reachable", call[c].told.entries[i], TRUE>> \in seen[c]
                      /\ call[c].exit = UpstreamDown =>
                           \A i \in DOMAIN call[c].told.entries :
                             <<"upstream_reachable", call[c].told.entries[i], FALSE>> \in seen[c]
                      /\ call[c].exit = Failed =>
                           \/ \E fact \in Looks : <<fact, FALSE>> \in seen[c]
                           \/ call[c].broken \/ call[c].reply.kind = "io"
                           \/ /\ call[c].told.kind = "told"
                              /\ {call[c].told.listen.http, call[c].told.listen.socks} \cap V6 # {}
    BY DEF DoctorTells, Looks
  <2>1. Examining(call[c], seen[c]) BY DEF DoctorInv
  <2>2. call[c].at = "idle" BY DEF Over
  <2> QED BY <2>1, <2>2 DEF Examining, Accounted, Saw
<1>2. Init => CliInv /\ DoctorInv BY NobodyExamines, CliInitially
<1>3. CliInv /\ DoctorInv /\ [Next]_vars => (CliInv /\ DoctorInv)' BY DoctorStays, CliSteps
<1> QED BY <1>1, <1>2, <1>3, PTL DEF Spec
-----------------------------------------------------------------------------
(* Words *)

\* Joining and cutting words.
LEMMA JoinParts ==
  ASSUME NEW u \in Words, NEW v \in Words
  PROVE  /\ u \o v \in Words /\ Len(u \o v) = Len(u) + Len(v)
         /\ \A i \in 1..Len(u) : (u \o v)[i] = u[i]
         /\ \A i \in 1..Len(v) : (u \o v)[Len(u) + i] = v[i]
         /\ SubSeq(u \o v, 1, Len(u)) = u
         /\ SubSeq(u \o v, Len(u) + 1, Len(u) + Len(v)) = v
<1>1. /\ u \o v \in Words /\ Len(u \o v) = Len(u) + Len(v)
      /\ Len(u) \in Nat /\ Len(v) \in Nat
      /\ \A i \in 1..Len(u) : (u \o v)[i] = u[i]
      /\ \A i \in 1..Len(v) : (u \o v)[Len(u) + i] = v[i]
  BY DEF Words
<1>2. SubSeq(u \o v, 1, Len(u)) = u
  BY <1>1 DEF Words
<1>3. SubSeq(u \o v, Len(u) + 1, Len(u) + Len(v)) = v
  BY <1>1 DEF Words
<1> QED BY <1>1, <1>2, <1>3

\* Cutting a stretch out of a word.
LEMMA CutParts ==
  ASSUME NEW w \in Words, NEW i \in 1..(Len(w) + 1), NEW j \in 0..Len(w)
  PROVE  /\ SubSeq(w, i, j) \in Words
         /\ Len(SubSeq(w, i, j)) = IF i <= j THEN j - i + 1 ELSE 0
         /\ \A k \in 1..(j - i + 1) : SubSeq(w, i, j)[k] = w[i + k - 1]
BY DEF Words

\* Words of one length with the same characters are the same.
LEMMA WordsEqual ==
  ASSUME NEW u \in Words, NEW v \in Words, Len(u) = Len(v), \A i \in 1..Len(u) : u[i] = v[i]
  PROVE  u = v
BY DEF Words

\* A word without case keeps its length.
LEMMA LoweredParts ==
  ASSUME NEW w \in Words
  PROVE  /\ Lowered(w) \in Words /\ Len(Lowered(w)) = Len(w)
         /\ \A i \in 1..Len(w) : Lowered(w)[i] = Lower(w[i])
<1>1. \A c \in Characters : Lower(c) \in Characters
  <2> TAKE c \in Characters
  <2>1. CASE c = "A"
    <3>1. Lower(c) = "a" BY <2>1 DEF Lower
    <3>2. "a" \in Characters BY CharactersAssumption
    <3> QED BY <3>1, <3>2, Zenon
  <2>2. CASE c = "B"
    <3>1. Lower(c) = "b" BY <2>2 DEF Lower
    <3>2. "b" \in Characters BY CharactersAssumption
    <3> QED BY <3>1, <3>2, Zenon
  <2>3. CASE c # "A" /\ c # "B"
    <3>1. Lower(c) = c BY <2>3, Zenon DEF Lower
    <3> QED BY <3>1
  <2> QED BY <2>1, <2>2, <2>3
<1>2. Len(w) \in Nat /\ DOMAIN w = 1..Len(w) /\ \A i \in 1..Len(w) : w[i] \in Characters
  BY DEF Words
<1>3. Lowered(w) = [i \in 1..Len(w) |-> Lower(w[i])]
  BY <1>2 DEF Lowered
<1>4. \A i \in 1..Len(w) : Lower(w[i]) \in Characters
  BY <1>1, <1>2
<1> HIDE DEF Lowered
<1> QED BY <1>2, <1>3, <1>4 DEF Words

\* What is left of a word when a character at its end is taken off.
LEMMA StripParts ==
  ASSUME NEW w \in Words, NEW c
  PROVE  /\ StripLast(w, c) \in Words /\ StripFirst(w, c) \in Words
         /\ StripLast(w, c) = IF w # <<>> /\ w[Len(w)] = c THEN SubSeq(w, 1, Len(w) - 1) ELSE w
<1>1. w # <<>> => Len(w) \in Nat \ {0}
  BY DEF Words
<1>2. StripLast(w, c) = IF w # <<>> /\ w[Len(w)] = c THEN SubSeq(w, 1, Len(w) - 1) ELSE w
  BY DEF StripLast, Last, Front
<1>3. w # <<>> => SubSeq(w, 1, Len(w) - 1) \in Words
  BY <1>1 DEF Words
<1>4. w # <<>> => Tail(w) \in Words
  BY <1>1 DEF Words
<1> QED BY <1>2, <1>3, <1>4 DEF StripFirst

\* A word is the end of another one, letter by letter.
LEMMA SuffixParts ==
  ASSUME NEW s \in Words, NEW h \in Words
  PROVE  IsSuffix(s, h) <=> /\ Len(s) <= Len(h)
                            /\ \A k \in 1..Len(s) : h[Len(h) - Len(s) + k] = s[k]
<1> DEFINE m == Len(s)
           n == Len(h)
           rs == Reverse(s)
           rh == Reverse(h)
<1>1. m \in Nat /\ n \in Nat /\ DOMAIN s = 1..m /\ DOMAIN h = 1..n BY DEF Words
<1>2. rs \in Words /\ Len(rs) = m /\ \A k \in 1..m : rs[k] = s[m - k + 1] BY DEF Reverse, Words
<1>3. rh \in Words /\ Len(rh) = n /\ \A k \in 1..n : rh[k] = h[n - k + 1] BY DEF Reverse, Words
<1>4. IsSuffix(s, h) <=> m <= n /\ SubSeq(rs, 1, m) = SubSeq(rh, 1, m)
  BY <1>2, <1>3 DEF IsSuffix, IsPrefix
<1> HIDE DEF rs, rh
<1>5. CASE m <= n
  <2>1. /\ SubSeq(rs, 1, m) \in Words /\ Len(SubSeq(rs, 1, m)) = m
        /\ \A k \in 1..m : SubSeq(rs, 1, m)[k] = rs[k]
    BY <1>1, <1>2 DEF Words
  <2>2. /\ SubSeq(rh, 1, m) \in Words /\ Len(SubSeq(rh, 1, m)) = m
        /\ \A k \in 1..m : SubSeq(rh, 1, m)[k] = rh[k]
    BY <1>1, <1>3, <1>5 DEF Words
  <2>3. SubSeq(rs, 1, m) = SubSeq(rh, 1, m) <=> \A k \in 1..m : rs[k] = rh[k]
    BY <2>1, <2>2, WordsEqual
  <2>4. ASSUME \A k \in 1..m : rs[k] = rh[k], NEW k \in 1..m PROVE h[n - m + k] = s[k]
    <3>1. m - k + 1 \in 1..m /\ m - k + 1 \in 1..n BY <1>1, <1>5
    <3>2. rs[m - k + 1] = s[m - (m - k + 1) + 1] /\ rh[m - k + 1] = h[n - (m - k + 1) + 1]
      BY <1>2, <1>3, <3>1
    <3>3. m - (m - k + 1) + 1 = k /\ n - (m - k + 1) + 1 = n - m + k BY <1>1
    <3> QED BY <2>4, <3>1, <3>2, <3>3
  <2>5. ASSUME \A k \in 1..m : h[n - m + k] = s[k], NEW k \in 1..m PROVE rs[k] = rh[k]
    <3>1. m - k + 1 \in 1..m /\ k \in 1..n BY <1>1, <1>5
    <3>2. n - m + (m - k + 1) = n - k + 1 BY <1>1
    <3> QED BY <1>2, <1>3, <2>5, <3>1, <3>2
  <2> QED BY <1>4, <1>5, <2>3, <2>4, <2>5
<1>6. CASE ~(m <= n) BY <1>4, <1>6
<1> QED BY <1>5, <1>6

\* The dots of a word, one before it and one behind it, and its labels: what is
\* between a dot and the next one.
Dots(w) == {i \in 1..Len(w) : w[i] = "."} \cup {0, Len(w) + 1}
Label(w, i, j) == i \in Dots(w) /\ j \in Dots(w) /\ i < j /\ \A k \in Dots(w) : k > i => j <= k

\* A dot that is not the last one has one next to it.
LEMMA DotFollowed ==
  ASSUME NEW w \in Words, NEW i \in Dots(w), i # Len(w) + 1
  PROVE  \E j \in Dots(w) : Label(w, i, j)
<1>1. Len(w) \in Nat BY DEF Words
<1>2. Dots(w) \in SUBSET Nat /\ i \in 0..Len(w) /\ Len(w) + 1 \in Dots(w) BY <1>1 DEF Dots
<1> DEFINE later == {k \in Dots(w) : k > i}
<1>3. later \in SUBSET Nat /\ later # {} BY <1>1, <1>2
<1>4. PICK j \in later : \A k \in later : j <= k BY <1>3, LeastOf
<1> QED BY <1>4 DEF Label

\* The place of the dot before a letter.
LEMMA DotBefore ==
  ASSUME NEW w \in Words, NEW k \in 1..Len(w)
  PROVE  \E i, j \in Dots(w) : Label(w, i, j) /\ i < k /\ k <= j
<1>1. Len(w) \in Nat BY DEF Words
<1>2. Dots(w) \in SUBSET Nat /\ 0 \in Dots(w) BY <1>1 DEF Dots
<1> DEFINE gaps == {n \in 0..(k - 1) : k - 1 - n \in Dots(w)}
<1>3. gaps \in SUBSET Nat OBVIOUS
<1>4. k - 1 \in gaps BY <1>1, <1>2
<1>5. PICK n \in gaps : \A p \in gaps : n <= p BY <1>3, <1>4, LeastOf
<1> DEFINE i == k - 1 - n
<1>6. i \in Dots(w) /\ i < k /\ i \in Nat BY <1>1, <1>5
<1>7. PICK j \in Dots(w) : Label(w, i, j) BY <1>1, <1>6, DotFollowed
<1>8. j \in Nat /\ i < j BY <1>2, <1>7 DEF Label
<1>9. ~(j < k)
  <2> SUFFICES ASSUME j < k PROVE FALSE OBVIOUS
  <2>1. k - 1 - j \in gaps
    <3>1. k - 1 - j \in 0..(k - 1) BY <1>8
    <3>2. k - 1 - (k - 1 - j) = j BY <1>8
    <3> QED BY <3>1, <3>2
  <2>2. n <= k - 1 - j BY <1>5, <2>1
  <2> QED BY <1>8, <2>2
<1> QED BY <1>6, <1>7, <1>8, <1>9

\* LabelsOf in those words.
LEMMA LabelsTell ==
  ASSUME NEW w \in Words
  PROVE  /\ \A i, j : Label(w, i, j) => <<i, SubSeq(w, i + 1, j - 1)>> \in LabelsOf(w)
         /\ \A label \in LabelsOf(w) :
              \E i, j : Label(w, i, j) /\ label = <<i, SubSeq(w, i + 1, j - 1)>>
<1> DEFINE nextDot(i) == CHOOSE j \in Dots(w) : j > i /\ \A k \in Dots(w) : k > i => j <= k
<1>1. Len(w) \in Nat /\ DOMAIN w = 1..Len(w) BY DEF Words
<1>2. LabelsOf(w) = {<<i, SubSeq(w, i + 1, nextDot(i) - 1)>> : i \in Dots(w) \ {Len(w) + 1}}
  BY <1>1 DEF LabelsOf, Dots
<1>3. Dots(w) \in SUBSET Nat BY <1>1 DEF Dots
<1>4. ASSUME NEW i, NEW j, Label(w, i, j) PROVE nextDot(i) = j /\ i \in Dots(w) \ {Len(w) + 1}
  <2>1. j \in Dots(w) /\ j > i /\ \A k \in Dots(w) : k > i => j <= k BY <1>3, <1>4 DEF Label
  <2>2. nextDot(i) \in Dots(w) /\ nextDot(i) > i /\ \A k \in Dots(w) : k > i => nextDot(i) <= k
    BY <2>1
  <2> HIDE DEF nextDot
  <2>3. j <= nextDot(i) /\ nextDot(i) <= j BY <2>1, <2>2
  <2>4. j \in Nat /\ i \in Nat /\ nextDot(i) \in Nat BY <1>3, <1>4, <2>2 DEF Label
  <2>5. j <= Len(w) + 1 BY <1>1, <2>1 DEF Dots
  <2> QED BY <1>1, <1>4, <2>1, <2>3, <2>4, <2>5 DEF Label
<1> HIDE DEF nextDot
<1>5. ASSUME NEW i, NEW j, Label(w, i, j)
      PROVE <<i, SubSeq(w, i + 1, j - 1)>> \in LabelsOf(w)
  <2>1. nextDot(i) = j /\ i \in Dots(w) \ {Len(w) + 1} BY <1>4, <1>5
  <2>2. <<i, SubSeq(w, i + 1, nextDot(i) - 1)>> \in LabelsOf(w) BY <1>2, <2>1
  <2> QED BY <2>1, <2>2
<1>6. ASSUME NEW label \in LabelsOf(w)
      PROVE  \E i, j : Label(w, i, j) /\ label = <<i, SubSeq(w, i + 1, j - 1)>>
  <2>1. PICK i \in Dots(w) \ {Len(w) + 1} : label = <<i, SubSeq(w, i + 1, nextDot(i) - 1)>>
    BY <1>2
  <2>2. PICK j \in Dots(w) : Label(w, i, j) BY DotFollowed
  <2>3. nextDot(i) = j BY <1>4, <2>2
  <2> QED BY <2>1, <2>2, <2>3
<1> QED BY <1>5, <1>6
\* The labels of a suffix are the last ones of a host, for a whole label.
LEMMA LabelsMatch ==
  ASSUME NEW s \in Words, NEW h \in Words, SuffixMatches(s, h)
  PROVE  EndsInLabels(h, s)
<1> DEFINE n == Len(s)
           m == Len(h) - Len(s)
<1>1. n \in Nat /\ Len(h) \in Nat BY DEF Words
<1>2. /\ m \in Nat /\ \A k \in 1..n : h[m + k] = s[k]
      /\ m = 0 \/ h[m] = "."
  <2>1. CASE h = s BY <1>1, <2>1
  <2>2. CASE /\ IsSuffix(s, h)
             /\ LET head == SubSeq(h, 1, m) IN head # <<>> /\ Last(head) = "."
    <3>1. m \in Nat /\ \A k \in 1..n : h[m + k] = s[k] BY <1>1, <2>2, SuffixParts
    <3>2. m # 0 => Len(SubSeq(h, 1, m)) = m /\ SubSeq(h, 1, m)[m] = h[m]
      BY <1>1, <3>1 DEF Words
    <3> QED BY <2>2, <3>1, <3>2 DEF Last
  <2> QED BY <2>1, <2>2 DEF SuffixMatches
<1>3. ASSUME NEW i, NEW j, Label(s, i, j)
      PROVE  Label(h, i + m, j + m) /\ SubSeq(s, i + 1, j - 1) = SubSeq(h, i + m + 1, j + m - 1)
  <2>1. i \in Dots(s) /\ j \in Dots(s) /\ i < j /\ \A k \in Dots(s) : k > i => j <= k
    BY <1>3 DEF Label
  <2>2. i \in 0..n /\ j \in 1..(n + 1) BY <1>1, <2>1 DEF Dots
  <2>3. i + m \in Dots(h)
    <3>1. CASE i = 0 BY <1>1, <1>2, <3>1 DEF Dots
    <3>2. CASE i # 0
      <4>1. i \in 1..n /\ s[i] = "." BY <1>1, <2>1, <2>2, <3>2 DEF Dots
      <4> QED BY <1>1, <1>2, <4>1 DEF Dots
    <3> QED BY <3>1, <3>2
  <2>4. j + m \in Dots(h)
    <3>1. CASE j = n + 1 BY <1>1, <1>2, <3>1 DEF Dots
    <3>2. CASE j # n + 1
      <4>1. j \in 1..n /\ s[j] = "." BY <1>1, <2>1, <2>2, <3>2 DEF Dots
      <4> QED BY <1>1, <1>2, <4>1 DEF Dots
    <3> QED BY <3>1, <3>2
  <2>5. ASSUME NEW k \in Dots(h), k > i + m PROVE j + m <= k
    <3>1. CASE k = Len(h) + 1 BY <1>1, <2>2, <3>1
    <3>2. CASE k # Len(h) + 1
      <4>1. k \in 1..Len(h) /\ h[k] = "." BY <1>1, <1>2, <2>2, <2>5, <3>2 DEF Dots
      <4>2. k - m \in 1..n /\ m + (k - m) = k BY <1>1, <1>2, <2>2, <2>5, <4>1
      <4>3. s[k - m] = "." BY <1>2, <4>1, <4>2
      <4>4. k - m \in Dots(s) /\ k - m > i BY <1>2, <2>2, <2>5, <4>1, <4>2, <4>3 DEF Dots
      <4>5. j <= k - m BY <2>1, <4>4
      <4> QED BY <1>2, <2>2, <4>1, <4>5
    <3> QED BY <3>1, <3>2
  <2>6. Label(h, i + m, j + m) BY <1>1, <1>2, <2>1, <2>2, <2>3, <2>4, <2>5 DEF Label
  <2>7. /\ SubSeq(s, i + 1, j - 1) \in Words /\ Len(SubSeq(s, i + 1, j - 1)) = j - i - 1
        /\ \A k \in 1..(j - i - 1) : SubSeq(s, i + 1, j - 1)[k] = s[i + k]
    BY <1>1, <2>1, <2>2 DEF Words
  <2>8. /\ SubSeq(h, i + m + 1, j + m - 1) \in Words
        /\ Len(SubSeq(h, i + m + 1, j + m - 1)) = j - i - 1
        /\ \A k \in 1..(j - i - 1) : SubSeq(h, i + m + 1, j + m - 1)[k] = h[m + (i + k)]
    BY <1>1, <1>2, <2>1, <2>2 DEF Words
  <2>9. \A k \in 1..(j - i - 1) : i + k \in 1..n BY <1>1, <2>1, <2>2
  <2> DEFINE u == SubSeq(s, i + 1, j - 1)
             v == SubSeq(h, i + m + 1, j + m - 1)
  <2>10. \A k \in 1..(j - i - 1) : u[k] = v[k] BY <1>2, <2>7, <2>8, <2>9
  <2>11. u \in Words /\ v \in Words /\ Len(u) = j - i - 1 /\ Len(v) = j - i - 1 BY <2>7, <2>8
  <2> HIDE DEF u, v
  <2>12. u = v BY <2>10, <2>11, WordsEqual
  <2> QED BY <2>6, <2>12 DEF u, v
<1> HIDE DEF m
<1>4. ASSUME NEW label \in LabelsOf(s) PROVE <<label[1] + m, label[2]>> \in LabelsOf(h)
  <2>1. PICK i, j : Label(s, i, j) /\ label = <<i, SubSeq(s, i + 1, j - 1)>> BY LabelsTell
  <2>2. Label(h, i + m, j + m) /\ SubSeq(s, i + 1, j - 1) = SubSeq(h, i + m + 1, j + m - 1)
    BY <1>3, <2>1
  <2>3. \A a, b : Label(h, a, b) => <<a, SubSeq(h, a + 1, b - 1)>> \in LabelsOf(h)
    BY LabelsTell
  <2>4. <<i + m, SubSeq(h, i + m + 1, j + m - 1)>> \in LabelsOf(h)
    <3>1. PICK a, b : a = i + m /\ b = j + m OBVIOUS
    <3>2. Label(h, a, b) BY <2>2, <3>1
    <3>3. <<a, SubSeq(h, a + 1, b - 1)>> \in LabelsOf(h) BY <2>3, <3>2
    <3>4. SubSeq(h, a + 1, b - 1) = SubSeq(h, i + m + 1, j + m - 1)
      <4>1. i \in Nat /\ j \in Nat BY <1>1, <2>1 DEF Label, Dots
      <4>2. a + 1 = i + m + 1 /\ b - 1 = j + m - 1 BY <1>2, <3>1, <4>1
      <4> QED BY <4>2, Zenon
    <3> QED BY <3>1, <3>3, <3>4, Zenon
  <2>5. label[1] = i /\ label[2] = SubSeq(s, i + 1, j - 1) BY <2>1
  <2> QED BY <2>2, <2>4, <2>5
<1> QED BY <1>2, <1>4 DEF EndsInLabels, m

\* Back: each letter of the suffix is in one of those labels or ends it.
LEMMA LabelsMatched ==
  ASSUME NEW s \in Words, NEW h \in Words, EndsInLabels(h, s)
  PROVE  SuffixMatches(s, h)
<1> DEFINE n == Len(s)
           m == Len(h) - Len(s)
<1>1. n \in Nat /\ Len(h) \in Nat BY DEF Words
<1>2. /\ m \in Nat
      /\ \A label \in LabelsOf(s) : <<label[1] + m, label[2]>> \in LabelsOf(h)
  BY <1>1 DEF EndsInLabels
<1>3. ASSUME NEW i, NEW j, Label(s, i, j)
      PROVE  /\ Label(h, i + m, j + m)
             /\ \A k \in (i + 1)..(j - 1) : h[m + k] = s[k]
  <2>1. i \in 0..n /\ j \in 1..(n + 1) /\ i < j BY <1>1, <1>3 DEF Label, Dots
  <2>2. <<i, SubSeq(s, i + 1, j - 1)>> \in LabelsOf(s) BY <1>3, LabelsTell
  <2>3. <<i + m, SubSeq(s, i + 1, j - 1)>> \in LabelsOf(h) BY <1>2, <2>2
  <2>4. PICK a, b : /\ Label(h, a, b)
                    /\ <<i + m, SubSeq(s, i + 1, j - 1)>> = <<a, SubSeq(h, a + 1, b - 1)>>
    BY <2>3, LabelsTell
  <2>5. a = i + m /\ SubSeq(s, i + 1, j - 1) = SubSeq(h, a + 1, b - 1) BY <2>4
  <2>6. a \in 0..Len(h) /\ b \in 1..(Len(h) + 1) /\ a < b BY <1>1, <2>4 DEF Label, Dots
  <2>7. /\ Len(SubSeq(s, i + 1, j - 1)) = j - i - 1
        /\ \A k \in 1..(j - i - 1) : SubSeq(s, i + 1, j - 1)[k] = s[i + k]
    BY <1>1, <2>1 DEF Words
  <2>8. /\ Len(SubSeq(h, a + 1, b - 1)) = b - a - 1
        /\ \A k \in 1..(b - a - 1) : SubSeq(h, a + 1, b - 1)[k] = h[a + k]
    BY <1>1, <2>6 DEF Words
  <2>9. b = j + m BY <1>1, <1>2, <2>1, <2>5, <2>6, <2>7, <2>8
  <2>10. ASSUME NEW k \in (i + 1)..(j - 1) PROVE h[m + k] = s[k]
    <3>1. k - i \in 1..(j - i - 1) /\ i + (k - i) = k /\ a + (k - i) = m + k
      BY <1>2, <2>1, <2>5
    <3>2. b - a - 1 = j - i - 1 BY <2>1, <2>5, <2>9, <1>2
    <3> QED BY <2>5, <2>7, <2>8, <3>1, <3>2
  <2> QED BY <2>4, <2>5, <2>9, <2>10
<1>4. ASSUME NEW k \in 1..n PROVE h[m + k] = s[k]
  <2>1. PICK i, j \in Dots(s) : Label(s, i, j) /\ i < k /\ k <= j BY <1>4, DotBefore
  <2>2. i \in Nat /\ j \in Nat BY <1>1 DEF Dots
  <2>3. CASE k < j BY <1>3, <2>1, <2>2, <2>3
  <2>4. CASE k = j
    <3>1. s[k] = "." BY <1>1, <1>4, <2>1, <2>4 DEF Dots
    <3>2. j + m \in Dots(h) BY <1>3, <2>1 DEF Label
    <3>3. j + m \in 1..Len(h) BY <1>1, <1>2, <2>4
    <3>4. h[j + m] = "." BY <1>1, <3>2, <3>3 DEF Dots
    <3>5. j + m = m + k BY <1>2, <2>4
    <3> QED BY <3>1, <3>4, <3>5
  <2> QED BY <2>1, <2>2, <2>3, <2>4
<1>5. m # 0 => h[m] = "."
  <2>1. 0 \in Dots(s) /\ 0 # Len(s) + 1 BY <1>1 DEF Dots
  <2>2. PICK j \in Dots(s) : Label(s, 0, j) BY <2>1, DotFollowed
  <2>3. 0 + m \in Dots(h) BY <1>3, <2>2 DEF Label
  <2> QED BY <1>1, <1>2, <2>3 DEF Dots
<1>6. CASE m = 0
  <2>1. Len(s) = Len(h) /\ \A k \in 1..Len(h) : h[k] = s[k] BY <1>1, <1>4, <1>6
  <2>2. h = s BY <2>1, WordsEqual
  <2> QED BY <2>2 DEF SuffixMatches
<1>7. CASE m # 0
  <2>1. IsSuffix(s, h) BY <1>1, <1>2, <1>4, SuffixParts
  <2>2. Len(SubSeq(h, 1, m)) = m /\ SubSeq(h, 1, m)[m] = h[m] BY <1>1, <1>2, <1>7 DEF Words
  <2>3. SubSeq(h, 1, m) # <<>> BY <1>1, <1>2, <1>7, <2>2
  <2> QED BY <1>5, <1>7, <2>1, <2>2, <2>3 DEF SuffixMatches, Last
<1> QED BY <1>6, <1>7
\* A word is the beginning of another one, letter by letter.
LEMMA PrefixParts ==
  ASSUME NEW u \in Words, NEW v \in Words
  PROVE  IsPrefix(u, v) <=> Len(u) <= Len(v) /\ \A k \in 1..Len(u) : v[k] = u[k]
<1>1. Len(u) \in Nat /\ Len(v) \in Nat BY DEF Words
<1>2. IsPrefix(u, v) <=> Len(u) <= Len(v) /\ SubSeq(u, 1, Len(u)) = SubSeq(v, 1, Len(u))
  BY DEF IsPrefix
<1>3. CASE Len(u) <= Len(v)
  <2> DEFINE a == SubSeq(u, 1, Len(u))
             b == SubSeq(v, 1, Len(u))
  <2>1. a \in Words /\ Len(a) = Len(u) /\ \A k \in 1..Len(u) : a[k] = u[k] BY <1>1 DEF Words
  <2>2. b \in Words /\ Len(b) = Len(u) /\ \A k \in 1..Len(u) : b[k] = v[k] BY <1>1, <1>3 DEF Words
  <2> HIDE DEF a, b
  <2>3. a = b <=> \A k \in 1..Len(u) : a[k] = b[k] BY <2>1, <2>2, WordsEqual
  <2>4. a = b <=> \A k \in 1..Len(u) : v[k] = u[k] BY <2>1, <2>2, <2>3
  <2> QED BY <1>2, <1>3, <2>4 DEF a, b
<1>4. CASE ~(Len(u) <= Len(v)) BY <1>2, <1>4
<1> QED BY <1>3, <1>4

\* A keyword is found where it starts, or from where to where it stands.
LEMMA KeywordParts ==
  ASSUME NEW w \in Words, w # <<>>, NEW h \in Words
  PROVE  (\E i \in 0..Len(h) : IsPrefix(w, SubSeq(h, i + 1, Len(h))))
           <=> (\E i, j \in 1..Len(h) : SubSeq(h, i, j) = w)
<1> DEFINE n == Len(h)
           m == Len(w)
<1>1. n \in Nat /\ m \in Nat /\ m # 0 BY DEF Words
<1>2. ASSUME NEW i \in 0..n
      PROVE  /\ SubSeq(h, i + 1, n) \in Words /\ Len(SubSeq(h, i + 1, n)) = n - i
             /\ \A k \in 1..(n - i) : SubSeq(h, i + 1, n)[k] = h[i + k]
  BY <1>1 DEF Words
<1>3. ASSUME NEW i \in 0..n, IsPrefix(w, SubSeq(h, i + 1, n))
      PROVE  \E a, b \in 1..n : SubSeq(h, a, b) = w
  <2> DEFINE v == SubSeq(h, i + 1, n)
  <2>1. v \in Words /\ Len(v) = n - i /\ \A k \in 1..(n - i) : v[k] = h[i + k] BY <1>2
  <2>2. IsPrefix(w, v) BY <1>3
  <2> HIDE DEF v
  <2>3. m <= n - i /\ \A k \in 1..m : v[k] = w[k] BY <2>1, <2>2, PrefixParts
  <2>4. i + 1 \in 1..n /\ i + m \in 1..n BY <1>1, <2>3
  <2> DEFINE u == SubSeq(h, i + 1, i + m)
  <2>5. u \in Words /\ Len(u) = m /\ \A k \in 1..m : u[k] = h[i + k] BY <1>1, <2>4 DEF Words
  <2> HIDE DEF u
  <2>6. \A k \in 1..m : u[k] = w[k] BY <1>1, <2>1, <2>3, <2>5
  <2>7. u = w BY <2>5, <2>6, WordsEqual
  <2> QED BY <2>4, <2>7 DEF u
<1>4. ASSUME NEW a \in 1..n, NEW b \in 1..n, SubSeq(h, a, b) = w
      PROVE  \E i \in 0..n : IsPrefix(w, SubSeq(h, i + 1, n))
  <2>1. a <= b /\ m = b - a + 1 /\ \A k \in 1..m : w[k] = h[a + k - 1]
    <3>1. /\ Len(SubSeq(h, a, b)) = IF a <= b THEN b - a + 1 ELSE 0
          /\ \A k \in 1..(b - a + 1) : SubSeq(h, a, b)[k] = h[a + k - 1]
      BY <1>1 DEF Words
    <3>2. a <= b BY <1>1, <1>4, <3>1
    <3> QED BY <1>1, <1>4, <3>1, <3>2
  <2>2. PICK i \in 0..n : i = a - 1 BY <1>1
  <2> DEFINE v == SubSeq(h, i + 1, n)
  <2>3. v \in Words /\ Len(v) = n - i /\ \A k \in 1..(n - i) : v[k] = h[i + k] BY <1>2
  <2> HIDE DEF v
  <2>4. m <= n - i /\ \A k \in 1..m : i + k = a + k - 1 /\ k \in 1..(n - i) BY <1>1, <2>1, <2>2
  <2>5. \A k \in 1..m : v[k] = w[k] BY <2>1, <2>3, <2>4
  <2>6. IsPrefix(w, v) BY <2>3, <2>4, <2>5, PrefixParts
  <2> QED BY <2>6 DEF v
<1> QED BY <1>3, <1>4

\* Case and the dot of the root are taken off a host and off a suffix alike.
LEMMA MeaningTells ==
  ASSUME NEW w \in Words
  PROVE  Meaning(w) = Lowered(StripLast(w, ".")) /\ Meaning(w) \in Words
<1>1. Meaning(w) = Lowered(StripLast(w, ".")) BY StripParts DEF Meaning
<1>2. StripLast(w, ".") \in Words BY StripParts
<1> QED BY <1>1, <1>2, LoweredParts

\* What a rule that could be read matches is what it means.
LEMMA MatchesAsMeant ==
  ASSUME NEW rule \in ReadableRules, NEW host \in Words, NEW port
  PROVE  Matches(rule.matcher, NormalizedHost(host), port) <=> Meant(rule, host, port)
<1>1. PICK class \in Classes, kind \in MatcherKinds, value \in Words :
        rule = RuleOf(class, kind, value)
  BY DEF ReadableRules, WrittenRules
<1>2. rule.kind = kind /\ rule.value = value /\ rule.matcher = ParseMatcher(kind, value)
  BY <1>1 DEF RuleOf
<1>3. rule.matcher # Unread BY DEF ReadableRules, Readable
<1>4. NormalizedHost(host).host = Meaning(host) /\ Meaning(host) \in Words
  BY MeaningTells DEF NormalizedHost
<1>5. CASE kind = "suffix"
  <2>1. rule.matcher = ParseSuffix(value) BY <1>2, <1>5 DEF ParseMatcher
  <2>2. rule.matcher = [kind |-> "suffix", word |-> Meaning(value)]
    BY <1>3, <2>1, MeaningTells DEF ParseSuffix
  <2>3. Matches(rule.matcher, NormalizedHost(host), port)
          <=> SuffixMatches(Meaning(value), Meaning(host))
    BY <1>4, <2>2 DEF Matches
  <2>4. Meant(rule, host, port) <=> EndsInLabels(Meaning(host), Meaning(value))
    BY <1>2, <1>5 DEF Meant
  <2>5. Meaning(value) \in Words BY MeaningTells
  <2> QED BY <1>4, <2>3, <2>4, <2>5, LabelsMatch, LabelsMatched
<1>6. CASE kind = "keyword"
  <2>1. rule.matcher = ParseKeyword(value) BY <1>2, <1>6 DEF ParseMatcher
  <2>2. rule.matcher = [kind |-> "keyword", word |-> Lowered(value)] /\ Lowered(value) # <<>>
    BY <1>3, <2>1 DEF ParseKeyword
  <2>3. Matches(rule.matcher, NormalizedHost(host), port)
          <=> \E i \in 0..Len(Meaning(host)) :
                IsPrefix(Lowered(value), SubSeq(Meaning(host), i + 1, Len(Meaning(host))))
    BY <1>4, <2>2 DEF Matches
  <2>4. Meant(rule, host, port) <=> \E i, j \in 1..Len(Meaning(host)) :
                                      SubSeq(Meaning(host), i, j) = Lowered(value)
    BY <1>2, <1>6 DEF Meant
  <2>5. Lowered(value) \in Words BY LoweredParts
  <2> QED BY <1>4, <2>2, <2>3, <2>4, <2>5, KeywordParts
<1>7. CASE kind \notin {"suffix", "keyword"}
  BY <1>2, <1>7, Zenon DEF Meant
<1> QED BY <1>5, <1>6, <1>7

\* The first rule that decides, and where it sends the destination.
LEMMA DecisionTells ==
  ASSUME NEW rules \in Seq(ReadableRules), NEW host \in Words, NEW port, NEW via,
         NEW reply, reply = DecisionView(rules, via, host, port)
  PROVE  /\ reply.rule = 0 => \A i \in DOMAIN rules : ~Meant(rules[i], host, port)
         /\ reply.rule # 0 =>
              /\ Meant(rules[reply.rule], host, port) /\ reply.class = rules[reply.rule].class
              /\ \A i \in DOMAIN rules : Meant(rules[i], host, port) /\ i # reply.rule =>
                   \/ reply.class = "never" /\ rules[i].class # "never"
                   \/ i > reply.rule /\ (rules[i].class = "never" => reply.class = "never")
         /\ reply.decision # "upstream" => reply.via = "itself" /\ reply.hop = Dialled(host, port)
<1> DEFINE hits == {i \in DOMAIN rules : Matches(rules[i].matcher, NormalizedHost(host), port)}
           nevers == {i \in hits : rules[i].class = "never"}
           made == Decide(rules, host, port)
<1>1. DOMAIN rules \in SUBSET (Nat \ {0}) /\ \A i \in DOMAIN rules : rules[i] \in ReadableRules
  OBVIOUS
<1>2. ASSUME NEW i \in DOMAIN rules PROVE i \in hits <=> Meant(rules[i], host, port)
  BY <1>1, MatchesAsMeant
<1>3. hits \in SUBSET (Nat \ {0}) /\ hits \subseteq DOMAIN rules BY <1>1
<1>4. made = CASE nevers # {} -> [decision |-> "never", rule |-> Min(nevers)]
               [] nevers = {} /\ hits # {} -> [decision |-> "upstream", rule |-> Min(hits)]
               [] hits = {} -> Direct
  BY DEF Decide
<1> HIDE DEF hits, made
<1>5. reply = [kind |-> "decision", decision |-> made.decision,
               rule |-> IF made = Direct THEN 0 ELSE made.rule,
               class |-> IF made = Direct THEN "none" ELSE rules[made.rule].class,
               via |-> IF made.decision = "upstream" THEN via ELSE "itself",
               hop |-> IF made.decision = "upstream" THEN <<>> ELSE Dialled(host, port)]
  BY DEF DecisionView, made
<1>6. CASE hits = {}
  <2>1. made = Direct BY <1>4, <1>6
  <2>2. reply.rule = 0 /\ reply.via = "itself" /\ reply.hop = Dialled(host, port)
    BY <1>5, <2>1 DEF Direct
  <2> QED BY <1>2, <1>6, <2>2
<1>7. ASSUME hits # {}, NEW first \in hits, NEW decision \in {"never", "upstream"},
             made = [decision |-> decision, rule |-> first]
      PROVE  /\ reply.rule = first /\ reply.rule # 0 /\ reply.class = rules[first].class
             /\ reply.decision = decision
             /\ decision # "upstream" => reply.via = "itself" /\ reply.hop = Dialled(host, port)
  <2>1. made # Direct
    <3>1. "rule" \in DOMAIN made BY <1>7
    <3>2. "rule" \notin DOMAIN Direct BY DEF Direct
    <3> QED BY <3>1, <3>2, Zenon
  <2>2. made.rule = first /\ made.decision = decision BY <1>7
  <2> QED BY <1>3, <1>5, <1>7, <2>1, <2>2
<1>8. CASE nevers # {}
  <2>1. nevers \in SUBSET Nat BY <1>3
  <2>2. PICK first : first = Min(nevers) OBVIOUS
  <2>3. first \in nevers /\ \A i \in nevers : first <= i BY <1>8, <2>1, <2>2, LeastOf DEF Min
  <2>4. hits # {} /\ made = [decision |-> "never", rule |-> first] BY <1>4, <1>8, <2>2
  <2>5. /\ reply.rule = first /\ reply.rule # 0 /\ reply.class = rules[first].class
        /\ reply.via = "itself" /\ reply.hop = Dialled(host, port)
    BY <1>7, <2>3, <2>4
  <2>6. Meant(rules[first], host, port) /\ rules[first].class = "never" BY <1>2, <1>3, <2>3
  <2>7. ASSUME NEW i \in DOMAIN rules, Meant(rules[i], host, port), i # first
        PROVE  \/ rules[i].class # "never"
               \/ i > first
    BY <1>1, <1>2, <1>3, <2>1, <2>3, <2>7
  <2> QED BY <2>5, <2>6, <2>7
<1>9. CASE nevers = {} /\ hits # {}
  <2>1. hits \in SUBSET Nat BY <1>3
  <2>2. PICK first : first = Min(hits) OBVIOUS
  <2>3. first \in hits /\ \A i \in hits : first <= i BY <1>9, <2>1, <2>2, LeastOf DEF Min
  <2>4. made = [decision |-> "upstream", rule |-> first] BY <1>4, <1>9, <2>2
  <2>5. /\ reply.rule = first /\ reply.rule # 0 /\ reply.class = rules[first].class
        /\ reply.decision = "upstream"
    BY <1>7, <1>9, <2>3, <2>4
  <2>6. Meant(rules[first], host, port) BY <1>2, <1>3, <2>3
  <2>7. ASSUME NEW i \in DOMAIN rules, Meant(rules[i], host, port), i # first
        PROVE  i > first /\ rules[i].class # "never"
    <3>1. i \in hits BY <1>2, <2>7
    <3>2. i > first BY <2>1, <2>3, <2>7, <3>1
    <3>3. rules[i].class # "never" BY <1>9, <3>1
    <3> QED BY <3>2, <3>3
  <2> HIDE DEF nevers
  <2> QED BY <2>5, <2>6, <2>7
<1> QED BY <1>6, <1>8, <1>9

\* The recursion of Halves has a solution.
LEMMA HalvesRun ==
  ASSUME NEW number
  PROVE  \E f : f = [i \in 0..PortBits |-> IF i = 0 THEN number ELSE f[i - 1] \div 2]
<1>0. PortBits \in Nat BY WidthAssumption
<1> DEFINE Turn(f, i) == IF i = 0 THEN number ELSE f[i - 1] \div 2
           Runs(k) == \E f : f = [i \in 0..k |-> Turn(f, i)]
           fails == {k \in 0..PortBits : ~Runs(k)}
<1>1. 0 \notin fails
  <2> DEFINE f == [i \in 0..0 |-> number]
  <2>1. f = [i \in 0..0 |-> Turn(f, i)] OBVIOUS
  <2> QED BY <2>1
<1>2. ASSUME NEW k \in 1..PortBits, Runs(k - 1) PROVE Runs(k)
  <2>1. PICK g : g = [i \in 0..(k - 1) |-> Turn(g, i)] BY <1>2
  <2> DEFINE f == [i \in 0..k |-> IF i = k THEN Turn(g, k) ELSE g[i]]
  <2>2. ASSUME NEW i \in 0..k PROVE f[i] = Turn(f, i)
    <3>1. CASE i = k
      <4>1. k - 1 \in 0..k /\ k - 1 # k /\ k # 0 OBVIOUS
      <4>2. f[k - 1] = g[k - 1] BY <4>1
      <4>3. Turn(g, k) = Turn(f, k) BY <4>2
      <4> QED BY <3>1, <4>3
    <3>2. CASE i # k
      <4>1. i \in 0..(k - 1) /\ f[i] = g[i] BY <3>2
      <4>2. g[i] = Turn(g, i) BY <2>1, <4>1
      <4>3. i # 0 => i - 1 \in 0..k /\ i - 1 # k BY <4>1
      <4>4. i # 0 => f[i - 1] = g[i - 1] BY <4>3
      <4>5. Turn(g, i) = Turn(f, i) BY <4>4
      <4> QED BY <4>1, <4>2, <4>5
    <3> QED BY <3>1, <3>2
  <2>3. f = [i \in 0..k |-> f[i]] OBVIOUS
  <2> HIDE DEF f, Turn
  <2>4. f = [i \in 0..k |-> Turn(f, i)] BY <2>2, <2>3
  <2> QED BY <2>4
<1>3. \A k \in 1..PortBits : k \in fails => k - 1 \in fails
  <2> SUFFICES ASSUME NEW k \in 1..PortBits, k - 1 \notin fails PROVE k \notin fails
    OBVIOUS
  <2>1. k - 1 \in 0..PortBits BY <1>0
  <2>2. Runs(k - 1) BY <2>1
  <2> QED BY <1>2, <2>2
<1> HIDE DEF Runs
<1>4. fails = {}
  <2>1. fails \in SUBSET (0..PortBits) OBVIOUS
  <2> HIDE DEF fails
  <2> QED BY <1>0, <1>1, <1>3, <2>1, NoneEverFails
<1>5. Runs(PortBits) BY <1>0, <1>4
<1> QED BY <1>5 DEF Runs

\* The recursion of Number has a solution.
LEMMA NumberRuns ==
  ASSUME NEW w, NEW len \in Nat
  PROVE  \E f : f = [i \in 0..len |-> IF i = 0 THEN 0 ELSE 2 * f[i - 1] + (IF w[i] = "1" THEN 1 ELSE 0)]
<1> DEFINE Turn(f, i) == IF i = 0 THEN 0 ELSE 2 * f[i - 1] + (IF w[i] = "1" THEN 1 ELSE 0)
           Runs(k) == \E f : f = [i \in 0..k |-> Turn(f, i)]
           fails == {k \in 0..len : ~Runs(k)}
<1>1. 0 \notin fails
  <2> DEFINE f == [i \in 0..0 |-> 0]
  <2>1. f = [i \in 0..0 |-> Turn(f, i)] OBVIOUS
  <2> QED BY <2>1
<1>2. ASSUME NEW k \in 1..len, Runs(k - 1) PROVE Runs(k)
  <2>1. PICK g : g = [i \in 0..(k - 1) |-> Turn(g, i)] BY <1>2
  <2> DEFINE f == [i \in 0..k |-> IF i = k THEN Turn(g, k) ELSE g[i]]
  <2>2. ASSUME NEW i \in 0..k PROVE f[i] = Turn(f, i)
    <3>1. CASE i = k
      <4>1. k - 1 \in 0..k /\ k - 1 # k /\ k # 0 OBVIOUS
      <4>2. f[k - 1] = g[k - 1] BY <4>1
      <4>3. Turn(g, k) = Turn(f, k) BY <4>2
      <4> QED BY <3>1, <4>3
    <3>2. CASE i # k
      <4>1. i \in 0..(k - 1) /\ f[i] = g[i] BY <3>2
      <4>2. g[i] = Turn(g, i) BY <2>1, <4>1
      <4>3. i # 0 => i - 1 \in 0..k /\ i - 1 # k BY <4>1
      <4>4. i # 0 => f[i - 1] = g[i - 1] BY <4>3
      <4>5. Turn(g, i) = Turn(f, i) BY <4>4
      <4> QED BY <4>1, <4>2, <4>5
    <3> QED BY <3>1, <3>2
  <2>3. f = [i \in 0..k |-> f[i]] OBVIOUS
  <2> HIDE DEF f, Turn
  <2>4. f = [i \in 0..k |-> Turn(f, i)] BY <2>2, <2>3
  <2> QED BY <2>4
<1>3. \A k \in 1..len : k \in fails => k - 1 \in fails
  <2> SUFFICES ASSUME NEW k \in 1..len, k - 1 \notin fails PROVE k \notin fails
    OBVIOUS
  <2>1. k - 1 \in 0..len OBVIOUS
  <2>2. Runs(k - 1) BY <2>1
  <2> QED BY <1>2, <2>2
<1> HIDE DEF Runs
<1>4. fails = {}
  <2>1. fails \in SUBSET (0..len) OBVIOUS
  <2> HIDE DEF fails
  <2> QED BY <1>1, <1>3, <2>1, NoneEverFails
<1>5. Runs(len) BY <1>4
<1> QED BY <1>5 DEF Runs

\* What Halves returns.
LEMMA HalvesTell ==
  ASSUME NEW number \in Nat
  PROVE  /\ Halves(number)[0] = number
         /\ \A k \in 1..PortBits : Halves(number)[k] = Halves(number)[k - 1] \div 2
         /\ \A k \in 0..PortBits : Halves(number)[k] \in Nat
<1>0. PortBits \in Nat BY WidthAssumption
<1> DEFINE Body(f) == [k \in 0..PortBits |-> IF k = 0 THEN number ELSE f[k - 1] \div 2]
           run == CHOOSE f : f = Body(f)
<1>1. Halves(number) = run BY DEF Halves
<1>2. run = Body(run)
  <2>1. \E f : f = Body(f) BY HalvesRun
  <2> QED BY <2>1
<1> HIDE DEF run
<1>3. run[0] = number /\ \A k \in 1..PortBits : run[k] = run[k - 1] \div 2
  BY <1>0, <1>2
<1> HIDE DEF Body
<1> DEFINE fails == {k \in 0..PortBits : run[k] \notin Nat}
<1>4. 0 \notin fails BY <1>3
<1>5. \A k \in 1..PortBits : k \in fails => k - 1 \in fails
  <2> SUFFICES ASSUME NEW k \in 1..PortBits, k - 1 \notin fails PROVE k \notin fails
    OBVIOUS
  <2>1. run[k - 1] \in Nat BY <1>0
  <2> QED BY <1>3, <2>1
<1>6. fails = {}
  <2>1. fails \in SUBSET (0..PortBits) OBVIOUS
  <2> HIDE DEF fails
  <2> QED BY <1>0, <1>4, <1>5, <2>1, NoneEverFails
<1> QED BY <1>1, <1>3, <1>6

\* What Number returns.
LEMMA NumberTells ==
  ASSUME NEW w \in Words
  PROVE  \E value : /\ value[0] = 0 /\ Number(w) = value[Len(w)]
                    /\ \A i \in 0..Len(w) : value[i] \in Nat
                    /\ \A i \in 1..Len(w) :
                         value[i] = 2 * value[i - 1] + (IF w[i] = "1" THEN 1 ELSE 0)
<1>0. PICK len \in Nat : len = Len(w) BY DEF Words
<1> DEFINE Body(f) == [i \in 0..len |->
                         IF i = 0 THEN 0 ELSE 2 * f[i - 1] + (IF w[i] = "1" THEN 1 ELSE 0)]
           run == CHOOSE f : f = Body(f)
<1>1. Number(w) = run[len] BY <1>0 DEF Number
<1>2. run = Body(run)
  <2>1. \E f : f = Body(f) BY NumberRuns
  <2> QED BY <2>1
<1> HIDE DEF run
<1>3. /\ run[0] = 0
      /\ \A i \in 1..len : run[i] = 2 * run[i - 1] + (IF w[i] = "1" THEN 1 ELSE 0)
  BY <1>2
<1> HIDE DEF Body
<1> DEFINE fails == {i \in 0..len : run[i] \notin Nat}
<1>4. 0 \notin fails BY <1>3
<1>5. \A i \in 1..len : i \in fails => i - 1 \in fails
  <2> SUFFICES ASSUME NEW i \in 1..len, i - 1 \notin fails PROVE i \notin fails
    OBVIOUS
  <2>1. run[i - 1] \in Nat OBVIOUS
  <2>2. run[i] = 2 * run[i - 1] + 1 \/ run[i] = 2 * run[i - 1] + 0 BY <1>3
  <2> QED BY <2>1, <2>2
<1>6. fails = {}
  <2>1. fails \in SUBSET (0..len) OBVIOUS
  <2> HIDE DEF fails
  <2> QED BY <1>4, <1>5, <2>1, NoneEverFails
<1>7. \A i \in 0..len : run[i] \in Nat BY <1>6
<1> HIDE DEF fails
<1> QED BY <1>0, <1>1, <1>3, <1>7

\* A port that fits is written with digits that say what it is.
LEMMA DecimalTells ==
  ASSUME NEW port \in Nat, Fits(port)
  PROVE  /\ Decimal(port) \in Words /\ Len(Decimal(port)) # 0
         /\ \A i \in 1..Len(Decimal(port)) : Decimal(port)[i] \in Digits
         /\ Number(Decimal(port)) = port
<1>0. PortBits \in Nat \ {0} BY WidthAssumption
<1> DEFINE half == Halves(port)
           Width(n) == half[n] = 0 /\ (n = 1 \/ half[n - 1] # 0)
           width == CHOOSE n \in 1..PortBits : Width(n)
           digits == Decimal(port)
<1>1. /\ half[0] = port
      /\ \A k \in 1..PortBits : half[k] = half[k - 1] \div 2
      /\ \A k \in 0..PortBits : half[k] \in Nat
  BY HalvesTell
<1>2. half[PortBits] = 0 BY DEF Fits
<1>3. digits = [i \in 1..width |-> IF half[width - i] % 2 = 1 THEN "1" ELSE "0"]
  BY DEF Decimal
<1> HIDE DEF half, digits
<1>4. width \in 1..PortBits /\ half[width] = 0
  <2> DEFINE done == {n \in 1..PortBits : half[n] = 0}
  <2>1. done \in SUBSET Nat /\ PortBits \in done BY <1>0, <1>2
  <2>2. PICK n \in done : \A k \in done : n <= k BY <2>1, LeastOf
  <2>3. n = 1 \/ half[n - 1] # 0
    <3> SUFFICES ASSUME n # 1, half[n - 1] = 0 PROVE FALSE OBVIOUS
    <3>1. n - 1 \in done BY <1>0
    <3> QED BY <1>0, <2>2, <3>1
  <2>4. Width(n) BY <2>3
  <2>5. \E k \in 1..PortBits : Width(k) BY <2>4
  <2> HIDE DEF Width
  <2>6. width \in 1..PortBits /\ Width(width) BY <2>5
  <2> QED BY <2>6 DEF Width
<1> HIDE DEF width, Width
<1>5. "0" \in Characters /\ "1" \in Characters BY CharactersAssumption
<1>6. /\ digits \in Words /\ Len(digits) = width
      /\ \A i \in 1..width : digits[i] = IF half[width - i] % 2 = 1 THEN "1" ELSE "0"
  BY <1>0, <1>3, <1>4, <1>5 DEF Words
<1>7. PICK value : /\ value[0] = 0 /\ Number(digits) = value[width]
                   /\ \A i \in 1..width :
                        value[i] = 2 * value[i - 1] + (IF digits[i] = "1" THEN 1 ELSE 0)
  BY <1>6, NumberTells
<1> DEFINE fails == {i \in 0..width : value[i] # half[width - i]}
<1>8. 0 \notin fails BY <1>0, <1>4, <1>7
<1>9. \A i \in 1..width : i \in fails => i - 1 \in fails
  <2> SUFFICES ASSUME NEW i \in 1..width, i - 1 \notin fails PROVE i \notin fails
    OBVIOUS
  <2>1. value[i - 1] = half[width - (i - 1)] BY <1>0, <1>4
  <2>2. PICK k \in 0..PortBits : k = width - i BY <1>0, <1>4
  <2>3. k + 1 \in 1..PortBits /\ k + 1 = width - (i - 1) /\ k + 1 - 1 = k
    BY <1>0, <1>4, <2>2
  <2>4. half[k + 1] = half[k] \div 2 /\ half[k] \in Nat BY <1>1, <2>3
  <2>5. value[i - 1] = half[k] \div 2 BY <2>1, <2>3, <2>4
  <2>6. digits[i] = IF half[k] % 2 = 1 THEN "1" ELSE "0" BY <1>6, <2>2
  <2>7. value[i] = 2 * value[i - 1] + (IF digits[i] = "1" THEN 1 ELSE 0) BY <1>7
  <2>8. value[i] = half[k]
    <3>1. CASE half[k] % 2 = 1
      <4>1. digits[i] = "1" BY <2>6, <3>1
      <4>2. value[i] = 2 * (half[k] \div 2) + 1 BY <2>5, <2>7, <4>1
      <4> QED BY <2>4, <3>1, <4>2
    <3>2. CASE half[k] % 2 # 1
      <4>1. digits[i] # "1" BY <2>6, <3>2
      <4>2. value[i] = 2 * (half[k] \div 2) + 0 BY <2>5, <2>7, <4>1
      <4>3. half[k] % 2 = 0 BY <2>4, <3>2
      <4> QED BY <2>4, <4>2, <4>3
    <3> QED BY <3>1, <3>2
  <2> QED BY <2>2, <2>8
<1>10. fails = {}
  <2>1. fails \in SUBSET (0..width) /\ width \in Nat BY <1>0, <1>4
  <2> HIDE DEF fails
  <2> QED BY <1>8, <1>9, <2>1, NoneEverFails
<1>11. value[width] = port
  <2>1. width \in 0..width /\ width - width = 0 BY <1>0, <1>4
  <2>2. value[width] = half[width - width] BY <1>10, <2>1
  <2> QED BY <1>1, <2>1, <2>2
<1>12. \A i \in 1..width : digits[i] \in Digits BY <1>6 DEF Digits
<1> QED BY <1>0, <1>4, <1>6, <1>7, <1>11, <1>12 DEF digits

\* The greatest of a set of places.
LEMMA MaxTells ==
  ASSUME NEW to \in Nat, NEW S \in SUBSET (1..to), S # {}
  PROVE  Max(S) \in S /\ \A i \in S : i <= Max(S)
<1> DEFINE gaps == {n \in 0..to : to - n \in S}
<1>1. gaps \in SUBSET Nat OBVIOUS
<1>2. gaps # {}
  <2>1. PICK i \in S : TRUE OBVIOUS
  <2>2. to - i \in 0..to /\ to - (to - i) = i OBVIOUS
  <2> QED BY <2>2
<1>3. PICK n \in gaps : \A k \in gaps : n <= k BY <1>1, <1>2, LeastOf
<1>4. ASSUME NEW i \in S PROVE to - n >= i
  <2>1. to - i \in 0..to /\ to - (to - i) = i OBVIOUS
  <2>2. to - i \in gaps BY <2>1
  <2>3. n <= to - i BY <1>3, <2>2
  <2> QED BY <2>3
<1>5. \E i \in S : \A j \in S : i >= j BY <1>3, <1>4
<1>6. PICK m : m = Max(S) OBVIOUS
<1>7. m \in S /\ \A j \in S : m >= j BY <1>5, <1>6 DEF Max
<1> QED BY <1>6, <1>7

\* The port of a destination is printed so that it is read again.
LEMMA PortReadBack ==
  ASSUME NEW port \in Nat, Fits(port)
  PROVE  ParseU16(Decimal(port)) = [kind |-> "port", port |-> port]
<1>1. PICK d \in Words : d = Decimal(port) BY DecimalTells
<1>2. Len(d) # 0 /\ Number(d) = port /\ \A i \in 1..Len(d) : d[i] \in Digits
  BY <1>1, DecimalTells
<1>3. DOMAIN d = 1..Len(d) /\ Len(d) \in Nat BY DEF Words
<1>4. d # <<>> BY <1>2
<1>5. d[1] \in Digits BY <1>2, <1>3
<1>6. StripFirst(d, "+") = d
  <2>1. Head(d) = d[1] BY <1>4 DEF Words
  <2>2. d[1] # "+" BY <1>5 DEF Digits
  <2> QED BY <2>1, <2>2 DEF StripFirst
<1>7. Range(d) \subseteq Digits BY <1>2, <1>3 DEF Range
<1>8. ParseU16(d) = [kind |-> "port", port |-> port]
  BY <1>2, <1>4, <1>6, <1>7 DEF ParseU16
<1> QED BY <1>1, <1>8

\* A destination that could be read has a host and a port of its width.
LEMMA PortParts ==
  ASSUME NEW w \in Words, ParseU16(w) # Unread
  PROVE  ParseU16(w).port \in Nat /\ Fits(ParseU16(w).port)
<1>1. StripFirst(w, "+") \in Words BY StripParts
<1>2. PICK d \in Words : d = StripFirst(w, "+") BY <1>1
<1>3. ParseU16(w) = [kind |-> "port", port |-> Number(d)] /\ Fits(Number(d))
  BY <1>2 DEF ParseU16
<1>4. Number(d) \in Nat
  <2>1. Len(d) \in 0..Len(d) BY DEF Words
  <2> QED BY <2>1, NumberTells
<1> QED BY <1>3, <1>4

Destination(host, port) == [kind |-> "destination", host |-> host, port |-> port]

\* A destination that can be read has a host and a port that fits.
LEMMA DestinationParts ==
  ASSUME NEW t \in Words, ParseDestination(t) # Unread
  PROVE  \E host \in Words, port \in Nat :
           /\ host # <<>> /\ Fits(port)
           /\ ParseDestination(t) = Destination(host, port)
<1> DEFINE colons == {i \in DOMAIN t : t[i] = ":"}
           colon == Max(colons)
           port == ParseU16(SubSeq(t, colon + 1, Len(t)))
           host == StripLast(StripFirst(SubSeq(t, 1, colon - 1), "["), "]")
<1>1. Len(t) \in Nat /\ DOMAIN t = 1..Len(t) BY DEF Words
<1>2. /\ colons # {} /\ port # Unread /\ host # <<>>
      /\ ParseDestination(t) = Destination(host, port.port)
  BY DEF ParseDestination, Destination
<1>3. colon \in 1..Len(t)
  <2>1. colons \in SUBSET (1..Len(t)) BY <1>1
  <2> HIDE DEF colons
  <2> QED BY <1>1, <1>2, <2>1, MaxTells
<1> HIDE DEF colon
<1>4. SubSeq(t, colon + 1, Len(t)) \in Words /\ SubSeq(t, 1, colon - 1) \in Words
  BY <1>1, <1>3 DEF Words
<1>5. host \in Words
  <2>1. StripFirst(SubSeq(t, 1, colon - 1), "[") \in Words BY <1>4, StripParts
  <2> QED BY <2>1, StripParts
<1>6. port.port \in Nat /\ Fits(port.port) BY <1>2, <1>4, PortParts
<1> HIDE DEF host, port
<1> QED BY <1>2, <1>5, <1>6

\* A word of one letter.
LEMMA OneLetter ==
  ASSUME NEW c \in Characters
  PROVE  <<c>> \in Words /\ Len(<<c>>) = 1 /\ <<c>>[1] = c
BY DEF Words

Colons(t) == {i \in DOMAIN t : t[i] = ":"}
LastColon(t) == Max(Colons(t))

\* A word cut at its last colon.
LEMMA CutAtColon ==
  ASSUME NEW pre \in Words, NEW d \in Words, \A i \in 1..Len(d) : d[i] # ":",
         NEW t, t = pre \o <<":">> \o d
  PROVE  LastColon(t) \in Colons(t) /\ SubSeq(t, 1, LastColon(t) - 1) = pre
         /\ SubSeq(t, LastColon(t) + 1, Len(t)) = d
<1> DEFINE n == Len(pre)
           m == Len(d)
           colons == Colons(t)
           colon == LastColon(t)
<1>1. n \in Nat /\ m \in Nat BY DEF Words
<1>2. PICK sign \in Words : sign = <<":">> /\ Len(sign) = 1 /\ sign[1] = ":"
  BY CharactersAssumption, OneLetter
<1>3. PICK u \in Words : u = pre \o sign BY JoinParts
<1>4. /\ Len(u) = n + 1 /\ \A i \in 1..n : u[i] = pre[i] BY <1>2, <1>3, JoinParts
<1>5. u[n + 1] = ":" BY <1>1, <1>2, <1>3 DEF Words
<1>6. /\ t \in Words /\ Len(t) = n + 1 + m /\ \A i \in 1..(n + 1) : t[i] = u[i]
      /\ \A i \in 1..m : t[n + 1 + i] = d[i]
  <2>1. t = u \o d BY <1>2, <1>3
  <2>2. /\ t \in Words /\ Len(t) = Len(u) + m /\ \A i \in 1..Len(u) : t[i] = u[i]
        /\ \A i \in 1..m : t[Len(u) + i] = d[i]
    <3>1. /\ u \o d \in Words /\ Len(u \o d) = Len(u) + m
          /\ \A i \in 1..Len(u) : (u \o d)[i] = u[i]
          /\ \A i \in 1..m : (u \o d)[Len(u) + i] = d[i]
      BY JoinParts
    <3> QED BY <2>1, <3>1, Zenon
  <2> QED BY <1>4, <2>2
<1>7. DOMAIN t = 1..(n + 1 + m) BY <1>6 DEF Words
<1>8. n + 1 \in colons BY <1>1, <1>5, <1>6, <1>7 DEF Colons
<1>9. ASSUME NEW i \in colons PROVE i <= n + 1
  <2> SUFFICES ASSUME i > n + 1 PROVE FALSE BY <1>1, <1>7 DEF Colons
  <2>1. i - (n + 1) \in 1..m /\ n + 1 + (i - (n + 1)) = i /\ t[i] = ":" BY <1>1, <1>7 DEF Colons
  <2>2. t[i] = d[i - (n + 1)] BY <1>6, <2>1
  <2> QED BY <2>1, <2>2
<1>10. colon = n + 1
  <2>1. colons \in SUBSET (1..(n + 1 + m)) /\ n + 1 + m \in Nat BY <1>1, <1>7 DEF Colons
  <2> HIDE DEF colons
  <2>2. colon \in colons /\ \A i \in colons : i <= colon
    <3>1. PICK to \in Nat : to = n + 1 + m BY <2>1
    <3>2. colons \in SUBSET (1..to) /\ colons # {} BY <1>8, <2>1, <3>1
    <3>3. colon = Max(colons) BY DEF LastColon, colons
    <3> HIDE DEF colons, colon
    <3> QED BY <3>2, <3>3, MaxTells
  <2> HIDE DEF colon
  <2>3. n + 1 <= colon BY <1>8, <2>2
  <2>4. colon <= n + 1 BY <1>9, <2>2
  <2>5. colon \in Nat
    <3>1. colon \in 1..(n + 1 + m) BY <2>1, <2>2, Zenon
    <3> QED BY <1>1, <3>1
  <2> QED BY <1>1, <2>3, <2>4, <2>5
<1> HIDE DEF colon, colons
<1>11. SubSeq(t, 1, colon - 1) = pre
  <2> DEFINE v == SubSeq(t, 1, n)
  <2>1. v \in Words /\ Len(v) = n /\ \A i \in 1..n : v[i] = t[i] BY <1>1, <1>6 DEF Words
  <2> HIDE DEF v
  <2>2. \A i \in 1..n : v[i] = pre[i] BY <1>1, <1>4, <1>6, <2>1
  <2>3. v = pre BY <2>1, <2>2, WordsEqual
  <2>4. colon - 1 = n BY <1>1, <1>10
  <2> QED BY <2>3, <2>4 DEF v
<1>12. SubSeq(t, colon + 1, Len(t)) = d
  <2> DEFINE v == SubSeq(t, n + 1 + 1, n + 1 + m)
  <2>1. v \in Words /\ Len(v) = m /\ \A i \in 1..m : v[i] = t[n + 1 + i]
    BY <1>1, <1>6 DEF Words
  <2> HIDE DEF v
  <2>2. \A i \in 1..m : v[i] = d[i] BY <1>6, <2>1
  <2>3. v = d BY <2>1, <2>2, WordsEqual
  <2> QED BY <1>6, <1>10, <2>3 DEF v
<1> QED BY <1>8, <1>10, <1>11, <1>12 DEF colon, colons

\* A host comes out of its brackets as it went in.
LEMMA BracketsOff ==
  ASSUME NEW host \in Words, host # <<>>, \A i \in 1..Len(host) : host[i] \notin {"[", "]"},
         NEW pre, pre \in {host, <<"[">> \o host \o <<"]">>}
  PROVE  pre \in Words /\ StripLast(StripFirst(pre, "["), "]") = host
<1>1. PICK n \in Nat : n = Len(host) /\ n # 0 /\ DOMAIN host = 1..n BY DEF Words
<1>2. host[1] # "[" /\ host[n] # "]" BY <1>1
<1>3. Head(host) = host[1] BY DEF Words
<1>4. CASE pre = host
  <2>1. StripFirst(pre, "[") = host BY <1>2, <1>3, <1>4 DEF StripFirst
  <2>2. StripLast(host, "]") = host BY <1>1, <1>2 DEF StripLast, Last
  <2> QED BY <1>4, <2>1, <2>2
<1>5. CASE pre = <<"[">> \o host \o <<"]">>
  <2>1. /\ <<"[">> \in Words /\ Len(<<"[">>) = 1 /\ <<"[">>[1] = "["
        /\ <<"]">> \in Words /\ Len(<<"]">>) = 1 /\ <<"]">>[1] = "]"
    <3>1. "[" \in Characters /\ "]" \in Characters BY CharactersAssumption
    <3> QED BY <3>1, OneLetter
  <2>2. PICK u \in Words : u = <<"[">> \o host BY <2>1, JoinParts
  <2>3. /\ Len(u) = n + 1 /\ u[1] = "[" /\ \A i \in 1..n : u[1 + i] = host[i]
    <3>1. 1 \in 1..Len(<<"[">>) BY <2>1
    <3> QED BY <1>1, <2>1, <2>2, <3>1, JoinParts
  <2>4. /\ pre \in Words /\ Len(pre) = n + 2 /\ \A i \in 1..(n + 1) : pre[i] = u[i]
        /\ pre[n + 2] = "]"
    <3>1. pre = u \o <<"]">> BY <1>5, <2>2
    <3> HIDE <1>5
    <3> QED BY <1>1, <2>1, <2>3, <3>1 DEF Words
  <2> DEFINE v == StripFirst(pre, "[")
  <2>5. v = Tail(pre)
    <3>1. pre # <<>> /\ Head(pre) = pre[1] BY <1>1, <2>4 DEF Words
    <3>2. pre[1] = "[" BY <1>1, <2>3, <2>4
    <3> QED BY <3>1, <3>2 DEF StripFirst
  <2>6. v \in Words /\ Len(v) = n + 1 /\ \A i \in 1..(n + 1) : v[i] = pre[i + 1]
    <3>1. pre # <<>> BY <1>1, <2>4
    <3>2. Tail(pre) \in Words /\ Len(Tail(pre)) = Len(pre) - 1 BY <2>4, <3>1 DEF Words
    <3>3. \A i \in 1..(Len(pre) - 1) : Tail(pre)[i] = pre[i + 1] BY <2>4, <3>1 DEF Words
    <3>4. Len(pre) - 1 = n + 1 BY <1>1, <2>4
    <3> QED BY <2>5, <3>2, <3>3, <3>4
  <2> HIDE DEF v
  <2>7. \A i \in 1..n : v[i] = host[i]
    <3> TAKE i \in 1..n
    <3>1. i + 1 \in 1..(n + 1) /\ i \in 1..(n + 1) /\ i + 1 = 1 + i BY <1>1
    <3> QED BY <2>3, <2>4, <2>6, <3>1
  <2>8. v[n + 1] = "]"
    <3>1. n + 1 \in 1..(n + 1) /\ n + 1 + 1 = n + 2 BY <1>1
    <3> QED BY <2>4, <2>6, <3>1
  <2>9. StripLast(v, "]") = SubSeq(v, 1, n)
    <3>1. v # <<>> /\ v[Len(v)] = "]" /\ Len(v) - 1 = n BY <1>1, <2>6, <2>8
    <3> QED BY <2>6, <3>1, StripParts
  <2> DEFINE r == SubSeq(v, 1, n)
  <2>10. r \in Words /\ Len(r) = n /\ \A i \in 1..n : r[i] = v[i] BY <1>1, <2>6 DEF Words
  <2> HIDE DEF r
  <2>11. r = host BY <1>1, <2>7, <2>10, WordsEqual
  <2> QED BY <2>4, <2>9, <2>11 DEF r, v
<1> QED BY <1>4, <1>5

\* What is dialled reads back as the destination it was made of.
LEMMA ReadsBack ==
  ASSUME NEW host \in Words, host # <<>>, \A i \in 1..Len(host) : host[i] \notin {"[", "]"},
         NEW port \in Nat, Fits(port)
  PROVE  ParseDestination(Dialled(host, port)) = Destination(host, port)
<1>1. PICK pre : pre = IF ":" \in Range(host) THEN <<"[">> \o host \o <<"]">> ELSE host OBVIOUS
<1>2. pre \in Words /\ StripLast(StripFirst(pre, "["), "]") = host BY <1>1, BracketsOff
<1>3. PICK d \in Words : d = Decimal(port) BY DecimalTells
<1>4. \A i \in 1..Len(d) : d[i] # ":" BY <1>3, DecimalTells DEF Digits
<1>5. PICK t : t = pre \o <<":">> \o d OBVIOUS
<1>6. Dialled(host, port) = t BY <1>1, <1>3, <1>5 DEF Dialled
<1>7. /\ LastColon(t) \in Colons(t) /\ SubSeq(t, 1, LastColon(t) - 1) = pre
      /\ SubSeq(t, LastColon(t) + 1, Len(t)) = d
  BY <1>2, <1>4, <1>5, CutAtColon
<1>8. ParseU16(d) = [kind |-> "port", port |-> port] BY <1>3, PortReadBack
<1>9. ParseU16(d) # Unread /\ ParseU16(d).port = port BY <1>8 DEF Unread
<1>10. ParseDestination(t) = Destination(host, port)
  BY <1>2, <1>7, <1>9 DEF ParseDestination, Destination, Colons, LastColon
<1> QED BY <1>6, <1>10
-----------------------------------------------------------------------------
(* What test says *)

\* Any other answer.
LEMMA OtherAnswers ==
  ASSUME CliInv, NEW c \in Callers, NEW reply, reply.kind # "decision"
  PROVE  /\ ~Decided(Gets(c, reply)[c]) /\ ~Decided(Taken(c, reply)[c])
         /\ \A read : ~Decided([Gets(c, reply) EXCEPT ![c].read = read][c])
<1>1. PICK r : Gets(c, reply) = [call EXCEPT ![c] = r] /\ Answered(c, r, reply) BY GetsParts
<1>2. DOMAIN call = Callers BY DEF CliInv
<1>3. Gets(c, reply)[c] = r /\ DOMAIN Gets(c, reply) = Callers /\ r.reply = reply /\ DOMAIN r = Fields
  BY <1>1, <1>2 DEF Answered
<1>4. ~Decided(r) BY <1>3 DEF Decided
<1>5. PICK q : Taken(c, reply) = [call EXCEPT ![c] = q] /\ Answered(c, q, reply) BY TakenParts
<1>6. Taken(c, reply)[c] = q /\ q.reply = reply BY <1>2, <1>5 DEF Answered
<1>7. ~Decided(Taken(c, reply)[c]) BY <1>6 DEF Decided
<1>8. ASSUME NEW read PROVE ~Decided([Gets(c, reply) EXCEPT ![c].read = read][c])
  <2>1. [Gets(c, reply) EXCEPT ![c].read = read][c] = [r EXCEPT !.read = read] BY <1>3
  <2>2. PICK p : p = [r EXCEPT !.read = read] OBVIOUS
  <2>3. p.reply = reply BY <1>3, <2>2 DEF Fields, Fresh
  <2> QED BY <2>1, <2>2, <2>3 DEF Decided
<1> QED BY <1>3, <1>4, <1>7, <1>8

\* Only test is answered with a decision.
LEMMA OnlyTestsDecide ==
  ASSUME CliInv, NEW c \in Callers, Begins(c) \/ Handles(c) \/ GoesOn(c), Decided(call'[c])
  PROVE  Answers(c)
<1>0. DOMAIN call = Callers /\ DOMAIN call[c] = Fields BY CallParts DEF CliInv
<1>1. \A kind \in ErrKinds \cup Unreachables \cup {"ok", "doctor", "status"} : kind # "decision"
  BY DEF ErrKinds, Unreachables
<1>2. \A kind : Err(kind).kind = kind BY DEF Err
<1>3. ASSUME NEW kind \in ErrKinds \cup Unreachables PROVE ~Decided(Gets(c, Err(kind))[c])
  <2>1. PICK reply : reply = Err(kind) OBVIOUS
  <2>2. reply.kind # "decision" BY <1>1, <1>2, <2>1
  <2> QED BY <2>1, <2>2, OtherAnswers
<1>4. "invalid_args" \in ErrKinds /\ "load_in_progress" \in ErrKinds /\ "internal" \in ErrKinds
      /\ "not_found" \in ErrKinds /\ "io" \in Unreachables /\ "no_daemon" \in Unreachables
  BY DEF ErrKinds, Unreachables
<1>5. CASE Begins(c)
  <2>1. Starting(c) BY <1>5 DEF Begins, EndsAtOnce, Sends, CannotSend, StartsSettings, StartsLogs
  <2>2. PICK b : b = Begun(c) OBVIOUS
  <2>3. DOMAIN b = Fields /\ b.at = "idle" BY <2>1, <2>2, BegunParts
  <2>4. CASE EndsAtOnce(c)
    <3>1. PICK code : call' = [call EXCEPT ![c] = [b EXCEPT !.exit = code]] BY <2>2, <2>4 DEF EndsAtOnce
    <3>2. call'[c].at = "idle" BY <1>0, <2>3, <3>1 DEF Fields, Fresh
    <3> QED BY <3>2 DEF Decided
  <2>5. CASE Sends(c)
    <3>1. PICK command : call' = [call EXCEPT ![c] = [b EXCEPT !.at = "sent", !.command = command]]
      BY <2>2, <2>5 DEF Sends
    <3>2. call'[c].at = "sent" BY <1>0, <2>3, <3>1 DEF Fields, Fresh
    <3> QED BY <3>2 DEF Decided
  <2>6. CASE CannotSend(c)
    <3>1. PICK kind \in {"io", "no_daemon"} :
            call' = [call EXCEPT ![c] = [b EXCEPT !.at = "answered", !.reply = Err(kind)]]
      BY <2>2, <2>6 DEF CannotSend
    <3>2. PICK reply : reply = Err(kind) OBVIOUS
    <3>3. call'[c].reply = reply BY <1>0, <2>3, <3>1, <3>2 DEF Fields, Fresh
    <3>4. reply.kind # "decision" BY <1>2, <3>2
    <3> QED BY <3>3, <3>4 DEF Decided
  <2>7. CASE StartsSettings(c)
    <3>1. \/ call' = [call EXCEPT ![c] = [b EXCEPT !.at = "reading"]]
          \/ call' = [call EXCEPT ![c] = [b EXCEPT !.at = "writing", !.queue = Disabling]]
      BY <2>2, <2>7 DEF StartsSettings
    <3>2. call'[c].at \in {"reading", "writing"} BY <1>0, <2>3, <3>1 DEF Fields, Fresh
    <3> QED BY <3>2 DEF Decided
  <2>8. CASE StartsLogs(c)
    <3>1. PICK at, exit : /\ at = IF reader'.at = "off" THEN "idle" ELSE "logging"
                          /\ exit = reader'.exit
      OBVIOUS
    <3>2. call' = [call EXCEPT ![c] = [b EXCEPT !.at = at, !.exit = exit]]
      BY <2>2, <2>8, <3>1 DEF StartsLogs
    <3>3. call'[c].at = at BY <1>0, <2>3, <3>2 DEF Fields, Fresh
    <3> QED BY <3>1, <3>3 DEF Decided
  <2> QED BY <1>5, <2>4, <2>5, <2>6, <2>7, <2>8 DEF Begins
<1>6. CASE Unparsed(c)
  <2>1. call' = Gets(c, Err("invalid_args")) \/ call' = Gets(c, Err("io")) BY <1>6 DEF Unparsed
  <2> QED BY <1>3, <1>4, <2>1
<1>7. CASE CannotBind(c) BY <1>3, <1>4, <1>7 DEF CannotBind
<1>15. CASE DialEnds(c)
  <2>1. call[c].at = "dialling" BY <1>15 DEF DialEnds
  <2>2. PICK ended, reached : call' = [call EXCEPT ![c].ended = ended, ![c].reached = reached]
    BY <1>15 DEF DialEnds
  <2>3. call'[c].at = "dialling" BY <1>0, <2>1, <2>2 DEF Fields, Fresh
  <2> QED BY <2>3 DEF Decided
<1>8. CASE DialsUpstreams(c)
  <2>1. PICK reply, checks : reply = [kind |-> "doctor", checks |-> checks] /\ call' = Gets(c, reply)
    BY <1>8 DEF DialsUpstreams
  <2>2. reply.kind # "decision" BY <2>1
  <2> QED BY <2>1, <2>2, OtherAnswers
<1>9. CASE Captures(c) \/ Subscribes(c)
  <2>1. PICK told : \/ call' = [call EXCEPT ![c].at = "reading", ![c].told = told]
                    \/ call' = [call EXCEPT ![c].at = "tailing"]
    BY <1>9 DEF Captures, Subscribes
  <2>2. call'[c].at \in {"reading", "tailing"} BY <1>0, <2>1 DEF Fields, Fresh
  <2> QED BY <2>2 DEF Decided
<1>10. CASE Mutates(c) \/ TurnsOff(c)
  <2>1. PICK ok : ok = [kind |-> "ok"] OBVIOUS
  <2>2. \/ call' = Gets(c, Err("load_in_progress")) \/ call' = Gets(c, Err("invalid_args"))
        \/ call' = Taken(c, ok)
    BY <1>10, <2>1 DEF Mutates, TurnsOff, Taken
  <2>3. ok.kind # "decision" BY <2>1
  <2>4. ~Decided(Taken(c, ok)[c]) BY <2>3, OtherAnswers
  <2> QED BY <1>3, <1>4, <2>2, <2>4
<1>11. CASE Reloads(c)
  <2>1. PICK id : \/ call' = Gets(c, Err("load_in_progress")) \/ call' = Gets(c, Err("not_found"))
                  \/ call' = [call EXCEPT ![c].at = "held", ![Script] = [Fresh EXCEPT !.load = id]]
    BY <1>11 DEF Reloads
  <2>2. CASE call' = [call EXCEPT ![c].at = "held", ![Script] = [Fresh EXCEPT !.load = id]]
    <3>1. PICK f : f = [Fresh EXCEPT !.load = id] OBVIOUS
    <3>2. f.at = "idle" BY <3>1 DEF Fresh
    <3>3. c = Script => call'[c] = f BY <1>0, <2>2, <3>1
    <3>4. c # Script => call'[c].at = "held" BY <1>0, <2>2, <3>1 DEF Fields, Fresh
    <3> QED BY <3>2, <3>3, <3>4 DEF Decided
  <2> QED BY <1>3, <1>4, <2>1, <2>2
<1>12. CASE Receives(c) \/ FollowsUp(c)
  <2>1. PICK code, told :
          \/ call' = Ended(c, code)
          \/ call' = [call EXCEPT ![c].at = "sent", ![c].command = UnreadableUpstream, ![c].told = told]
    BY <1>12 DEF Receives, FollowsUp
  <2>2. call'[c].at \in {"idle", "sent"} BY <1>0, <2>1 DEF Ended, Fields, Fresh
  <2> QED BY <2>2 DEF Decided
<1>13. CASE Points(c) \/ WritesSetting(c) \/ ReadsLogs(c)
  <2>1. PICK code, queue :
          \/ call' = Ended(c, code)
          \/ call' = [call EXCEPT ![c].at = "writing", ![c].queue = queue]
          \/ call[c].at = "writing" /\ call' = [call EXCEPT ![c].queue = queue]
          \/ call[c].at = "logging" /\ call' = call
    BY <1>13 DEF Points, WritesSetting, ReadsLogs
  <2>2. call'[c].at \in {"idle", "writing", "logging"} BY <1>0, <2>1 DEF Ended, Fields, Fresh
  <2> QED BY <2>2 DEF Decided
<1>14. CASE ReadsSetting(c)
  <2>1. ASSUME NEW read
        PROVE  /\ DOMAIN Reported(c, read) = Callers /\ ~Decided(Reported(c, read)[c])
               /\ DOMAIN Reported(c, read)[c] = Fields
    <3>1. PICK exit, shown, reply :
            /\ reply = [kind |-> "status", listen |-> call[c].told.listen]
            /\ \/ Reported(c, read) = [call EXCEPT ![c].at = "idle", ![c].read = read, ![c].exit = exit]
               \/ Reported(c, read) = [call EXCEPT ![c].at = "dialling", ![c].read = read]
               \/ Reported(c, read) = [Gets(c, reply) EXCEPT ![c].read = shown]
      <4>1. PICK exit : exit = IF Len(read) = 3 THEN Success ELSE Failed OBVIOUS
      <4>2. PICK reply : reply = [kind |-> "status", listen |-> call[c].told.listen] OBVIOUS
      <4>3. PICK shown : shown = IF Len(read) = 3 THEN read ELSE <<Nowhere, Nowhere, Nowhere>> OBVIOUS
      <4>4. CASE Local(c)
        <5>1. ~Doctoring(c) BY <4>4 DEF Local, Doctoring
        <5> QED BY <4>1, <4>2, <4>4, <5>1 DEF Reported
      <4>5. CASE ~Local(c) /\ Doctoring(c) BY <4>2, <4>5 DEF Reported
      <4>6. CASE ~Local(c) /\ ~Doctoring(c) BY <4>2, <4>3, <4>6 DEF Reported
      <4> QED BY <4>4, <4>5, <4>6
    <3>2. reply.kind # "decision" BY <3>1
    <3>3. PICK r : Gets(c, reply) = [call EXCEPT ![c] = r] /\ Answered(c, r, reply) BY GetsParts
    <3>4. Gets(c, reply)[c] = r /\ DOMAIN Gets(c, reply) = Callers /\ DOMAIN r = Fields
      BY <1>0, <3>3 DEF Answered
    <3>5. CASE Reported(c, read) = [Gets(c, reply) EXCEPT ![c].read = shown]
      <4>1. ~Decided([Gets(c, reply) EXCEPT ![c].read = shown][c]) BY <3>2, OtherAnswers
      <4>2. DOMAIN Reported(c, read) = Callers /\ DOMAIN Reported(c, read)[c] = Fields
        BY <3>4, <3>5
      <4> QED BY <3>5, <4>1, <4>2
    <3>6. CASE \/ Reported(c, read) = [call EXCEPT ![c].at = "idle", ![c].read = read, ![c].exit = exit]
               \/ Reported(c, read) = [call EXCEPT ![c].at = "dialling", ![c].read = read]
      <4>1. /\ DOMAIN Reported(c, read) = Callers /\ DOMAIN Reported(c, read)[c] = Fields
            /\ Reported(c, read)[c].at \in {"idle", "dialling"}
        BY <1>0, <3>6 DEF Fields, Fresh
      <4> QED BY <4>1 DEF Decided
    <3> QED BY <3>1, <3>5, <3>6
  <2>2. PICK read, some : \/ call' = Reported(c, read)
                          \/ call[c].at = "reading" /\ call' = [call EXCEPT ![c].read = read]
                          \/ call' = [Reported(c, some) EXCEPT ![c].broken = TRUE]
    BY <1>14 DEF ReadsSetting
  <2>3. CASE call' = Reported(c, read) BY <2>1, <2>3
  <2>4. CASE call[c].at = "reading" /\ call' = [call EXCEPT ![c].read = read]
    <3>1. call'[c].at = "reading" BY <1>0, <2>4 DEF Fields, Fresh
    <3> QED BY <3>1 DEF Decided
  <2>5. CASE call' = [Reported(c, some) EXCEPT ![c].broken = TRUE]
    <3>1. PICK r : r = Reported(c, some)[c] OBVIOUS
    <3>2. call'[c] = [r EXCEPT !.broken = TRUE] BY <2>1, <2>5, <3>1
    <3>3. DOMAIN r = Fields /\ ~Decided(r) BY <2>1, <3>1
    <3>4. call'[c].at = r.at /\ call'[c].reply = r.reply BY <3>2, <3>3 DEF Fields, Fresh
    <3> QED BY <3>3, <3>4 DEF Decided
  <2> QED BY <2>2, <2>3, <2>4, <2>5
<1> QED BY <1>5, <1>6, <1>7, <1>8, <1>9, <1>10, <1>11, <1>12, <1>13, <1>14, <1>15 DEF Handles, GoesOn

\* What test said, of the rules that were live then and the destination it was asked
\* about.
Told(r) ==
  Decided(r) =>
    /\ r.command.op = "test"
    /\ r.told.rules \in Seq(ReadableRules)
    /\ \E via : r.reply = DecisionView(r.told.rules, via, r.command.arg.host, r.command.arg.port)

TestInv == Addressed /\ \A c \in Callers : Told(call[c])

\* The handler of test says it.
LEMMA AnswersTell ==
  ASSUME CliInv, Addressed, NEW c \in Callers, Answers(c)
  PROVE  Told(call'[c])
<1>0. DOMAIN call = Callers /\ DOMAIN call[c] = Fields BY CallParts DEF CliInv
<1>1. PICK rules : rules = daemon.config.rules OBVIOUS
<1>2. rules \in Seq(ReadableRules) BY <1>1 DEF Addressed, DaemonAddressed, Placed
<1>3. PICK command : command = call[c].command OBVIOUS
<1>4. command.op \in {"rules", "test"} BY <1>3 DEF Answers, Handling
<1>5. PICK told : told = [kind |-> "rules", rules |-> rules] OBVIOUS
<1>6. PICK via, reply :
        /\ reply = IF command.op = "rules" THEN [kind |-> "rules", rules |-> RuleViews(rules)]
                   ELSE DecisionView(rules, via, command.arg.host, command.arg.port)
        /\ call' = [Gets(c, reply) EXCEPT ![c].told = told]
  BY <1>1, <1>3, <1>5 DEF Answers
<1>7. PICK r : r = [call[c] EXCEPT !.at = "answered", !.reply = reply, !.told = told] OBVIOUS
<1>8. call'[c] = r
  <2>1. Gets(c, reply)[c] = [call[c] EXCEPT !.at = "answered", !.reply = reply]
    BY <1>0 DEF Gets, Fields, Fresh
  <2>2. DOMAIN Gets(c, reply) = Callers BY <1>0 DEF Gets
  <2> QED BY <1>0, <1>6, <1>7, <2>1, <2>2 DEF Fields, Fresh
<1>9. r.reply = reply /\ r.told = told /\ r.command = command
  BY <1>0, <1>3, <1>7 DEF Fields, Fresh
<1>10. told.rules = rules BY <1>5
<1>11. CASE command.op = "rules"
  <2>1. reply.kind = "rules" BY <1>6, <1>11
  <2> QED BY <1>8, <1>9, <2>1 DEF Told, Decided
<1>12. CASE command.op = "test"
  <2>1. reply = DecisionView(rules, via, command.arg.host, command.arg.port) BY <1>6, <1>12
  <2> QED BY <1>2, <1>8, <1>9, <1>10, <1>12, <2>1 DEF Told
<1> QED BY <1>4, <1>11, <1>12

\* An invocation between two verbs has been answered nothing.
LEMMA FreshTells == \A id : Told(Fresh) /\ Told([Fresh EXCEPT !.load = id])
BY DEF Told, Decided, Fresh

\* What test said is not taken back.
LEMMA TestStays == CliInv /\ TestInv /\ [Next]_vars => TestInv'
<1> SUFFICES ASSUME CliInv, TestInv, [Next]_vars PROVE TestInv' OBVIOUS
<1>1. Addressed /\ Addressed' BY AddressedStays DEF TestInv
<1>2. DOMAIN call = Callers /\ Script \in Callers BY CliAssumption DEF CliInv
<1>3. ASSUME NEW d \in Callers PROVE Told(call'[d])
  <2>0. Told(call[d]) /\ DOMAIN call[d] = Fields BY CallParts DEF TestInv
  <2>1. ASSUME NEW c \in Callers, Begins(c) \/ Handles(c) \/ GoesOn(c) PROVE Told(call'[d])
    <3>1. CASE d = c
      <4>1. CASE Decided(call'[c]) BY <1>1, <2>1, <3>1, <4>1, OnlyTestsDecide, AnswersTell
      <4>2. CASE ~Decided(call'[c]) BY <3>1, <4>2 DEF Told
      <4> QED BY <4>1, <4>2
    <3>2. CASE d # c /\ call'[d] = call[d] BY <2>0, <3>2
    <3>3. CASE d # c /\ call'[d] # call[d]
      <4>1. d = Script /\ Reloads(c) BY <2>1, <3>3, OneAtATime
      <4>2. PICK g, id : \/ call' = Gets(c, g)
                         \/ call' = [call EXCEPT ![c].at = "held", ![Script] = [Fresh EXCEPT !.load = id]]
        BY <4>1 DEF Reloads
      <4>3. Gets(c, g)[d] = call[d] BY <1>2, <3>3 DEF Gets
      <4>4. PICK f : f = [Fresh EXCEPT !.load = id] OBVIOUS
      <4>5. call'[d] = f BY <1>2, <3>3, <4>1, <4>2, <4>3, <4>4
      <4> QED BY <4>4, <4>5, FreshTells
    <3> QED BY <3>1, <3>2, <3>3
  <2>2. CASE ScriptSucceeds \/ ScriptFails \/ CommitFails
    <3>1. CASE d = Script
      <4>1. PICK f : f = Fresh OBVIOUS
      <4> QED BY <2>2, <3>1, <4>1, RunEndsScript, FreshTells
    <3>2. CASE d # Script
      <4>1. call'[d] = call[d] \/ ~Decided(call'[d]) BY <2>2, <3>2, RunEnds
      <4> QED BY <2>0, <4>1 DEF Told
    <3> QED BY <3>1, <3>2
  <2>3. CASE Dies
    <3>1. call'[d] \in FateOf(d) BY <2>3 DEF Dies
    <3>2. PICK f, closed, torn : f = Fresh /\ closed = Err("closed") /\ torn = Err("malformed")
      OBVIOUS
    <3>3. \/ call'[d] = f \/ call'[d] = call[d]
          \/ call'[d] = [call[d] EXCEPT !.at = "answered", !.reply = closed]
          \/ call'[d] = [call[d] EXCEPT !.at = "answered", !.reply = torn]
          \/ call'[d] = [call[d] EXCEPT !.at = "idle", !.exit = Success]
          \/ call'[d] = [call[d] EXCEPT !.at = "idle", !.exit = Failed]
      BY <3>1, <3>2 DEF FateOf
    <3>4. closed.kind # "decision" /\ torn.kind # "decision" BY <3>2 DEF Err
    <3>5. ASSUME NEW reply, reply.kind # "decision"
          PROVE  ~Decided([call[d] EXCEPT !.at = "answered", !.reply = reply])
      BY <2>0, <3>5 DEF Decided, Fields, Fresh
    <3>6. ASSUME NEW code PROVE ~Decided([call[d] EXCEPT !.at = "idle", !.exit = code])
      BY <2>0 DEF Decided, Fields, Fresh
    <3>7. Told(f) BY <3>2, FreshTells
    <3>8. call'[d] = f \/ call'[d] = call[d] \/ ~Decided(call'[d])
      BY <3>3, <3>4, <3>5, <3>6
    <3> QED BY <2>0, <3>7, <3>8 DEF Told
  <2>4. CASE StartsDaemon
    <3>1. PICK r : r = (IF Loading' THEN [Fresh EXCEPT !.load = 1] ELSE Fresh) OBVIOUS
    <3>2. call' = [call EXCEPT ![Script] = r] BY <2>4, <3>1 DEF StartsDaemon
    <3>3. Told(r) BY <3>1, FreshTells
    <3>4. call'[d] = r \/ call'[d] = call[d] BY <1>2, <3>2
    <3> QED BY <2>0, <3>3, <3>4
  <2>5. CASE UNCHANGED call BY <2>0, <2>5
  <2> QED BY <2>1, <2>2, <2>3, <2>4, <2>5 DEF Next, Changes, LogsALine, DayPasses, vars
<1> QED BY <1>1, <1>3 DEF TestInv

\* At the start nothing has been said.
LEMMA NothingTold == Init => TestInv
<1> SUFFICES ASSUME Init PROVE TestInv OBVIOUS
<1>1. ASSUME NEW c \in Callers PROVE Told(call[c])
  <2>1. PICK r : r = IF c = Script /\ Loading THEN [Fresh EXCEPT !.load = 1] ELSE Fresh OBVIOUS
  <2>2. call[c] = r BY <2>1 DEF Init
  <2>3. Told(r) BY <2>1, FreshTells
  <2> QED BY <2>2, <2>3
<1> QED BY <1>1, AddressedInitially DEF TestInv

\* What TestTells asks of what test said of some rules and a destination.
TellsTruly(asked, reply, rules) ==
  /\ IF reply.rule = 0 THEN \A i \in DOMAIN rules : ~Meant(rules[i], asked.host, asked.port)
     ELSE /\ Meant(rules[reply.rule], asked.host, asked.port)
          /\ reply.class = rules[reply.rule].class
          /\ \A i \in DOMAIN rules : Meant(rules[i], asked.host, asked.port) /\ i # reply.rule =>
               \/ reply.class = "never" /\ rules[i].class # "never"
               \/ i > reply.rule /\ (rules[i].class = "never" => reply.class = "never")
  /\ reply.decision # "upstream" =>
       /\ reply.via = "itself"
       /\ {"[", "]"} \cap {asked.host[i] : i \in DOMAIN asked.host} = {}
            => ParseDestination(reply.hop) = asked

\* daemon/state.rs test, rules/mod.rs decide, rules/matcher.rs matches, cli/mod.rs
\* parse_destination: what `test` prints is what the rules mean of every host, read
\* label by label, for every rule list and every destination that can be typed, and
\* the next hop it names is the destination it was asked about.
THEOREM TestsTell == Spec => []TestTells
<1>1. CliInv /\ TestInv => TestTells
  <2> SUFFICES ASSUME CliInv, TestInv, NEW c \in Callers, Decided(call[c])
               PROVE  TellsTruly(call[c].command.arg, call[c].reply, call[c].told.rules)
    BY DEF TestTells, TellsTruly, Decided
  <2>0. PICK asked, reply, rules :
          asked = call[c].command.arg /\ reply = call[c].reply /\ rules = call[c].told.rules
    OBVIOUS
  <2>1. Told(call[c]) BY DEF TestInv
  <2>2. rules \in Seq(ReadableRules) /\ call[c].command.op = "test" BY <2>0, <2>1 DEF Told
  <2>3. PICK via : reply = DecisionView(rules, via, asked.host, asked.port)
    BY <2>0, <2>1 DEF Told
  <2>4. asked # Unread /\ \E target \in Words : asked = ParseDestination(target)
    BY <2>0, <2>2 DEF TestInv, Addressed, CommandsWorded, Worded
  <2>5. PICK host \in Words, port \in Nat :
          host # <<>> /\ Fits(port) /\ asked = Destination(host, port)
    BY <2>4, DestinationParts
  <2>6. asked.host = host /\ asked.port = port BY <2>5 DEF Destination
  <2>7. reply = DecisionView(rules, via, host, port) BY <2>3, <2>6
  <2>8. /\ reply.rule = 0 => \A i \in DOMAIN rules : ~Meant(rules[i], host, port)
        /\ reply.rule # 0 =>
              /\ Meant(rules[reply.rule], host, port) /\ reply.class = rules[reply.rule].class
              /\ \A i \in DOMAIN rules : Meant(rules[i], host, port) /\ i # reply.rule =>
                   \/ reply.class = "never" /\ rules[i].class # "never"
                   \/ i > reply.rule /\ (rules[i].class = "never" => reply.class = "never")
        /\ reply.decision # "upstream" => reply.via = "itself" /\ reply.hop = Dialled(host, port)
    BY <2>2, <2>7, DecisionTells
  <2>9. ASSUME {"[", "]"} \cap {host[i] : i \in DOMAIN host} = {}
        PROVE  ParseDestination(Dialled(host, port)) = asked
    <3>1. \A i \in 1..Len(host) : host[i] \notin {"[", "]"}
      <4>1. DOMAIN host = 1..Len(host) BY DEF Words
      <4>2. ASSUME NEW i \in 1..Len(host), host[i] \in {"[", "]"} PROVE FALSE
        <5>1. host[i] \in {"[", "]"} \cap {host[j] : j \in DOMAIN host} BY <4>1, <4>2
        <5> QED BY <2>9, <5>1
      <4> QED BY <4>2
    <3> QED BY <2>5, <3>1, ReadsBack
  <2>10. TellsTruly(asked, reply, rules) BY <2>6, <2>8, <2>9 DEF TellsTruly
  <2> QED BY <2>0, <2>10
<1>2. Init => CliInv /\ TestInv BY NothingTold, CliInitially
<1>3. CliInv /\ TestInv /\ [Next]_vars => (CliInv /\ TestInv)' BY TestStays, CliSteps
<1> QED BY <1>1, <1>2, <1>3, PTL DEF Spec
==============================================================================
