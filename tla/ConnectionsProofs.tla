------------------------- MODULE ConnectionsProofs -------------------------
(***************************************************************************)
(* Proofs about Connections, for any number of connections, subscribers,   *)
(* upstreams and rules, any visits and any capacity.                       *)
(***************************************************************************)
EXTENDS Connections, WellFoundedInduction, TLAPS

\* A subscriber is new to the stream when it subscribes.
Fresh ==
  \A s \in Subscribers : stage[s] = "out" => told[s] = <<>> /\ queue[s] = <<>> /\ dropped[s] = 0

EventsInv == EventsTypeOK /\ Fresh /\ GapsAreTold

\* What GapsAreTold says of one subscriber.
Told(s) ==
  /\ \A i \in 1..Len(Stream(s)) : Stream(s)[i].event = Before(s, i) + Stream(s)[i].missed + 1
  /\ stage[s] = "listening" => published = Before(s, Len(Stream(s)) + 1) + dropped[s]

EventStep == Publish \/ (\E s \in Subscribers : SubscriberStep(s)) \/ UNCHANGED eventVars

\* A line moved from the head of one sequence to the end of the other stays where
\* it is in the two together.
LEMMA TakenOver ==
  ASSUME NEW t \in Seq(Lines), NEW q \in Seq(Lines), q # <<>>
  PROVE  /\ Len(Append(t, Head(q)) \o Tail(q)) = Len(t \o q)
         /\ \A i \in 1..Len(t \o q) : (Append(t, Head(q)) \o Tail(q))[i] = (t \o q)[i]
OBVIOUS

\* The first of two sequences alone begins as the two together do.
LEMMA CutOff ==
  ASSUME NEW t \in Seq(Lines), NEW q \in Seq(Lines)
  PROVE  /\ Len(t \o <<>>) <= Len(t \o q)
         /\ \A i \in 1..Len(t \o <<>>) : (t \o <<>>)[i] = (t \o q)[i]
OBVIOUS

\* The shape of a stream: what is told, then what is queued.
LEMMA StreamShape ==
  ASSUME EventsTypeOK, NEW s \in Subscribers
  PROVE  /\ Stream(s) \in Seq(Lines)
         /\ Len(Stream(s)) = Len(told[s]) + Len(queue[s])
         /\ \A i \in 1..Len(told[s]) : Stream(s)[i] = told[s][i]
         /\ \A i \in 1..Len(queue[s]) : Stream(s)[Len(told[s]) + i] = queue[s][i]
BY DEF EventsTypeOK, Stream

\* Events are counted from the one before the stream.
LEMMA BeforeIsNumber ==
  ASSUME EventsTypeOK, NEW s \in Subscribers, NEW n \in Nat, n <= Len(Stream(s))
  PROVE  Before(s, n + 1) \in Nat
<1>1. CASE n = 0 BY <1>1 DEF Before, EventsTypeOK
<1>2. CASE n # 0
  <2>1. Stream(s) \in Seq(Lines) BY StreamShape
  <2>2. Stream(s)[n] \in Lines BY <1>2, <2>1
  <2>3. Before(s, n + 1) = Stream(s)[n].event BY <1>2 DEF Before
  <2> QED BY <2>2, <2>3 DEF Lines
<1> QED BY <1>1, <1>2

\* The queues stay within their capacity and the counts are numbers.
LEMMA EventsType == EventsTypeOK /\ EventStep => EventsTypeOK'
<1> SUFFICES ASSUME EventsTypeOK, EventStep PROVE EventsTypeOK'
  OBVIOUS
<1> USE CapacityAssumption
<1>1. CASE Publish
  <2>1. ASSUME NEW s \in Subscribers
        PROVE  Queued(s) \in Seq(Lines) /\ Len(Queued(s)) <= Capacity /\ Dropped(s) \in Nat
    <3>1. [event |-> published + 1, missed |-> dropped[s]] \in Lines
      BY DEF EventsTypeOK, Lines
    <3>2. queue[s] \in Seq(Lines) /\ Len(queue[s]) <= Capacity /\ dropped[s] \in Nat
      BY DEF EventsTypeOK
    <3>3. Dropped(s) \in Nat BY <3>2 DEF Dropped
    <3>4. Queued(s) \in Seq(Lines) /\ Len(Queued(s)) <= Capacity
      BY <3>1, <3>2 DEF Queued, Fits
    <3> QED BY <3>3, <3>4
  <2> QED BY <1>1, <2>1 DEF Publish, EventsTypeOK, Stages
<1>2. ASSUME NEW s \in Subscribers, SubscriberStep(s) PROVE EventsTypeOK'
  <2>1. CASE Subscribes(s) BY <2>1 DEF Subscribes, EventsTypeOK, Stages
  <2>2. CASE Receives(s)
    <3>1. Head(queue[s]) \in Lines /\ Tail(queue[s]) \in Seq(Lines) /\ Len(Tail(queue[s])) <= Capacity
      BY <2>2 DEF Receives, EventsTypeOK
    <3>2. Append(told[s], Head(queue[s])) \in Seq(Lines)
      BY <3>1 DEF EventsTypeOK
    <3> QED BY <2>2, <3>1, <3>2 DEF Receives, EventsTypeOK
  <2>3. CASE Leaves(s) BY <2>3 DEF Leaves, EventsTypeOK, Stages
  <2> QED BY <1>2, <2>1, <2>2, <2>3 DEF SubscriberStep
<1>3. CASE UNCHANGED eventVars BY <1>3 DEF eventVars, EventsTypeOK
<1> QED BY <1>1, <1>2, <1>3 DEF EventStep

LEMMA FreshStep == EventsTypeOK /\ Fresh /\ EventStep => Fresh'
<1> SUFFICES ASSUME EventsTypeOK, Fresh, EventStep PROVE Fresh'
  OBVIOUS
<1>1. CASE Publish BY <1>1 DEF Publish, Fresh, Queued, Dropped, EventsTypeOK
<1>2. ASSUME NEW s \in Subscribers, SubscriberStep(s) PROVE Fresh'
  BY <1>2 DEF SubscriberStep, Subscribes, Receives, Leaves, Fresh, EventsTypeOK
<1>3. CASE UNCHANGED eventVars BY <1>3 DEF eventVars, Fresh
<1> QED BY <1>1, <1>2, <1>3 DEF EventStep

\* A stream that a step leaves as it is, up to what it cuts off, tells its gaps.
LEMMA StreamStands ==
  ASSUME EventsTypeOK, EventsTypeOK', NEW s \in Subscribers, Told(s), since'[s] = since[s],
         Len(Stream(s))' <= Len(Stream(s)),
         \A i \in 1..Len(Stream(s))' : Stream(s)'[i] = Stream(s)[i],
         stage'[s] = "listening" =>
           /\ stage[s] = "listening" /\ published' = published /\ dropped'[s] = dropped[s]
           /\ Len(Stream(s))' = Len(Stream(s))
  PROVE  Told(s)'
<1>1. Len(Stream(s))' \in Nat /\ Len(Stream(s)) \in Nat
  BY StreamShape, EventsType DEF EventsTypeOK, Stream
<1>2. \A i \in 1..Len(Stream(s))' + 1 : Before(s, i)' = Before(s, i)
  BY <1>1 DEF Before
<1> QED BY <1>1, <1>2 DEF Told

\* One more line that reports the gap before it.
LEMMA StreamGrows ==
  ASSUME EventsTypeOK, EventsTypeOK', NEW s \in Subscribers, Told(s), stage[s] = "listening",
         Publish, Fits(s)
  PROVE  Told(s)'
<1>a. PICK n \in Nat : n = Len(Stream(s)) BY StreamShape DEF EventsTypeOK
<1>b. PICK line \in Lines : line = [event |-> published + 1, missed |-> dropped[s]]
  <2>1. [event |-> published + 1, missed |-> dropped[s]] \in Lines BY DEF EventsTypeOK, Lines
  <2> QED BY <2>1
<1>0. told'[s] = told[s] /\ queue'[s] = Append(queue[s], line) /\ since'[s] = since[s]
      /\ published' = published + 1 /\ dropped'[s] = 0
  BY <1>b DEF Publish, Queued, Dropped, EventsTypeOK
<1>1. Len(Stream(s))' = n + 1 /\ Stream(s)'[n + 1] = line
      /\ \A i \in 1..n : Stream(s)'[i] = Stream(s)[i]
  BY <1>0, <1>a DEF Stream, EventsTypeOK
<1>2. \A i \in 1..(n + 1) : Before(s, i)' = Before(s, i)
  BY <1>0, <1>1 DEF Before
<1>3. published = Before(s, n + 1) + dropped[s] BY <1>a DEF Told
<1>4. published \in Nat /\ dropped[s] \in Nat BY DEF EventsTypeOK
<1>5. Before(s, n + 1) \in Nat BY <1>a, BeforeIsNumber
<1>6. Before(s, n + 2)' = published + 1
  BY <1>1, <1>b DEF Before
<1>7. \A i \in 1..(n + 1) : Stream(s)'[i].event = Before(s, i)' + Stream(s)'[i].missed + 1
  <2> TAKE i \in 1..(n + 1)
  <2>1. CASE i = n + 1 BY <1>1, <1>2, <1>3, <1>4, <1>5, <1>b, <2>1
  <2>2. CASE i # n + 1 BY <1>1, <1>2, <1>a, <2>2 DEF Told
  <2> QED BY <2>1, <2>2
<1>8. Before(s, Len(Stream(s)) + 1)' = published + 1
  BY <1>1, <1>6
<1> QED BY <1>0, <1>1, <1>4, <1>7, <1>8 DEF Told

LEMMA GapsStep == EventsInv /\ EventStep => GapsAreTold'
<1> SUFFICES ASSUME EventsInv, EventStep, NEW s \in Subscribers PROVE Told(s)'
  BY DEF GapsAreTold, Told
<1>0. EventsTypeOK /\ EventsTypeOK' /\ Fresh /\ Told(s)
  BY EventsType DEF EventsInv, GapsAreTold, Told
<1>1. CASE Publish
  <2>1. CASE stage[s] = "listening" /\ Fits(s) BY <1>0, <1>1, <2>1, StreamGrows
  <2>2. CASE stage[s] = "listening" /\ ~Fits(s)
    <3>1. told'[s] = told[s] /\ queue'[s] = queue[s] /\ since'[s] = since[s]
          /\ published' = published + 1 /\ dropped'[s] = dropped[s] + 1 /\ stage'[s] = stage[s]
      BY <1>0, <1>1, <2>2 DEF Publish, Queued, Dropped, EventsTypeOK
    <3>2. Stream(s)' = Stream(s) BY <3>1 DEF Stream
    <3>3. \A i : Before(s, i)' = Before(s, i) BY <3>1, <3>2 DEF Before
    <3>4. Before(s, Len(Stream(s)) + 1) \in Nat
      <4>1. Len(Stream(s)) \in Nat BY <1>0, StreamShape DEF EventsTypeOK
      <4> QED BY <1>0, <4>1, BeforeIsNumber
    <3> QED BY <1>0, <3>1, <3>2, <3>3, <3>4 DEF Told, EventsTypeOK
  <2>3. CASE stage[s] # "listening"
    <3>1. told'[s] = told[s] /\ queue'[s] = queue[s] /\ since'[s] = since[s] /\ stage'[s] # "listening"
      BY <1>0, <1>1, <2>3 DEF Publish, Queued, EventsTypeOK
    <3>2. Stream(s)' = Stream(s) BY <3>1 DEF Stream
    <3> QED BY <1>0, <3>1, <3>2 DEF Told, Before
  <2> QED BY <2>1, <2>2, <2>3
<1>2. ASSUME NEW r \in Subscribers, SubscriberStep(r) PROVE Told(s)'
  <2>1. CASE r # s
    <3>1. told'[s] = told[s] /\ queue'[s] = queue[s] /\ since'[s] = since[s] /\ stage'[s] = stage[s]
          /\ dropped'[s] = dropped[s] /\ published' = published
      BY <1>0, <1>2, <2>1 DEF SubscriberStep, Subscribes, Receives, Leaves, EventsTypeOK
    <3>2. Stream(s)' = Stream(s) BY <3>1 DEF Stream
    <3> QED BY <1>0, <3>1, <3>2 DEF Told, Before
  <2>2. CASE r = s /\ Subscribes(s)
    <3>1. told'[s] = <<>> /\ queue'[s] = <<>> /\ dropped'[s] = 0 /\ since'[s] = published
          /\ published' = published
      BY <1>0, <2>2 DEF Subscribes, Fresh, EventsTypeOK
    <3>2. Len(Stream(s))' = 0 BY <3>1 DEF Stream
    <3> QED BY <1>0, <3>1, <3>2 DEF Told, Before, EventsTypeOK
  <2>3. CASE r = s /\ Receives(s)
    <3>1. since'[s] = since[s] /\ stage'[s] = stage[s] /\ dropped'[s] = dropped[s]
          /\ published' = published /\ stage[s] = "listening"
          /\ told'[s] = Append(told[s], Head(queue[s])) /\ queue'[s] = Tail(queue[s])
          /\ queue[s] # <<>>
      BY <1>0, <2>3 DEF Receives, EventsTypeOK
    <3>2. told[s] \in Seq(Lines) /\ queue[s] \in Seq(Lines) BY <1>0 DEF EventsTypeOK
    <3>3. Len(Stream(s))' = Len(Stream(s)) /\ \A i \in 1..Len(Stream(s)) : Stream(s)'[i] = Stream(s)[i]
      BY <3>1, <3>2, TakenOver DEF Stream
    <3>4. Len(Stream(s)) \in Nat BY <1>0, StreamShape DEF EventsTypeOK
    <3> QED BY <1>0, <3>1, <3>3, <3>4, StreamStands
  <2>4. CASE r = s /\ Leaves(s)
    <3>1. since'[s] = since[s] /\ stage'[s] = "left" /\ told'[s] = told[s] /\ queue'[s] = <<>>
      BY <1>0, <2>4 DEF Leaves, EventsTypeOK
    <3>2. told[s] \in Seq(Lines) /\ queue[s] \in Seq(Lines) BY <1>0 DEF EventsTypeOK
    <3>3. Len(Stream(s))' <= Len(Stream(s))
          /\ \A i \in 1..Len(Stream(s))' : Stream(s)'[i] = Stream(s)[i]
      BY <3>1, <3>2, CutOff DEF Stream
    <3> QED BY <1>0, <3>1, <3>3, StreamStands
  <2> QED BY <1>2, <2>1, <2>2, <2>3, <2>4 DEF SubscriberStep
<1>3. CASE UNCHANGED eventVars
  <2>1. Stream(s)' = Stream(s) BY <1>3 DEF eventVars, Stream
  <2> QED BY <1>0, <1>3, <2>1 DEF eventVars, Told, Before
<1> QED BY <1>1, <1>2, <1>3 DEF EventStep

\* Every step of a connection publishes one event or leaves the fan-out alone.
LEMMA NextIsEventStep == [Next]_vars => EventStep
<1> SUFFICES ASSUME [Next]_vars PROVE EventStep
  OBVIOUS
<1>1. ASSUME NEW c \in Conns, Handshakes(c) PROVE UNCHANGED eventVars
  BY <1>1 DEF Handshakes, Accepts, HttpCloses, HttpRejects, SocksCloses, SocksRejects, Greets, Answered
<1>2. ASSUME NEW c \in Conns, Decides(c) \/ Dials(c) PROVE UNCHANGED eventVars
  BY <1>2 DEF Decides, Dials, RefusesUnlisted, FallbackDials, DialsDirect, DialsUpstream, FallsBack,
              Opened, NotOpened
<1>3. ASSUME NEW c \in Conns, Serves(c) PROVE Publish \/ UNCHANGED eventVars
  BY <1>3 DEF Serves, Refuses, ClientGone, StartsRelay, Carries, RelayEnds, Logs, Publishes
<1>4. CASE UNCHANGED vars BY <1>4 DEF vars, EventStep
<1> QED BY <1>1, <1>2, <1>3, <1>4 DEF Next, EventStep

\* Whoever follows the stream of events can tell which it missed, for any number of
\* connections and subscribers and any capacity.
THEOREM StreamsTellGaps == Spec => []GapsAreTold
<1>1. Init => EventsInv
  BY CapacityAssumption
     DEF Init, EventsInit, EventsInv, EventsTypeOK, Fresh, GapsAreTold, Stream, Before, Stages
<1>2. EventsInv /\ [Next]_vars => EventsInv'
  BY NextIsEventStep, EventsType, FreshStep, GapsStep DEF EventsInv
<1>3. EventsInv => GapsAreTold
  BY DEF EventsInv
<1> QED BY <1>1, <1>2, <1>3, PTL DEF Spec

-----------------------------------------------------------------------------
(* Connections *)

\* The connection's own variables have their shapes.
ConnTypeOK ==
  /\ at \in [Conns -> Places]
  /\ visit \in [Conns -> Visit \cup {NoVisit}]
  /\ \A c \in Conns : at[c] # "out" => visit[c] \in Visits[c]
  /\ answer \in [Conns -> Answers]
  /\ tried \in [Conns -> Seq(Upstreams \cup {Direct})]
  /\ hop \in [Conns -> Hops] /\ via \in [Conns -> Upstreams \cup {None}]
  /\ failure \in [Conns -> Failures]
  /\ carried \in [Conns -> Nat] /\ lines \in [Conns -> Nat]

\* What the visit of an accepted connection is made of.
LEMMA VisitParts ==
  ASSUME NEW c \in Conns, NEW v \in Visits[c]
  PROVE  /\ v \in Visit /\ v.kind \in Kinds
         /\ v.sent \in Nat /\ v.ahead \in Nat /\ v.ahead <= v.sent
         /\ v.length \in Nat \cup {Streamed}
         /\ Behind(v) \in Nat /\ Rest(v) \in Nat
<1>1. v \in Visit BY VisitsAssumption
<1>2. v.ahead <= v.sent BY VisitsAssumption
<1>3. v.kind \in Kinds /\ v.sent \in Nat /\ v.ahead \in Nat /\ v.length \in Nat \cup {Streamed}
  BY <1>1 DEF Visit
<1>4. Behind(v) \in Nat BY <1>3 DEF Behind, Least, Streamed
<1>5. Rest(v) \in Nat BY <1>3 DEF Rest, Behind, Least, Streamed
<1> QED BY <1>1, <1>2, <1>3, <1>4, <1>5

LEMMA HandshakeType ==
  ASSUME ConnTypeOK, NEW c \in Conns, Handshakes(c) \/ Decides(c)
  PROVE  ConnTypeOK'
<1>1. CASE Accepts(c)
  <2>1. \A v \in Visits[c] : v \in Visit BY VisitsAssumption
  <2> QED BY <1>1, <2>1 DEF Accepts, Goes, ConnTypeOK, Places
<1>2. CASE HttpCloses(c) \/ HttpRejects(c)
  BY <1>2 DEF HttpCloses, HttpRejects, Goes, Answered, ConnTypeOK, Places, Answers
<1>3. CASE SocksCloses(c)
  BY <1>3 DEF SocksCloses, Goes, Answered, ConnTypeOK, Places, Answers
<1>4. CASE SocksRejects(c) \/ Greets(c)
  BY <1>4 DEF SocksRejects, Greets, Goes, Answered, ConnTypeOK, Places, Answers
<1>5. CASE Decides(c)
  BY <1>5 DEF Decides, ConnTypeOK, Places, Failures
<1> QED BY <1>1, <1>2, <1>3, <1>4, <1>5 DEF Handshakes

LEMMA DialType ==
  ASSUME ConnTypeOK, NEW c \in Conns, Dials(c)
  PROVE  ConnTypeOK'
<1>0. \A x \in Upstreams \cup {Direct} : Append(tried[c], x) \in Seq(Upstreams \cup {Direct})
  BY DEF ConnTypeOK
<1>1. CASE RefusesUnlisted(c) BY <1>1 DEF RefusesUnlisted, Goes, ConnTypeOK, Places, Failures
<1>2. ASSUME at[c] # "out",
             \E x \in Upstreams \cup {Direct}, y \in Upstreams \cup {None}, h \in Hops, w \in Failures :
               Opened(c, x, y, h) \/ NotOpened(c, x, y, h, w)
      PROVE  ConnTypeOK'
  <2>1. PICK x \in Upstreams \cup {Direct}, y \in Upstreams \cup {None}, h \in Hops, w \in Failures :
          Opened(c, x, y, h) \/ NotOpened(c, x, y, h, w)
    BY <1>2
  <2>2. CASE Opened(c, x, y, h) BY <1>0, <1>2, <2>2 DEF Opened, ConnTypeOK, Places
  <2>3. CASE NotOpened(c, x, y, h, w) BY <1>0, <1>2, <2>3 DEF NotOpened, ConnTypeOK, Places
  <2> QED BY <2>1, <2>2, <2>3
<1>3. CASE FallbackDials(c) BY <1>2, <1>3 DEF FallbackDials, Hops, Failures
<1>4. CASE DialsDirect(c) BY <1>2, <1>4 DEF DialsDirect, Hops, Failures
<1>5. ASSUME NEW u \in Upstreams, DialsUpstream(c, u) PROVE ConnTypeOK'
  BY <1>2, <1>5 DEF DialsUpstream, Hops, Failures
<1>6. ASSUME NEW u \in Upstreams, FallsBack(c, u) PROVE ConnTypeOK'
  BY <1>0, <1>6 DEF FallsBack, Goes, ConnTypeOK, Places
<1> QED BY <1>1, <1>3, <1>4, <1>5, <1>6 DEF Dials

LEMMA ServeType ==
  ASSUME ConnTypeOK, NEW c \in Conns, Serves(c)
  PROVE  ConnTypeOK'
<1>1. CASE Refuses(c)
  BY <1>1 DEF Refuses, Refusal, Goes, ConnTypeOK, Places, Answers
<1>2. CASE ClientGone(c) BY <1>2 DEF ClientGone, Goes, ConnTypeOK, Places, Failures
<1>3. CASE StartsRelay(c)
  <2>1. Behind(visit[c]) \in Nat BY <1>3, VisitParts DEF StartsRelay, Goes, ConnTypeOK
  <2> QED BY <1>3, <2>1 DEF StartsRelay, Goes, ConnTypeOK, Places, Answers
<1>4. CASE Carries(c) BY <1>4 DEF Carries, ConnTypeOK
<1>5. CASE RelayEnds(c) BY <1>5 DEF RelayEnds, Goes, ConnTypeOK, Places, Failures
<1>6. CASE Logs(c) BY <1>6 DEF Logs, Goes, ConnTypeOK, Places
<1>7. CASE Publishes(c) BY <1>7 DEF Publishes, Goes, ConnTypeOK, Places
<1> QED BY <1>1, <1>2, <1>3, <1>4, <1>5, <1>6, <1>7 DEF Serves

LEMMA ConnTypeStep == ConnTypeOK /\ [Next]_vars => ConnTypeOK'
<1> SUFFICES ASSUME ConnTypeOK, [Next]_vars PROVE ConnTypeOK'
  OBVIOUS
<1>1. CASE UNCHANGED connVars BY <1>1 DEF connVars, ConnTypeOK
<1>2. ASSUME NEW c \in Conns, Handshakes(c) \/ Decides(c) \/ Dials(c) \/ Serves(c) PROVE ConnTypeOK'
  BY <1>2, HandshakeType, DialType, ServeType
<1> QED BY <1>1, <1>2 DEF Next, vars

LEMMA ConnTypeInit == Init => ConnTypeOK
BY DEF Init, ConnTypeOK, Places, Answers, Hops, Failures

\* The shapes hold, for any visits, rules, upstreams and capacity.
THEOREM ConnectionsTypeCorrect == Spec => []TypeOK
<1>1. Init => EventsTypeOK
  BY CapacityAssumption DEF Init, EventsInit, EventsTypeOK, Stages
<1>2. EventsTypeOK /\ ConnTypeOK => TypeOK
  BY DEF TypeOK, ConnTypeOK
<1>3. EventsTypeOK /\ [Next]_vars => EventsTypeOK'
  BY NextIsEventStep, EventsType
<1> QED BY <1>1, <1>2, <1>3, ConnTypeInit, ConnTypeStep, PTL DEF Spec

-----------------------------------------------------------------------------
(* Rules *)

\* A set of places in a list that is not empty has a first.
LEMMA FirstMatch ==
  ASSUME NEW S \in SUBSET Nat, S # {}
  PROVE  \E i \in S : \A j \in S : i <= j
<1> DEFINE R == OpToRel(<, Nat)
<1>1. IsWellFoundedOn(R, Nat) BY NatLessThanWellFounded
<1>2. \A i, j \in Nat : i < j => <<i, j>> \in R BY DEF OpToRel
<1> HIDE DEF R
<1>3. PICK i \in S : \A j \in S : ~(<<j, i>> \in R) BY <1>1, WFMin
<1>4. ASSUME NEW j \in S PROVE i <= j
  <2>1. i \in Nat /\ j \in Nat OBVIOUS
  <2>2. ~(j < i) BY <1>2, <1>3, <2>1
  <2> QED BY <2>1, <2>2
<1> QED BY <1>4

\* The classes a dial through an upstream may have, and those a direct one may.
Carried == {"require", "prefer"}
Free == {"never", "direct", "prefer"}

\* What a decision for an upstream, and one for a direct dial, say of the rules.
LEMMA DecisionTells ==
  ASSUME NEW v \in Visit
  PROVE  LET M(i) == v.to \in v.rules[i].matches IN
         /\ Decision(v) \in Carried =>
              /\ \E i \in 1..Len(v.rules) : M(i)
              /\ \A i \in 1..Len(v.rules) : M(i) => v.rules[i].class # "never"
         /\ Decision(v) \in Free =>
              \A i \in 1..Len(v.rules) :
                M(i) /\ v.rules[i].class = "require" =>
                  \E j \in 1..Len(v.rules) :
                    M(j) /\ (v.rules[j].class = "never" \/ (j < i /\ v.rules[j].class = "prefer"))
<1> DEFINE never == Matching(v, {"never"})
           other == Matching(v, {"require", "prefer"})
<1>0. v.rules \in Seq(Rules) /\ Len(v.rules) \in Nat BY DEF Visit
<1>1. CASE never # {}
  <2>1. Decision(v) = "never" BY <1>1 DEF Decision
  <2>2. PICK j \in 1..Len(v.rules) : v.to \in v.rules[j].matches /\ v.rules[j].class = "never"
    BY <1>1 DEF Matching
  <2> QED BY <2>1, <2>2 DEF Carried
<1>2. CASE never = {} /\ other = {}
  <2>1. Decision(v) = "direct" BY <1>2 DEF Decision
  <2> QED BY <1>2, <2>1 DEF Carried, Matching
<1>3. CASE never = {} /\ other # {}
  <2> DEFINE f == FirstOf(v, {"require", "prefer"})
  <2>1. Decision(v) = v.rules[f].class BY <1>3 DEF Decision
  <2>2. other \in SUBSET Nat BY <1>0 DEF Matching
  <2>3. f \in other /\ \A j \in other : f <= j
    <3> HIDE DEF other
    <3>1. \E i \in other : \A j \in other : i <= j BY <1>3, <2>2, FirstMatch
    <3> QED BY <3>1 DEF FirstOf, other
  <2> HIDE DEF f
  <2>4. /\ f \in 1..Len(v.rules) /\ v.to \in v.rules[f].matches
        /\ v.rules[f].class \in {"require", "prefer"}
    BY <2>3 DEF Matching
  <2>5. \A i \in 1..Len(v.rules) : v.to \in v.rules[i].matches => v.rules[i].class # "never"
    BY <1>3 DEF Matching
  <2>6. ASSUME Decision(v) \in Free, NEW i \in 1..Len(v.rules),
               v.to \in v.rules[i].matches, v.rules[i].class = "require"
        PROVE  \E j \in 1..Len(v.rules) :
                 v.to \in v.rules[j].matches /\ j < i /\ v.rules[j].class = "prefer"
    <3>1. v.rules[f].class = "prefer" BY <2>1, <2>4, <2>6 DEF Free
    <3>2. i \in other BY <2>6 DEF Matching
    <3>3. f <= i /\ f # i BY <2>3, <2>6, <3>1, <3>2
    <3>4. f < i BY <1>0, <2>4, <3>3
    <3> QED BY <2>4, <3>1, <3>4
  <2> QED BY <2>4, <2>5, <2>6
<1> QED BY <1>1, <1>2, <1>3

-----------------------------------------------------------------------------
(* The course of a connection *)

\* The event as EventTells has it.
Reported(c) ==
  LET last == tried[c][Len(tried[c])] IN
  /\ hop[c] = "none" <=> tried[c] = <<>>
  /\ hop[c] = "upstream" => via[c] = last
  /\ hop[c] \in {"direct", "fallback_direct"} => last = Direct /\ via[c] = None
  /\ Len(tried[c]) > 1 => hop[c] = "fallback_direct"

\* Every socket is one the decision allows.
Allowed(c) ==
  \A k \in 1..Len(tried[c]) :
    /\ ~IsLoop(visit[c])
    /\ tried[c][k] # Direct => Decision(visit[c]) \in Carried
    /\ tried[c][k] = Direct => Decision(visit[c]) \in Free

\* What is known of a connection at each place.
Course(c) ==
  /\ at[c] \in {"out", "accepted", "greeted", "dialling"}
       => tried[c] = <<>> /\ failure[c] = "none" /\ answer[c] = "none" /\ hop[c] = "none"
  /\ at[c] \in {"dialling", "falling"} => ~IsLoop(visit[c])
  /\ at[c] = "falling" => /\ Len(tried[c]) = 1 /\ Decision(visit[c]) = "prefer"
                          /\ failure[c] = "none" /\ answer[c] = "none"
  /\ at[c] \in {"connected", "relaying"} => tried[c] # <<>> /\ failure[c] = "none"
  /\ at[c] \in {"connected", "refusing"} => answer[c] = "none"
  /\ at[c] = "relaying" => answer[c] \in {"none", "granted"}
  /\ at[c] = "refusing" => failure[c] \in {"loop", "down", "failed"}
  /\ at[c] \in {"ended", "logged"} => tried[c] # <<>> \/ failure[c] # "none"
  /\ at[c] \in Over /\ failure[c] \in {"loop", "down", "failed"}
       => answer[c] = Refusal(visit[c].kind, failure[c])
  /\ answer[c] = "granted" => tried[c] # <<>> /\ failure[c] \in {"none", "broken"}
  /\ at[c] \in {"connected", "relaying", "refusing"} \cup Over => Reported(c)
  /\ Allowed(c)
  /\ lines[c] = IF at[c] = "logged" \/ (at[c] = "done" /\ (tried[c] # <<>> \/ failure[c] # "none"))
                THEN 1 ELSE 0

\* A step of one connection leaves the others' courses alone.
Same(c) ==
  /\ at'[c] = at[c] /\ visit'[c] = visit[c] /\ answer'[c] = answer[c] /\ tried'[c] = tried[c]
  /\ hop'[c] = hop[c] /\ via'[c] = via[c] /\ failure'[c] = failure[c]
  /\ carried'[c] = carried[c] /\ lines'[c] = lines[c]

LEMMA CourseStands == ASSUME NEW c \in Conns, Course(c), Same(c) PROVE Course(c)'
BY DEF Course, Same, Reported, Allowed, IsLoop, Over

LEMMA OthersStand ==
  ASSUME ConnTypeOK, NEW c \in Conns, NEW d \in Conns \ {c},
         Handshakes(c) \/ Decides(c) \/ Dials(c) \/ Serves(c)
  PROVE  Same(d)
<1>1. CASE Handshakes(c) \/ Decides(c)
  BY <1>1 DEF Handshakes, Accepts, HttpCloses, HttpRejects, SocksCloses, SocksRejects, Greets,
              Decides, Goes, Answered, Same, ConnTypeOK
<1>2. CASE Dials(c)
  BY <1>2 DEF Dials, RefusesUnlisted, FallbackDials, DialsDirect, DialsUpstream, FallsBack, Opened,
              NotOpened, Goes, Same, ConnTypeOK
<1>3. CASE Serves(c)
  BY <1>3 DEF Serves, Refuses, ClientGone, StartsRelay, Carries, RelayEnds, Logs, Publishes, Goes,
              Same, ConnTypeOK
<1> QED BY <1>1, <1>2, <1>3

LEMMA HandshakeCourse ==
  ASSUME ConnTypeOK, NEW c \in Conns, Course(c), Handshakes(c) \/ Decides(c)
  PROVE  Course(c)'
<1>1. CASE Handshakes(c)
  <2>1. /\ tried[c] = <<>> /\ tried'[c] = <<>> /\ failure[c] = "none" /\ failure'[c] = "none"
        /\ hop[c] = "none" /\ hop'[c] = "none" /\ lines'[c] = lines[c] /\ lines[c] = 0
        /\ at'[c] \in {"accepted", "greeted", "done"}
        /\ answer'[c] \in Answers \ {"granted"} /\ (at'[c] # "done" => answer'[c] = "none")
    BY <1>1 DEF Handshakes, Accepts, HttpCloses, HttpRejects, SocksCloses, SocksRejects, Greets, Goes,
                Answered, Course, ConnTypeOK, Answers
  <2>2. Allowed(c)' /\ Reported(c)'
    BY <2>1 DEF Allowed, Reported
  <2> QED BY <2>1, <2>2 DEF Course, Over
<1>2. CASE Decides(c)
  BY <1>2 DEF Decides, Course, ConnTypeOK, Reported, Allowed, IsLoop, Over
<1> QED BY <1>1, <1>2

\* The dial as the connection sees it: one more way, allowed and reported.
LEMMA WayTaken ==
  ASSUME ConnTypeOK, NEW c \in Conns, Course(c), at[c] \in {"dialling", "falling"},
         NEW x \in Upstreams \cup {Direct}, NEW y \in Upstreams \cup {None}, NEW h \in Hops \ {"none"},
         NEW w \in {"down", "failed"},
         Opened(c, x, y, h) \/ NotOpened(c, x, y, h, w),
         x # Direct => Decision(visit[c]) \in Carried, x = Direct => Decision(visit[c]) \in Free,
         h = "upstream" => y = x, h # "upstream" => x = Direct /\ y = None,
         at[c] = "falling" => h = "fallback_direct"
  PROVE  Course(c)'
<1>1. /\ tried'[c] = Append(tried[c], x) /\ hop'[c] = h /\ via'[c] = y /\ visit' = visit
      /\ answer' = answer /\ lines' = lines
      /\ \/ at'[c] = "connected" /\ failure' = failure
         \/ at'[c] = "refusing" /\ failure'[c] = w
  BY DEF Opened, NotOpened, ConnTypeOK
<1>2. tried[c] \in Seq(Upstreams \cup {Direct}) BY DEF ConnTypeOK
<1>3. PICK n \in Nat : n = Len(tried[c]) BY <1>2
<1>4. /\ Len(tried'[c]) = n + 1 /\ tried'[c] # <<>> /\ tried'[c][n + 1] = x
      /\ \A k \in 1..n : tried'[c][k] = tried[c][k]
  BY <1>1, <1>2, <1>3
<1>5. n = 0 \/ (n = 1 /\ at[c] = "falling") BY <1>2, <1>3 DEF Course
<1>6. Reported(c)'
  BY <1>1, <1>4, <1>5 DEF Reported, Hops
<1>7. Allowed(c)'
  <2>1. ASSUME NEW k \in 1..(n + 1)
        PROVE  /\ ~IsLoop(visit[c]) /\ (tried'[c][k] # Direct => Decision(visit[c]) \in Carried)
               /\ (tried'[c][k] = Direct => Decision(visit[c]) \in Free)
    <3>1. CASE k = n + 1 BY <1>4, <3>1 DEF Course
    <3>2. CASE k # n + 1 BY <1>3, <1>4, <3>2 DEF Course, Allowed
    <3> QED BY <3>1, <3>2
  <2> QED BY <1>1, <1>4, <2>1 DEF Allowed
<1>8. failure[c] = "none" /\ answer[c] = "none" /\ lines[c] = 0 BY DEF Course
<1> QED BY <1>1, <1>4, <1>6, <1>7, <1>8 DEF Course, Over

LEMMA DialCourse ==
  ASSUME ConnTypeOK, NEW c \in Conns, Course(c), Dials(c)
  PROVE  Course(c)'
<1>1. CASE RefusesUnlisted(c)
  BY <1>1 DEF RefusesUnlisted, Goes, ConnTypeOK, Course, Reported, Allowed, Over
<1>2. CASE FallbackDials(c)
  BY <1>2, WayTaken DEF FallbackDials, Free, Hops
<1>3. CASE DialsDirect(c)
  BY <1>3, WayTaken DEF DialsDirect, Free, Hops
<1>4. ASSUME NEW u \in Upstreams, DialsUpstream(c, u) PROVE Course(c)'
  <2>1. u # Direct BY VisitsAssumption
  <2> QED BY <1>4, <2>1, WayTaken DEF DialsUpstream, Carried, Hops
<1>5. ASSUME NEW u \in Upstreams, FallsBack(c, u) PROVE Course(c)'
  <2>1. u # Direct BY VisitsAssumption
  <2>2. tried[c] = <<>> /\ tried'[c] = Append(tried[c], u) /\ visit' = visit /\ answer' = answer
        /\ hop' = hop /\ via' = via /\ failure' = failure /\ lines' = lines
        /\ at[c] = "dialling" /\ at'[c] = "falling" /\ Decision(visit[c]) = "prefer"
    BY <1>5 DEF FallsBack, Goes, ConnTypeOK, Course
  <2>3. Len(tried'[c]) = 1 /\ tried'[c][1] = u /\ tried'[c] # <<>> BY <2>2
  <2>4. Allowed(c)' BY <2>1, <2>2, <2>3 DEF Allowed, Course, Carried
  <2> QED BY <2>2, <2>3, <2>4 DEF Course, Over
<1> QED BY <1>1, <1>2, <1>3, <1>4, <1>5 DEF Dials

LEMMA ServeCourse ==
  ASSUME ConnTypeOK, NEW c \in Conns, Course(c), Serves(c)
  PROVE  Course(c)'
<1>0. tried' = tried /\ hop' = hop /\ via' = via /\ visit' = visit
  BY DEF Serves, Refuses, ClientGone, StartsRelay, Carries, RelayEnds, Logs, Publishes
<1>1. Allowed(c)' BY <1>0 DEF Course, Allowed
<1>2. Reported(c)' <=> Reported(c) BY <1>0 DEF Reported
<1>3. CASE Refuses(c)
  <2>1. Refusal(visit[c].kind, failure[c]) # "granted" BY DEF Refusal
  <2> QED BY <1>0, <1>1, <1>2, <1>3, <2>1 DEF Refuses, Goes, ConnTypeOK, Course, Over
<1>4. CASE ClientGone(c)
  BY <1>0, <1>1, <1>2, <1>4 DEF ClientGone, Goes, ConnTypeOK, Course, Over
<1>5. CASE StartsRelay(c)
  BY <1>0, <1>1, <1>2, <1>5 DEF StartsRelay, Goes, ConnTypeOK, Course, Over
<1>6. CASE Carries(c)
  BY <1>0, <1>1, <1>2, <1>6 DEF Carries, Goes, ConnTypeOK, Course, Over
<1>7. CASE RelayEnds(c)
  BY <1>0, <1>1, <1>2, <1>7 DEF RelayEnds, Goes, ConnTypeOK, Course, Over
<1>8. CASE Logs(c)
  BY <1>0, <1>1, <1>2, <1>8 DEF Logs, Goes, ConnTypeOK, Course, Over
<1>9. CASE Publishes(c)
  BY <1>0, <1>1, <1>2, <1>9 DEF Publishes, Goes, ConnTypeOK, Course, Over
<1> QED BY <1>3, <1>4, <1>5, <1>6, <1>7, <1>8, <1>9 DEF Serves

CourseInv == ConnTypeOK /\ \A c \in Conns : Course(c)

LEMMA CourseStep == CourseInv /\ [Next]_vars => CourseInv'
<1> SUFFICES ASSUME CourseInv, [Next]_vars PROVE CourseInv'
  OBVIOUS
<1>1. ConnTypeOK /\ ConnTypeOK' BY ConnTypeStep DEF CourseInv
<1>2. ASSUME NEW d \in Conns PROVE Course(d)'
  <2>0. Course(d) BY DEF CourseInv
  <2>1. CASE UNCHANGED connVars
    <3>1. Same(d) BY <2>1 DEF connVars, Same
    <3> QED BY <2>0, <3>1, CourseStands
  <2>2. ASSUME NEW c \in Conns, Handshakes(c) \/ Decides(c) \/ Dials(c) \/ Serves(c) PROVE Course(d)'
    <3>1. CASE c = d BY <1>1, <2>0, <2>2, <3>1, HandshakeCourse, DialCourse, ServeCourse
    <3>2. CASE c # d BY <1>1, <2>0, <2>2, <3>2, OthersStand, CourseStands
    <3> QED BY <3>1, <3>2
  <2> QED BY <2>1, <2>2 DEF Next, vars
<1> QED BY <1>1, <1>2 DEF CourseInv

LEMMA Courses == Spec => []CourseInv
<1>1. Init => CourseInv
  <2> SUFFICES ASSUME Init PROVE CourseInv
    OBVIOUS
  <2>1. ConnTypeOK BY ConnTypeInit
  <2>2. ASSUME NEW c \in Conns PROVE Course(c)
    BY DEF Init, Course, Reported, Allowed, Over
  <2> QED BY <2>1, <2>2 DEF CourseInv
<1> QED BY <1>1, CourseStep, PTL DEF Spec

\* A connection that came to a decision leaves one line in the log.
THEOREM DecisionsAreLogged == Spec => []OneLineEach
<1>1. CourseInv => OneLineEach
  BY DEF CourseInv, Course, OneLineEach
<1> QED BY <1>1, Courses, PTL

\* A dial that failed is answered with its reason before the connection ends.
THEOREM FailuresAreAnswered == Spec => []AnswersTell
<1>1. CourseInv => AnswersTell
  BY DEF CourseInv, Course, AnswersTell
<1> QED BY <1>1, Courses, PTL

\* The event reports the way the connection went.
THEOREM EventsReport == Spec => []EventTells
<1>1. CourseInv => EventTells
  BY DEF CourseInv, Course, Reported, EventTells
<1> QED BY <1>1, Courses, PTL

\* The rules a connection was accepted with hold for every socket it opens.
THEOREM RulesBind == Spec => []RulesAreKept
<1>1. CourseInv => RulesAreKept
  <2> SUFFICES ASSUME CourseInv, NEW c \in Conns, NEW k \in 1..Len(tried[c])
               PROVE  LET v == visit[c]
                          M(i) == v.to \in v.rules[i].matches IN
                      /\ v.to # Own
                      /\ tried[c][k] # Direct => \E i \in 1..Len(v.rules) : M(i)
                      /\ tried[c][k] # Direct => \A i \in 1..Len(v.rules) : M(i) => v.rules[i].class # "never"
                      /\ tried[c][k] = Direct =>
                           \A i \in 1..Len(v.rules) :
                             M(i) /\ v.rules[i].class = "require" =>
                               \E j \in 1..Len(v.rules) :
                                 M(j) /\ (v.rules[j].class = "never" \/ (j < i /\ v.rules[j].class = "prefer"))
    BY DEF RulesAreKept
  <2>1. Course(c) /\ ConnTypeOK BY DEF CourseInv
  <2>2. tried[c] # <<>> BY <2>1 DEF ConnTypeOK
  <2>3. at[c] # "out" BY <2>1, <2>2 DEF Course
  <2>4. visit[c] \in Visit BY <2>1, <2>3, VisitParts DEF ConnTypeOK
  <2>5. /\ visit[c].to # Own
        /\ tried[c][k] # Direct => Decision(visit[c]) \in Carried
        /\ tried[c][k] = Direct => Decision(visit[c]) \in Free
    BY <2>1 DEF Course, Allowed, IsLoop
  <2> QED BY <2>4, <2>5, DecisionTells
<1> QED BY <1>1, Courses, PTL

-----------------------------------------------------------------------------
(* Bodies *)

\* What a relay that ends well has passed on: what came with the head and is of
\* the request, and as much of the rest as the client sends.
Whole(v) == Behind(v) + Least(Rest(v), v.sent - v.ahead)

\* Wherever the read that found the head ended, that is the body, or all of it the
\* client sent; without a length it is everything the client sent.
LEMMA WholeBody ==
  ASSUME NEW c \in Conns, NEW v \in Visits[c]
  PROVE  /\ Behind(v) <= Whole(v) /\ Whole(v) \in Nat
         /\ Whole(v) = IF v.kind = "absolute" /\ v.length # Streamed
                       THEN Least(v.length, v.sent) ELSE v.sent
<1>1. /\ v.sent \in Nat /\ v.ahead \in Nat /\ v.ahead <= v.sent
      /\ v.length \in Nat \cup {Streamed}
  BY VisitParts
<1>2. CASE v.kind = "absolute" /\ v.length # Streamed
  BY <1>1, <1>2 DEF Whole, Behind, Rest, Least
<1>3. CASE ~(v.kind = "absolute" /\ v.length # Streamed)
  BY <1>1, <1>3 DEF Whole, Behind, Rest, Least
<1> QED BY <1>2, <1>3

\* Bytes are passed on in the relay only, never more than the whole, and the relay
\* that ends without a failure has passed on the whole.
Body(c) ==
  /\ at[c] \notin {"relaying"} \cup Over => carried[c] = 0
  /\ at[c] = "relaying" => Behind(visit[c]) <= carried[c]
  /\ at[c] \in {"relaying"} \cup Over => carried[c] <= Whole(visit[c])
  /\ at[c] \in Over /\ failure[c] = "none" /\ tried[c] # <<>> => carried[c] = Whole(visit[c])

BodyInv == CourseInv /\ \A c \in Conns : Body(c)

LEMMA BodyStands == ASSUME NEW c \in Conns, Body(c), Same(c) PROVE Body(c)'
BY DEF Body, Same, Over

\* Before the relay nothing is passed on.
LEMMA HandshakeBody ==
  ASSUME ConnTypeOK, ConnTypeOK', NEW c \in Conns, Course(c), Body(c),
         Handshakes(c) \/ Decides(c) \/ Dials(c)
  PROVE  Body(c)'
<1>1. carried[c] = 0 /\ carried'[c] = 0 /\ at'[c] # "relaying" /\ at'[c] # "out"
      /\ (at'[c] \in Over => tried'[c] = <<>>)
  <2>1. CASE Handshakes(c) \/ Decides(c)
    BY <2>1 DEF Handshakes, Accepts, HttpCloses, HttpRejects, SocksCloses, SocksRejects, Greets,
                Decides, Goes, Answered, Body, Course, ConnTypeOK, Over
  <2>2. CASE Dials(c)
    BY <2>2 DEF Dials, RefusesUnlisted, FallbackDials, DialsDirect, DialsUpstream, FallsBack, Opened,
                NotOpened, Goes, Body, ConnTypeOK, Over
  <2> QED BY <2>1, <2>2
<1>2. visit'[c] \in Visits[c] BY <1>1 DEF ConnTypeOK
<1>3. Whole(visit'[c]) \in Nat BY <1>2, WholeBody
<1>4. Whole(visit[c])' = Whole(visit'[c]) BY DEF Whole, Behind, Rest, Least
<1> QED BY <1>1, <1>3, <1>4 DEF Body

\* The relay starts with what came with the head and stops at the whole.
LEMMA ServeBody ==
  ASSUME ConnTypeOK, NEW c \in Conns, Course(c), Body(c), Serves(c)
  PROVE  Body(c)'
<1>0. visit' = visit /\ tried' = tried /\ at[c] # "out" /\ at[c] \in Places
  BY DEF Serves, Refuses, ClientGone, StartsRelay, Carries, RelayEnds, Logs, Publishes, Goes, ConnTypeOK
<1>1. PICK v \in Visits[c] : v = visit[c] BY <1>0 DEF ConnTypeOK
<1>2. PICK w \in Nat : w = Whole(v) BY WholeBody
<1>3. PICK b \in Nat : b = Behind(v) /\ b <= w BY <1>2, VisitParts, WholeBody
<1>4. Whole(visit[c])' = w /\ Behind(visit[c])' = b /\ Whole(visit[c]) = w /\ Behind(visit[c]) = b
  BY <1>0, <1>1, <1>2, <1>3 DEF Whole, Behind, Rest, Least
<1>5. PICK n \in Nat : n = carried[c] BY DEF ConnTypeOK
<1>6. Left(c) = w - n
  <2>1. PICK r \in Nat : r = Rest(v) BY VisitParts
  <2>2. v.sent - v.ahead \in Nat BY VisitParts
  <2>3. Least(r, v.sent - v.ahead) \in Nat BY <2>1, <2>2 DEF Least
  <2> QED BY <1>1, <1>2, <1>3, <1>5, <2>1, <2>3 DEF Left, Whole
<1>7. CASE Refuses(c) \/ ClientGone(c)
  <2>1. /\ at[c] \in {"refusing", "connected"} /\ carried' = carried /\ at'[c] = "ended"
        /\ failure'[c] # "none"
    BY <1>7 DEF Refuses, ClientGone, Goes, ConnTypeOK, Course
  <2> QED BY <1>4, <2>1 DEF Body, Over
<1>8. CASE StartsRelay(c)
  <2>1. carried'[c] = b /\ at'[c] = "relaying" BY <1>4, <1>8 DEF StartsRelay, Goes, ConnTypeOK
  <2> QED BY <1>3, <1>4, <2>1 DEF Body, Over
<1>9. CASE Carries(c)
  <2>1. carried'[c] = n + 1 /\ at[c] = "relaying" /\ at'[c] = "relaying" /\ w - n > 0
    BY <1>5, <1>6, <1>9 DEF Carries, ConnTypeOK
  <2> QED BY <1>3, <1>4, <1>5, <2>1 DEF Body, Over
<1>10. CASE RelayEnds(c)
  <2>1. /\ carried' = carried /\ at[c] = "relaying" /\ at'[c] = "ended"
        /\ failure'[c] = "none" => w - n = 0
    BY <1>6, <1>10 DEF RelayEnds, Goes, ConnTypeOK
  <2> QED BY <1>4, <1>5, <2>1 DEF Body, Over
<1>11. CASE Logs(c) \/ Publishes(c)
  <2>1. carried' = carried /\ failure' = failure /\ at[c] \in Over /\ at'[c] \in {"logged", "done"}
    BY <1>11 DEF Logs, Publishes, Goes, ConnTypeOK, Over
  <2> QED BY <1>0, <1>4, <2>1 DEF Body, Over
<1> QED BY <1>7, <1>8, <1>9, <1>10, <1>11 DEF Serves

LEMMA BodyStep == BodyInv /\ [Next]_vars => BodyInv'
<1> SUFFICES ASSUME BodyInv, [Next]_vars PROVE BodyInv'
  OBVIOUS
<1>1. CourseInv /\ CourseInv' /\ ConnTypeOK /\ ConnTypeOK' BY CourseStep DEF BodyInv, CourseInv
<1>2. ASSUME NEW d \in Conns PROVE Body(d)'
  <2>0. Body(d) /\ Course(d) BY <1>1 DEF BodyInv, CourseInv
  <2>1. CASE UNCHANGED connVars
    <3>1. Same(d) BY <2>1 DEF connVars, Same
    <3> QED BY <2>0, <3>1, BodyStands
  <2>2. ASSUME NEW c \in Conns, Handshakes(c) \/ Decides(c) \/ Dials(c) \/ Serves(c) PROVE Body(d)'
    <3>1. CASE c = d BY <1>1, <2>0, <2>2, <3>1, HandshakeBody, ServeBody
    <3>2. CASE c # d BY <1>1, <2>0, <2>2, <3>2, OthersStand, BodyStands
    <3> QED BY <3>1, <3>2
  <2> QED BY <2>1, <2>2 DEF Next, vars
<1> QED BY <1>1, <1>2 DEF BodyInv

\* Of a request with a length its body is passed on and nothing the client sends
\* after it, and by a relay that ends well all of it the client sent.
THEOREM BodiesArePassedOn == Spec => []OnlyItsBody
<1>1. Init => BodyInv
  <2> SUFFICES ASSUME Init PROVE BodyInv
    OBVIOUS
  <2>1. ConnTypeOK BY ConnTypeInit
  <2>2. ASSUME NEW c \in Conns PROVE Course(c)
    BY DEF Init, Course, Reported, Allowed, Over
  <2>3. ASSUME NEW c \in Conns PROVE Body(c)
    BY DEF Init, Body, Over
  <2> QED BY <2>1, <2>2, <2>3 DEF BodyInv, CourseInv
<1>2. BodyInv => OnlyItsBody
  <2> SUFFICES ASSUME BodyInv, NEW c \in Conns,
                      visit[c].kind = "absolute", visit[c].length # Streamed
               PROVE  /\ carried[c] <= visit[c].length
                      /\ at[c] \in Over /\ failure[c] = "none" /\ tried[c] # <<>>
                           => carried[c] = Least(visit[c].length, visit[c].sent)
    BY DEF OnlyItsBody
  <2>1. Body(c) /\ ConnTypeOK BY DEF BodyInv, CourseInv
  <2>2. CASE at[c] \in {"relaying"} \cup Over
    <3>1. PICK v \in Visits[c] : v = visit[c] BY <2>1, <2>2 DEF ConnTypeOK, Over
    <3>2. v.length \in Nat /\ v.sent \in Nat BY <3>1, VisitParts
    <3>3. Whole(v) = Least(v.length, v.sent) BY <3>1, WholeBody
    <3>4. Least(v.length, v.sent) <= v.length /\ Least(v.length, v.sent) \in Nat BY <3>2 DEF Least
    <3>5. carried[c] \in Nat BY <2>1 DEF ConnTypeOK
    <3> QED BY <2>1, <2>2, <3>1, <3>2, <3>3, <3>4, <3>5 DEF Body
  <2>3. CASE at[c] \notin {"relaying"} \cup Over
    <3>1. carried[c] = 0 BY <2>1, <2>3 DEF Body
    <3>2. visit[c] \in Visit \cup {NoVisit} BY <2>1 DEF ConnTypeOK
    <3>3. visit[c].length \in Nat BY <3>2 DEF Visit, NoVisit
    <3> QED BY <2>3, <3>1, <3>3
  <2> QED BY <2>2, <2>3
<1> QED BY <1>1, <1>2, BodyStep, PTL DEF Spec

=============================================================================
