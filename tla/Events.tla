------------------------------- MODULE Events -------------------------------
(***************************************************************************)
(* The fan-out of decision events: a bounded queue per subscriber, filled  *)
(* by connections without waiting, emptied onto a client's socket.         *)
(* Source: src/nhop/src/proxy/mod.rs (Subscriber, EventTx) and             *)
(* src/nhop/src/daemon/ipc_server.rs (stream_events).                      *)
(*                                                                         *)
(* An event is told by its place among all that were published.            *)
(***************************************************************************)
EXTENDS Naturals, Sequences

CONSTANTS Subscribers,   \* conversations that may ask for the stream, each once
          Capacity       \* SUBSCRIBER_CAPACITY

ASSUME CapacityAssumption == Capacity \in Nat \ {0}

VARIABLES
  stage,       \* where each subscriber is
  dropped,     \* what it missed since the last event that reached it
  queue,       \* the events waiting for it
  told,        \* the lines of events taken for writing, in order
  since,       \* how many events were published before it subscribed
  published    \* how many events were published

eventVars == <<stage, dropped, queue, told, since, published>>

\* An event as one subscriber gets it: which one, and what it says of drops.
Lines == [event : Nat, missed : Nat]

Stages == {"out", "listening", "left", "removed"}

EventsInit ==
  /\ stage = [s \in Subscribers |-> "out"]
  /\ dropped = [s \in Subscribers |-> 0]
  /\ queue = [s \in Subscribers |-> <<>>]
  /\ told = [s \in Subscribers |-> <<>>]
  /\ since = [s \in Subscribers |-> 0]
  /\ published = 0

\* EventTx::subscribe, for Command::Subscribe.
Subscribes(s) ==
  /\ stage[s] = "out"
  /\ stage' = [stage EXCEPT ![s] = "listening"]
  /\ since' = [since EXCEPT ![s] = published]
  /\ UNCHANGED <<dropped, queue, told, published>>

\* Fault: room is not looked at.
FitsAlways(s) == TRUE

Fits(s) == Len(queue[s]) < Capacity

\* What try_send leaves in a subscriber's queue, with what is reported on the event.
Queued(s) ==
  IF stage[s] = "listening" /\ Fits(s)
  THEN Append(queue[s], [event |-> published + 1, missed |-> dropped[s]])
  ELSE queue[s]

\* Fault: the count is reported again and again.
DroppedKept(s) == IF stage[s] = "listening" /\ ~Fits(s) THEN dropped[s] + 1 ELSE dropped[s]

\* Subscriber::offer: the count is reset once reported.
Dropped(s) ==
  IF stage[s] # "listening" THEN dropped[s] ELSE IF Fits(s) THEN 0 ELSE dropped[s] + 1

\* EventTx::publish, under the list's mutex: offered to all, those gone removed.
Publish ==
  /\ queue' = [s \in Subscribers |-> Queued(s)]
  /\ dropped' = [s \in Subscribers |-> Dropped(s)]
  /\ stage' = [s \in Subscribers |-> IF stage[s] = "left" THEN "removed" ELSE stage[s]]
  /\ published' = published + 1
  /\ UNCHANGED <<told, since>>

\* stream_events takes one event and writes it; the queue has room again.
Receives(s) ==
  /\ stage[s] = "listening"
  /\ queue[s] # <<>>
  /\ told' = [told EXCEPT ![s] = Append(@, Head(queue[s]))]
  /\ queue' = [queue EXCEPT ![s] = Tail(@)]
  /\ UNCHANGED <<stage, dropped, since, published>>

\* The client hung up, seen at a read or at a write: the queue is dropped.
Leaves(s) ==
  /\ stage[s] = "listening"
  /\ stage' = [stage EXCEPT ![s] = "left"]
  /\ queue' = [queue EXCEPT ![s] = <<>>]
  /\ UNCHANGED <<dropped, told, since, published>>

SubscriberStep(s) == Subscribes(s) \/ Receives(s) \/ Leaves(s)

EventsTypeOK ==
  /\ stage \in [Subscribers -> Stages]
  /\ dropped \in [Subscribers -> Nat]
  /\ queue \in [Subscribers -> Seq(Lines)] /\ \A s \in Subscribers : Len(queue[s]) <= Capacity
  /\ told \in [Subscribers -> Seq(Lines)]
  /\ since \in [Subscribers -> Nat]
  /\ published \in Nat

-----------------------------------------------------------------------------
(* Properties *)

\* What a subscriber has got or will get, in order.
Stream(s) == told[s] \o queue[s]

\* The event before the i-th of the stream.
Before(s, i) == IF i = 1 THEN since[s] ELSE Stream(s)[i - 1].event

\* A reader of the stream can tell which events it missed: every line reports
\* exactly the gap before it, in order and without repetition, and what is counted
\* and not yet reported is all that was published since the last line.
GapsAreTold ==
  \A s \in Subscribers :
    /\ \A i \in 1..Len(Stream(s)) : Stream(s)[i].event = Before(s, i) + Stream(s)[i].missed + 1
    /\ stage[s] = "listening" => published = Before(s, Len(Stream(s)) + 1) + dropped[s]

=============================================================================
