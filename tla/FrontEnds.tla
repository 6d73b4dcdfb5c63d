------------------------------ MODULE FrontEnds ------------------------------
(***************************************************************************)
(* The listeners of the daemon, the cells a commit writes one after the    *)
(* other, and the connections that read them meanwhile: the front ends'    *)
(* addresses, the forwards and their targets, the rules, the upstreams.    *)
(* Source: src/nhop/src/daemon/ (mod, state).                              *)
(*                                                                         *)
(* The state task runs through a command or a commit without waiting for   *)
(* anything, on one thread, while accept loops and connections run on      *)
(* others: an action is one bind or one write to a cell another task reads.*)
(* The contents of a cell are the number of the order that wrote it.       *)
(***************************************************************************)
EXTENDS Integers, FiniteSets

CONSTANTS Addresses,   \* addresses a listener may have
          Default,     \* [http, socks]: where the two front ends listen at first
          Orders,      \* the loads and live commands that may come
          Conns,       \* connections at the same time
          Unset,       \* nothing
          MaxOrders    \* bound: orders carried out

\* A load declares every forward and maybe moves the front ends or lists the
\* upstreams; set_listen and add_forward change one thing at once.
Moves == [http : Addresses, socks : Addresses]
Order == [op : {"load"}, listen : Moves \cup {Unset}, forwards : SUBSET Addresses, lists : BOOLEAN]
           \cup [op : {"set_listen"}, listen : Moves]
           \cup [op : {"add_forward"}, addr : Addresses]

ASSUME OrdersAssumption == Orders \subseteq Order
ASSUME DefaultAssumption == Default \in Moves /\ Default.http # Default.socks
ASSUME MaxOrdersAssumption == MaxOrders \in Nat

Numbers == 0..MaxOrders
Kinds == {"http", "socks", "forward"}

\* A listener and the task accepting on it, told from others by the order that
\* opened it.
Listeners == [kind : Kinds, addr : Addresses, opened : Numbers]
Forwarding == [kind : {"forward"}, addr : Addresses, opened : Numbers]

\* An order being carried out: how far it is, the sockets bound for it that do
\* not accept yet, the forwards still to point.
Carried == [what : Order, at : {"listen", "forwards", "pointing", "rules", "list"},
            fresh : SUBSET Forwarding, left : SUBSET Forwarding]

\* The loads whose rules and whose list the last answer was about.
Answered == [rules : Numbers, list : Numbers]

\* Where a connection stands.
Standing == [phase : {"idle", "accepted", "ruled", "routed", "dialled"},
             on : Listeners \cup {Unset}, rules : Numbers, target : Numbers,
             list : Numbers, accepted : Numbers, since : Answered]

ASSUME UnsetAssumption == Unset \notin Moves \cup Listeners \cup Carried

VARIABLES
  http, socks,   \* the listener of each front end
  forwards,      \* the forwards' listeners
  target,        \* the destination cell of each forward
  closing,       \* listeners let go whose task the runtime has not dropped yet
  recorded,      \* the addresses the state task answers `status` with
  rules, list,   \* the rules and the upstreams published
  number,        \* orders taken up
  order,         \* the order being carried out, and how far it is
  settled,       \* the last load answered, and the last that listed upstreams
  conn           \* where each connection stands, what it has read, and what was
                 \* published and answered when it was accepted

vars == <<http, socks, forwards, target, closing, recorded, rules, list, number, order,
          settled, conn>>

Serving == {http, socks} \cup forwards
AddressesOf(S) == {l.addr : l \in S}

\* An address some socket of the daemon is bound to.
Taken == AddressesOf(Serving \cup closing)

Opened(kind, addr) == [kind |-> kind, addr |-> addr, opened |-> number]

\* The forwards an order wants.
Wanted(o) == IF o.op = "load" THEN o.forwards ELSE recorded.forwards \cup {o.addr}

Idle == [phase |-> "idle", on |-> Unset, rules |-> 0, target |-> 0, list |-> 0,
         accepted |-> 0, since |-> [rules |-> 0, list |-> 0]]

Init ==
  /\ http = [kind |-> "http", addr |-> Default.http, opened |-> 0]
  /\ socks = [kind |-> "socks", addr |-> Default.socks, opened |-> 0]
  /\ forwards = {}
  /\ target = [l \in Forwarding |-> 0]
  /\ closing = {}
  /\ recorded = [http |-> Default.http, socks |-> Default.socks, forwards |-> {}]
  /\ rules = 0 /\ list = 0 /\ number = 0
  /\ order = Unset
  /\ settled = [rules |-> 0, list |-> 0]
  /\ conn = [c \in Conns |-> Idle]

-----------------------------------------------------------------------------
(* The state task *)

\* A forward on an address declared already is refused before this.
Takes(o) ==
  /\ order = Unset
  /\ number < MaxOrders
  /\ o.op = "add_forward" => o.addr \notin recorded.forwards
  /\ number' = number + 1
  /\ order' = [what |-> o, at |-> IF o.op = "add_forward" THEN "forwards" ELSE "listen",
               fresh |-> {}, left |-> {}]
  /\ UNCHANGED <<http, socks, forwards, target, closing, recorded, rules, list, settled, conn>>

At(step) == order # Unset /\ order.at = step

\* A bind failed: the order ends there, and with it nothing more changes.
Fails ==
  /\ order' = Unset
  /\ UNCHANGED <<http, socks, forwards, target, closing, recorded, rules, list, number,
                 settled, conn>>

\* A front end already at its address keeps its listener; every other address is
\* bound before a listener is let go.
ToBind(wanted) == {k \in {"http", "socks"} : wanted[k] # IF k = "http" THEN http.addr ELSE socks.addr}

KeepsFrontEnds ==
  /\ At("listen")
  /\ order.what.listen = Unset
  /\ order' = [order EXCEPT !.at = "forwards"]
  /\ UNCHANGED <<http, socks, forwards, target, closing, recorded, rules, list, number, settled, conn>>

\* Fault: each socket goes to the other's accept loop.
RebindsCrossed ==
  LET wanted == order.what.listen
      bound == ToBind(wanted)
  IN  /\ At("listen")
      /\ wanted # Unset
      /\ \A k \in bound : wanted[k] \notin Taken
      /\ http' = IF "http" \in bound THEN Opened("socks", wanted.http) ELSE http
      /\ socks' = IF "socks" \in bound THEN Opened("http", wanted.socks) ELSE socks
      /\ closing' = closing \cup ({http, socks} \ {http', socks'})
      /\ recorded' = [recorded EXCEPT !.http = http'.addr, !.socks = socks'.addr]
      /\ order' = IF order.what.op = "load" THEN [order EXCEPT !.at = "forwards"] ELSE Unset
      /\ UNCHANGED <<forwards, target, rules, list, number, settled, conn>>

Rebinds ==
  LET wanted == order.what.listen
      bound == ToBind(wanted)
  IN  /\ At("listen")
      /\ wanted # Unset
      /\ \A k \in bound : wanted[k] \notin Taken
      /\ Cardinality(bound) = 2 => wanted.http # wanted.socks
      /\ http' = IF "http" \in bound THEN Opened("http", wanted.http) ELSE http
      /\ socks' = IF "socks" \in bound THEN Opened("socks", wanted.socks) ELSE socks
      /\ closing' = closing \cup ({http, socks} \ {http', socks'})
      /\ recorded' = [recorded EXCEPT !.http = http'.addr, !.socks = socks'.addr]
      /\ order' = IF order.what.op = "load" THEN [order EXCEPT !.at = "forwards"] ELSE Unset
      /\ UNCHANGED <<forwards, target, rules, list, number, settled, conn>>

\* Fault: the first front end has moved when the second cannot be bound.
CannotRebindAnyMore ==
  LET wanted == order.what.listen IN
  /\ At("listen")
  /\ wanted # Unset
  /\ "socks" \in ToBind(wanted)
  /\ http' = IF "http" \in ToBind(wanted) /\ wanted.http \notin Taken
             THEN Opened("http", wanted.http) ELSE http
  /\ closing' = closing \cup ({http} \ {http'})
  /\ order' = Unset
  /\ UNCHANGED <<socks, forwards, target, recorded, rules, list, number, settled, conn>>

CannotRebind ==
  /\ At("listen")
  /\ order.what.listen # Unset
  /\ ToBind(order.what.listen) # {}
  /\ Fails

\* Fault: what is not declared any more is closed first.
CannotBindForwardsAnyMore ==
  /\ At("forwards")
  /\ Wanted(order.what) \ AddressesOf(forwards) # {}
  /\ forwards' = {l \in forwards : l.addr \in Wanted(order.what)}
  /\ closing' = closing \cup (forwards \ forwards')
  /\ recorded' = [recorded EXCEPT !.forwards = AddressesOf(forwards')]
  /\ order' = Unset
  /\ UNCHANGED <<http, socks, target, rules, list, number, settled, conn>>

CannotBindForwards ==
  /\ At("forwards")
  /\ Wanted(order.what) \ AddressesOf(forwards) # {}
  /\ Fails

\* Every address to open is bound; then the listeners not declared any more go.
BindsForwards ==
  LET wanted == Wanted(order.what)
      fresh == wanted \ AddressesOf(forwards)
  IN  /\ At("forwards")
      /\ fresh \cap Taken = {}
      /\ forwards' = {l \in forwards : l.addr \in wanted}
      /\ closing' = closing \cup (forwards \ forwards')
      /\ order' = [order EXCEPT !.at = "pointing", !.left = forwards',
                                !.fresh = {Opened("forward", a) : a \in fresh}]
      /\ UNCHANGED <<http, socks, target, recorded, rules, list, number, settled, conn>>

\* Fault: a forward kept keeps its destination.
PointsNowhere(l) ==
  /\ At("pointing")
  /\ l \in order.left
  /\ order' = [order EXCEPT !.left = @ \ {l}]
  /\ UNCHANGED <<http, socks, forwards, target, closing, recorded, rules, list, number, settled, conn>>

\* A forward kept takes the destination the order declares; add_forward declares
\* the one it has.
Points(l) ==
  /\ At("pointing")
  /\ l \in order.left
  /\ target' = IF order.what.op = "load" THEN [target EXCEPT ![l] = number] ELSE target
  /\ order' = [order EXCEPT !.left = @ \ {l}]
  /\ UNCHANGED <<http, socks, forwards, closing, recorded, rules, list, number, settled, conn>>

\* The new forwards accept from now on.
OpensForwards ==
  /\ At("pointing")
  /\ order.left = {}
  /\ forwards' = forwards \cup order.fresh
  /\ target' = [l \in Forwarding |-> IF l \in order.fresh THEN number ELSE target[l]]
  /\ recorded' = [recorded EXCEPT !.forwards = AddressesOf(forwards')]
  /\ order' = IF order.what.op = "load" THEN [order EXCEPT !.at = "rules"] ELSE Unset
  /\ UNCHANGED <<http, socks, closing, rules, list, number, settled, conn>>

\* Fault: the client is answered when the rules are published.
PublishesRulesAnswering ==
  /\ At("rules")
  /\ rules' = number
  /\ order' = [order EXCEPT !.at = "list"]
  /\ settled' = [rules |-> number, list |-> IF order.what.lists THEN number ELSE list]
  /\ UNCHANGED <<http, socks, forwards, target, closing, recorded, list, number, conn>>

PublishesRules ==
  /\ At("rules")
  /\ rules' = number
  /\ order' = [order EXCEPT !.at = "list"]
  /\ UNCHANGED <<http, socks, forwards, target, closing, recorded, list, number, settled, conn>>

\* The upstreams last, and the client is answered.
PublishesList ==
  /\ At("list")
  /\ list' = IF order.what.lists THEN number ELSE list
  /\ settled' = [rules |-> number, list |-> list']
  /\ order' = Unset
  /\ UNCHANGED <<http, socks, forwards, target, closing, recorded, rules, number, conn>>

-----------------------------------------------------------------------------
(* The accept loops and the connections *)

\* A connection its accept loop has not handed to a task of its own yet.
Handing(c) == conn[c].phase \in {"accepted", "ruled"}

\* The runtime drops the task of a listener let go, at a point where it waits.
Releases(l) ==
  /\ l \in closing
  /\ \A c \in Conns : Handing(c) => conn[c].on # l
  /\ closing' = closing \ {l}
  /\ UNCHANGED <<http, socks, forwards, target, recorded, rules, list, number, order, settled, conn>>

\* An accept loop takes one client at a time; one whose listener is let go may
\* take another before it is dropped.
Accepts(c, l) ==
  /\ conn[c].phase = "idle"
  /\ l \in Serving \cup closing
  /\ \A d \in Conns : Handing(d) => conn[d].on # l
  /\ conn' = [conn EXCEPT ![c] = [Idle EXCEPT !.phase = "accepted", !.on = l,
                                              !.accepted = list, !.since = settled]]
  /\ UNCHANGED <<http, socks, forwards, target, closing, recorded, rules, list, number, order, settled>>

\* Live::accepted.
ReadsRules(c) ==
  /\ conn[c].phase = "accepted"
  /\ conn' = [conn EXCEPT ![c].phase = IF conn[c].on.kind = "forward" THEN "ruled" ELSE "routed",
                          ![c].rules = rules]
  /\ UNCHANGED <<http, socks, forwards, target, closing, recorded, rules, list, number, order, settled>>

\* A forward's destination, read after the rules.
ReadsTarget(c) ==
  /\ conn[c].phase = "ruled"
  /\ conn' = [conn EXCEPT ![c].phase = "routed", ![c].target = target[conn[c].on]]
  /\ UNCHANGED <<http, socks, forwards, target, closing, recorded, rules, list, number, order, settled>>

\* The rules sent it to the upstream hop, which reads the published list.
Dials(c) ==
  /\ conn[c].phase = "routed"
  /\ conn' = [conn EXCEPT ![c].phase = "dialled", ![c].list = list]
  /\ UNCHANGED <<http, socks, forwards, target, closing, recorded, rules, list, number, order, settled>>

\* It ends, having dialled or not.
Ends(c) ==
  /\ conn[c].phase \in {"routed", "dialled"}
  /\ conn' = [conn EXCEPT ![c] = Idle]
  /\ UNCHANGED <<http, socks, forwards, target, closing, recorded, rules, list, number, order, settled>>

Carries ==
  \/ KeepsFrontEnds \/ Rebinds \/ CannotRebind
  \/ BindsForwards \/ CannotBindForwards
  \/ \E l \in forwards : Points(l)
  \/ OpensForwards \/ PublishesRules \/ PublishesList

ConnStep(c) ==
  \/ \E l \in Serving \cup closing : Accepts(c, l)
  \/ ReadsRules(c) \/ ReadsTarget(c) \/ Dials(c) \/ Ends(c)

Next ==
  \/ \E o \in Orders : Takes(o)
  \/ Carries
  \/ \E l \in closing : Releases(l)
  \/ \E c \in Conns : ConnStep(c)

Spec == Init /\ [][Next]_vars

-----------------------------------------------------------------------------
(* Properties *)

\* Shapes of the state: each listener is with the accept loop of its kind.
TypeOK ==
  /\ http \in Listeners /\ http.kind = "http"
  /\ socks \in Listeners /\ socks.kind = "socks"
  /\ forwards \subseteq Forwarding /\ closing \subseteq Listeners
  /\ target \in [Forwarding -> Numbers]
  /\ recorded \in [http : Addresses, socks : Addresses, forwards : SUBSET Addresses]
  /\ {rules, list, number} \subseteq Numbers
  /\ settled \in Answered
  /\ order \in Carried \cup {Unset}
  /\ conn \in [Conns -> Standing]

\* Between two orders the addresses `status` reports are the ones served, each by
\* one listener of its kind, however the orders before ended.
RecordedIsServed ==
  order = Unset =>
    /\ recorded = [http |-> http.addr, socks |-> socks.addr, forwards |-> AddressesOf(forwards)]
    /\ \A l, m \in Serving : l.addr = m.addr => l = m

\* Sockets bound for an order that do not accept yet.
Fresh == IF order = Unset THEN {} ELSE order.fresh

\* A listener is let go only for an order that no longer wants its address, and
\* only when every address that order wants of its kind is bound.
ClosedOnlyWhenReplaced ==
  [][\A l \in Serving \ Serving' :
       LET wanted == IF l.kind = "forward" THEN Wanted(order.what) ELSE {order.what.listen[l.kind]}
           bound == {m \in Serving' \cup Fresh' : m.kind = l.kind}
       IN  order # Unset /\ l.addr \notin wanted /\ wanted \subseteq AddressesOf(bound)]_vars

\* Once a load is answered, a connection accepted on a listener that still serves
\* is routed by what that load or a later one declared: rules, target and list.
AnsweredLoadIsInForce ==
  \A c \in Conns :
    LET seen == conn[c] IN
    /\ seen.phase \in {"ruled", "routed", "dialled"} => seen.rules >= seen.since.rules
    /\ seen.phase \in {"routed", "dialled"} /\ seen.on \in forwards => seen.target >= seen.since.rules
    /\ seen.phase = "dialled" => seen.list >= seen.since.list

\* No connection takes the rules of a load to a destination an earlier one
\* declared: targets are written before the rules and read after them.
TargetNotOlderThanRules ==
  \A c \in Conns :
    conn[c].phase \in {"routed", "dialled"} /\ conn[c].on \in forwards
      => conn[c].target >= conn[c].rules

\* What ConnCtx says: a load that commits mid-connection cannot move that
\* connection to another next hop.
ConnectionKeepsItsHop ==
  \A c \in Conns : conn[c].phase = "dialled" => conn[c].list = conn[c].accepted

=============================================================================
