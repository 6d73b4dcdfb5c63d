--------------------------- MODULE FrontEndsProofs ---------------------------
(***************************************************************************)
(* The listeners and the cells of a commit, for any addresses, orders,     *)
(* connections and number of orders carried out.                           *)
(***************************************************************************)
EXTENDS FrontEnds, FiniteSetTheorems, TLAPS

\* Which orders are at which step, and what a connection handed over has read.
Shapes ==
  /\ order # Unset =>
       /\ order.at = "listen" => order.what.op \in {"load", "set_listen"}
       /\ order.at \in {"forwards", "pointing"} => order.what.op \in {"load", "add_forward"}
       /\ order.at \in {"rules", "list"} => order.what.op = "load"
  /\ \A c \in Conns :
       /\ conn[c].phase # "idle" => conn[c].on \in Listeners
       /\ conn[c].phase = "ruled" => conn[c].on \in Forwarding

\* What `status` reports at every step of an order.
Recorded ==
  /\ recorded.http = http.addr /\ recorded.socks = socks.addr
  /\ ~At("pointing") => recorded.forwards = AddressesOf(forwards)

\* No two listeners serve one address, nor will those bound for the order.
Apart ==
  /\ \A l, m \in Serving : l.addr = m.addr => l = m
  /\ At("pointing") =>
       /\ \A l \in order.fresh : l.kind = "forward" /\ l.opened = number
       /\ \A l \in order.fresh, m \in Serving : l.addr # m.addr

ServedInv == TypeOK /\ Shapes /\ Recorded /\ Apart

\* A listener a connection may be on, and whose number says it is not one the
\* order is about to open.
Known == Serving \cup closing \cup {conn[c].on : c \in {d \in Conns : conn[d].phase # "idle"}}

\* The order may still open listeners of its own.
Binding == order # Unset /\ order.at \in {"listen", "forwards", "pointing"}

OpenedBefore ==
  \A l \in Known :
    /\ l.opened <= number
    /\ l.kind = "forward" /\ Binding => l.opened < number

\* The cells only grow, and the rules are there before the answer.
CellsGrow ==
  /\ rules <= number /\ list <= number
  /\ settled.rules <= rules /\ settled.list <= list
  /\ At("list") => rules = number

\* A forward's target is no older than the rules: a load points every forward it
\* keeps before it publishes.
TargetsFirst ==
  /\ \A l \in forwards : target[l] >= rules
  /\ At("pointing") /\ order.what.op = "load" =>
       \A l \in forwards \ order.left : target[l] = number
  /\ At("rules") \/ At("list") => \A l \in forwards : target[l] = number

\* What a connection has read lies between what was answered at its accept and
\* what is published now.
ReadsBetween ==
  \A c \in Conns :
    LET seen == conn[c] IN
    seen.phase # "idle" =>
      /\ seen.since.rules <= settled.rules /\ seen.since.list <= settled.list
      /\ seen.phase # "accepted" => seen.since.rules <= seen.rules /\ seen.rules <= rules
      /\ seen.phase \in {"routed", "dialled"} /\ seen.on \in forwards => seen.target >= seen.rules
      /\ seen.phase = "dialled" => seen.since.list <= seen.list

InForceInv == OpenedBefore /\ CellsGrow /\ TargetsFirst /\ ReadsBetween

-----------------------------------------------------------------------------
(* Shapes *)

LEMMA NumbersAreNat == Numbers \subseteq Nat /\ 0 \in Numbers /\ MaxOrders \in Nat
BY MaxOrdersAssumption DEF Numbers

\* What an order has by its kind.
LEMMA OrderParts ==
  ASSUME NEW o \in Order
  PROVE  /\ o.op \in {"load", "set_listen", "add_forward"}
         /\ o.op = "load" => /\ o.listen \in Moves \cup {Unset}
                             /\ o.forwards \in SUBSET Addresses /\ o.lists \in BOOLEAN
         /\ o.op = "set_listen" => o.listen \in Moves
         /\ o.op = "add_forward" => o.addr \in Addresses
BY DEF Order

\* The parts of an order being carried out.
LEMMA CarriedParts ==
  ASSUME TypeOK, order # Unset
  PROVE  /\ order \in Carried /\ order.what \in Order
         /\ order.at \in {"listen", "forwards", "pointing", "rules", "list"}
         /\ order.fresh \subseteq Forwarding /\ order.left \subseteq Forwarding
BY DEF TypeOK, Carried

\* An order that goes on to another step is one being carried out.
LEMMA StepsOn ==
  ASSUME NEW o \in Carried, NEW at \in {"listen", "forwards", "pointing", "rules", "list"}
  PROVE  LET next == [o EXCEPT !.at = at] IN
         next \in Carried /\ next # Unset /\ next.at = at /\ next.what = o.what
         /\ next.fresh = o.fresh /\ next.left = o.left
BY UnsetAssumption DEF Carried

LEMMA LeavesOn ==
  ASSUME NEW o \in Carried, NEW left \in SUBSET Forwarding
  PROVE  LET next == [o EXCEPT !.left = left] IN
         next \in Carried /\ next # Unset /\ next.at = o.at /\ next.what = o.what
         /\ next.fresh = o.fresh /\ next.left = left
BY UnsetAssumption DEF Carried

\* A listener just bound.
LEMMA OpenedType ==
  ASSUME TypeOK, NEW k \in Kinds, NEW a \in Addresses
  PROVE  /\ Opened(k, a) \in Listeners
         /\ Opened(k, a).kind = k /\ Opened(k, a).addr = a /\ Opened(k, a).opened = number
         /\ k = "forward" => Opened(k, a) \in Forwarding
BY DEF TypeOK, Opened, Listeners, Forwarding

\* Every listener there is has an address of its own kind's making.
LEMMA ServingType ==
  ASSUME TypeOK
  PROVE  /\ Serving \subseteq Listeners /\ closing \subseteq Listeners /\ forwards \subseteq Listeners
         /\ \A l \in forwards : l.kind = "forward" /\ l.addr \in Addresses
         /\ http \notin forwards /\ socks \notin forwards /\ http # socks
         /\ http.addr \in Addresses /\ socks.addr \in Addresses
BY DEF TypeOK, Serving, Listeners, Forwarding, Kinds

\* The addresses wanted of the forwards are addresses.
LEMMA WantedType ==
  ASSUME TypeOK, Shapes, At("forwards")
  PROVE  Wanted(order.what) \in SUBSET Addresses
<1>1. order.what \in Order /\ order.what.op \in {"load", "add_forward"}
  BY CarriedParts DEF At, Shapes
<1> QED BY <1>1, OrderParts DEF Wanted, TypeOK

\* The address wanted of a front end.
LEMMA ListenType ==
  ASSUME TypeOK, Shapes, At("listen"), order.what.listen # Unset
  PROVE  order.what.listen \in Moves
<1>1. order.what \in Order /\ order.what.op \in {"load", "set_listen"}
  BY CarriedParts DEF At, Shapes
<1> QED BY <1>1, OrderParts

LEMMA InitServed == Init => ServedInv
<1> SUFFICES ASSUME Init PROVE ServedInv
  OBVIOUS
<1> USE NumbersAreNat
<1>1. Default.http \in Addresses /\ Default.socks \in Addresses /\ Default.http # Default.socks
  BY DefaultAssumption DEF Moves
<1>2. http \in Listeners /\ socks \in Listeners
  BY <1>1 DEF Init, Listeners, Kinds
<1>3. Idle \in Standing
  BY DEF Idle, Standing, Answered
<1>4. TypeOK
  BY <1>1, <1>2, <1>3 DEF Init, TypeOK, Answered
<1>5. Shapes
  BY DEF Init, Shapes, Idle
<1>6. Recorded /\ Apart
  BY <1>1 DEF Init, Recorded, Apart, At, AddressesOf, Serving
<1> QED BY <1>4, <1>5, <1>6 DEF ServedInv

-----------------------------------------------------------------------------
(* Each step keeps the types, the record and the addresses apart *)

\* A step that leaves the listeners, the record and the order alone, and keeps
\* the shape of the connections.
LEMMA ConnsOnly ==
  ASSUME ServedInv, UNCHANGED <<http, socks, forwards, recorded, number, order>>,
         target' \in [Forwarding -> Numbers], closing' \subseteq Listeners,
         {rules', list'} \subseteq Numbers, settled' \in Answered, conn' \in [Conns -> Standing],
         \A c \in Conns : /\ conn'[c].phase # "idle" => conn'[c].on \in Listeners
                          /\ conn'[c].phase = "ruled" => conn'[c].on \in Forwarding
  PROVE  ServedInv'
<1>1. TypeOK' BY DEF ServedInv, TypeOK
<1>2. Shapes' BY DEF ServedInv, Shapes
<1>3. Recorded' /\ Apart' BY DEF ServedInv, Recorded, Apart, At, AddressesOf, Serving
<1> QED BY <1>1, <1>2, <1>3 DEF ServedInv

LEMMA TakesServed ==
  ASSUME ServedInv, NEW o \in Orders, Takes(o)
  PROVE  ServedInv'
<1> USE NumbersAreNat
<1>1. o \in Order BY OrdersAssumption
<1>2. order' \in Carried /\ order' # Unset /\ order'.what = o
      /\ order'.at = (IF o.op = "add_forward" THEN "forwards" ELSE "listen")
  BY <1>1, UnsetAssumption DEF Takes, Carried
<1>3. number' \in Numbers
  BY DEF Takes, ServedInv, TypeOK, Numbers
<1>4. TypeOK'
  BY <1>2, <1>3 DEF Takes, ServedInv, TypeOK
<1>5. Shapes'
  BY <1>1, <1>2, OrderParts DEF Takes, ServedInv, Shapes
<1>6. Recorded' /\ Apart'
  BY <1>2 DEF Takes, ServedInv, Recorded, Apart, At, AddressesOf, Serving
<1> QED BY <1>4, <1>5, <1>6 DEF ServedInv

\* An order that fails before it is pointing leaves everything but itself.
LEMMA FailsServed ==
  ASSUME ServedInv, Fails, ~At("pointing")
  PROVE  ServedInv'
<1>1. TypeOK' BY DEF Fails, ServedInv, TypeOK
<1>2. Shapes' BY DEF Fails, ServedInv, Shapes
<1>3. Recorded' /\ Apart'
  BY DEF Fails, ServedInv, Recorded, Apart, At, AddressesOf, Serving
<1> QED BY <1>1, <1>2, <1>3 DEF ServedInv

LEMMA KeepsServed ==
  ASSUME ServedInv, KeepsFrontEnds
  PROVE  ServedInv'
<1>1. order # Unset /\ order.at = "listen" /\ order.what.listen = Unset BY DEF KeepsFrontEnds, At
<1>2. order \in Carried /\ order.what \in Order BY <1>1, CarriedParts DEF ServedInv
<1>3. order' \in Carried /\ order' # Unset /\ order'.at = "forwards" /\ order'.what = order.what
  BY <1>2, StepsOn DEF KeepsFrontEnds
<1>5. order.what.op = "load"
  BY <1>1, <1>2, OrderParts, UnsetAssumption DEF ServedInv, Shapes
<1>6. TypeOK' BY <1>3 DEF KeepsFrontEnds, ServedInv, TypeOK
<1>7. Shapes' BY <1>3, <1>5 DEF KeepsFrontEnds, ServedInv, Shapes
<1>8. Recorded' /\ Apart'
  BY <1>1, <1>3 DEF KeepsFrontEnds, ServedInv, Recorded, Apart, At, AddressesOf, Serving
<1> QED BY <1>6, <1>7, <1>8 DEF ServedInv

LEMMA TwoFrontEnds == Cardinality({"http", "socks"}) = 2
<1>1. IsFiniteSet({"http"}) /\ Cardinality({"http"}) = 1 BY FS_Singleton
<1>2. {"http", "socks"} = {"http"} \cup {"socks"} /\ "socks" \notin {"http"} OBVIOUS
<1>3. Cardinality({"http"} \cup {"socks"}) = Cardinality({"http"}) + 1
  BY <1>1, <1>2, FS_AddElement
<1> QED BY <1>1, <1>2, <1>3

\* What a rebind does to the two front ends, one by one.
LEMMA RebindTells ==
  ASSUME ServedInv, Rebinds
  PROVE  LET wanted == order.what.listen IN
         /\ wanted \in Moves
         /\ \/ http' = http /\ wanted.http = http.addr
            \/ /\ http' = Opened("http", wanted.http) /\ wanted.http # http.addr
               /\ wanted.http \notin Taken
         /\ \/ socks' = socks /\ wanted.socks = socks.addr
            \/ /\ socks' = Opened("socks", wanted.socks) /\ wanted.socks # socks.addr
               /\ wanted.socks \notin Taken
         /\ wanted.http # http.addr /\ wanted.socks # socks.addr => wanted.http # wanted.socks
<1> DEFINE wanted == order.what.listen
<1>1. wanted \in Moves BY ListenType DEF Rebinds, ServedInv
<1>2. /\ "http" \in ToBind(wanted) <=> wanted.http # http.addr
      /\ "socks" \in ToBind(wanted) <=> wanted.socks # socks.addr
  BY <1>1 DEF ToBind, Moves
<1>3. ASSUME wanted.http # http.addr, wanted.socks # socks.addr
      PROVE  wanted.http # wanted.socks
  <2>1. ToBind(wanted) = {"http", "socks"} BY <1>2, <1>3 DEF ToBind
  <2>2. Cardinality(ToBind(wanted)) = 2 BY <2>1, TwoFrontEnds
  <2> QED BY <2>2 DEF Rebinds
<1> QED BY <1>1, <1>2, <1>3 DEF Rebinds, Moves

LEMMA RebindsServed ==
  ASSUME ServedInv, Rebinds
  PROVE  ServedInv'
<1> DEFINE wanted == order.what.listen
<1> USE NumbersAreNat
<1>1. order # Unset /\ order.at = "listen" /\ order \in Carried /\ order.what \in Order
  BY CarriedParts DEF Rebinds, At, ServedInv
<1>2. wanted \in Moves /\ wanted.http \in Addresses /\ wanted.socks \in Addresses
  BY RebindTells DEF Moves
<1>3. /\ http' \in Listeners /\ http'.kind = "http" /\ http'.addr = wanted.http
      /\ socks' \in Listeners /\ socks'.kind = "socks" /\ socks'.addr = wanted.socks
  BY <1>2, RebindTells, OpenedType DEF ServedInv, TypeOK, Kinds
<1>4. closing' \subseteq Listeners /\ forwards' = forwards /\ number' = number
  BY DEF Rebinds, ServedInv, TypeOK
<1>5. /\ recorded'.http = http'.addr /\ recorded'.socks = socks'.addr
      /\ recorded'.forwards = recorded.forwards
      /\ recorded' \in [http : Addresses, socks : Addresses, forwards : SUBSET Addresses]
  BY <1>2, <1>3 DEF Rebinds, ServedInv, TypeOK
<1>6. \/ order' = Unset
      \/ /\ order' \in Carried /\ order' # Unset /\ order'.at = "forwards"
         /\ order'.what = order.what /\ order.what.op = "load"
  BY <1>1, StepsOn DEF Rebinds
<1>7. TypeOK'
  BY <1>3, <1>4, <1>5, <1>6 DEF Rebinds, ServedInv, TypeOK
<1>8. Shapes'
  BY <1>6 DEF Rebinds, ServedInv, Shapes
<1>9. Recorded'
  BY <1>1, <1>4, <1>5 DEF ServedInv, Recorded, At, AddressesOf
<1>10. Apart'
  <2>1. \A m \in forwards : m.addr # http'.addr /\ m.addr # socks'.addr
    <3>1. \A m \in forwards : m.addr \in Taken /\ m.addr # http.addr /\ m.addr # socks.addr
      BY ServingType DEF ServedInv, Apart, Serving, Taken, AddressesOf
    <3> QED BY <3>1, <1>3, RebindTells
  <2>2. http'.addr # socks'.addr
    <3>1. http.addr \in Taken /\ socks.addr \in Taken /\ http.addr # socks.addr
      BY ServingType DEF ServedInv, Apart, Serving, Taken, AddressesOf
    <3> QED BY <3>1, <1>3, RebindTells
  <2>3. \A l, m \in Serving' : l.addr = m.addr => l = m
    BY <2>1, <2>2, <1>4 DEF ServedInv, Apart, Serving
  <2> QED BY <2>3, <1>6 DEF Apart, At
<1> QED BY <1>7, <1>8, <1>9, <1>10 DEF ServedInv

\* What is bound for the forwards an order wants, and how far the order is then.
LEMMA BindTells ==
  ASSUME TypeOK, Shapes, BindsForwards
  PROVE  LET fresh == Wanted(order.what) \ AddressesOf(forwards)
             bound == {Opened("forward", a) : a \in fresh}
         IN  /\ bound \in SUBSET Forwarding
             /\ \A l \in bound : l.kind = "forward" /\ l.opened = number /\ l.addr \in fresh
             /\ forwards' \subseteq forwards
             /\ order' \in Carried /\ order' # Unset /\ order'.at = "pointing"
             /\ order'.what = order.what /\ order'.fresh = bound /\ order'.left = forwards'
<1> DEFINE fresh == Wanted(order.what) \ AddressesOf(forwards)
           bound == {Opened("forward", a) : a \in fresh}
<1>1. fresh \subseteq Addresses BY WantedType DEF BindsForwards
<1>2. /\ bound \in SUBSET Forwarding
      /\ \A l \in bound : l.kind = "forward" /\ l.opened = number /\ l.addr \in fresh
  BY <1>1, OpenedType DEF Kinds
<1>3. forwards' \subseteq forwards /\ forwards' \in SUBSET Forwarding
  BY DEF BindsForwards, TypeOK
<1>4. order \in Carried BY CarriedParts DEF BindsForwards, At
<1>5. order' = [order EXCEPT !.at = "pointing", !.left = forwards', !.fresh = bound]
  BY DEF BindsForwards
<1> HIDE DEF bound
<1>6. PICK b \in SUBSET Forwarding : b = bound BY <1>2
<1>7. PICK left \in SUBSET Forwarding : left = forwards' BY <1>3
<1>8. order' = [order EXCEPT !.at = "pointing", !.left = left, !.fresh = b] BY <1>5, <1>6, <1>7
<1>9. /\ order' \in Carried /\ order'.at = "pointing" /\ order'.what = order.what
      /\ order'.fresh = b /\ order'.left = left
  BY <1>4, <1>8 DEF Carried
<1> QED BY <1>2, <1>3, <1>6, <1>7, <1>9, UnsetAssumption DEF bound

LEMMA BindsServed ==
  ASSUME ServedInv, BindsForwards
  PROVE  ServedInv'
<1> DEFINE wanted == Wanted(order.what)
           fresh == wanted \ AddressesOf(forwards)
           bound == {Opened("forward", a) : a \in fresh}
<1> USE NumbersAreNat
<1>1. order # Unset /\ order.at = "forwards" /\ order \in Carried
  BY CarriedParts DEF BindsForwards, At, ServedInv
<1>2. TypeOK /\ Shapes BY DEF ServedInv
<1>3. \A l \in bound : l.kind = "forward" /\ l.opened = number /\ l.addr \in fresh
  BY <1>2, BindTells
<1>4. forwards' \subseteq forwards /\ forwards' \in SUBSET Forwarding
  BY DEF BindsForwards, ServedInv, TypeOK
<1>5. /\ order' \in Carried /\ order' # Unset /\ order'.at = "pointing" /\ order'.what = order.what
      /\ order'.fresh = bound /\ order'.left = forwards'
  BY <1>2, BindTells
<1>6. closing' \subseteq Listeners
  BY ServingType DEF BindsForwards, ServedInv
<1>7. TypeOK'
  BY <1>4, <1>5, <1>6 DEF BindsForwards, ServedInv, TypeOK
<1>8. Shapes'
  BY <1>1, <1>5 DEF BindsForwards, ServedInv, Shapes
<1>9. Recorded'
  BY <1>5 DEF BindsForwards, ServedInv, Recorded, At
<1>10. Apart'
  <2>1. Serving' \subseteq Serving BY <1>4 DEF BindsForwards, Serving
  <2>2. \A l \in bound, m \in Serving : l.addr # m.addr
    BY <1>3 DEF BindsForwards, Taken, AddressesOf
  <2> QED BY <1>3, <1>5, <2>1, <2>2 DEF BindsForwards, ServedInv, Apart
<1> QED BY <1>7, <1>8, <1>9, <1>10 DEF ServedInv

LEMMA PointsServed ==
  ASSUME ServedInv, NEW l \in forwards, Points(l)
  PROVE  ServedInv'
<1> USE NumbersAreNat
<1>1. order # Unset /\ order.at = "pointing" /\ order \in Carried /\ order.left \subseteq Forwarding
  BY CarriedParts DEF Points, At, ServedInv
<1>2. order.left \ {l} \in SUBSET Forwarding BY <1>1
<1>3. /\ order' \in Carried /\ order' # Unset /\ order'.at = "pointing" /\ order'.what = order.what
      /\ order'.fresh = order.fresh
  BY <1>1, <1>2, LeavesOn DEF Points
<1>4. target' \in [Forwarding -> Numbers]
  BY DEF Points, ServedInv, TypeOK
<1>5. TypeOK' BY <1>3, <1>4 DEF Points, ServedInv, TypeOK
<1>6. Shapes' BY <1>1, <1>3 DEF Points, ServedInv, Shapes
<1>7. Recorded' BY <1>3 DEF Points, ServedInv, Recorded, At
<1>8. Apart' BY <1>1, <1>3 DEF Points, ServedInv, Apart, At, Serving
<1> QED BY <1>5, <1>6, <1>7, <1>8 DEF ServedInv

LEMMA OpensServed ==
  ASSUME ServedInv, OpensForwards
  PROVE  ServedInv'
<1> USE NumbersAreNat
<1>1. /\ order # Unset /\ order.at = "pointing" /\ order \in Carried /\ order.fresh \subseteq Forwarding
      /\ order.what.op \in {"load", "add_forward"}
  BY CarriedParts DEF OpensForwards, At, ServedInv, Shapes
<1>2. \/ order' = Unset
      \/ /\ order' \in Carried /\ order' # Unset /\ order'.at = "rules" /\ order'.what = order.what
         /\ order.what.op = "load"
  BY <1>1, StepsOn DEF OpensForwards
<1>3. forwards' \in SUBSET Forwarding BY <1>1 DEF OpensForwards, ServedInv, TypeOK
<1>4. target' \in [Forwarding -> Numbers]
  BY DEF OpensForwards, ServedInv, TypeOK
<1>5. AddressesOf(forwards') \in SUBSET Addresses
  BY <1>3 DEF AddressesOf, Forwarding
<1>6. /\ recorded'.http = recorded.http /\ recorded'.socks = recorded.socks
      /\ recorded'.forwards = AddressesOf(forwards')
      /\ recorded' \in [http : Addresses, socks : Addresses, forwards : SUBSET Addresses]
  BY <1>5 DEF OpensForwards, ServedInv, TypeOK
<1>7. TypeOK'
  BY <1>2, <1>3, <1>4, <1>6 DEF OpensForwards, ServedInv, TypeOK
<1>8. Shapes'
  BY <1>2 DEF OpensForwards, ServedInv, Shapes
<1>9. Recorded'
  BY <1>6 DEF OpensForwards, ServedInv, Recorded, AddressesOf
<1>10. Apart'
  <2>1. Serving' = Serving \cup order.fresh BY DEF OpensForwards, Serving
  <2>2. \A l, m \in order.fresh : l.addr = m.addr => l = m
    BY <1>1 DEF ServedInv, Apart, At, Forwarding
  <2>3. \A l \in order.fresh, m \in Serving : l.addr # m.addr
    BY <1>1 DEF ServedInv, Apart, At
  <2>4. \A l, m \in Serving : l.addr = m.addr => l = m BY DEF ServedInv, Apart
  <2> QED BY <1>2, <2>1, <2>2, <2>3, <2>4 DEF Apart, At
<1> QED BY <1>7, <1>8, <1>9, <1>10 DEF ServedInv

LEMMA PublishesServed ==
  ASSUME ServedInv, PublishesRules \/ PublishesList
  PROVE  ServedInv'
<1> USE NumbersAreNat
<1>1. CASE PublishesRules
  <2>1. order # Unset /\ order.at = "rules" /\ order \in Carried /\ order.what.op = "load"
    BY <1>1, CarriedParts DEF PublishesRules, At, ServedInv, Shapes
  <2>2. order' \in Carried /\ order' # Unset /\ order'.at = "list" /\ order'.what = order.what
    BY <1>1, <2>1, StepsOn DEF PublishesRules
  <2>3. TypeOK' BY <1>1, <2>2 DEF PublishesRules, ServedInv, TypeOK
  <2>4. Shapes' BY <1>1, <2>1, <2>2 DEF PublishesRules, ServedInv, Shapes
  <2>5. Recorded' /\ Apart'
    BY <1>1, <2>1, <2>2 DEF PublishesRules, ServedInv, Recorded, Apart, At, Serving, AddressesOf
  <2> QED BY <2>3, <2>4, <2>5 DEF ServedInv
<1>2. CASE PublishesList
  <2>1. order.at = "list" /\ order' = Unset BY <1>2 DEF PublishesList, At
  <2>2. list' \in Numbers /\ settled' \in Answered
    BY <1>2 DEF PublishesList, ServedInv, TypeOK, Answered
  <2>3. TypeOK' BY <1>2, <2>1, <2>2 DEF PublishesList, ServedInv, TypeOK
  <2>4. Shapes' BY <1>2, <2>1 DEF PublishesList, ServedInv, Shapes
  <2>5. Recorded' /\ Apart'
    BY <1>2, <2>1 DEF PublishesList, ServedInv, Recorded, Apart, At, Serving, AddressesOf
  <2> QED BY <2>3, <2>4, <2>5 DEF ServedInv
<1> QED BY <1>1, <1>2

\* What a step of a connection makes of it: it is accepted, reads the rules, a
\* forward's target and the list, and ends.
Stands(c, now) ==
  \/ /\ conn[c].phase = "idle" /\ now.phase = "accepted"
     /\ now.on \in Serving \cup closing /\ now.since = settled
  \/ /\ conn[c].phase = "accepted" /\ now.on = conn[c].on /\ now.since = conn[c].since
     /\ now.phase = (IF conn[c].on.kind = "forward" THEN "ruled" ELSE "routed")
     /\ now.rules = rules
  \/ /\ conn[c].phase = "ruled" /\ now.on = conn[c].on /\ now.since = conn[c].since
     /\ now.phase = "routed" /\ now.rules = conn[c].rules /\ now.target = target[conn[c].on]
  \/ /\ conn[c].phase = "routed" /\ now.on = conn[c].on /\ now.since = conn[c].since
     /\ now.phase = "dialled" /\ now.rules = conn[c].rules /\ now.target = conn[c].target
     /\ now.list = list
  \/ now = Idle

LEMMA ConnForms ==
  ASSUME TypeOK, Shapes, NEW c \in Conns, ConnStep(c)
  PROVE  /\ UNCHANGED <<http, socks, forwards, target, closing, recorded, rules, list, number,
                        order, settled>>
         /\ \E now \in Standing : conn' = [conn EXCEPT ![c] = now] /\ Stands(c, now)
<1> USE NumbersAreNat
<1>0. /\ conn[c] \in Standing /\ rules \in Numbers /\ list \in Numbers /\ settled \in Answered
      /\ target \in [Forwarding -> Numbers]
      /\ conn[c].phase = "ruled" => conn[c].on \in Forwarding
  BY DEF TypeOK, Shapes
<1>1. ASSUME NEW l \in Serving \cup closing, Accepts(c, l)
      PROVE  \E now \in Standing : conn' = [conn EXCEPT ![c] = now] /\ Stands(c, now)
  <2> DEFINE now == [Idle EXCEPT !.phase = "accepted", !.on = l, !.accepted = list, !.since = settled]
  <2>1. l \in Listeners BY ServingType
  <2>2. now \in Standing BY <1>0, <2>1 DEF Idle, Standing
  <2>3. Stands(c, now) BY <1>1 DEF Stands, Accepts, Idle
  <2> QED BY <1>1, <2>2, <2>3 DEF Accepts
<1>2. ASSUME ReadsRules(c)
      PROVE  \E now \in Standing : conn' = [conn EXCEPT ![c] = now] /\ Stands(c, now)
  <2> DEFINE now == [conn[c] EXCEPT !.phase = IF conn[c].on.kind = "forward" THEN "ruled" ELSE "routed",
                                    !.rules = rules]
  <2>1. now \in Standing BY <1>0 DEF Standing
  <2>2. Stands(c, now) BY <1>2, <1>0 DEF Stands, ReadsRules, Standing
  <2>3. conn' = [conn EXCEPT ![c] = now] BY <1>2 DEF ReadsRules
  <2> QED BY <2>1, <2>2, <2>3
<1>3. ASSUME ReadsTarget(c)
      PROVE  \E now \in Standing : conn' = [conn EXCEPT ![c] = now] /\ Stands(c, now)
  <2> DEFINE now == [conn[c] EXCEPT !.phase = "routed", !.target = target[conn[c].on]]
  <2>1. conn[c].on \in Forwarding BY <1>0, <1>3 DEF ReadsTarget
  <2>2. now \in Standing BY <1>0, <2>1 DEF Standing
  <2>3. Stands(c, now) BY <1>3, <1>0 DEF Stands, ReadsTarget, Standing
  <2>4. conn' = [conn EXCEPT ![c] = now] BY <1>3 DEF ReadsTarget
  <2> QED BY <2>2, <2>3, <2>4
<1>4. ASSUME Dials(c)
      PROVE  \E now \in Standing : conn' = [conn EXCEPT ![c] = now] /\ Stands(c, now)
  <2> DEFINE now == [conn[c] EXCEPT !.phase = "dialled", !.list = list]
  <2>1. now \in Standing BY <1>0 DEF Standing
  <2>2. Stands(c, now) BY <1>4, <1>0 DEF Stands, Dials, Standing
  <2>3. conn' = [conn EXCEPT ![c] = now] BY <1>4 DEF Dials
  <2> QED BY <2>1, <2>2, <2>3
<1>5. ASSUME Ends(c)
      PROVE  \E now \in Standing : conn' = [conn EXCEPT ![c] = now] /\ Stands(c, now)
  <2>1. Idle \in Standing BY DEF Idle, Standing, Answered
  <2> QED BY <1>5, <2>1 DEF Ends, Stands
<1>6. UNCHANGED <<http, socks, forwards, target, closing, recorded, rules, list, number,
                  order, settled>>
  BY DEF ConnStep, Accepts, ReadsRules, ReadsTarget, Dials, Ends
<1> QED BY <1>1, <1>2, <1>3, <1>4, <1>5, <1>6 DEF ConnStep

LEMMA ConnStepServed ==
  ASSUME ServedInv, NEW c \in Conns, ConnStep(c)
  PROVE  ServedInv'
<1>0. TypeOK /\ Shapes BY DEF ServedInv
<1>1. PICK now \in Standing : conn' = [conn EXCEPT ![c] = now] /\ Stands(c, now)
  BY <1>0, ConnForms
<1>2. conn \in [Conns -> Standing] BY <1>0 DEF TypeOK
<1>3. /\ now.phase # "idle" => now.on \in Listeners
      /\ now.phase = "ruled" => now.on \in Forwarding
  BY <1>0, <1>1, ServingType DEF Stands, Shapes, Idle, Listeners, Forwarding
<1>4. \A d \in Conns : conn'[d] = IF d = c THEN now ELSE conn[d] BY <1>1, <1>2
<1>5. conn' \in [Conns -> Standing] BY <1>1, <1>2
<1>6. \A d \in Conns : /\ conn'[d].phase # "idle" => conn'[d].on \in Listeners
                       /\ conn'[d].phase = "ruled" => conn'[d].on \in Forwarding
  BY <1>0, <1>3, <1>4 DEF Shapes
<1> QED BY <1>0, <1>5, <1>6, ConnForms, ConnsOnly DEF TypeOK

LEMMA ReleasesServed ==
  ASSUME ServedInv, NEW l \in closing, Releases(l)
  PROVE  ServedInv'
BY ConnsOnly DEF Releases, ServedInv, TypeOK, Shapes

LEMMA ServedStep == ServedInv /\ [Next]_vars => ServedInv'
<1> SUFFICES ASSUME ServedInv, [Next]_vars PROVE ServedInv'
  OBVIOUS
<1>1. ASSUME NEW o \in Orders, Takes(o) PROVE ServedInv' BY <1>1, TakesServed
<1>2. CASE Carries
  <2>1. CASE CannotRebind BY <2>1, FailsServed DEF CannotRebind, At
  <2>2. CASE CannotBindForwards BY <2>2, FailsServed DEF CannotBindForwards, At
  <2> QED BY <1>2, <2>1, <2>2, KeepsServed, RebindsServed, BindsServed, PointsServed, OpensServed,
             PublishesServed DEF Carries
<1>3. ASSUME NEW l \in closing, Releases(l) PROVE ServedInv' BY <1>3, ReleasesServed
<1>4. ASSUME NEW c \in Conns, ConnStep(c) PROVE ServedInv' BY <1>4, ConnStepServed
<1>5. CASE UNCHANGED vars
  BY <1>5, ConnsOnly DEF vars, ServedInv, TypeOK, Shapes
<1> QED BY <1>1, <1>2, <1>3, <1>4, <1>5 DEF Next

\* The listeners bound and the bookkeeping about them go together: every part of
\* the invariant, through every rebind, forward and failure on the way.
THEOREM ServedCorrect == Spec => []ServedInv
<1> QED BY InitServed, ServedStep, PTL DEF Spec

-----------------------------------------------------------------------------
(* What is reported is served *)

\* The shapes of the state: every listener is with the accept loop of its kind,
\* after any sequence of loads and commands.
THEOREM FrontEndsTypeCorrect == Spec => []TypeOK
<1>1. ServedInv => TypeOK BY DEF ServedInv
<1> QED BY <1>1, ServedCorrect, PTL

\* `status` reports what is served, one listener each, however the orders before
\* ended: with a bind that failed or without.
THEOREM StatusIsTrue == Spec => []RecordedIsServed
<1>1. ServedInv => RecordedIsServed
  <2> SUFFICES ASSUME ServedInv, order = Unset
               PROVE  /\ recorded = [http |-> http.addr, socks |-> socks.addr,
                                     forwards |-> AddressesOf(forwards)]
                      /\ \A l, m \in Serving : l.addr = m.addr => l = m
    BY DEF RecordedIsServed
  <2>1. /\ recorded.http = http.addr /\ recorded.socks = socks.addr
        /\ recorded.forwards = AddressesOf(forwards)
    BY DEF ServedInv, Recorded, At
  <2>2. recorded \in [http : Addresses, socks : Addresses, forwards : SUBSET Addresses]
    BY DEF ServedInv, TypeOK
  <2>3. recorded = [http |-> recorded.http, socks |-> recorded.socks, forwards |-> recorded.forwards]
    BY <2>2
  <2> QED BY <2>1, <2>3 DEF ServedInv, Apart
<1> QED BY <1>1, ServedCorrect, PTL

\* What ClosedOnlyWhenReplaced says of one listener let go.
Replaced(l) ==
  LET wanted == IF l.kind = "forward" THEN Wanted(order.what) ELSE {order.what.listen[l.kind]}
      bound == {m \in Serving' \cup Fresh' : m.kind = l.kind}
  IN  order # Unset /\ l.addr \notin wanted /\ wanted \subseteq AddressesOf(bound)

LEMMA RebindReplaces ==
  ASSUME ServedInv, Rebinds, NEW l \in Serving \ Serving'
  PROVE  Replaced(l)
<1> DEFINE wanted == order.what.listen
<1>1. order # Unset /\ forwards' = forwards BY DEF Rebinds, At
<1>2. l = http \/ l = socks BY <1>1 DEF Serving
<1>3. wanted.http \in Addresses /\ wanted.socks \in Addresses BY RebindTells DEF Moves
<1>4. CASE l = http
  <2>1. l.kind = "http" /\ http' # http BY <1>4 DEF ServedInv, TypeOK, Serving
  <2>2. http' = Opened("http", wanted.http) /\ l.addr # wanted.http BY <1>4, <2>1, RebindTells
  <2>3. http'.kind = "http" /\ http'.addr = wanted.http
    BY <1>3, <2>2, OpenedType DEF ServedInv, Kinds
  <2> QED BY <1>1, <2>1, <2>2, <2>3 DEF Replaced, AddressesOf, Serving
<1>5. CASE l = socks
  <2>1. l.kind = "socks" /\ socks' # socks BY <1>5 DEF ServedInv, TypeOK, Serving
  <2>2. socks' = Opened("socks", wanted.socks) /\ l.addr # wanted.socks BY <1>5, <2>1, RebindTells
  <2>3. socks'.kind = "socks" /\ socks'.addr = wanted.socks
    BY <1>3, <2>2, OpenedType DEF ServedInv, Kinds
  <2> QED BY <1>1, <2>1, <2>2, <2>3 DEF Replaced, AddressesOf, Serving
<1> QED BY <1>2, <1>4, <1>5

LEMMA BindReplaces ==
  ASSUME ServedInv, ServedInv', BindsForwards, NEW l \in Serving \ Serving'
  PROVE  Replaced(l)
<1> DEFINE wanted == Wanted(order.what)
           fresh == wanted \ AddressesOf(forwards)
           bound == {Opened("forward", a) : a \in fresh}
<1>1. order # Unset /\ http' = http /\ socks' = socks BY DEF BindsForwards, At
<1>2. l \in forwards /\ l \notin forwards' BY <1>1 DEF Serving
<1>3. l.kind = "forward" /\ l.addr \notin wanted
  BY <1>2, ServingType DEF ServedInv, BindsForwards
<1>4. Fresh' = bound BY BindTells DEF Fresh, ServedInv
<1>5. ASSUME NEW a \in wanted
      PROVE  \E m \in Serving' \cup Fresh' : m.kind = "forward" /\ m.addr = a
  <2>1. a \in Addresses BY WantedType DEF ServedInv, BindsForwards
  <2>2. CASE a \in AddressesOf(forwards)
    <3>1. PICK m \in forwards : m.addr = a BY <2>2 DEF AddressesOf
    <3>2. m \in forwards' /\ m.kind = "forward"
      BY <3>1, <1>5, ServingType DEF BindsForwards, ServedInv
    <3> QED BY <3>1, <3>2 DEF Serving
  <2>3. CASE a \notin AddressesOf(forwards)
    <3>1. Opened("forward", a) \in bound BY <1>5, <2>3
    <3> QED BY <3>1, <1>4, <2>1, OpenedType DEF ServedInv, Kinds
  <2> QED BY <2>2, <2>3
<1>6. wanted \subseteq AddressesOf({m \in Serving' \cup Fresh' : m.kind = "forward"})
  BY <1>5 DEF AddressesOf
<1> QED BY <1>1, <1>3, <1>6 DEF Replaced

\* A listener is let go only when every address wanted of its kind is bound: no
\* order that fails leaves the daemon with fewer listeners.
THEOREM NothingClosedUnreplaced == Spec => ClosedOnlyWhenReplaced
<1>1. ServedInv /\ ServedInv' /\ [Next]_vars => [\A l \in Serving \ Serving' : Replaced(l)]_vars
  <2> SUFFICES ASSUME ServedInv, ServedInv', Next, NEW l \in Serving \ Serving'
               PROVE  Replaced(l)
    OBVIOUS
  <2>1. CASE Rebinds BY <2>1, RebindReplaces
  <2>2. CASE BindsForwards BY <2>2, BindReplaces
  <2>3. CASE ~Rebinds /\ ~BindsForwards
    <3>1. Serving \subseteq Serving'
      <4>1. ASSUME NEW c \in Conns, ConnStep(c) PROVE Serving' = Serving
        BY <4>1, ConnForms DEF ServedInv, Serving
      <4>2. CASE Carries
        BY <4>2, <2>3 DEF Carries, KeepsFrontEnds, CannotRebind, CannotBindForwards, Fails, Points,
           OpensForwards, PublishesRules, PublishesList, Serving
      <4> QED BY <4>1, <4>2 DEF Next, Takes, Releases, Serving
    <3> QED BY <3>1
  <2> QED BY <2>1, <2>2, <2>3
<1>2. [\A l \in Serving \ Serving' : Replaced(l)]_vars
        => [\A l \in Serving \ Serving' :
              LET wanted == IF l.kind = "forward" THEN Wanted(order.what)
                            ELSE {order.what.listen[l.kind]}
                  bound == {m \in Serving' \cup Fresh' : m.kind = l.kind}
              IN  order # Unset /\ l.addr \notin wanted /\ wanted \subseteq AddressesOf(bound)]_vars
  BY DEF Replaced
<1> QED BY <1>1, <1>2, ServedCorrect, PTL DEF Spec, ClosedOnlyWhenReplaced

-----------------------------------------------------------------------------
(* An answered load is in force *)

LEMMA InitInForce == Init => InForceInv
<1> SUFFICES ASSUME Init PROVE InForceInv
  OBVIOUS
<1>1. Known = {http, socks} BY DEF Init, Known, Serving, Idle
<1>2. OpenedBefore BY <1>1 DEF Init, OpenedBefore, Binding
<1>3. CellsGrow BY DEF Init, CellsGrow, At
<1>4. TargetsFirst BY DEF Init, TargetsFirst, At
<1>5. ReadsBetween BY DEF Init, ReadsBetween, Idle
<1> QED BY <1>2, <1>3, <1>4, <1>5 DEF InForceInv

LEMMA KnownType == ASSUME TypeOK, Shapes PROVE \A l \in Known : l.opened \in Nat
<1>1. Known \subseteq Listeners BY ServingType DEF Known, Shapes
<1> QED BY <1>1, NumbersAreNat DEF Listeners

\* A listener opened by a step has the number of its order.
LEMMA KnownStep ==
  ASSUME ServedInv, Next, NEW l \in Known', l \notin Known
  PROVE  /\ number' = number /\ l.opened = number
         /\ (Rebinds /\ l.kind # "forward") \/ (OpensForwards /\ l.kind = "forward")
<1>1. CASE Rebinds
  <2>1. Known' \subseteq Known \cup {http', socks'} /\ number' = number
    BY <1>1 DEF Rebinds, Known, Serving
  <2>2. order.what.listen.http \in Addresses /\ order.what.listen.socks \in Addresses
    BY <1>1, RebindTells DEF Moves
  <2>3. http \in Known /\ socks \in Known BY DEF Known, Serving
  <2> QED BY <1>1, <2>1, <2>2, <2>3, RebindTells, OpenedType DEF ServedInv, Kinds
<1>2. CASE OpensForwards
  <2>1. Known' \subseteq Known \cup order.fresh /\ number' = number
    BY <1>2 DEF OpensForwards, Known, Serving
  <2> QED BY <1>2, <2>1 DEF OpensForwards, ServedInv, Apart
<1>3. CASE ~Rebinds /\ ~OpensForwards
  <2>1. ASSUME NEW o \in Orders, Takes(o) PROVE FALSE
    BY <2>1 DEF Takes, Known, Serving
  <2>2. ASSUME Carries PROVE FALSE
    BY <1>3, <2>2 DEF Carries, KeepsFrontEnds, CannotRebind, CannotBindForwards, Fails, BindsForwards,
       Points, PublishesRules, PublishesList, Known, Serving
  <2>3. ASSUME NEW m \in closing, Releases(m) PROVE FALSE
    BY <2>3 DEF Releases, Known, Serving
  <2>4. ASSUME NEW c \in Conns, ConnStep(c) PROVE FALSE
    <3>1. TypeOK /\ Shapes BY DEF ServedInv
    <3>2. PICK now \in Standing : conn' = [conn EXCEPT ![c] = now] /\ Stands(c, now)
      BY <2>4, <3>1, ConnForms
    <3>3. \A d \in Conns : conn'[d] = IF d = c THEN now ELSE conn[d]
      BY <3>1, <3>2 DEF TypeOK
    <3>4. now.phase # "idle" => now.on \in Known
      BY <3>2 DEF Stands, Known, Idle
    <3>5. Serving' = Serving /\ closing' = closing BY <2>4, <3>1, ConnForms DEF Serving
    <3> QED BY <3>3, <3>4, <3>5 DEF Known
  <2> QED BY <2>1, <2>2, <2>3, <2>4 DEF Next
<1> QED BY <1>1, <1>2, <1>3

LEMMA OpenedStep ==
  ASSUME ServedInv, ServedInv', OpenedBefore, [Next]_vars
  PROVE  OpenedBefore'
<1>0. number \in Nat /\ number' \in Nat /\ \A l \in Known : l.opened \in Nat
  BY KnownType, NumbersAreNat DEF ServedInv, TypeOK
<1>1. CASE UNCHANGED vars BY <1>1 DEF vars, OpenedBefore, Known, Serving, Binding
<1>2. ASSUME NEW o \in Orders, Takes(o) PROVE OpenedBefore'
  <2>1. Known' = Known /\ number' = number + 1 BY <1>2 DEF Takes, Known, Serving
  <2> QED BY <1>0, <2>1 DEF OpenedBefore
<1>3. CASE Next /\ ~\E o \in Orders : Takes(o)
  <2>1. number' = number /\ (Binding' => Binding)
    <3>1. CASE Carries
      <4>1. CASE Rebinds BY <4>1 DEF Rebinds, Binding, At
      <4>2. CASE OpensForwards BY <4>2 DEF OpensForwards, Binding, At
      <4>3. CASE PublishesRules
        <5>1. order \in Carried BY <4>3, CarriedParts DEF PublishesRules, At, ServedInv
        <5> QED BY <4>3, <5>1, StepsOn DEF PublishesRules, Binding
      <4> QED BY <3>1, <4>1, <4>2, <4>3 DEF Carries, KeepsFrontEnds, CannotRebind, CannotBindForwards,
                 Fails, BindsForwards, Points, PublishesList, Binding, At
    <3>2. ASSUME NEW c \in Conns, ConnStep(c) PROVE number' = number /\ (Binding' => Binding)
      BY <3>2, ConnForms DEF ServedInv, Binding
    <3> QED BY <1>3, <3>1, <3>2 DEF Next, Releases, Binding
  <2>2. \A l \in Known' \ Known : l.opened = number /\ (l.kind = "forward" => OpensForwards)
    BY <1>3, KnownStep
  <2>3. OpensForwards => ~Binding'
    <3> SUFFICES ASSUME OpensForwards PROVE ~Binding'
      OBVIOUS
    <3>1. order \in Carried BY CarriedParts DEF OpensForwards, At, ServedInv
    <3> QED BY <3>1, StepsOn DEF OpensForwards, Binding
  <2> QED BY <1>0, <2>1, <2>2, <2>3 DEF OpenedBefore
<1> QED BY <1>1, <1>2, <1>3

LEMMA CellsStep ==
  ASSUME ServedInv, ServedInv', CellsGrow, [Next]_vars
  PROVE  CellsGrow' /\ rules' >= rules /\ settled'.rules >= settled.rules /\ settled'.list >= settled.list
<1>0. /\ number \in Nat /\ rules \in Nat /\ list \in Nat /\ settled.rules \in Nat /\ settled.list \in Nat
      /\ number' \in Nat
  BY NumbersAreNat DEF ServedInv, TypeOK, Answered
<1>1. CASE UNCHANGED vars BY <1>0, <1>1 DEF vars, CellsGrow, At
<1>2. ASSUME NEW o \in Orders, Takes(o)
      PROVE  CellsGrow' /\ UNCHANGED <<rules, settled>>
  BY <1>0, <1>2 DEF Takes, CellsGrow, At
<1>3. CASE PublishesRules
  BY <1>0, <1>3 DEF PublishesRules, CellsGrow
<1>4. CASE PublishesList
  BY <1>0, <1>4 DEF PublishesList, CellsGrow, At
<1>5. CASE Carries /\ ~PublishesRules /\ ~PublishesList
  <2>1. UNCHANGED <<rules, list, number, settled>>
    BY <1>5 DEF Carries, KeepsFrontEnds, Rebinds, CannotRebind, CannotBindForwards, Fails, BindsForwards,
       Points, OpensForwards
  <2>2. ~At("list")'
    <3>1. order # Unset /\ order.at \in {"listen", "forwards", "pointing"} /\ order \in Carried
      BY <1>5, CarriedParts DEF Carries, KeepsFrontEnds, Rebinds, CannotRebind, CannotBindForwards,
         BindsForwards, Points, OpensForwards, At, ServedInv
    <3>2. CASE BindsForwards BY <3>2, BindTells DEF At, ServedInv
    <3>3. ASSUME NEW l \in forwards, Points(l) PROVE ~At("list")'
      <4>1. order.left \ {l} \in SUBSET Forwarding BY <3>1, CarriedParts DEF ServedInv
      <4> QED BY <3>1, <3>3, <4>1, LeavesOn DEF Points, At
    <3>4. CASE KeepsFrontEnds \/ Rebinds \/ OpensForwards
      BY <3>1, <3>4, StepsOn DEF KeepsFrontEnds, Rebinds, OpensForwards, At
    <3> QED BY <1>5, <3>2, <3>3, <3>4 DEF Carries, CannotRebind, CannotBindForwards, Fails, At
  <2> QED BY <1>0, <2>1, <2>2 DEF CellsGrow
<1>6. ASSUME NEW l \in closing, Releases(l) PROVE CellsGrow' /\ UNCHANGED <<rules, settled>>
  BY <1>6 DEF Releases, CellsGrow, At
<1>7. ASSUME NEW c \in Conns, ConnStep(c) PROVE CellsGrow' /\ UNCHANGED <<rules, settled>>
  BY <1>7, ConnForms DEF ServedInv, CellsGrow, At
<1> QED BY <1>0, <1>1, <1>2, <1>3, <1>4, <1>5, <1>6, <1>7 DEF Next

LEMMA TargetsStep ==
  ASSUME ServedInv, ServedInv', CellsGrow, TargetsFirst, [Next]_vars
  PROVE  TargetsFirst'
<1>0. /\ number \in Nat /\ rules \in Nat /\ rules <= number /\ forwards \subseteq Forwarding
      /\ target \in [Forwarding -> Numbers] /\ \A l \in forwards : target[l] \in Nat
  BY NumbersAreNat DEF ServedInv, TypeOK, CellsGrow
<1>1. CASE UNCHANGED vars BY <1>1 DEF vars, TargetsFirst, At
<1>2. ASSUME NEW o \in Orders, Takes(o) PROVE TargetsFirst'
  BY <1>2 DEF Takes, TargetsFirst, At
<1>3. CASE KeepsFrontEnds \/ Rebinds
  <2>1. order \in Carried BY <1>3, CarriedParts DEF KeepsFrontEnds, Rebinds, At, ServedInv
  <2>2. order' = Unset \/ order'.at = "forwards"
    <3>1. [order EXCEPT !.at = "forwards"].at = "forwards" BY <2>1, StepsOn
    <3>2. order' = Unset \/ order' = [order EXCEPT !.at = "forwards"]
      BY <1>3 DEF KeepsFrontEnds, Rebinds
    <3> QED BY <3>1, <3>2
  <2>3. UNCHANGED <<forwards, target, rules>> BY <1>3 DEF KeepsFrontEnds, Rebinds
  <2> QED BY <2>2, <2>3 DEF TargetsFirst, At
<1>4. CASE CannotRebind \/ CannotBindForwards
  BY <1>4 DEF CannotRebind, CannotBindForwards, Fails, TargetsFirst, At
<1>5. CASE BindsForwards
  <2>1. /\ forwards' \subseteq forwards /\ order' # Unset /\ order'.at = "pointing"
        /\ order'.left = forwards'
    BY <1>5, BindTells DEF ServedInv
  <2>2. UNCHANGED <<target, rules>> BY <1>5 DEF BindsForwards
  <2> QED BY <2>1, <2>2 DEF TargetsFirst, At
<1>6. ASSUME NEW l \in forwards, Points(l) PROVE TargetsFirst'
  <2>1. order # Unset /\ order \in Carried /\ order.at = "pointing" /\ order.left \ {l} \in SUBSET Forwarding
    BY <1>6, CarriedParts DEF Points, At, ServedInv
  <2>2. order' # Unset /\ order'.at = "pointing" /\ order'.what = order.what /\ order'.left = order.left \ {l}
    BY <1>6, <2>1, LeavesOn DEF Points
  <2>3. UNCHANGED <<forwards, rules, number>> BY <1>6 DEF Points
  <2>4. CASE order.what.op = "load"
    <3>1. target' = [target EXCEPT ![l] = number] BY <1>6, <2>4 DEF Points
    <3>2. \A m \in forwards : target'[m] = IF m = l THEN number ELSE target[m] BY <1>0, <3>1
    <3> QED BY <1>0, <2>1, <2>2, <2>3, <2>4, <3>2 DEF TargetsFirst, At
  <2>5. CASE order.what.op # "load"
    <3>1. target' = target BY <1>6, <2>5 DEF Points
    <3> QED BY <2>2, <2>3, <2>5, <3>1 DEF TargetsFirst, At
  <2> QED BY <2>4, <2>5
<1>7. CASE OpensForwards
  <2>1. /\ order # Unset /\ order \in Carried /\ order.at = "pointing" /\ order.fresh \subseteq Forwarding
        /\ order.left = {}
    BY <1>7, CarriedParts DEF OpensForwards, At, ServedInv
  <2>2. \/ order' = Unset
        \/ order'.at = "rules" /\ order.what.op = "load"
    BY <1>7, <2>1, StepsOn DEF OpensForwards
  <2>3. \A m \in forwards' : \/ m \in order.fresh /\ target'[m] = number
                             \/ m \in forwards /\ target'[m] = target[m]
    BY <1>7, <1>0, <2>1 DEF OpensForwards
  <2>4. UNCHANGED <<rules, number>> BY <1>7 DEF OpensForwards
  <2>5. order.what.op = "load" => \A m \in forwards : target[m] = number
    BY <2>1 DEF TargetsFirst, At
  <2> QED BY <1>0, <2>2, <2>3, <2>4, <2>5 DEF TargetsFirst, At
<1>8. CASE PublishesRules
  <2>1. /\ At("rules") /\ rules' = number
        /\ UNCHANGED <<forwards, target, number>>
    BY <1>8 DEF PublishesRules
  <2>2. order \in Carried BY <2>1, CarriedParts DEF At, ServedInv
  <2>3. order'.at = "list" BY <1>8, <2>2, StepsOn DEF PublishesRules
  <2> QED BY <1>0, <2>1, <2>3 DEF TargetsFirst, At
<1>9. CASE PublishesList
  BY <1>9 DEF PublishesList, TargetsFirst, At
<1>10. ASSUME NEW l \in closing, Releases(l) PROVE TargetsFirst'
  BY <1>10 DEF Releases, TargetsFirst, At
<1>11. ASSUME NEW c \in Conns, ConnStep(c) PROVE TargetsFirst'
  BY <1>11, ConnForms DEF ServedInv, TargetsFirst, At
<1> QED BY <1>1, <1>2, <1>3, <1>4, <1>5, <1>6, <1>7, <1>8, <1>9, <1>10, <1>11 DEF Next, Carries

\* What ReadsBetween says of one connection.
Between(seen) ==
  seen.phase # "idle" =>
    /\ seen.since.rules <= settled.rules /\ seen.since.list <= settled.list
    /\ seen.phase # "accepted" => seen.since.rules <= seen.rules /\ seen.rules <= rules
    /\ seen.phase \in {"routed", "dialled"} /\ seen.on \in forwards => seen.target >= seen.rules
    /\ seen.phase = "dialled" => seen.since.list <= seen.list

LEMMA ReadsStep ==
  ASSUME ServedInv, ServedInv', InForceInv, [Next]_vars
  PROVE  ReadsBetween'
<1>0. TypeOK /\ TypeOK' /\ Shapes BY DEF ServedInv
<1>1. /\ rules \in Nat /\ rules' \in Nat /\ list \in Nat
      /\ settled.rules \in Nat /\ settled.list \in Nat
      /\ settled'.rules \in Nat /\ settled'.list \in Nat
  BY <1>0, NumbersAreNat DEF TypeOK, Answered
<1>2. /\ rules' >= rules /\ settled'.rules >= settled.rules /\ settled'.list >= settled.list
  BY CellsStep DEF InForceInv
<1>3. \A c \in Conns : Between(conn[c]) BY DEF InForceInv, ReadsBetween, Between
<1>4. \A seen \in Standing : /\ seen.since.rules \in Nat /\ seen.since.list \in Nat
                             /\ seen.rules \in Nat /\ seen.list \in Nat /\ seen.target \in Nat
  BY NumbersAreNat DEF Standing, Answered
<1>5. ASSUME NEW c \in Conns, conn'[c] = conn[c],
             conn[c].phase # "idle" /\ conn[c].on \in forwards' => conn[c].on \in forwards
      PROVE  Between(conn[c])'
  <2>1. conn[c] \in Standing BY <1>0 DEF TypeOK
  <2>2. PICK seen \in Standing : seen = conn[c] BY <2>1
  <2>3. Between(seen) BY <1>3, <2>2
  <2>4. seen.phase # "idle" /\ seen.on \in forwards' => seen.on \in forwards BY <1>5, <2>2
  <2>5. seen = conn'[c] BY <1>5, <2>2
  <2> QED BY <1>1, <1>2, <1>4, <2>3, <2>4, <2>5 DEF Between
<1>6. CASE \E c \in Conns : ConnStep(c)
  <2>1. PICK c \in Conns : ConnStep(c) BY <1>6
  <2>2. PICK now \in Standing : conn' = [conn EXCEPT ![c] = now] /\ Stands(c, now)
    BY <1>0, <2>1, ConnForms
  <2>3. UNCHANGED <<forwards, target, rules, list, settled>> BY <1>0, <2>1, ConnForms
  <2>4. conn'[c] = now /\ \A d \in Conns \ {c} : conn'[d] = conn[d]
    BY <1>0, <2>2 DEF TypeOK
  <2>5. \A d \in Conns \ {c} : Between(conn[d])' BY <1>5, <2>3, <2>4
  <2>6. Between(now)
    <3> DEFINE was == conn[c]
    <3>1. was \in Standing BY <1>0 DEF TypeOK
    <3>2. Between(was) BY <1>3
    <3>3. settled.rules <= rules /\ settled.list <= list BY DEF InForceInv, CellsGrow
    <3>4. was.phase = "accepted" \/ was.phase = "ruled" => was.on \in Listeners
      BY <1>0 DEF Shapes
    <3>5. was.on \in Listeners /\ was.on \in forwards => was.on.kind = "forward"
      BY <1>0, ServingType
    <3>6. was.on \in forwards => target[was.on] >= rules /\ target[was.on] \in Nat
      BY <1>0, NumbersAreNat DEF InForceInv, TargetsFirst, TypeOK
    <3> HIDE DEF was
    <3>7. Stands(c, now) /\ was = conn[c] BY <2>2 DEF was
    <3>8. CASE was.phase = "idle" /\ now.phase = "accepted" /\ now.since = settled
      BY <1>1, <3>8 DEF Between
    <3>9. CASE /\ was.phase = "accepted" /\ now.on = was.on /\ now.since = was.since /\ now.rules = rules
              /\ now.phase = (IF was.on.kind = "forward" THEN "ruled" ELSE "routed")
      BY <1>1, <1>4, <3>1, <3>2, <3>3, <3>4, <3>5, <3>9 DEF Between
    <3>10. CASE /\ was.phase = "ruled" /\ now.on = was.on /\ now.since = was.since
               /\ now.phase = "routed" /\ now.rules = was.rules /\ now.target = target[was.on]
      BY <1>1, <1>4, <3>1, <3>2, <3>6, <3>10 DEF Between
    <3>11. CASE /\ was.phase = "routed" /\ now.on = was.on /\ now.since = was.since
               /\ now.phase = "dialled" /\ now.rules = was.rules /\ now.target = was.target
               /\ now.list = list
      BY <1>1, <1>4, <3>1, <3>2, <3>3, <3>11 DEF Between
    <3>12. CASE now = Idle BY <3>12 DEF Between, Idle
    <3> QED BY <3>7, <3>8, <3>9, <3>10, <3>11, <3>12 DEF Stands
  <2>7. Between(conn[c])' BY <2>3, <2>4, <2>6 DEF Between
  <2> QED BY <2>5, <2>7 DEF ReadsBetween, Between
<1>7. CASE ~\E c \in Conns : ConnStep(c)
  <2>1. conn' = conn
    BY <1>7 DEF Next, Takes, Carries, KeepsFrontEnds, Rebinds, CannotRebind, CannotBindForwards, Fails,
       BindsForwards, Points, OpensForwards, PublishesRules, PublishesList, Releases, vars
  <2>2. ASSUME NEW c \in Conns, conn[c].phase # "idle", conn[c].on \in forwards'
        PROVE  conn[c].on \in forwards
    <3>1. CASE OpensForwards
      <4>1. conn[c].on \in Known BY <2>2 DEF Known
      <4>2. conn[c].on \in forwards \/ conn[c].on \in order.fresh BY <2>2, <3>1 DEF OpensForwards
      <4>3. At("pointing") /\ Binding BY <3>1 DEF OpensForwards, Binding, At
      <4>4. \A l \in order.fresh : l.kind = "forward" /\ l.opened = number
        BY <4>3 DEF ServedInv, Apart
      <4>5. number \in Nat BY <1>0, NumbersAreNat DEF TypeOK
      <4>6. \A l \in Known : l.kind = "forward" => l.opened < number
        BY <4>3 DEF InForceInv, OpenedBefore
      <4>7. \A l \in order.fresh : ~(l \in Known) BY <4>4, <4>5, <4>6
      <4> QED BY <4>1, <4>2, <4>7
    <3>2. CASE ~OpensForwards
      <4>1. forwards' \subseteq forwards
        BY <1>7, <3>2 DEF Next, Takes, Carries, KeepsFrontEnds, Rebinds, CannotRebind, CannotBindForwards,
           Fails, BindsForwards, Points, PublishesRules, PublishesList, Releases, vars
      <4> QED BY <2>2, <4>1
    <3> QED BY <3>1, <3>2
  <2> QED BY <1>5, <2>1, <2>2 DEF ReadsBetween, Between
<1> QED BY <1>6, <1>7

\* Connections and commits, every part of the invariant.
THEOREM InForceCorrect == Spec => []InForceInv
<1>1. ServedInv /\ ServedInv' /\ InForceInv /\ [Next]_vars => InForceInv'
  BY OpenedStep, CellsStep, TargetsStep, ReadsStep DEF InForceInv
<1> QED BY <1>1, InitInForce, ServedCorrect, PTL DEF Spec

\* Once a load is answered, connections accepted afterwards are routed by what it
\* or a later one declared: its rules, its targets and its list.
THEOREM AnsweredLoads == Spec => []AnsweredLoadIsInForce
<1>1. ServedInv /\ InForceInv => AnsweredLoadIsInForce
  <2> SUFFICES ASSUME ServedInv, InForceInv, NEW c \in Conns
               PROVE  LET seen == conn[c] IN
                      /\ seen.phase \in {"ruled", "routed", "dialled"} => seen.rules >= seen.since.rules
                      /\ seen.phase \in {"routed", "dialled"} /\ seen.on \in forwards
                           => seen.target >= seen.since.rules
                      /\ seen.phase = "dialled" => seen.list >= seen.since.list
    BY DEF AnsweredLoadIsInForce
  <2>1. PICK seen \in Standing : seen = conn[c] BY DEF ServedInv, TypeOK
  <2>2. Between(seen) BY <2>1 DEF InForceInv, ReadsBetween, Between
  <2>3. /\ seen.since.rules \in Nat /\ seen.since.list \in Nat
        /\ seen.rules \in Nat /\ seen.list \in Nat /\ seen.target \in Nat
    BY NumbersAreNat DEF Standing, Answered
  <2>4. /\ seen.phase \in {"ruled", "routed", "dialled"} => seen.rules >= seen.since.rules
        /\ seen.phase \in {"routed", "dialled"} /\ seen.on \in forwards
             => seen.target >= seen.since.rules
        /\ seen.phase = "dialled" => seen.list >= seen.since.list
    BY <2>2, <2>3 DEF Between
  <2> QED BY <2>1, <2>4
<1> QED BY <1>1, ServedCorrect, InForceCorrect, PTL

\* No connection takes the rules of a load to a destination an earlier load
\* declared, whenever it is accepted while the load commits.
THEOREM TargetsKeepUp == Spec => []TargetNotOlderThanRules
<1>1. InForceInv => TargetNotOlderThanRules
  BY DEF InForceInv, ReadsBetween, TargetNotOlderThanRules
<1> QED BY <1>1, InForceCorrect, PTL
=============================================================================
