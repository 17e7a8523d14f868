---------------------------- MODULE OrderProofs -----------------------------
(***************************************************************************)
(* Links, holds, requests and kg stay consistent for any orders, customers,   *)
(* bundles, weights, tolerances and requests in flight.                       *)
(*                                                                          *)
(* OrderInv: links and holds.  It depends on no weight or limit.              *)
(* FullInv: OrderInv and the types of everything, figures included.           *)
(* LeavingInv: FullInv, and what has left has left with a completed dispatch. *)
(***************************************************************************)
EXTENDS OrderDraws, NaturalLemmas, TLAPS

(* What a request needs when its batch comes. *)
Carries(r) ==
    /\ r.op = "edit" => r.order \in Orders /\ r.customer \in Customers
    /\ r.op = "add" => r.dispatch \in Dispatches /\ r.bundle \in Bundles /\ r.pick \in Lines
    /\ r.op = "remove" => r.dispatch \in Dispatches /\ r.bundle \in Bundles
    /\ r.op = "recustomer" =>
        r.dispatch \in Dispatches /\ r.customer \in Customers /\ r.picks \in [Bundles -> Lines]
    /\ r.op \in {"suggest", "relink", "measure", "land"} => r.dispatch \in Dispatches
    /\ r.op = "move" => r.bundle \in Bundles /\ r.from \in Lines /\ r.to \in Lines

RequestsCarry == DOMAIN request = Slots /\ \A q \in Slots : Carries(request[q])

LinkTypes ==
    /\ orderStatus \in [Orders -> OrderStatuses \cup {"absent"}]
    /\ orderCustomer \in [Orders -> Customers \cup {NoCustomer}]
    /\ dispatchStatus \in [Dispatches -> DispatchStatuses \cup {"absent"}]
    /\ dispatchCustomer \in [Dispatches -> Customers \cup {NoCustomer}]
    /\ items \in [Dispatches -> SUBSET Bundles]
    /\ link \in [Dispatches -> [Bundles -> Lines]]

HoldTypes ==
    /\ bundleStatus \in [Bundles -> {"absent", "available", "reserved", "dispatched"}]
    /\ onLine \in [Bundles -> Lines]
    /\ heldFor \in [Bundles -> Lines]
    /\ asked \in [Bundles -> [from : Lines, to : Lines]]

(* An order has a customer from its row on, a dispatch not before.  *)
RowsHaveCustomers ==
    /\ \A o \in Orders : orderStatus[o] # "absent" => orderCustomer[o] \in Customers
    /\ \A d \in Dispatches : dispatchStatus[d] = "absent" => dispatchCustomer[d] = NoCustomer

(* A link belongs to an item and to an order that exists. *)
LinksAreOfItems ==
    \A d \in Dispatches, b \in Bundles :
        link[d][b] # NoOrder => b \in items[d] /\ orderStatus[link[d][b]] # "absent"

LinkInv == LinkTypes /\ RowsHaveCustomers /\ LinksAreOfItems /\ LinksAreTheCustomers

(* What is not packed is not held, and what waits for a reallocation is held    *)
(* for its new line at most.                                                     *)
HoldsStandBack ==
    \A b \in Bundles :
        /\ bundleStatus[b] = "absent" => heldFor[b] = NoOrder
        /\ asked[b] # NoMove => heldFor[b] \in {NoOrder, asked[b].to}

HoldInv == HoldTypes /\ HoldsStandBack /\ HoldsAreForOpenOrders

OrderInv == RequestsCarry /\ LinkInv /\ HoldInv

linkGroup == <<orderStatus, orderCustomer, dispatchStatus, dispatchCustomer, items, link>>
holdGroup == <<orderStatus, bundleStatus, onLine, heldFor, asked>>

-----------------------------------------------------------------------------
LEMMA OrderStarts == Init => OrderInv
  <1> SUFFICES ASSUME Init PROVE OrderInv
    OBVIOUS
  <1>1. RequestsCarry
    BY DEF Init, RequestsCarry, Carries, Idle
  <1>2. LinkInv
    BY DEF Init, LinkInv, LinkTypes, Lines, RowsHaveCustomers, LinksAreOfItems, LinksAreTheCustomers
  <1>3. HoldInv
    BY DEF Init, HoldInv, HoldTypes, Lines, NoMove, HoldsStandBack, HoldsAreForOpenOrders
  <1> QED BY <1>1, <1>2, <1>3 DEF OrderInv

-----------------------------------------------------------------------------
LEMMA SlotCarries ==
    ASSUME RequestsCarry, NEW q \in Slots, NEW r, Carries(r), request' = [request EXCEPT ![q] = r]
    PROVE  RequestsCarry'
  <1>1. DOMAIN request' = Slots
    BY DEF RequestsCarry
  <1>2. \A p \in Slots : request'[p] = IF p = q THEN r ELSE request[p]
    BY DEF RequestsCarry
  <1> QED BY <1>1, <1>2 DEF RequestsCarry, Carries

LEMMA DoneCarries ==
    ASSUME RequestsCarry, NEW q \in Slots, Done(q)
    PROVE  RequestsCarry'
  <1>1. Carries(Idle)
    BY DEF Carries, Idle
  <1> QED BY <1>1, SlotCarries DEF Done

(* The steps a request takes before its batch. *)
LEMMA ReadsCarry ==
    ASSUME OrderInv, NEW q \in Slots,
           \/ \E o \in Orders, c \in Customers, kg \in Amounts : ReadEdit(q, o, kg, c)
           \/ \E b \in Bundles, o \in Lines : ReadMove(q, b, o)
           \/ \E d \in Dispatches :
                \/ \E b \in Bundles : ReadAdd(q, d, b) \/ ReadRemove(q, d, b)
                \/ \E c \in Customers : ReadRecustomer(q, d, c)
                \/ ReadComplete(q, d)
    PROVE  RequestsCarry' /\ UNCHANGED <<orderVars, dispatchVars, bundleVars>>
  <1>1. RequestsCarry /\ LinkTypes /\ HoldTypes
    BY DEF OrderInv, LinkInv, HoldInv
  <1>2. CASE \E o \in Orders, c \in Customers, kg \in Amounts : ReadEdit(q, o, kg, c)
    <2>1. PICK o \in Orders, c \in Customers, kg \in Amounts : ReadEdit(q, o, kg, c)
      BY <1>2
    <2> DEFINE r == [op |-> "edit", order |-> o, version |-> orderVersion[o],
                     status |-> orderStatus[o], kg |-> kg, customer |-> c]
    <2>2. request' = [request EXCEPT ![q] = r] /\ UNCHANGED <<orderVars, dispatchVars, bundleVars>>
      BY <2>1 DEF ReadEdit, Await
    <2>3. Carries(r)
      BY DEF Carries
    <2> QED BY <1>1, <2>2, <2>3, SlotCarries
  <1>3. CASE \E b \in Bundles, o \in Lines : ReadMove(q, b, o)
    <2>0. PICK b \in Bundles, o \in Lines : ReadMove(q, b, o)
      BY <1>3
    <2>1. PICK approval \in NeedsApproval(b, o) :
            /\ request' = [request EXCEPT ![q] =
                   [op |-> "move", bundle |-> b, from |-> onLine[b], to |-> o, approval |-> approval]]
            /\ UNCHANGED <<orderVars, dispatchVars, bundleVars>>
      BY <2>0 DEF ReadMove, Await
    <2>2. onLine[b] \in Lines
      BY <1>1 DEF HoldTypes
    <2>3. Carries([op |-> "move", bundle |-> b, from |-> onLine[b], to |-> o, approval |-> approval])
      BY <2>2 DEF Carries
    <2> QED BY <1>1, <2>1, <2>3, SlotCarries
  <1>4. ASSUME NEW d \in Dispatches, NEW b \in Bundles, ReadAdd(q, d, b)
        PROVE  RequestsCarry' /\ UNCHANGED <<orderVars, dispatchVars, bundleVars>>
    <2>1. PICK pick \in Suggested(OwnLine(b, dispatchCustomer[d]), dispatchCustomer[d]) :
            /\ request' = [request EXCEPT ![q] =
                   [op |-> "add", dispatch |-> d, bundle |-> b, customer |-> dispatchCustomer[d],
                    pick |-> pick, hold |-> dispatchStatus[d] = "reserved"]]
            /\ UNCHANGED <<orderVars, dispatchVars, bundleVars>>
      BY <1>4 DEF ReadAdd, Await
    <2>2. pick \in Lines
      BY <2>1 DEF Suggested, OpenFor, Lines
    <2>3. Carries([op |-> "add", dispatch |-> d, bundle |-> b, customer |-> dispatchCustomer[d],
                   pick |-> pick, hold |-> dispatchStatus[d] = "reserved"])
      BY <2>2 DEF Carries
    <2> QED BY <1>1, <2>1, <2>3, SlotCarries
  <1>5. ASSUME NEW d \in Dispatches, NEW b \in Bundles, ReadRemove(q, d, b)
        PROVE  RequestsCarry' /\ UNCHANGED <<orderVars, dispatchVars, bundleVars>>
    <2> DEFINE r == [op |-> "remove", dispatch |-> d, bundle |-> b,
                     release |-> dispatchStatus[d] = "reserved" /\ b \in HeldHere(d)]
    <2>1. request' = [request EXCEPT ![q] = r] /\ UNCHANGED <<orderVars, dispatchVars, bundleVars>>
      BY <1>5 DEF ReadRemove, Await
    <2>2. Carries(r)
      BY DEF Carries
    <2> QED BY <1>1, <2>1, <2>2, SlotCarries
  <1>6. ASSUME NEW d \in Dispatches, NEW c \in Customers, ReadRecustomer(q, d, c)
        PROVE  RequestsCarry' /\ UNCHANGED <<orderVars, dispatchVars, bundleVars>>
    <2>1. PICK picks \in [Bundles -> Lines] :
            request' = [request EXCEPT ![q] =
                [op |-> "recustomer", dispatch |-> d, customer |-> c, picks |-> picks]]
      BY <1>6 DEF ReadRecustomer, Await
    <2>2. Carries([op |-> "recustomer", dispatch |-> d, customer |-> c, picks |-> picks])
      BY DEF Carries
    <2>3. UNCHANGED <<orderVars, dispatchVars, bundleVars>>
      BY <1>6 DEF ReadRecustomer
    <2> QED BY <1>1, <2>1, <2>2, <2>3, SlotCarries
  <1>7. ASSUME NEW d \in Dispatches, ReadComplete(q, d)
        PROVE  RequestsCarry' /\ UNCHANGED <<orderVars, dispatchVars, bundleVars>>
    <2> DEFINE r == [op |-> "suggest", dispatch |-> d, customer |-> dispatchCustomer[d],
                     bundles |-> items[d], held |-> {}]
    <2>1. request' = [request EXCEPT ![q] = r] /\ UNCHANGED <<orderVars, dispatchVars, bundleVars>>
      BY <1>7 DEF ReadComplete, Await
    <2>2. Carries(r)
      BY DEF Carries
    <2> QED BY <1>1, <2>1, <2>2, SlotCarries
  <1> QED BY <1>2, <1>3, <1>4, <1>5, <1>6, <1>7

(* The steps of a completion between its reads and its landing. *)
LEMMA CompletionCarries ==
    ASSUME OrderInv, NEW q \in Slots, Suggest(q) \/ Relink(q) \/ Measure(q) \/ AbortComplete(q)
    PROVE  RequestsCarry'
  <1>1. RequestsCarry /\ Carries(request[q])
    BY DEF OrderInv, RequestsCarry
  <1>2. ASSUME Refusal(q, request[q].dispatch)
        PROVE  RequestsCarry'
    <2>1. PICK r : r.op = "refuse" /\ request' = [request EXCEPT ![q] = r]
      BY <1>2 DEF Refusal
    <2>2. Carries(r)
      BY <2>1 DEF Carries
    <2> QED BY <1>1, <2>1, <2>2, SlotCarries
  <1>3. ASSUME NEW op \in {"measure", "land"}, NEW held,
               request[q].op \in {"suggest", "relink", "measure"},
               request' = [request EXCEPT ![q] = Completion(op, q, held)]
        PROVE  RequestsCarry'
    <2>1. Carries(Completion(op, q, held))
      BY <1>1, <1>3 DEF Carries, Completion
    <2> QED BY <1>1, <1>3, <2>1, SlotCarries
  <1>4. CASE Relink(q)
    <2>1. request[q].op = "relink" /\ request' = [request EXCEPT ![q] = Completion("measure", q, {})]
      BY <1>4 DEF Relink
    <2>2. Carries(Completion("measure", q, {}))
      BY <1>1, <2>1 DEF Carries, Completion
    <2> QED BY <1>1, <2>1, <2>2, SlotCarries
  <1>5. CASE Measure(q)
    BY <1>2, <1>3, <1>5 DEF Measure
  <1>6. CASE Suggest(q)
    <2>1. request[q].op = "suggest" /\ request[q].dispatch \in Dispatches
      BY <1>1, <1>6 DEF Suggest, Carries
    <2>2. PICK picks \in [Bundles -> Lines] :
            \/ request' = [request EXCEPT ![q] = Completion("measure", q, {})]
            \/ request' = [request EXCEPT ![q] =
                    [op |-> "relink", dispatch |-> request[q].dispatch, customer |-> request[q].customer,
                     bundles |-> request[q].bundles, picks |-> picks]]
      BY <1>6 DEF Suggest
    <2>3. Carries([op |-> "relink", dispatch |-> request[q].dispatch, customer |-> request[q].customer,
                   bundles |-> request[q].bundles, picks |-> picks])
      BY <2>1 DEF Carries
    <2> QED BY <1>1, <1>3, <2>1, <2>2, <2>3, SlotCarries
  <1>7. CASE AbortComplete(q)
    BY <1>1, <1>2, <1>7, DoneCarries DEF AbortComplete
  <1> QED BY <1>4, <1>5, <1>7, <1>6

-----------------------------------------------------------------------------
(* Statuses that change among rows that are there leave the links alone.       *)
LEMMA StatusesKeepLinks ==
    ASSUME LinkInv, UNCHANGED <<orderCustomer, dispatchCustomer, items, link>>,
           orderStatus' \in [Orders -> OrderStatuses \cup {"absent"}],
           dispatchStatus' \in [Dispatches -> DispatchStatuses \cup {"absent"}],
           \A o \in Orders : orderStatus'[o] = "absent" <=> orderStatus[o] = "absent",
           \A d \in Dispatches : dispatchStatus'[d] = "absent" => dispatchStatus[d] = "absent"
    PROVE  LinkInv'
  <1>1. LinkTypes'
    BY DEF LinkInv, LinkTypes
  <1>2. RowsHaveCustomers'
    BY DEF LinkInv, RowsHaveCustomers
  <1>3. LinksAreOfItems'
    <2>1. \A d \in Dispatches, b \in Bundles : link[d][b] # NoOrder => link[d][b] \in Orders
      BY DEF LinkInv, LinkTypes, Lines
    <2> QED BY <2>1 DEF LinkInv, LinksAreOfItems
  <1>4. LinksAreTheCustomers'
    BY DEF LinkInv, LinksAreTheCustomers
  <1> QED BY <1>1, <1>2, <1>3, <1>4 DEF LinkInv

(* Items of one dispatch that are linked to open orders of its customer, or      *)
(* lose their link. *)
LEMMA RelinkingKeepsLinks ==
    ASSUME LinkInv, NEW d \in Dispatches, NEW its \in SUBSET Bundles, NEW links \in [Bundles -> Lines],
           UNCHANGED <<orderStatus, orderCustomer, dispatchStatus, dispatchCustomer>>,
           items' = [items EXCEPT ![d] = its], link' = [link EXCEPT ![d] = links],
           \A b \in Bundles :
              links[b] # NoOrder =>
                /\ b \in its
                /\ \/ links[b] = link[d][b]
                   \/ links[b] \in OpenFor(dispatchCustomer[d])
    PROVE  LinkInv'
  <1>1. /\ \A b \in Bundles : link'[d][b] = links[b]
        /\ \A k \in Dispatches \ {d}, b \in Bundles : link'[k][b] = link[k][b]
        /\ items'[d] = its
        /\ \A k \in Dispatches \ {d} : items'[k] = items[k]
    BY DEF LinkInv, LinkTypes
  <1>2. LinkTypes'
    BY DEF LinkInv, LinkTypes
  <1>3. RowsHaveCustomers'
    BY DEF LinkInv, RowsHaveCustomers
  <1>4. ASSUME NEW b \in Bundles, links[b] # NoOrder
        PROVE  b \in its /\ orderStatus[links[b]] # "absent" /\ orderCustomer[links[b]] = dispatchCustomer[d]
    <2>1. CASE links[b] = link[d][b]
      BY <1>4, <2>1 DEF LinkInv, LinksAreOfItems, LinksAreTheCustomers
    <2>2. CASE links[b] \in OpenFor(dispatchCustomer[d])
      BY <1>4, <2>2 DEF OpenFor, Open, OpenStatuses
    <2> QED BY <1>4, <2>1, <2>2
  <1>5. LinksAreOfItems'
    <2> SUFFICES ASSUME NEW k \in Dispatches, NEW b \in Bundles, link'[k][b] # NoOrder
                 PROVE  b \in items'[k] /\ orderStatus'[link'[k][b]] # "absent"
      BY DEF LinksAreOfItems
    <2>1. CASE k = d
      BY <1>1, <1>4, <2>1
    <2>2. CASE k # d
      BY <1>1, <2>2 DEF LinkInv, LinksAreOfItems
    <2> QED BY <2>1, <2>2
  <1>6. LinksAreTheCustomers'
    <2> SUFFICES ASSUME NEW k \in Dispatches, NEW b \in Bundles, link'[k][b] # NoOrder
                 PROVE  orderCustomer'[link'[k][b]] = dispatchCustomer'[k]
      BY DEF LinksAreTheCustomers
    <2>1. CASE k = d
      BY <1>1, <1>4, <2>1
    <2>2. CASE k # d
      BY <1>1, <2>2 DEF LinkInv, LinksAreTheCustomers
    <2> QED BY <2>1, <2>2
  <1> QED BY <1>2, <1>3, <1>5, <1>6 DEF LinkInv

(* Orders whose customer changes are orders nothing is linked to. *)
LEMMA CustomersKeepLinks ==
    ASSUME LinkInv, NEW o \in Orders, NEW c \in Customers, NEW s \in OrderStatuses,
           \/ \A d \in Dispatches, b \in Bundles : link[d][b] # o
           \/ c = orderCustomer[o],
           orderStatus' = [orderStatus EXCEPT ![o] = s],
           orderCustomer' = [orderCustomer EXCEPT ![o] = c],
           UNCHANGED <<dispatchStatus, dispatchCustomer, items, link>>
    PROVE  LinkInv'
  <1>1. "absent" \notin OrderStatuses
    BY DEF OrderStatuses
  <1>2. /\ orderStatus'[o] = s /\ orderCustomer'[o] = c
        /\ \A k \in Orders \ {o} : orderStatus'[k] = orderStatus[k] /\ orderCustomer'[k] = orderCustomer[k]
    BY DEF LinkInv, LinkTypes
  <1>3. LinkTypes'
    BY DEF LinkInv, LinkTypes
  <1>4. RowsHaveCustomers'
    BY <1>2 DEF LinkInv, RowsHaveCustomers
  <1>5. ASSUME NEW d \in Dispatches, NEW b \in Bundles, link'[d][b] # NoOrder
        PROVE  /\ b \in items'[d]
               /\ orderStatus'[link'[d][b]] # "absent"
               /\ orderCustomer'[link'[d][b]] = dispatchCustomer'[d]
    <2>1. /\ link[d][b] \in Orders /\ b \in items[d] /\ orderStatus[link[d][b]] # "absent"
          /\ orderCustomer[link[d][b]] = dispatchCustomer[d]
      BY <1>5 DEF LinkInv, LinkTypes, Lines, LinksAreOfItems, LinksAreTheCustomers
    <2>2. CASE link[d][b] = o
      BY <1>1, <1>2, <2>1, <2>2
    <2>3. CASE link[d][b] # o
      BY <1>2, <2>1, <2>3
    <2> QED BY <2>2, <2>3
  <1> QED BY <1>3, <1>4, <1>5 DEF LinkInv, LinksAreOfItems, LinksAreTheCustomers

LEMMA OrdersKeepLinks ==
    ASSUME OrderInv,
           \/ \E o \in Orders : \/ \E c \in Customers, kg \in Amounts : CreateOrder(o, c, kg)
                                \/ Confirm(o) \/ Close(o) \/ CancelOrder(o)
           \/ \E q \in Slots : BatchEdit(q)
    PROVE  LinkInv'
  <1>1. LinkInv /\ RequestsCarry
    BY DEF OrderInv
  <1>2. CASE \E o \in Orders, c \in Customers, kg \in Amounts : CreateOrder(o, c, kg)
    <2>1. PICK o \in Orders, c \in Customers, kg \in Amounts : CreateOrder(o, c, kg)
      BY <1>2
    <2>2. \A d \in Dispatches, b \in Bundles : link[d][b] # o
      <3>1. orderStatus[o] = "absent" /\ o # NoOrder
        BY <2>1, OrderAssumption DEF CreateOrder
      <3> QED BY <1>1, <3>1 DEF LinkInv, LinksAreOfItems
    <2>3. /\ orderStatus' = [orderStatus EXCEPT ![o] = "booking"]
          /\ orderCustomer' = [orderCustomer EXCEPT ![o] = c]
          /\ UNCHANGED <<dispatchStatus, dispatchCustomer, items, link>>
      BY <2>1 DEF CreateOrder, SetOrder, dispatchVars
    <2>4. "booking" \in OrderStatuses
      BY DEF OrderStatuses
    <2> QED BY <1>1, <2>2, <2>3, <2>4, CustomersKeepLinks
  <1>3. ASSUME NEW o \in Orders, Confirm(o) \/ Close(o) \/ CancelOrder(o)
        PROVE  LinkInv'
    <2>1. PICK s \in OrderStatuses :
            /\ orderStatus' = [orderStatus EXCEPT ![o] = s]
            /\ orderStatus[o] # "absent"
            /\ UNCHANGED <<orderCustomer, dispatchStatus, dispatchCustomer, items, link>>
      BY <1>3 DEF Confirm, Close, CancelOrder, SetOrder, OrderStatuses, dispatchVars
    <2>2. orderStatus' \in [Orders -> OrderStatuses \cup {"absent"}]
      BY <1>1, <2>1 DEF LinkInv, LinkTypes
    <2>3. \A k \in Orders : orderStatus'[k] = "absent" <=> orderStatus[k] = "absent"
      BY <1>1, <2>1 DEF LinkInv, LinkTypes, OrderStatuses
    <2>4. dispatchStatus' \in [Dispatches -> DispatchStatuses \cup {"absent"}]
      BY <1>1, <2>1 DEF LinkInv, LinkTypes
    <2> QED BY <1>1, <2>1, <2>2, <2>3, <2>4, StatusesKeepLinks
  <1>4. CASE \E q \in Slots : BatchEdit(q)
    <2>1. PICK q \in Slots : BatchEdit(q)
      BY <1>4
    <2>2. PICK o \in Orders, c \in Customers : o = request[q].order /\ c = request[q].customer
      BY <1>1, <2>1 DEF RequestsCarry, Carries, BatchEdit
    <2>3. /\ c # orderCustomer[o] => ~HasLinks(o)
          /\ orderCustomer' = [orderCustomer EXCEPT ![o] = c]
          /\ UNCHANGED <<orderStatus, dispatchStatus, dispatchCustomer, items, link>>
      BY <2>1, <2>2 DEF BatchEdit, dispatchVars
    <2>4. CASE orderStatus[o] = "absent"
      <3>1. \A d \in Dispatches, b \in Bundles : link[d][b] # o
        BY <1>1, <2>4, OrderAssumption DEF LinkInv, LinksAreOfItems
      <3>2. LinkTypes'
        BY <1>1, <2>3 DEF LinkInv, LinkTypes
      <3>3. \A k \in Orders \ {o} : orderCustomer'[k] = orderCustomer[k]
        BY <1>1, <2>3 DEF LinkInv, LinkTypes
      <3>4. RowsHaveCustomers'
        BY <1>1, <2>3, <2>4, <3>3 DEF LinkInv, RowsHaveCustomers
      <3>5. LinksAreOfItems'
        BY <1>1, <2>3 DEF LinkInv, LinksAreOfItems
      <3>6. LinksAreTheCustomers'
        <4>1. \A d \in Dispatches, b \in Bundles : link[d][b] # NoOrder => link[d][b] \in Orders \ {o}
          BY <1>1, <3>1 DEF LinkInv, LinkTypes, Lines
        <4> QED BY <1>1, <2>3, <3>3, <4>1 DEF LinkInv, LinksAreTheCustomers
      <3> QED BY <3>2, <3>4, <3>5, <3>6 DEF LinkInv
    <2>5. CASE orderStatus[o] # "absent"
      <3>1. orderStatus[o] \in OrderStatuses /\ orderStatus' = [orderStatus EXCEPT ![o] = orderStatus[o]]
        BY <1>1, <2>3, <2>5 DEF LinkInv, LinkTypes
      <3>2. c = orderCustomer[o] \/ \A d \in Dispatches, b \in Bundles : link[d][b] # o
        BY <2>3 DEF HasLinks
      <3> QED BY <1>1, <2>3, <3>1, <3>2, CustomersKeepLinks
    <2> QED BY <2>4, <2>5
  <1> QED BY <1>2, <1>3, <1>4

(* What relinkOpen's batch may make of the links of its dispatch. *)
Relinked(d, links) ==
    /\ link' = [link EXCEPT ![d] = links]
    /\ UNCHANGED <<orderVars, dispatchStatus, dispatchCustomer, items, unlinkedBy, overdraws, bundleVars>>
    /\ \A b \in Bundles : links[b] # NoOrder =>
          b \in items[d] /\ (links[b] = link[d][b] \/ links[b] \in OpenFor(dispatchCustomer[d]))
    /\ dispatchStatus[d] \notin Editable =>
          \A b \in Bundles : links[b] # link[d][b] =>
                links[b] = NoOrder /\ link[d][b] \notin OpenFor(dispatchCustomer[d])

LEMMA RelinkOutcome ==
    ASSUME OrderInv, NEW q \in Slots, Relink(q)
    PROVE  \E d \in Dispatches, links \in [Bundles -> Lines] : Relinked(d, links)
  <1>1. LinkInv /\ RequestsCarry
    BY DEF OrderInv
  <1>2. PICK d \in Dispatches : d = request[q].dispatch
    BY <1>1 DEF RequestsCarry, Carries, Relink
  <1>3. PICK picks : picks = request[q].picks
    OBVIOUS
  <1> DEFINE may == IF dispatchStatus[d] \in Editable THEN Loose(d) ELSE {}
             linked == [b \in Bundles |-> IF b \in may THEN picks[b] ELSE link[d][b]]
             links == [b \in Bundles |-> IF picks[b] # NoOrder THEN Kept(d, linked[b]) ELSE link[d][b]]
  <1>4. link[d] \in [Bundles -> Lines] /\ may \subseteq items[d]
    BY <1>1 DEF LinkInv, LinkTypes, Loose
  <1>5. link' = [link EXCEPT ![d] = links]
    BY <1>1, <1>2, <1>3 DEF Relink, LinkInv, LinkTypes
  <1>6. dispatchStatus[d] \notin Editable => may = {}
    OBVIOUS
  <1>7. \A b \in Bundles : link[d][b] # NoOrder => b \in items[d]
    BY <1>1 DEF LinkInv, LinksAreOfItems
  <1> HIDE DEF may
  <1>8. \A o : Kept(d, o) = NoOrder \/ (Kept(d, o) = o /\ o \in OpenFor(dispatchCustomer[d]) /\ o \in Orders)
    BY DEF Kept, LinkStands, OpenFor
  <1>9. \A o : Kept(d, o) # o => Kept(d, o) = NoOrder /\ o \notin OpenFor(dispatchCustomer[d])
    BY DEF Kept, LinkStands
  <1>10. links \in [Bundles -> Lines]
    BY <1>4, <1>8 DEF Lines
  <1>11. \A b \in Bundles : links[b] = IF picks[b] # NoOrder THEN Kept(d, linked[b]) ELSE link[d][b]
    OBVIOUS
  <1>12. \A b \in Bundles : linked[b] = IF b \in may THEN picks[b] ELSE link[d][b]
    OBVIOUS
  <1> HIDE DEF links, linked
  <1>13. \A b \in Bundles : links[b] # NoOrder =>
            b \in items[d] /\ (links[b] = link[d][b] \/ links[b] \in OpenFor(dispatchCustomer[d]))
    BY <1>4, <1>7, <1>8, <1>11, <1>12 DEF Lines
  <1>14. dispatchStatus[d] \notin Editable =>
            \A b \in Bundles : links[b] # link[d][b] =>
                links[b] = NoOrder /\ link[d][b] \notin OpenFor(dispatchCustomer[d])
    BY <1>6, <1>9, <1>11, <1>12
  <1>15. UNCHANGED <<orderVars, dispatchStatus, dispatchCustomer, items, unlinkedBy, overdraws, bundleVars>>
    BY DEF Relink
  <1> QED BY <1>5, <1>10, <1>13, <1>14, <1>15 DEF Relinked

LEMMA DispatchesKeepLinks ==
    ASSUME OrderInv,
           \/ \E d \in Dispatches :
                \/ \E c \in Customers : OpenDispatch(d, c)
                \/ Reserve(d) \/ Unreserve(d) \/ CancelDispatch(d)
                \/ \E b \in Bundles : UnlinkItem(d, b) \/ \E o \in Orders : LinkItem(d, b, o)
           \/ \E q \in Slots : BatchAdd(q) \/ BatchRemove(q) \/ Relink(q)
    PROVE  LinkInv'
  <1>1. LinkInv /\ RequestsCarry
    BY DEF OrderInv
  <1>2. ASSUME NEW d \in Dispatches, NEW c \in Customers, OpenDispatch(d, c)
        PROVE  LinkInv'
    <2>1. /\ dispatchStatus[d] = "absent"
          /\ dispatchStatus' = [dispatchStatus EXCEPT ![d] = "draft"]
          /\ dispatchCustomer' = [dispatchCustomer EXCEPT ![d] = c]
          /\ UNCHANGED <<orderStatus, orderCustomer, items, link>>
      BY <1>2 DEF OpenDispatch, orderVars
    <2>2. \A b \in Bundles : link[d][b] = NoOrder
      <3> SUFFICES ASSUME NEW b \in Bundles, link[d][b] # NoOrder PROVE FALSE
        OBVIOUS
      <3>1. link[d][b] \in Orders /\ orderStatus[link[d][b]] # "absent"
        BY <1>1 DEF LinkInv, LinkTypes, Lines, LinksAreOfItems
      <3>2. orderCustomer[link[d][b]] \in Customers
        BY <1>1, <3>1 DEF LinkInv, RowsHaveCustomers
      <3>3. orderCustomer[link[d][b]] = NoCustomer
        BY <1>1, <2>1 DEF LinkInv, LinksAreTheCustomers, RowsHaveCustomers
      <3> QED BY <3>2, <3>3, OrderAssumption
    <2>3. LinkTypes'
      BY <1>1, <2>1 DEF LinkInv, LinkTypes, DispatchStatuses
    <2>4. /\ dispatchStatus'[d] = "draft"
          /\ \A k \in Dispatches \ {d} :
                dispatchStatus'[k] = dispatchStatus[k] /\ dispatchCustomer'[k] = dispatchCustomer[k]
      BY <1>1, <2>1 DEF LinkInv, LinkTypes
    <2>5. RowsHaveCustomers'
      BY <1>1, <2>1, <2>4 DEF LinkInv, RowsHaveCustomers
    <2>6. LinksAreOfItems'
      BY <1>1, <2>1 DEF LinkInv, LinksAreOfItems
    <2>7. LinksAreTheCustomers'
      BY <1>1, <2>1, <2>2, <2>4 DEF LinkInv, LinksAreTheCustomers
    <2> QED BY <2>3, <2>5, <2>6, <2>7 DEF LinkInv
  <1>3. ASSUME NEW d \in Dispatches, Reserve(d) \/ Unreserve(d) \/ CancelDispatch(d)
        PROVE  LinkInv'
    <2>1. PICK s \in DispatchStatuses :
            /\ dispatchStatus' = [dispatchStatus EXCEPT ![d] = s]
            /\ UNCHANGED <<orderStatus, orderCustomer, dispatchCustomer, items, link>>
      BY <1>3 DEF Reserve, Unreserve, CancelDispatch, DispatchStatuses, orderVars
    <2>2. dispatchStatus' \in [Dispatches -> DispatchStatuses \cup {"absent"}]
      BY <1>1, <2>1 DEF LinkInv, LinkTypes
    <2>3. \A k \in Dispatches : dispatchStatus'[k] = "absent" => dispatchStatus[k] = "absent"
      BY <1>1, <2>1 DEF LinkInv, LinkTypes, DispatchStatuses
    <2>4. orderStatus' \in [Orders -> OrderStatuses \cup {"absent"}]
      BY <1>1, <2>1 DEF LinkInv, LinkTypes
    <2> QED BY <1>1, <2>1, <2>2, <2>3, <2>4, StatusesKeepLinks
  <1>4. ASSUME NEW d \in Dispatches, NEW b \in Bundles, NEW o \in Lines,
               items' = [items EXCEPT ![d] = items[d] \cup {b}],
               link' = [link EXCEPT ![d][b] = o],
               o # NoOrder => o \in OpenFor(dispatchCustomer[d]),
               UNCHANGED <<orderStatus, orderCustomer, dispatchStatus, dispatchCustomer>>
        PROVE  LinkInv'
    <2> DEFINE links == [link[d] EXCEPT ![b] = o]
    <2>1. link[d] \in [Bundles -> Lines] /\ items[d] \in SUBSET Bundles
      BY <1>1 DEF LinkInv, LinkTypes
    <2>2. links \in [Bundles -> Lines] /\ \A x \in Bundles : links[x] = IF x = b THEN o ELSE link[d][x]
      BY <2>1
    <2>3. link' = [link EXCEPT ![d] = links]
      BY <1>1, <1>4 DEF LinkInv, LinkTypes
    <2>4. \A x \in Bundles : link[d][x] # NoOrder => x \in items[d]
      BY <1>1 DEF LinkInv, LinksAreOfItems
    <2> HIDE DEF links
    <2>5. \A x \in Bundles : links[x] # NoOrder =>
            /\ x \in items[d] \cup {b}
            /\ links[x] = link[d][x] \/ links[x] \in OpenFor(dispatchCustomer[d])
      BY <1>4, <2>2, <2>4
    <2>6. items[d] \cup {b} \in SUBSET Bundles
      BY <2>1
    <2> QED BY <1>1, <1>4, <2>2, <2>3, <2>5, <2>6, RelinkingKeepsLinks
  <1>5. ASSUME NEW d \in Dispatches, NEW b \in Bundles, UnlinkItem(d, b)
        PROVE  LinkInv'
    <2>1. b \in items[d] /\ items[d] \cup {b} = items[d]
      BY <1>1, <1>5 DEF UnlinkItem, LinkInv, LinksAreOfItems
    <2>2. /\ link' = [link EXCEPT ![d][b] = NoOrder]
          /\ UNCHANGED <<orderStatus, orderCustomer, dispatchStatus, dispatchCustomer, items>>
      BY <1>5 DEF UnlinkItem, orderVars
    <2>3. items' = [items EXCEPT ![d] = items[d] \cup {b}]
      BY <1>1, <2>1, <2>2 DEF LinkInv, LinkTypes
    <2> QED BY <1>4, <2>2, <2>3 DEF Lines
  <1>6. ASSUME NEW d \in Dispatches, NEW b \in Bundles, NEW o \in Orders, LinkItem(d, b, o)
        PROVE  LinkInv'
    <2>1. items[d] \cup {b} = items[d]
      BY <1>6 DEF LinkItem
    <2>2. /\ link' = [link EXCEPT ![d][b] = o] /\ o \in OpenFor(dispatchCustomer[d])
          /\ UNCHANGED <<orderStatus, orderCustomer, dispatchStatus, dispatchCustomer, items>>
      BY <1>6 DEF LinkItem, orderVars
    <2>3. items' = [items EXCEPT ![d] = items[d] \cup {b}]
      BY <1>1, <2>1, <2>2 DEF LinkInv, LinkTypes
    <2> QED BY <1>4, <2>2, <2>3 DEF Lines
  <1>7. ASSUME NEW q \in Slots, BatchAdd(q)
        PROVE  LinkInv'
    <2>1. PICK d \in Dispatches, b \in Bundles, pick \in Lines :
            d = request[q].dispatch /\ b = request[q].bundle /\ pick = request[q].pick
      BY <1>1, <1>7 DEF RequestsCarry, Carries, BatchAdd
    <2>2. /\ items' = [items EXCEPT ![d] = items[d] \cup {b}]
          /\ link' = [link EXCEPT ![d][b] = Kept(d, pick)]
          /\ UNCHANGED <<orderStatus, orderCustomer, dispatchStatus, dispatchCustomer>>
      BY <1>1, <1>7, <2>1 DEF BatchAdd, orderVars, LinkInv, LinkTypes
    <2>3. Kept(d, pick) \in Lines /\ (Kept(d, pick) # NoOrder => Kept(d, pick) \in OpenFor(dispatchCustomer[d]))
      BY <2>1 DEF Kept, LinkStands, Lines
    <2> QED BY <1>4, <2>2, <2>3
  <1>8. ASSUME NEW q \in Slots, BatchRemove(q)
        PROVE  LinkInv'
    <2>1. PICK d \in Dispatches, b \in Bundles : d = request[q].dispatch /\ b = request[q].bundle
      BY <1>1, <1>8 DEF RequestsCarry, Carries, BatchRemove
    <2>2. /\ items' = [items EXCEPT ![d] = items[d] \ {b}]
          /\ link' = [link EXCEPT ![d][b] = NoOrder]
          /\ UNCHANGED <<orderStatus, orderCustomer, dispatchStatus, dispatchCustomer>>
      BY <1>1, <1>8, <2>1 DEF BatchRemove, orderVars, LinkInv, LinkTypes
    <2> DEFINE links == [link[d] EXCEPT ![b] = NoOrder]
    <2>3. link[d] \in [Bundles -> Lines] /\ items[d] \in SUBSET Bundles
      BY <1>1 DEF LinkInv, LinkTypes
    <2>4. /\ links \in [Bundles -> Lines]
          /\ \A x \in Bundles : links[x] = IF x = b THEN NoOrder ELSE link[d][x]
      BY <2>3 DEF Lines
    <2>5. link' = [link EXCEPT ![d] = links]
      BY <1>1, <2>2 DEF LinkInv, LinkTypes
    <2>6. \A x \in Bundles : link[d][x] # NoOrder => x \in items[d]
      BY <1>1 DEF LinkInv, LinksAreOfItems
    <2> HIDE DEF links
    <2>7. \A x \in Bundles : links[x] # NoOrder => x \in items[d] \ {b} /\ links[x] = link[d][x]
      BY <2>4, <2>6
    <2>8. PICK its \in SUBSET Bundles : its = items[d] \ {b}
      BY <2>3
    <2>9. items' = [items EXCEPT ![d] = its] /\ \A x \in Bundles : links[x] # NoOrder =>
            x \in its /\ (links[x] = link[d][x] \/ links[x] \in OpenFor(dispatchCustomer[d]))
      BY <2>2, <2>7, <2>8
    <2> QED BY <1>1, <2>2, <2>4, <2>5, <2>9, RelinkingKeepsLinks
  <1>9. ASSUME NEW q \in Slots, Relink(q)
        PROVE  LinkInv'
    <2>1. PICK d \in Dispatches, links \in [Bundles -> Lines] : Relinked(d, links)
      BY <1>9, RelinkOutcome
    <2>2. /\ link' = [link EXCEPT ![d] = links]
          /\ UNCHANGED <<orderStatus, orderCustomer, dispatchStatus, dispatchCustomer, items>>
          /\ \A b \in Bundles : links[b] # NoOrder =>
                b \in items[d] /\ (links[b] = link[d][b] \/ links[b] \in OpenFor(dispatchCustomer[d]))
      BY <2>1 DEF Relinked, orderVars
    <2>3. items' = [items EXCEPT ![d] = items[d]] /\ items[d] \in SUBSET Bundles
      BY <1>1, <2>2 DEF LinkInv, LinkTypes
    <2> QED BY <1>1, <2>2, <2>3, RelinkingKeepsLinks
  <1> QED BY <1>2, <1>3, <1>5, <1>6, <1>7, <1>8, <1>9

(* A dispatch changes its customer while none of its items is linked. *)
LEMMA RecustomerKeepsLinks ==
    ASSUME OrderInv, NEW q \in Slots, BatchRecustomer(q)
    PROVE  LinkInv'
  <1>1. LinkInv /\ RequestsCarry
    BY DEF OrderInv
  <1>2. PICK d \in Dispatches, c \in Customers, picks \in [Bundles -> Lines] :
            d = request[q].dispatch /\ c = request[q].customer /\ picks = request[q].picks
    BY <1>1 DEF RequestsCarry, Carries, BatchRecustomer
  <1>3. /\ dispatchStatus[d] = "draft" /\ \A b \in items[d] : link[d][b] = NoOrder
        /\ dispatchCustomer' = [dispatchCustomer EXCEPT ![d] = c]
        /\ link' = [link EXCEPT ![d] = [b \in Bundles |->
              IF b \in items[d] /\ picks[b] \in OpenFor(c) THEN picks[b] ELSE link[d][b]]]
        /\ UNCHANGED <<orderStatus, orderCustomer, dispatchStatus, items>>
    BY <1>2 DEF BatchRecustomer, MayChangeCustomer, NoLinks, orderVars
  <1>4. /\ \A b \in Bundles : link'[d][b] =
              IF b \in items[d] /\ picks[b] \in OpenFor(c) THEN picks[b] ELSE link[d][b]
        /\ \A k \in Dispatches \ {d} : link'[k] = link[k] /\ dispatchCustomer'[k] = dispatchCustomer[k]
        /\ dispatchCustomer'[d] = c
    BY <1>1, <1>3 DEF LinkInv, LinkTypes
  <1>5. LinkTypes'
    <2>1. link' \in [Dispatches -> [Bundles -> Lines]]
      BY <1>1, <1>3 DEF LinkInv, LinkTypes
    <2> QED BY <1>1, <1>3, <2>1 DEF LinkInv, LinkTypes
  <1>6. RowsHaveCustomers'
    BY <1>1, <1>3, <1>4 DEF LinkInv, RowsHaveCustomers
  <1>7. \A b \in Bundles : link[d][b] = NoOrder
    BY <1>1, <1>3 DEF LinkInv, LinksAreOfItems
  <1>8. ASSUME NEW k \in Dispatches, NEW b \in Bundles, link'[k][b] # NoOrder
        PROVE  /\ b \in items'[k]
               /\ orderStatus'[link'[k][b]] # "absent"
               /\ orderCustomer'[link'[k][b]] = dispatchCustomer'[k]
    <2>1. CASE k = d
      <3>1. b \in items[d] /\ link'[d][b] \in OpenFor(c)
        BY <1>4, <1>7, <1>8, <2>1
      <3> QED BY <1>3, <1>4, <2>1, <3>1 DEF OpenFor, Open, OpenStatuses
    <2>2. CASE k # d
      BY <1>1, <1>3, <1>4, <1>8, <2>2 DEF LinkInv, LinksAreOfItems, LinksAreTheCustomers
    <2> QED BY <2>1, <2>2
  <1> QED BY <1>5, <1>6, <1>8 DEF LinkInv, LinksAreOfItems, LinksAreTheCustomers

(* A completion drops the links of the items it leaves behind. *)
LEMMA CompletionKeepsLinks ==
    ASSUME OrderInv, NEW q \in Slots, BatchComplete(q)
    PROVE  LinkInv'
  <1>1. LinkInv /\ RequestsCarry
    BY DEF OrderInv
  <1>2. PICK d \in Dispatches : d = request[q].dispatch
    BY <1>1 DEF RequestsCarry, Carries, BatchComplete
  <1>3. PICK late, met :
            /\ \A o \in met : orderStatus[o] \in {"booking", "confirmed"}
            /\ dispatchStatus' = [dispatchStatus EXCEPT ![d] = "completed"]
            /\ items' = [items EXCEPT ![d] = items[d] \ late]
            /\ link' = [link EXCEPT ![d] =
                  [b \in Bundles |-> IF b \in late THEN NoOrder ELSE link[d][b]]]
            /\ orderStatus' = [o \in Orders |-> IF o \in met THEN "dispatching" ELSE orderStatus[o]]
            /\ UNCHANGED <<orderCustomer, dispatchCustomer>>
    <2> DEFINE l == HeldHere(d) \ (request[q].bundles \cap HeldHere(d))
               m == {o \in {link[d][b] : b \in items[d] \ l} \ {NoOrder} :
                        orderStatus[o] \in {"booking", "confirmed"}}
    <2>1. /\ \A o \in m : orderStatus[o] \in {"booking", "confirmed"}
          /\ dispatchStatus' = [dispatchStatus EXCEPT ![d] = "completed"]
          /\ items' = [items EXCEPT ![d] = items[d] \ l]
          /\ link' = [link EXCEPT ![d] = [b \in Bundles |-> IF b \in l THEN NoOrder ELSE link[d][b]]]
          /\ orderStatus' = [o \in Orders |-> IF o \in m THEN "dispatching" ELSE orderStatus[o]]
          /\ UNCHANGED <<orderCustomer, dispatchCustomer>>
      BY <1>1, <1>2 DEF BatchComplete, LinkInv, LinkTypes
    <2> QED BY <2>1
  <1>4. /\ \A b \in Bundles : link'[d][b] = IF b \in late THEN NoOrder ELSE link[d][b]
        /\ \A k \in Dispatches \ {d} : link'[k] = link[k] /\ items'[k] = items[k]
        /\ items'[d] = items[d] \ late
        /\ \A k \in Dispatches : dispatchStatus'[k] = "absent" => dispatchStatus[k] = "absent"
        /\ \A o \in Orders : orderStatus'[o] = "absent" <=> orderStatus[o] = "absent"
    BY <1>1, <1>3 DEF LinkInv, LinkTypes
  <1>5. LinkTypes'
    <2>1. link' \in [Dispatches -> [Bundles -> Lines]] /\ items' \in [Dispatches -> SUBSET Bundles]
      BY <1>1, <1>3 DEF LinkInv, LinkTypes, Lines
    <2>2. orderStatus' \in [Orders -> OrderStatuses \cup {"absent"}]
      BY <1>1, <1>3 DEF LinkInv, LinkTypes, OrderStatuses
    <2>3. dispatchStatus' \in [Dispatches -> DispatchStatuses \cup {"absent"}]
      BY <1>1, <1>3 DEF LinkInv, LinkTypes, DispatchStatuses
    <2> QED BY <1>1, <1>3, <2>1, <2>2, <2>3 DEF LinkInv, LinkTypes
  <1>6. RowsHaveCustomers'
    BY <1>1, <1>3, <1>4 DEF LinkInv, RowsHaveCustomers
  <1>7. ASSUME NEW k \in Dispatches, NEW b \in Bundles, link'[k][b] # NoOrder
        PROVE  /\ b \in items'[k]
               /\ orderStatus'[link'[k][b]] # "absent"
               /\ orderCustomer'[link'[k][b]] = dispatchCustomer'[k]
    <2>1. link'[k][b] = link[k][b] /\ ~(k = d /\ b \in late)
      BY <1>4, <1>7
    <2>2. /\ link[k][b] \in Orders /\ b \in items[k] /\ orderStatus[link[k][b]] # "absent"
          /\ orderCustomer[link[k][b]] = dispatchCustomer[k]
      BY <1>1, <1>7, <2>1 DEF LinkInv, LinkTypes, Lines, LinksAreOfItems, LinksAreTheCustomers
    <2> QED BY <1>3, <1>4, <2>1, <2>2
  <1> QED BY <1>5, <1>6, <1>7 DEF LinkInv, LinksAreOfItems, LinksAreTheCustomers

LEMMA LinkStep ==
    ASSUME OrderInv, [Next]_vars
    PROVE  LinkInv'
  <1> USE DEF linkGroup
  <1>1. ASSUME UNCHANGED linkGroup
        PROVE  LinkInv'
    BY <1>1 DEF OrderInv, LinkInv, LinkTypes, RowsHaveCustomers, LinksAreOfItems, LinksAreTheCustomers
  <1>2. CASE UNCHANGED vars
    BY <1>1, <1>2 DEF vars, orderVars, dispatchVars
  <1>3. ASSUME UNCHANGED <<orderVars, dispatchVars, bundleVars>>
        PROVE  LinkInv'
    BY <1>1, <1>3 DEF orderVars, dispatchVars
  <1>4. CASE OrderStep
    BY <1>3, <1>4, OrdersKeepLinks, ReadsCarry DEF OrderStep
  <1>5. CASE BundleStep
    <2>1. PICK b \in Bundles :
            \/ \E o \in Lines : Pack(b, o)
            \/ ReleaseHold(b)
            \/ \E o \in Orders : HoldFor(b, o)
            \/ \E verdict \in {"approved", "rejected"} : DecideMove(b, verdict)
            \/ \E q \in Slots, o \in Lines : ReadMove(q, b, o)
      BY <1>5 DEF BundleStep
    <2>2. UNCHANGED <<orderVars, dispatchVars>>
      BY <2>1 DEF Pack, ReleaseHold, HoldFor, DecideMove, ReadMove
    <2> QED BY <1>1, <2>2 DEF orderVars, dispatchVars
  <1>6. CASE DispatchStep
    <2>1. PICK d \in Dispatches :
            \/ \E c \in Customers : OpenDispatch(d, c)
            \/ Reserve(d) \/ Unreserve(d) \/ CancelDispatch(d)
            \/ \E b \in Bundles : UnlinkItem(d, b) \/ \E o \in Orders : LinkItem(d, b, o)
            \/ \E n \in 1..MaxAsks, verdict \in {"approved", "rejected"} : DecideOverdraw(d, n, verdict)
            \/ \E q \in Slots :
                \/ \E b \in Bundles : ReadAdd(q, d, b) \/ ReadRemove(q, d, b)
                \/ \E c \in Customers : ReadRecustomer(q, d, c)
                \/ ReadComplete(q, d)
      BY <1>6 DEF DispatchStep
    <2>2. CASE \E n \in 1..MaxAsks, verdict \in {"approved", "rejected"} : DecideOverdraw(d, n, verdict)
      BY <1>1, <2>2 DEF DecideOverdraw, orderVars
    <2>3. CASE \E q \in Slots :
                \/ \E b \in Bundles : ReadAdd(q, d, b) \/ ReadRemove(q, d, b)
                \/ \E c \in Customers : ReadRecustomer(q, d, c)
                \/ ReadComplete(q, d)
      BY <1>3, <2>3, ReadsCarry
    <2> QED BY <2>1, <2>2, <2>3, DispatchesKeepLinks
  <1>7. CASE BatchStep
    <2>1. PICK q \in Slots :
            \/ Drop(q) \/ BatchEdit(q) \/ BatchAdd(q) \/ BatchRemove(q) \/ BatchRecustomer(q)
            \/ Suggest(q) \/ Relink(q) \/ Measure(q) \/ BatchRefuse(q) \/ BatchComplete(q)
            \/ AbortComplete(q) \/ BatchMove(q) \/ BatchAsk(q)
      BY <1>7 DEF BatchStep
    <2>2. CASE Drop(q) \/ Suggest(q) \/ Measure(q) \/ AbortComplete(q)
      BY <1>3, <2>2 DEF Drop, Suggest, Measure, AbortComplete
    <2>3. CASE BatchRefuse(q) \/ BatchMove(q) \/ BatchAsk(q)
      BY <1>1, <2>3 DEF BatchRefuse, BatchMove, BatchAsk, orderVars, dispatchVars
    <2> QED BY <2>1, <2>2, <2>3, OrdersKeepLinks, DispatchesKeepLinks, RecustomerKeepsLinks, CompletionKeepsLinks
  <1> QED BY <1>2, <1>4, <1>5, <1>6, <1>7 DEF Next

-----------------------------------------------------------------------------
(* Bundles that are reserved, freed or sent keep their holds. *)
LEMMA StatusesKeepHolds ==
    ASSUME OrderInv, UNCHANGED <<orderStatus, onLine, heldFor, asked>>,
           bundleStatus' \in [Bundles -> {"absent", "available", "reserved", "dispatched"}],
           \A b \in Bundles : /\ bundleStatus'[b] = "absent" => bundleStatus[b] = "absent"
                              /\ bundleStatus[b] = "dispatched" => bundleStatus'[b] = "dispatched"
    PROVE  HoldInv'
  <1>1. HoldTypes'
    BY DEF OrderInv, HoldInv, HoldTypes
  <1>2. HoldsStandBack'
    BY DEF OrderInv, HoldInv, HoldsStandBack
  <1>3. HoldsAreForOpenOrders'
    BY DEF OrderInv, HoldInv, HoldsAreForOpenOrders, Open
  <1> QED BY <1>1, <1>2, <1>3 DEF HoldInv

(* Orders keep their holds as long as they are open, and lose them when they     *)
(* are not any more.                                                              *)
LEMMA OrdersKeepHolds ==
    ASSUME OrderInv, UNCHANGED <<bundleStatus, onLine, asked>>,
           heldFor' \in [Bundles -> Lines],
           \A b \in Bundles :
              \/ heldFor'[b] = NoOrder
              \/ heldFor'[b] = heldFor[b] /\ (Open(heldFor[b]) => orderStatus'[heldFor[b]] \in OpenStatuses)
    PROVE  HoldInv'
  <1>1. HoldTypes'
    BY DEF OrderInv, HoldInv, HoldTypes
  <1>2. HoldsStandBack'
    BY DEF OrderInv, HoldInv, HoldsStandBack
  <1>3. HoldsAreForOpenOrders'
    BY DEF OrderInv, HoldInv, HoldsAreForOpenOrders, Open
  <1> QED BY <1>1, <1>2, <1>3 DEF HoldInv

LEMMA OrderStepKeepsHolds ==
    ASSUME OrderInv, NEW o \in Orders,
           \/ \E c \in Customers, kg \in Amounts : CreateOrder(o, c, kg)
           \/ Confirm(o) \/ Close(o) \/ CancelOrder(o)
    PROVE  HoldInv'
  <1>1. LinkTypes /\ HoldTypes
    BY DEF OrderInv, LinkInv, HoldInv
  <1>2. CASE (\E c \in Customers, kg \in Amounts : CreateOrder(o, c, kg)) \/ Confirm(o)
    <2>1. PICK s \in OpenStatuses : /\ orderStatus' = [orderStatus EXCEPT ![o] = s]
                                    /\ UNCHANGED bundleVars
      BY <1>2 DEF CreateOrder, Confirm, SetOrder, OpenStatuses
    <2>2. \A b \in Bundles : Open(heldFor[b]) => orderStatus'[heldFor[b]] \in OpenStatuses
      BY <1>1, <2>1 DEF LinkTypes, Open
    <2>3. UNCHANGED <<bundleStatus, onLine, asked, heldFor>> /\ heldFor' \in [Bundles -> Lines]
      BY <1>1, <2>1 DEF HoldTypes, bundleVars
    <2> QED BY <2>2, <2>3, OrdersKeepHolds
  <1>3. CASE Close(o) \/ CancelOrder(o)
    <2>1. PICK s : orderStatus' = [orderStatus EXCEPT ![o] = s]
      BY <1>3 DEF Close, CancelOrder, SetOrder
    <2>2. /\ heldFor' = [b \in Bundles |-> IF heldFor[b] = o THEN NoOrder ELSE heldFor[b]]
          /\ UNCHANGED <<bundleStatus, onLine, asked>>
      BY <1>3 DEF Close, CancelOrder, ReleaseHoldsOf
    <2>3. heldFor' \in [Bundles -> Lines]
      BY <1>1, <2>2 DEF HoldTypes, Lines
    <2>4. ASSUME NEW b \in Bundles
          PROVE  \/ heldFor'[b] = NoOrder
                 \/ heldFor'[b] = heldFor[b] /\ (Open(heldFor[b]) => orderStatus'[heldFor[b]] \in OpenStatuses)
      BY <1>1, <2>1, <2>2 DEF LinkTypes, Open
    <2> QED BY <2>2, <2>3, <2>4, OrdersKeepHolds
  <1> QED BY <1>2, <1>3

LEMMA BundleStepKeepsHolds ==
    ASSUME OrderInv, NEW b \in Bundles,
           \/ \E o \in Lines : Pack(b, o)
           \/ ReleaseHold(b) \/ \E o \in Orders : HoldFor(b, o)
           \/ \E verdict \in {"approved", "rejected"} : DecideMove(b, verdict)
           \/ \E q \in Slots : (BatchMove(q) \/ BatchAsk(q)) /\ b = request[q].bundle
    PROVE  HoldInv'
  <1>1. HoldTypes /\ HoldsStandBack /\ HoldsAreForOpenOrders /\ RequestsCarry
    BY DEF OrderInv, HoldInv
  <1>2. CASE ReleaseHold(b)
    <2>1. /\ heldFor' = [heldFor EXCEPT ![b] = NoOrder]
          /\ UNCHANGED <<orderStatus, bundleStatus, onLine, asked>>
      BY <1>2 DEF ReleaseHold, orderVars
    <2>2. heldFor' \in [Bundles -> Lines] /\ \A x \in Bundles : heldFor'[x] \in {NoOrder, heldFor[x]}
      BY <1>1, <2>1 DEF HoldTypes, Lines
    <2> QED BY <2>1, <2>2, OrdersKeepHolds DEF Open
  <1>3. ASSUME HoldTypes', UNCHANGED orderStatus,
               \A x \in Bundles \ {b} : /\ bundleStatus'[x] = bundleStatus[x] /\ onLine'[x] = onLine[x]
                                        /\ heldFor'[x] = heldFor[x] /\ asked'[x] = asked[x],
               bundleStatus'[b] # "absent",
               asked'[b] # NoMove => heldFor'[b] \in {NoOrder, asked'[b].to},
               heldFor'[b] # NoOrder => Open(heldFor'[b]) /\ onLine'[b] \in {NoOrder, heldFor'[b]}
        PROVE  HoldInv'
    <2>1. HoldsStandBack'
      <3> SUFFICES ASSUME NEW x \in Bundles
                   PROVE  /\ bundleStatus'[x] = "absent" => heldFor'[x] = NoOrder
                          /\ asked'[x] # NoMove => heldFor'[x] \in {NoOrder, asked'[x].to}
        BY DEF HoldsStandBack, NoMove
      <3>1. CASE x = b
        BY <1>3, <3>1
      <3>2. CASE x # b
        BY <1>1, <1>3, <3>2 DEF HoldsStandBack
      <3> QED BY <3>1, <3>2
    <2>2. HoldsAreForOpenOrders'
      <3> SUFFICES ASSUME NEW x \in Bundles, heldFor'[x] # NoOrder
                   PROVE  /\ Open(heldFor[x])'
                          /\ bundleStatus'[x] # "dispatched" => onLine'[x] \in {NoOrder, heldFor'[x]}
        BY DEF HoldsAreForOpenOrders
      <3>1. CASE x = b
        BY <1>3, <3>1 DEF Open
      <3>2. CASE x # b
        BY <1>1, <1>3, <3>2 DEF HoldsAreForOpenOrders, Open
      <3> QED BY <3>1, <3>2
    <2> QED BY <1>3, <2>1, <2>2 DEF HoldInv
  <1>4. CASE \E o \in Lines : Pack(b, o)
    <2>1. PICK o \in Lines : Pack(b, o)
      BY <1>4
    <2>2. /\ bundleStatus[b] = "absent"
          /\ bundleStatus' = [bundleStatus EXCEPT ![b] = "available"]
          /\ onLine' = [onLine EXCEPT ![b] = o]
          /\ UNCHANGED <<orderStatus, heldFor, asked>>
      BY <2>1 DEF Pack, orderVars
    <2>3. HoldTypes'
      BY <1>1, <2>2 DEF HoldTypes
    <2>4. heldFor'[b] = NoOrder
      BY <1>1, <2>2 DEF HoldsStandBack
    <2>5. /\ \A x \in Bundles \ {b} : bundleStatus'[x] = bundleStatus[x] /\ onLine'[x] = onLine[x]
          /\ bundleStatus'[b] = "available"
      BY <1>1, <2>2 DEF HoldTypes
    <2> QED BY <1>3, <2>2, <2>3, <2>4, <2>5
  <1>5. CASE \E o \in Orders : HoldFor(b, o)
    <2>1. PICK o \in Orders : HoldFor(b, o)
      BY <1>5
    <2>2. /\ Open(o) /\ bundleStatus[b] = "available" /\ onLine[b] \in {NoOrder, o} /\ asked[b] = NoMove
          /\ heldFor' = [heldFor EXCEPT ![b] = o]
          /\ UNCHANGED <<orderStatus, bundleStatus, onLine, asked>>
      BY <2>1 DEF HoldFor, Holdable, orderVars
    <2>3. HoldTypes' /\ heldFor'[b] = o /\ \A x \in Bundles \ {b} : heldFor'[x] = heldFor[x]
      BY <1>1, <2>2 DEF HoldTypes, Lines
    <2> QED BY <1>3, <2>2, <2>3
  <1>6. CASE \E verdict \in {"approved", "rejected"} : DecideMove(b, verdict)
    <2>1. PICK verdict \in {"approved", "rejected"} : DecideMove(b, verdict)
      BY <1>6
    <2>2. /\ asked[b] # NoMove
          /\ onLine' = [onLine EXCEPT ![b] =
                IF /\ verdict = "approved" /\ bundleStatus[b] = "available"
                   /\ onLine[b] = asked[b].from /\ Open(asked[b].to)
                THEN asked[b].to ELSE onLine[b]]
          /\ asked' = [asked EXCEPT ![b] = NoMove]
          /\ UNCHANGED <<orderStatus, bundleStatus, heldFor>>
      BY <1>1, <2>1 DEF DecideMove, orderVars, HoldTypes
    <2>3. onLine' \in [Bundles -> Lines] /\ onLine'[b] \in {onLine[b], asked[b].to}
      BY <1>1, <2>2 DEF HoldTypes
    <2>4. asked' \in [Bundles -> [from : Lines, to : Lines]] /\ asked'[b] = NoMove
      BY <1>1, <2>2 DEF HoldTypes, NoMove, Lines
    <2>5. \A x \in Bundles \ {b} : onLine'[x] = onLine[x] /\ asked'[x] = asked[x]
      BY <1>1, <2>2 DEF HoldTypes
    <2>6. HoldTypes'
      BY <1>1, <2>2, <2>3, <2>4 DEF HoldTypes
    <2>7. HoldsStandBack'
      BY <1>1, <2>2, <2>4, <2>5 DEF HoldsStandBack
    <2>8. HoldsAreForOpenOrders'
      <3> SUFFICES ASSUME NEW x \in Bundles, heldFor'[x] # NoOrder
                   PROVE  /\ Open(heldFor[x])'
                          /\ bundleStatus'[x] # "dispatched" => onLine'[x] \in {NoOrder, heldFor'[x]}
        BY DEF HoldsAreForOpenOrders
      <3>1. /\ Open(heldFor[x])' /\ heldFor'[x] = heldFor[x]
            /\ bundleStatus'[x] # "dispatched" => onLine[x] \in {NoOrder, heldFor[x]}
        BY <1>1, <2>2 DEF HoldsAreForOpenOrders, Open
      <3>2. CASE x = b
        <4>1. heldFor[b] = asked[b].to
          BY <1>1, <2>2, <3>1, <3>2 DEF HoldsStandBack
        <4> QED BY <2>2, <2>3, <3>1, <3>2, <4>1
      <3>3. CASE x # b
        BY <2>2, <2>5, <3>1, <3>3
      <3> QED BY <3>2, <3>3
    <2> QED BY <2>6, <2>7, <2>8 DEF HoldInv
  <1>7. ASSUME NEW q \in Slots, BatchMove(q), b = request[q].bundle
        PROVE  HoldInv'
    <2>1. PICK o \in Lines : o = request[q].to
      BY <1>1, <1>7 DEF RequestsCarry, Carries, BatchMove
    <2>2. /\ bundleStatus[b] = "available" /\ heldFor[b] \in {NoOrder, o}
          /\ onLine' = [onLine EXCEPT ![b] = o]
          /\ UNCHANGED <<orderStatus, bundleStatus, heldFor, asked>>
      BY <1>7, <2>1 DEF BatchMove, orderVars
    <2>3. HoldTypes' /\ onLine'[b] = o /\ \A x \in Bundles \ {b} : onLine'[x] = onLine[x]
      BY <1>1, <2>2 DEF HoldTypes
    <2>4. /\ asked'[b] # NoMove => heldFor'[b] \in {NoOrder, asked'[b].to}
          /\ heldFor'[b] # NoOrder => Open(heldFor'[b])
      BY <1>1, <2>2 DEF HoldsStandBack, HoldsAreForOpenOrders
    <2> QED BY <1>3, <2>2, <2>3, <2>4
  <1>8. ASSUME NEW q \in Slots, BatchAsk(q), b = request[q].bundle
        PROVE  HoldInv'
    <2>1. PICK from \in Lines, to \in Lines : from = request[q].from /\ to = request[q].to
      BY <1>1, <1>8 DEF RequestsCarry, Carries, BatchAsk
    <2>2. /\ heldFor[b] \in {NoOrder, to}
          /\ asked' = [asked EXCEPT ![b] = [from |-> from, to |-> to]]
          /\ UNCHANGED <<orderStatus, bundleStatus, heldFor, onLine>>
      BY <1>8, <2>1 DEF BatchAsk, MayAsk, orderVars
    <2>3. /\ asked' \in [Bundles -> [from : Lines, to : Lines]]
          /\ asked'[b].to = to /\ \A x \in Bundles \ {b} : asked'[x] = asked[x]
      BY <1>1, <2>2 DEF HoldTypes
    <2>4. HoldTypes'
      BY <1>1, <2>2, <2>3 DEF HoldTypes
    <2>5. HoldsStandBack'
      BY <1>1, <2>2, <2>3 DEF HoldsStandBack
    <2>6. HoldsAreForOpenOrders'
      BY <1>1, <2>2 DEF HoldsAreForOpenOrders, Open
    <2> QED BY <2>4, <2>5, <2>6 DEF HoldInv
  <1> QED BY <1>2, <1>4, <1>5, <1>6, <1>7, <1>8

(* What a completion does to bundles and orders. *)
LEMMA CompletionKeepsHolds ==
    ASSUME OrderInv, NEW q \in Slots, BatchComplete(q)
    PROVE  HoldInv'
  <1>1. HoldTypes /\ HoldsStandBack /\ HoldsAreForOpenOrders /\ LinkTypes /\ RequestsCarry
    BY DEF OrderInv, HoldInv, LinkInv
  <1>2. PICK d \in Dispatches : d = request[q].dispatch
    BY <1>1 DEF RequestsCarry, Carries, BatchComplete
  <1>3. PICK leaving, late, met, ended :
            /\ leaving \subseteq HeldHere(d) /\ late \subseteq HeldHere(d)
            /\ bundleStatus' = [b \in Bundles |->
                  IF b \in leaving THEN "dispatched"
                  ELSE IF b \in late THEN "available" ELSE bundleStatus[b]]
            /\ onLine' = [b \in Bundles |-> IF b \in leaving THEN link[d][b] ELSE onLine[b]]
            /\ heldFor' = [b \in Bundles |-> IF b \in ended THEN NoOrder ELSE heldFor[b]]
            /\ orderStatus' = [o \in Orders |-> IF o \in met THEN "dispatching" ELSE orderStatus[o]]
            /\ UNCHANGED asked
    <2> DEFINE go == request[q].bundles \cap HeldHere(d)
               stay == HeldHere(d) \ go
               m == {o \in {link[d][b] : b \in items[d] \ stay} \ {NoOrder} :
                        orderStatus[o] \in {"booking", "confirmed"}}
               h == request[q].held
    <2>1. /\ bundleStatus' = [b \in Bundles |->
                IF b \in go THEN "dispatched"
                ELSE IF b \in stay THEN "available" ELSE bundleStatus[b]]
          /\ onLine' = [b \in Bundles |-> IF b \in go THEN link[d][b] ELSE onLine[b]]
          /\ heldFor' = [b \in Bundles |-> IF b \in h THEN NoOrder ELSE heldFor[b]]
          /\ orderStatus' = [o \in Orders |-> IF o \in m THEN "dispatching" ELSE orderStatus[o]]
          /\ UNCHANGED asked
      BY <1>2 DEF BatchComplete
    <2>2. go \subseteq HeldHere(d) /\ stay \subseteq HeldHere(d)
      OBVIOUS
    <2> HIDE DEF go, stay, m, h
    <2> QED BY <2>1, <2>2
  <1>4. \A b \in HeldHere(d) : bundleStatus[b] = "reserved"
    BY DEF HeldHere
  <1>5. HoldTypes'
    <2>1. \A b \in Bundles : link[d][b] \in Lines
      BY <1>1 DEF LinkTypes
    <2>2. NoOrder \in Lines
      BY DEF Lines
    <2> QED BY <1>1, <1>3, <2>1, <2>2 DEF HoldTypes
  <1>6. ASSUME NEW b \in Bundles
        PROVE  /\ bundleStatus'[b] = "absent" => bundleStatus[b] = "absent"
               /\ bundleStatus'[b] # "dispatched" =>
                    bundleStatus[b] # "dispatched" /\ onLine'[b] = onLine[b]
               /\ heldFor'[b] \in {NoOrder, heldFor[b]}
    <2>1. CASE b \in leaving
      BY <1>3, <2>1
    <2>2. CASE b \in late \ leaving
      BY <1>3, <1>4, <2>2
    <2>3. CASE b \notin late \cup leaving
      BY <1>3, <2>3
    <2> QED BY <2>1, <2>2, <2>3
  <1>7. \A o \in Orders : Open(o) => orderStatus'[o] \in OpenStatuses
    BY <1>3 DEF Open, OpenStatuses
  <1>8. HoldsStandBack'
    BY <1>1, <1>3, <1>6 DEF HoldsStandBack
  <1>9. HoldsAreForOpenOrders'
    <2> SUFFICES ASSUME NEW b \in Bundles, heldFor'[b] # NoOrder
                 PROVE  /\ Open(heldFor[b])'
                        /\ bundleStatus'[b] # "dispatched" => onLine'[b] \in {NoOrder, heldFor'[b]}
      BY DEF HoldsAreForOpenOrders
    <2>1. /\ heldFor'[b] = heldFor[b] /\ Open(heldFor[b])
          /\ bundleStatus[b] # "dispatched" => onLine[b] \in {NoOrder, heldFor[b]}
      BY <1>1, <1>6 DEF HoldsAreForOpenOrders
    <2>2. heldFor[b] \in Orders
      BY <2>1 DEF Open
    <2> QED BY <1>6, <1>7, <2>1, <2>2 DEF Open
  <1> QED BY <1>5, <1>8, <1>9 DEF HoldInv

LEMMA DispatchStepKeepsHolds ==
    ASSUME OrderInv,
           \/ \E d \in Dispatches : Reserve(d) \/ Unreserve(d) \/ CancelDispatch(d)
           \/ \E q \in Slots : BatchAdd(q) \/ BatchRemove(q)
    PROVE  HoldInv'
  <1>1. HoldTypes /\ RequestsCarry /\ LinkTypes
    BY DEF OrderInv, HoldInv, LinkInv
  <1>2. ASSUME NEW bs, NEW s \in {"available", "reserved"},
               \A b \in bs : bundleStatus[b] \in {"available", "reserved"},
               bundleStatus' = [b \in Bundles |-> IF b \in bs THEN s ELSE bundleStatus[b]],
               UNCHANGED <<orderStatus, onLine, heldFor, asked>>
        PROVE  HoldInv'
    <2>1. bundleStatus' \in [Bundles -> {"absent", "available", "reserved", "dispatched"}]
      BY <1>1, <1>2 DEF HoldTypes
    <2>2. \A b \in Bundles : /\ bundleStatus'[b] = "absent" => bundleStatus[b] = "absent"
                             /\ bundleStatus[b] = "dispatched" => bundleStatus'[b] = "dispatched"
      BY <1>2
    <2> QED BY <1>2, <2>1, <2>2, StatusesKeepHolds
  <1>3. CASE \E d \in Dispatches : Reserve(d)
    BY <1>2, <1>3 DEF Reserve, orderVars
  <1>4. ASSUME NEW bs, \A b \in bs : bundleStatus[b] = "reserved", Freed(bs),
               UNCHANGED <<orderStatus, onLine, heldFor, asked>>
        PROVE  HoldInv'
    BY <1>2, <1>4 DEF Freed
  <1>5. CASE \E d \in Dispatches : Unreserve(d) \/ CancelDispatch(d)
    BY <1>4, <1>5 DEF Unreserve, CancelDispatch, HeldHere, orderVars
  <1>6. CASE \E q \in Slots : BatchRemove(q)
    <2>1. PICK q \in Slots : BatchRemove(q)
      BY <1>6
    <2>2. PICK bs : /\ bs \subseteq HeldHere(request[q].dispatch)
                    /\ Freed(bs)
      BY <2>1 DEF BatchRemove
    <2>3. \A b \in bs : bundleStatus[b] = "reserved"
      BY <2>2 DEF HeldHere
    <2>4. UNCHANGED <<orderStatus, onLine, heldFor, asked>>
      BY <2>1 DEF BatchRemove, orderVars
    <2> QED BY <1>4, <2>2, <2>3, <2>4
  <1>7. CASE \E q \in Slots : BatchAdd(q)
    <2>1. PICK q \in Slots : BatchAdd(q)
      BY <1>7
    <2>2. PICK b \in Bundles : b = request[q].bundle
      BY <1>1, <2>1 DEF RequestsCarry, Carries, BatchAdd
    <2>3. /\ \/ bundleStatus' = [bundleStatus EXCEPT ![b] = bundleStatus[b]]
             \/ bundleStatus[b] = "available" /\ bundleStatus' = [bundleStatus EXCEPT ![b] = "reserved"]
          /\ UNCHANGED <<orderStatus, onLine, heldFor, asked>>
      BY <2>1, <2>2 DEF BatchAdd, orderVars
    <2>4. bundleStatus' \in [Bundles -> {"absent", "available", "reserved", "dispatched"}]
      BY <1>1, <2>3 DEF HoldTypes
    <2>5. \A x \in Bundles : /\ bundleStatus'[x] = "absent" => bundleStatus[x] = "absent"
                             /\ bundleStatus[x] = "dispatched" => bundleStatus'[x] = "dispatched"
      BY <1>1, <2>3 DEF HoldTypes
    <2> QED BY <2>3, <2>4, <2>5, StatusesKeepHolds
  <1> QED BY <1>3, <1>5, <1>6, <1>7

LEMMA HoldStep ==
    ASSUME OrderInv, [Next]_vars
    PROVE  HoldInv'
  <1>1. ASSUME UNCHANGED holdGroup
        PROVE  HoldInv'
    BY <1>1 DEF holdGroup, OrderInv, HoldInv, HoldTypes, HoldsStandBack, HoldsAreForOpenOrders, Open
  <1>2. CASE UNCHANGED vars
    BY <1>1, <1>2 DEF vars, orderVars, bundleVars, holdGroup
  <1>3. ASSUME UNCHANGED <<orderVars, bundleVars>>
        PROVE  HoldInv'
    BY <1>1, <1>3 DEF orderVars, bundleVars, holdGroup
  <1>4. CASE OrderStep
    <2>1. CASE \E q \in Slots, o \in Orders, c \in Customers, kg \in Amounts : ReadEdit(q, o, kg, c)
      BY <1>3, <2>1, ReadsCarry
    <2> QED BY <1>4, <2>1, OrderStepKeepsHolds DEF OrderStep
  <1>5. CASE BundleStep
    <2>1. PICK b \in Bundles :
            \/ \E o \in Lines : Pack(b, o)
            \/ ReleaseHold(b)
            \/ \E o \in Orders : HoldFor(b, o)
            \/ \E verdict \in {"approved", "rejected"} : DecideMove(b, verdict)
            \/ \E q \in Slots, o \in Lines : ReadMove(q, b, o)
      BY <1>5 DEF BundleStep
    <2>2. CASE \E q \in Slots, o \in Lines : ReadMove(q, b, o)
      BY <1>3, <2>2, ReadsCarry
    <2> QED BY <2>1, <2>2, BundleStepKeepsHolds
  <1>6. CASE DispatchStep
    <2>1. PICK d \in Dispatches :
            \/ \E c \in Customers : OpenDispatch(d, c)
            \/ Reserve(d) \/ Unreserve(d) \/ CancelDispatch(d)
            \/ \E b \in Bundles : UnlinkItem(d, b) \/ \E o \in Orders : LinkItem(d, b, o)
            \/ \E n \in 1..MaxAsks, verdict \in {"approved", "rejected"} : DecideOverdraw(d, n, verdict)
            \/ \E q \in Slots :
                \/ \E b \in Bundles : ReadAdd(q, d, b) \/ ReadRemove(q, d, b)
                \/ \E c \in Customers : ReadRecustomer(q, d, c)
                \/ ReadComplete(q, d)
      BY <1>6 DEF DispatchStep
    <2>2. CASE Reserve(d) \/ Unreserve(d) \/ CancelDispatch(d)
      BY <2>2, DispatchStepKeepsHolds
    <2>3. CASE \E q \in Slots :
                \/ \E b \in Bundles : ReadAdd(q, d, b) \/ ReadRemove(q, d, b)
                \/ \E c \in Customers : ReadRecustomer(q, d, c)
                \/ ReadComplete(q, d)
      BY <1>3, <2>3, ReadsCarry
    <2>4. CASE \/ \E c \in Customers : OpenDispatch(d, c)
               \/ \E b \in Bundles : UnlinkItem(d, b) \/ \E o \in Orders : LinkItem(d, b, o)
               \/ \E n \in 1..MaxAsks, verdict \in {"approved", "rejected"} : DecideOverdraw(d, n, verdict)
      BY <1>3, <2>4 DEF OpenDispatch, UnlinkItem, LinkItem, DecideOverdraw
    <2> QED BY <2>1, <2>2, <2>3, <2>4
  <1>7. CASE BatchStep
    <2>1. PICK q \in Slots :
            \/ Drop(q) \/ BatchEdit(q) \/ BatchAdd(q) \/ BatchRemove(q) \/ BatchRecustomer(q)
            \/ Suggest(q) \/ Relink(q) \/ Measure(q) \/ BatchRefuse(q) \/ BatchComplete(q)
            \/ AbortComplete(q) \/ BatchMove(q) \/ BatchAsk(q)
      BY <1>7 DEF BatchStep
    <2>2. CASE Drop(q) \/ Suggest(q) \/ Measure(q) \/ AbortComplete(q)
      BY <1>3, <2>2 DEF Drop, Suggest, Measure, AbortComplete
    <2>3. CASE BatchRecustomer(q) \/ Relink(q) \/ BatchRefuse(q)
      BY <1>3, <2>3 DEF BatchRecustomer, Relink, BatchRefuse
    <2>4. CASE BatchEdit(q)
      BY <1>1, <2>4 DEF BatchEdit, bundleVars, holdGroup
    <2>5. CASE BatchMove(q) \/ BatchAsk(q)
      <3>1. request[q].bundle \in Bundles
        BY <2>5 DEF OrderInv, RequestsCarry, Carries, BatchMove, BatchAsk
      <3> QED BY <2>5, <3>1, BundleStepKeepsHolds
    <2> QED BY <2>1, <2>2, <2>3, <2>4, <2>5, DispatchStepKeepsHolds, CompletionKeepsHolds
  <1> QED BY <1>2, <1>4, <1>5, <1>6, <1>7 DEF Next

LEMMA RequestStep ==
    ASSUME OrderInv, [Next]_vars
    PROVE  RequestsCarry'
  <1>1. RequestsCarry
    BY DEF OrderInv
  <1>2. ASSUME UNCHANGED request
        PROVE  RequestsCarry'
    BY <1>1, <1>2 DEF RequestsCarry, Carries
  <1>3. CASE UNCHANGED vars
    BY <1>2, <1>3 DEF vars
  <1>4. CASE OrderStep
    <2>1. PICK o \in Orders :
            \/ \E c \in Customers, kg \in Amounts : CreateOrder(o, c, kg)
            \/ Confirm(o) \/ Close(o) \/ CancelOrder(o)
            \/ \E q \in Slots, c \in Customers, kg \in Amounts : ReadEdit(q, o, kg, c)
      BY <1>4 DEF OrderStep
    <2> QED BY <1>2, <2>1, ReadsCarry DEF CreateOrder, Confirm, Close, CancelOrder
  <1>5. CASE BundleStep
    <2>1. PICK b \in Bundles :
            \/ \E o \in Lines : Pack(b, o)
            \/ ReleaseHold(b)
            \/ \E o \in Orders : HoldFor(b, o)
            \/ \E verdict \in {"approved", "rejected"} : DecideMove(b, verdict)
            \/ \E q \in Slots, o \in Lines : ReadMove(q, b, o)
      BY <1>5 DEF BundleStep
    <2> QED BY <1>2, <2>1, ReadsCarry DEF Pack, ReleaseHold, HoldFor, DecideMove
  <1>6. CASE DispatchStep
    <2>1. PICK d \in Dispatches :
            \/ \E c \in Customers : OpenDispatch(d, c)
            \/ Reserve(d) \/ Unreserve(d) \/ CancelDispatch(d)
            \/ \E b \in Bundles : UnlinkItem(d, b) \/ \E o \in Orders : LinkItem(d, b, o)
            \/ \E n \in 1..MaxAsks, verdict \in {"approved", "rejected"} : DecideOverdraw(d, n, verdict)
            \/ \E q \in Slots :
                \/ \E b \in Bundles : ReadAdd(q, d, b) \/ ReadRemove(q, d, b)
                \/ \E c \in Customers : ReadRecustomer(q, d, c)
                \/ ReadComplete(q, d)
      BY <1>6 DEF DispatchStep
    <2>2. CASE \E q \in Slots :
                \/ \E b \in Bundles : ReadAdd(q, d, b) \/ ReadRemove(q, d, b)
                \/ \E c \in Customers : ReadRecustomer(q, d, c)
                \/ ReadComplete(q, d)
      BY <2>2, ReadsCarry
    <2> QED BY <1>2, <2>1, <2>2 DEF OpenDispatch, Reserve, Unreserve, CancelDispatch, UnlinkItem,
                                    LinkItem, DecideOverdraw
  <1>7. CASE BatchStep
    <2>1. PICK q \in Slots :
            \/ Drop(q) \/ BatchEdit(q) \/ BatchAdd(q) \/ BatchRemove(q) \/ BatchRecustomer(q)
            \/ Suggest(q) \/ Relink(q) \/ Measure(q) \/ BatchRefuse(q) \/ BatchComplete(q)
            \/ AbortComplete(q) \/ BatchMove(q) \/ BatchAsk(q)
      BY <1>7 DEF BatchStep
    <2>2. CASE Suggest(q) \/ Relink(q) \/ Measure(q) \/ AbortComplete(q)
      BY <2>2, CompletionCarries
    <2>3. CASE ~(Suggest(q) \/ Relink(q) \/ Measure(q) \/ AbortComplete(q))
      <3>1. Done(q)
        BY <2>1, <2>3 DEF Drop, BatchEdit, BatchAdd, BatchRemove, BatchRecustomer, BatchRefuse,
                          BatchComplete, BatchMove, BatchAsk
      <3> QED BY <1>1, <3>1, DoneCarries
    <2> QED BY <2>2, <2>3
  <1> QED BY <1>3, <1>4, <1>5, <1>6, <1>7 DEF Next

LEMMA OrderInvariant == Spec => []OrderInv
  <1>1. OrderInv /\ [Next]_vars => OrderInv'
    BY RequestStep, LinkStep, HoldStep DEF OrderInv
  <1> QED BY <1>1, OrderStarts, PTL DEF Spec

-----------------------------------------------------------------------------
(* For any orders, customers and requests in flight, an item is only linked to   *)
(* an order of its dispatch's customer (the guards of salesOrder.update,           *)
(* dispatch.update and the suggestions).                                           *)
THEOREM LinksStayTheCustomers == Spec => []LinksAreTheCustomers
  <1>1. OrderInv => LinksAreTheCustomers
    BY DEF OrderInv, LinkInv
  <1> QED BY <1>1, OrderInvariant, PTL

(* For any orders and bundles, whatever closes, is cancelled, held, moved or       *)
(* dispatched, a hold is for an open order and for the line the bundle is packed    *)
(* for.                                                                             *)
THEOREM HoldsStayForOpenOrders == Spec => []HoldsAreForOpenOrders
  <1>1. OrderInv => HoldsAreForOpenOrders
    BY DEF OrderInv, HoldInv
  <1> QED BY <1>1, OrderInvariant, PTL

(* What a dispatch step does to statuses, bundles and overdraw requests. *)
LEMMA DispatchStepTouches ==
    ASSUME DispatchStep
    PROVE  \/ \E d \in Dispatches : Reserve(d) \/ Unreserve(d) \/ CancelDispatch(d)
           \/ \E d \in Dispatches, c \in Customers : OpenDispatch(d, c)
           \/ \E d \in Dispatches, n \in 1..MaxAsks, verdict \in {"approved", "rejected"} :
                DecideOverdraw(d, n, verdict)
           \/ UNCHANGED <<dispatchStatus, dispatchCustomer, overdraws, bundleVars>>
  <1> DEFINE Still == UNCHANGED <<dispatchStatus, dispatchCustomer, overdraws, bundleVars>>
  <1>1. ASSUME NEW d \in Dispatches
        PROVE  /\ \A b : UnlinkItem(d, b) => Still
               /\ \A b, o : LinkItem(d, b, o) => Still
    BY DEF UnlinkItem, LinkItem
  <1>2. ASSUME NEW d \in Dispatches, NEW q \in Slots
        PROVE  /\ \A b : ReadAdd(q, d, b) => Still
               /\ \A b : ReadRemove(q, d, b) => Still
               /\ \A c : ReadRecustomer(q, d, c) => Still
               /\ ReadComplete(q, d) => Still
    BY DEF ReadAdd, ReadRemove, ReadRecustomer, ReadComplete, dispatchVars
  <1> HIDE DEF Still
  <1>3. \/ \E d \in Dispatches : Reserve(d) \/ Unreserve(d) \/ CancelDispatch(d)
        \/ \E d \in Dispatches, c \in Customers : OpenDispatch(d, c)
        \/ \E d \in Dispatches, n \in 1..MaxAsks, verdict \in {"approved", "rejected"} :
             DecideOverdraw(d, n, verdict)
        \/ Still
    BY <1>1, <1>2 DEF DispatchStep
  <1> QED BY <1>3 DEF Still

(* Only the last batch of a completion completes. *)
LEMMA OnlyLandingCompletes ==
    ASSUME OrderInv, Next, NEW d \in Dispatches, Completes(d)
    PROVE  \E q \in Slots : BatchComplete(q) /\ request[q].dispatch = d
  <1>1. LinkTypes /\ RequestsCarry
    BY DEF OrderInv, LinkInv
  <1>2. dispatchStatus[d] = "reserved" /\ dispatchStatus'[d] = "completed"
    BY DEF Completes
  <1>3. dispatchStatus' # dispatchStatus
    BY <1>2
  <1>4. ~OrderStep
    BY <1>3 DEF OrderStep, CreateOrder, Confirm, Close, CancelOrder, ReadEdit, dispatchVars
  <1>5. ~BundleStep
    BY <1>3 DEF BundleStep, Pack, ReleaseHold, HoldFor, ReadMove, DecideMove, dispatchVars
  <1>6. ~DispatchStep
    <2>1. \A e \in Dispatches : ~Reserve(e) /\ ~Unreserve(e) /\ ~CancelDispatch(e)
      BY <1>1, <1>2 DEF Reserve, Unreserve, CancelDispatch, LinkTypes
    <2>2. \A e \in Dispatches, c \in Customers : ~OpenDispatch(e, c)
      BY <1>1, <1>2 DEF OpenDispatch, LinkTypes
    <2>3. \A e, n, verdict : ~DecideOverdraw(e, n, verdict)
      BY <1>3 DEF DecideOverdraw
    <2> QED BY <1>3, <2>1, <2>2, <2>3, DispatchStepTouches
  <1>7. BatchStep
    BY <1>4, <1>5, <1>6 DEF Next
  <1>8. PICK q \in Slots :
            \/ Drop(q) \/ BatchEdit(q) \/ BatchAdd(q) \/ BatchRemove(q) \/ BatchRecustomer(q)
            \/ Suggest(q) \/ Relink(q) \/ Measure(q) \/ BatchRefuse(q) \/ BatchComplete(q)
            \/ AbortComplete(q) \/ BatchMove(q) \/ BatchAsk(q)
    BY <1>7 DEF BatchStep
  <1>9. BatchComplete(q)
    BY <1>3, <1>8 DEF Drop, BatchEdit, BatchAdd, BatchRemove, BatchRecustomer, Suggest, Relink, Measure,
                      BatchRefuse, AbortComplete, BatchMove, BatchAsk, dispatchVars
  <1>10. dispatchStatus' = [dispatchStatus EXCEPT ![request[q].dispatch] = "completed"]
    BY <1>9 DEF BatchComplete
  <1> QED BY <1>1, <1>2, <1>9, <1>10 DEF LinkTypes

(* Whatever is linked, unlinked, ordered or handed to another customer while a      *)
(* completion is under way, a listed bundle leaves for an order of the dispatch's     *)
(* customer if there is an open one, or the office took it off (complete's            *)
(* noUnlinkedWithOpenLine guard).                                                      *)
THEOREM KgAlwaysMeetsTheOrder == Spec => KgMeetsTheOrder
  <1>1. ASSUME OrderInv, [Next]_vars, NEW d \in Dispatches, NEW b \in items[d], Completes(d),
               bundleStatus'[b] = "dispatched", bundleStatus[b] = "reserved", holder[b] = d,
               OpenFor(dispatchCustomer[d]) # {}
        PROVE  \/ onLine'[b] \in {o \in Orders : orderCustomer[o] = dispatchCustomer[d]}
               \/ b \in unlinkedBy[d]
    <2>1. Next
      BY <1>1 DEF Completes, vars, dispatchVars
    <2>2. PICK q \in Slots : BatchComplete(q) /\ request[q].dispatch = d
      BY <1>1, <2>1, OnlyLandingCompletes
    <2>3. b \in Bundles
      BY <1>1 DEF OrderInv, LinkInv, LinkTypes
    <2>4. /\ bundleStatus' = [x \in Bundles |->
                IF x \in request[q].bundles \cap HeldHere(d) THEN "dispatched"
                ELSE IF x \in HeldHere(d) \ (request[q].bundles \cap HeldHere(d)) THEN "available"
                ELSE bundleStatus[x]]
          /\ onLine' = [x \in Bundles |->
                IF x \in request[q].bundles \cap HeldHere(d) THEN link[d][x] ELSE onLine[x]]
          /\ UnlinkedWithOpenLine(d) = {}
      BY <2>2 DEF BatchComplete, Landing
    <2>5. onLine'[b] = link[d][b]
      BY <1>1, <2>3, <2>4 DEF HeldHere
    <2>6. Loose(d) = {}
      BY <1>1, <2>4 DEF UnlinkedWithOpenLine
    <2>7. CASE link[d][b] = NoOrder
      BY <1>1, <2>6, <2>7 DEF Loose
    <2>8. CASE link[d][b] # NoOrder
      <3>1. link[d][b] \in Orders
        BY <1>1, <2>3, <2>8 DEF OrderInv, LinkInv, LinkTypes, Lines
      <3>2. orderCustomer[link[d][b]] = dispatchCustomer[d]
        BY <1>1, <2>3, <2>8 DEF OrderInv, LinkInv, LinksAreTheCustomers
      <3> QED BY <2>5, <3>1, <3>2
    <2> QED BY <2>7, <2>8
  <1>2. OrderInv /\ [Next]_vars =>
            [\A d \in Dispatches : \A b \in items[d] :
                (Completes(d) /\ bundleStatus'[b] = "dispatched" /\ bundleStatus[b] = "reserved"
                              /\ holder[b] = d /\ OpenFor(dispatchCustomer[d]) # {})
                    => \/ onLine'[b] \in {o \in Orders : orderCustomer[o] = dispatchCustomer[d]}
                       \/ b \in unlinkedBy[d]]_vars
    BY <1>1
  <1> QED BY <1>2, OrderInvariant, PTL DEF Spec, KgMeetsTheOrder

-----------------------------------------------------------------------------
(* Sums of kg.                                                                *)

Loads == Dispatches \X Bundles

loadWeight == [item \in Loads |-> Weight[item[2]]]

LEMMA LoadsAreFinite == IsFiniteSet(Loads)
  BY OrderAssumption, FS_Product DEF Loads

LEMMA KgAdds ==
    ASSUME NEW its \in SUBSET Loads
    PROVE  \E g : Adds(g, loadWeight, its) /\ Kg(its) = g[its]
  <1> DEFINE Sums(g) ==
        g = [s \in SUBSET its |->
                IF s = {} THEN 0
                ELSE Weight[(CHOOSE x \in s : TRUE)[2]] + g[s \ {CHOOSE x \in s : TRUE}]]
  <1>1. Kg(its) = (CHOOSE g : Sums(g))[its]
    BY DEF Kg, MapThenSumSet, MapThenFoldSet
  <1>2. \A s \in SUBSET its : s # {} =>
            Weight[(CHOOSE x \in s : TRUE)[2]] = loadWeight[CHOOSE x \in s : TRUE]
    <2> SUFFICES ASSUME NEW s \in SUBSET its, s # {}
                 PROVE  Weight[(CHOOSE x \in s : TRUE)[2]] = loadWeight[CHOOSE x \in s : TRUE]
      OBVIOUS
    <2> DEFINE y == CHOOSE x \in s : TRUE
    <2>1. y \in Loads
      OBVIOUS
    <2> HIDE DEF y
    <2>2. Weight[y[2]] = loadWeight[y]
      BY <2>1 DEF loadWeight
    <2> QED BY <2>2 DEF y
  <1>3. ASSUME NEW g
        PROVE  Sums(g) <=> Adds(g, loadWeight, its)
    <2> DEFINE Left1(s) == IF s = {} THEN 0
                           ELSE Weight[(CHOOSE x \in s : TRUE)[2]] + g[s \ {CHOOSE x \in s : TRUE}]
               Right1(s) == IF s = {} THEN 0 ELSE loadWeight[Picked(s)] + g[s \ {Picked(s)}]
    <2>1. \A s \in SUBSET its : Left1(s) = Right1(s)
      <3> SUFFICES ASSUME NEW s \in SUBSET its PROVE Left1(s) = Right1(s)
        OBVIOUS
      <3>1. CASE s = {}
        BY <3>1
      <3>2. CASE s # {}
        <4>1. Weight[(CHOOSE x \in s : TRUE)[2]] = loadWeight[Picked(s)]
          BY <1>2, <3>2 DEF Picked
        <4>2. Picked(s) = CHOOSE x \in s : TRUE
          BY DEF Picked
        <4> QED BY <3>2, <4>1, <4>2
      <3> QED BY <3>1, <3>2
    <2>2. Sums(g) <=> g = [s \in SUBSET its |-> Left1(s)]
      OBVIOUS
    <2>3. Adds(g, loadWeight, its) <=> g = [s \in SUBSET its |-> Right1(s)]
      BY DEF Adds
    <2> HIDE DEF Left1, Right1, Sums
    <2>4. [s \in SUBSET its |-> Left1(s)] = [s \in SUBSET its |-> Right1(s)]
      BY <2>1
    <2> QED BY <2>2, <2>3, <2>4
  <1>4. IsFiniteSet(its)
    BY LoadsAreFinite, FS_Subset
  <1>5. \E g : Adds(g, loadWeight, its)
    BY <1>4, AddsExists
  <1> HIDE DEF Sums
  <1>6. \E g : Sums(g)
    BY <1>3, <1>5
  <1>7. Sums(CHOOSE g : Sums(g))
    BY <1>6
  <1> QED BY <1>1, <1>3, <1>7

LEMMA KgIsNatural ==
    ASSUME NEW its \in SUBSET Loads
    PROVE  Kg(its) \in Nat
  <1>1. PICK g : Adds(g, loadWeight, its) /\ Kg(its) = g[its]
    BY KgAdds
  <1>2. \A x \in its : loadWeight[x] \in Nat
    BY OrderAssumption DEF Loads, loadWeight
  <1>3. IsFiniteSet(its)
    BY LoadsAreFinite, FS_Subset
  <1> QED BY <1>1, <1>2, <1>3, AddsNaturals

LEMMA KgIsMonotone ==
    ASSUME NEW more \in SUBSET Loads, NEW its \in SUBSET more
    PROVE  Kg(its) <= Kg(more)
  <1>1. PICK g : Adds(g, loadWeight, more) /\ Kg(more) = g[more]
    BY KgAdds
  <1>2. PICK h : Adds(h, loadWeight, its) /\ Kg(its) = h[its]
    BY KgAdds
  <1>3. \A x \in more : loadWeight[x] \in Nat
    BY OrderAssumption DEF Loads, loadWeight
  <1>4. IsFiniteSet(more) /\ IsFiniteSet(its)
    BY LoadsAreFinite, FS_Subset
  <1>5. g[its] = h[its]
    BY <1>1, <1>2, <1>4, AddsAgree
  <1>6. g[its] <= g[more]
    BY <1>1, <1>3, <1>4, AddsMonotone
  <1> QED BY <1>1, <1>2, <1>5, <1>6

-----------------------------------------------------------------------------
(* Types, the figures of orders and of requests included.                     *)

(* A dispatch has a customer from its row on. *)
DispatchesHaveCustomers ==
    \A d \in Dispatches : dispatchStatus[d] # "absent" => dispatchCustomer[d] \in Customers

FullInv == OrderInv /\ TypeOK /\ DispatchesHaveCustomers

LEMMA FullStarts == Init => FullInv
  <1> SUFFICES ASSUME Init PROVE FullInv
    OBVIOUS
  <1>1. TypeOK
    <2>1. Idle \in Requests
      BY DEF Requests
    <2> QED BY <2>1 DEF Init, TypeOK, Lines, NoMove
  <1>2. DispatchesHaveCustomers
    BY DEF Init, DispatchesHaveCustomers
  <1> QED BY <1>1, <1>2, OrderStarts DEF FullInv

LEMMA RequestFields ==
    ASSUME NEW r \in Requests
    PROVE  /\ r.op \in {"idle", "edit", "add", "remove", "recustomer", "suggest", "relink", "measure",
                        "land", "refuse", "move"}
           /\ r.op = "edit" => r.order \in Orders /\ r.kg \in Nat
           /\ r.op \in {"suggest", "relink", "measure", "land"} =>
                /\ r.dispatch \in Dispatches /\ r.customer \in Customers
                /\ r.bundles \in SUBSET Bundles
           /\ r.op \in {"suggest", "measure", "land"} => r.held \in SUBSET Bundles
           /\ r.op = "refuse" => r.dispatch \in Dispatches /\ r.lines \in Figures /\ r.prior \in Nat
  BY DEF Requests, Idle

LEMMA DispatchCustomersStep ==
    ASSUME FullInv, [Next]_vars
    PROVE  DispatchesHaveCustomers'
  <1>1. TypeOK /\ RequestsCarry /\ DispatchesHaveCustomers
    BY DEF FullInv, OrderInv
  <1>2. ASSUME UNCHANGED <<dispatchStatus, dispatchCustomer>>
        PROVE  DispatchesHaveCustomers'
    BY <1>1, <1>2 DEF DispatchesHaveCustomers
  <1>3. CASE UNCHANGED vars
    BY <1>2, <1>3 DEF vars, dispatchVars
  <1>4. CASE OrderStep
    BY <1>2, <1>4 DEF OrderStep, CreateOrder, Confirm, Close, CancelOrder, ReadEdit, dispatchVars
  <1>5. CASE BundleStep
    BY <1>2, <1>5 DEF BundleStep, Pack, ReleaseHold, HoldFor, ReadMove, DecideMove, dispatchVars
  <1>6. CASE DispatchStep
    <2>1. ASSUME NEW d \in Dispatches, NEW c \in Customers, OpenDispatch(d, c)
          PROVE  DispatchesHaveCustomers'
      BY <1>1, <2>1 DEF OpenDispatch, DispatchesHaveCustomers, TypeOK
    <2>2. ASSUME NEW d \in Dispatches, Reserve(d) \/ Unreserve(d) \/ CancelDispatch(d)
          PROVE  DispatchesHaveCustomers'
      <3>1. /\ dispatchStatus[d] # "absent" /\ UNCHANGED dispatchCustomer
            /\ \E s : dispatchStatus' = [dispatchStatus EXCEPT ![d] = s]
        BY <2>2 DEF Reserve, Unreserve, CancelDispatch, Editable
      <3> QED BY <1>1, <3>1 DEF DispatchesHaveCustomers, TypeOK
    <2>3. \A d, n, verdict : DecideOverdraw(d, n, verdict) => UNCHANGED <<dispatchStatus, dispatchCustomer>>
      BY DEF DecideOverdraw
    <2> QED BY <1>2, <1>6, <2>1, <2>2, <2>3, DispatchStepTouches
  <1>7. CASE BatchStep
    <2>1. PICK q \in Slots :
            \/ Drop(q) \/ BatchEdit(q) \/ BatchAdd(q) \/ BatchRemove(q) \/ BatchRecustomer(q)
            \/ Suggest(q) \/ Relink(q) \/ Measure(q) \/ BatchRefuse(q) \/ BatchComplete(q)
            \/ AbortComplete(q) \/ BatchMove(q) \/ BatchAsk(q)
      BY <1>7 DEF BatchStep
    <2>2. CASE BatchRecustomer(q)
      <3>1. PICK d, c : /\ d = request[q].dispatch /\ c = request[q].customer
                        /\ UNCHANGED dispatchStatus
                        /\ dispatchCustomer' = [dispatchCustomer EXCEPT ![d] = c]
        BY <2>2 DEF BatchRecustomer
      <3>2. d \in Dispatches /\ c \in Customers
        BY <1>1, <2>2, <3>1 DEF RequestsCarry, Carries, BatchRecustomer
      <3> QED BY <1>1, <3>1, <3>2 DEF DispatchesHaveCustomers, TypeOK
    <2>3. CASE BatchComplete(q)
      <3>1. PICK d : /\ d = request[q].dispatch /\ dispatchStatus[d] = "reserved"
                     /\ UNCHANGED dispatchCustomer
                     /\ dispatchStatus' = [dispatchStatus EXCEPT ![d] = "completed"]
        BY <2>3 DEF BatchComplete, Landing
      <3> QED BY <1>1, <3>1 DEF DispatchesHaveCustomers, TypeOK
    <2> QED BY <1>2, <2>1, <2>2, <2>3
            DEF Drop, BatchEdit, BatchAdd, BatchRemove, Suggest, Relink, Measure, BatchRefuse,
                AbortComplete, BatchMove, BatchAsk, dispatchVars
  <1> QED BY <1>3, <1>4, <1>5, <1>6, <1>7 DEF Next

(* What orders count, and what dispatches hold. *)
OwnTypes ==
    /\ orderKg \in [Orders -> Nat]
    /\ orderVersion \in [Orders -> Nat]
    /\ unlinkedBy \in [Dispatches -> SUBSET Bundles]
    /\ holder \in [Bundles -> Dispatches \cup {NoDispatch}]

LEMMA OwnTypesStep ==
    ASSUME FullInv, [Next]_vars
    PROVE  OwnTypes'
  <1>1. TypeOK /\ RequestsCarry /\ OwnTypes
    BY DEF FullInv, OrderInv, TypeOK, OwnTypes
  <1>2. ASSUME UNCHANGED <<orderKg, orderVersion, unlinkedBy, holder>>
        PROVE  OwnTypes'
    BY <1>1, <1>2 DEF OwnTypes
  <1>3. CASE UNCHANGED vars
    BY <1>2, <1>3 DEF vars, orderVars, dispatchVars, bundleVars
  <1>4. \A v \in Nat : Later(v) \in Nat
    BY OrderAssumption DEF Later
  <1>6. CASE OrderStep
    <2>1. PICK o \in Orders :
            \/ \E c \in Customers, kg \in Amounts : CreateOrder(o, c, kg)
            \/ Confirm(o) \/ Close(o) \/ CancelOrder(o)
            \/ \E q \in Slots, c \in Customers, kg \in Amounts : ReadEdit(q, o, kg, c)
      BY <1>6 DEF OrderStep
    <2>2. CASE \E c \in Customers, kg \in Amounts : CreateOrder(o, c, kg)
      BY <1>1, <2>2, OrderAssumption DEF CreateOrder, OwnTypes, dispatchVars, bundleVars
    <2>3. CASE Confirm(o) \/ Close(o) \/ CancelOrder(o)
      <3>1. /\ UNCHANGED <<orderKg, unlinkedBy, holder>>
            /\ orderVersion' = [orderVersion EXCEPT ![o] = Later(orderVersion[o])]
        BY <2>3 DEF Confirm, Close, CancelOrder, Touch, dispatchVars, bundleVars
      <3> QED BY <1>1, <1>4, <3>1 DEF OwnTypes
    <2>4. CASE \E q \in Slots, c \in Customers, kg \in Amounts : ReadEdit(q, o, kg, c)
      BY <1>2, <2>4 DEF ReadEdit, orderVars, dispatchVars, bundleVars
    <2> QED BY <2>1, <2>2, <2>3, <2>4
  <1>7. CASE BundleStep
    BY <1>2, <1>7 DEF BundleStep, Pack, ReleaseHold, HoldFor, ReadMove, DecideMove, orderVars,
                      dispatchVars, bundleVars
  <1>8. ASSUME NEW bs, holder' = [b \in Bundles |-> IF b \in bs THEN NoDispatch ELSE holder[b]]
        PROVE  holder' \in [Bundles -> Dispatches \cup {NoDispatch}]
    BY <1>1, <1>8 DEF OwnTypes
  <1>9. CASE DispatchStep
    <2>1. PICK d \in Dispatches :
            \/ \E c \in Customers : OpenDispatch(d, c)
            \/ Reserve(d) \/ Unreserve(d) \/ CancelDispatch(d)
            \/ \E b \in Bundles : UnlinkItem(d, b) \/ \E o \in Orders : LinkItem(d, b, o)
            \/ \E n \in 1..MaxAsks, verdict \in {"approved", "rejected"} : DecideOverdraw(d, n, verdict)
            \/ \E q \in Slots :
                \/ \E b \in Bundles : ReadAdd(q, d, b) \/ ReadRemove(q, d, b)
                \/ \E c \in Customers : ReadRecustomer(q, d, c)
                \/ ReadComplete(q, d)
      BY <1>9 DEF DispatchStep
    <2>2. CASE \E b \in Bundles : UnlinkItem(d, b) \/ \E o \in Orders : LinkItem(d, b, o)
      <3>1. PICK b \in Bundles : UnlinkItem(d, b) \/ \E o \in Orders : LinkItem(d, b, o)
        BY <2>2
      <3>2. /\ UNCHANGED <<orderKg, orderVersion, holder>>
            /\ \/ unlinkedBy' = [unlinkedBy EXCEPT ![d] = unlinkedBy[d] \cup {b}]
               \/ unlinkedBy' = [unlinkedBy EXCEPT ![d] = unlinkedBy[d] \ {b}]
               \/ UNCHANGED unlinkedBy
        BY <3>1 DEF UnlinkItem, LinkItem, orderVars, bundleVars
      <3>3. unlinkedBy[d] \in SUBSET Bundles
        BY <1>1 DEF OwnTypes
      <3>4. unlinkedBy' \in [Dispatches -> SUBSET Bundles]
        BY <1>1, <3>1, <3>2, <3>3 DEF OwnTypes
      <3> QED BY <1>1, <3>2, <3>4 DEF OwnTypes
    <2>3. CASE Reserve(d)
      BY <1>1, <2>3 DEF Reserve, OwnTypes, orderVars
    <2>4. CASE Unreserve(d) \/ CancelDispatch(d)
      <3>1. /\ UNCHANGED <<orderKg, orderVersion, unlinkedBy>>
            /\ holder' = [b \in Bundles |-> IF b \in HeldHere(d) THEN NoDispatch ELSE holder[b]]
        BY <2>4 DEF Unreserve, CancelDispatch, Freed, orderVars
      <3> QED BY <1>1, <1>8, <3>1 DEF OwnTypes
    <2> QED BY <1>2, <2>1, <2>2, <2>3, <2>4
            DEF OpenDispatch, DecideOverdraw, ReadAdd, ReadRemove, ReadRecustomer, ReadComplete,
                orderVars, dispatchVars, bundleVars
  <1>10. CASE BatchStep
    <2>1. PICK q \in Slots :
            \/ Drop(q) \/ BatchEdit(q) \/ BatchAdd(q) \/ BatchRemove(q) \/ BatchRecustomer(q)
            \/ Suggest(q) \/ Relink(q) \/ Measure(q) \/ BatchRefuse(q) \/ BatchComplete(q)
            \/ AbortComplete(q) \/ BatchMove(q) \/ BatchAsk(q)
      BY <1>10 DEF BatchStep
    <2>0. Carries(request[q]) /\ request[q] \in Requests
      BY <1>1 DEF RequestsCarry, TypeOK
    <2>2. CASE BatchEdit(q)
      <3>1. PICK o, kg : /\ o = request[q].order /\ kg = request[q].kg
                         /\ orderKg' = [orderKg EXCEPT ![o] = kg]
                         /\ orderVersion' = [orderVersion EXCEPT ![o] = Later(orderVersion[o])]
                         /\ UNCHANGED <<unlinkedBy, holder>>
        BY <2>2 DEF BatchEdit, Touch, dispatchVars, bundleVars
      <3>2. o \in Orders /\ kg \in Nat
        BY <2>0, <2>2, <3>1, RequestFields DEF BatchEdit
      <3> QED BY <1>1, <1>4, <3>1, <3>2 DEF OwnTypes
    <2>3. CASE BatchAdd(q)
      <3>1. /\ UNCHANGED <<orderKg, orderVersion, unlinkedBy>>
            /\ \/ UNCHANGED holder
               \/ holder' = [holder EXCEPT ![request[q].bundle] = request[q].dispatch]
        <4>1. holder' = [holder EXCEPT ![request[q].bundle] = holder[request[q].bundle]]
                \/ holder' = [holder EXCEPT ![request[q].bundle] = request[q].dispatch]
          BY <2>3 DEF BatchAdd
        <4>2. [holder EXCEPT ![request[q].bundle] = holder[request[q].bundle]] = holder
          BY <1>1 DEF OwnTypes
        <4> QED BY <2>3, <4>1, <4>2 DEF BatchAdd, orderVars
      <3>2. request[q].dispatch \in Dispatches
        BY <2>0, <2>3 DEF Carries, BatchAdd
      <3> QED BY <1>1, <3>1, <3>2 DEF OwnTypes
    <2>4. CASE BatchRemove(q)
      <3>1. PICK d, b : /\ UNCHANGED <<orderKg, orderVersion>>
                        /\ unlinkedBy' = [unlinkedBy EXCEPT ![d] = unlinkedBy[d] \ {b}]
        BY <2>4 DEF BatchRemove, orderVars
      <3>2. PICK bs : holder' = [x \in Bundles |-> IF x \in bs THEN NoDispatch ELSE holder[x]]
        BY <2>4 DEF BatchRemove, Freed
      <3>3. unlinkedBy' \in [Dispatches -> SUBSET Bundles]
        BY <1>1, <3>1 DEF OwnTypes
      <3> QED BY <1>1, <1>8, <3>1, <3>2, <3>3 DEF OwnTypes
    <2>5. CASE BatchRecustomer(q)
      BY <1>1, <2>5 DEF BatchRecustomer, OwnTypes, orderVars, bundleVars
    <2>6. CASE BatchComplete(q)
      <3>1. PICK d, late, met :
                /\ UNCHANGED orderKg
                /\ holder' = [b \in Bundles |-> IF b \in late THEN NoDispatch ELSE holder[b]]
                /\ unlinkedBy' = [unlinkedBy EXCEPT ![d] = unlinkedBy[d] \ late]
                /\ orderVersion' = [o \in Orders |-> IF o \in met THEN Later(orderVersion[o])
                                                     ELSE orderVersion[o]]
        BY <2>6 DEF BatchComplete
      <3>2. orderVersion' \in [Orders -> Nat]
        BY <1>1, <1>4, <3>1 DEF OwnTypes
      <3>3. unlinkedBy' \in [Dispatches -> SUBSET Bundles]
        BY <1>1, <3>1 DEF OwnTypes
      <3> QED BY <1>1, <1>8, <3>1, <3>2, <3>3 DEF OwnTypes
    <2> QED BY <1>2, <2>1, <2>2, <2>3, <2>4, <2>5, <2>6
            DEF Drop, Suggest, Relink, Measure, BatchRefuse, AbortComplete, BatchMove, BatchAsk, orderVars,
                dispatchVars, bundleVars
  <1> QED BY <1>3, <1>6, <1>7, <1>9, <1>10 DEF Next

-----------------------------------------------------------------------------
(* The requests for an overdraw.                                              *)

(* What AsksStand says of the requests of one dispatch. *)
Stands(asks, later) ==
    \A n \in DOMAIN asks :
        /\ n \in DOMAIN later
        /\ later[n].lines = asks[n].lines
        /\ asks[n].status # "pending" => later[n] = asks[n]

LEMMA SameLength ==
    ASSUME NEW E, NEW asks \in Seq(E), NEW f, f = [n \in DOMAIN asks |-> f[n]],
           \A n \in DOMAIN asks : f[n] \in E
    PROVE  f \in Seq(E) /\ DOMAIN f = DOMAIN asks
  <1>1. DOMAIN asks = 1..Len(asks) /\ Len(asks) \in Nat
    OBVIOUS
  <1>2. f \in [1..Len(asks) -> E]
    BY <1>1
  <1> QED BY <1>1, <1>2

LEMMA AppendStands ==
    ASSUME NEW asks \in Seq(Overdraws), NEW later \in Seq(Overdraws), NEW ask \in Overdraws,
           Stands(asks, later), DOMAIN later = DOMAIN asks
    PROVE  Append(later, ask) \in Seq(Overdraws) /\ Stands(asks, Append(later, ask))
  <1>1. \A E : \A q \in Seq(E), x \in E :
            /\ Append(q, x) \in Seq(E)
            /\ \A n \in DOMAIN q : n \in DOMAIN Append(q, x) /\ Append(q, x)[n] = q[n]
    OBVIOUS
  <1>2. /\ Append(later, ask) \in Seq(Overdraws)
        /\ \A n \in DOMAIN later :
                n \in DOMAIN Append(later, ask) /\ Append(later, ask)[n] = later[n]
    BY <1>1
  <1> QED BY <1>2 DEF Stands

LEMMA VerdictIsAsk ==
    ASSUME NEW ask \in Overdraws, NEW verdict \in {"approved", "rejected"}
    PROVE  /\ [ask EXCEPT !.status = verdict] \in Overdraws
           /\ [ask EXCEPT !.status = verdict].lines = ask.lines
  BY DEF Overdraws

LEMMA OverdrawsMove ==
    ASSUME FullInv, [Next]_vars
    PROVE  \/ UNCHANGED overdraws
           \/ \E d \in Dispatches, later \in Seq(Overdraws) :
                overdraws' = [overdraws EXCEPT ![d] = later] /\ Stands(overdraws[d], later)
  <1> DEFINE Moved == \E d \in Dispatches, later \in Seq(Overdraws) :
                overdraws' = [overdraws EXCEPT ![d] = later] /\ Stands(overdraws[d], later)
  <1>1. TypeOK /\ RequestsCarry
    BY DEF FullInv, OrderInv
  <1>0. \A d \in Dispatches : overdraws[d] \in Seq(Overdraws)
    BY <1>1 DEF TypeOK
  <1>3. ASSUME NEW d \in Dispatches, Withdraw(d)
        PROVE  Moved
    <2> DEFINE asks == overdraws[d]
               later == [n \in DOMAIN asks |->
                            IF asks[n].status = "pending"
                            THEN [asks[n] EXCEPT !.status = "rejected"] ELSE asks[n]]
    <2>1. \A n \in DOMAIN asks : asks[n] \in Overdraws
      BY <1>0
    <2>2. \A n \in DOMAIN asks : later[n] \in Overdraws /\ later[n].lines = asks[n].lines
      BY <2>1, VerdictIsAsk
    <2>3. later \in Seq(Overdraws) /\ DOMAIN later = DOMAIN asks
      <3>1. asks \in Seq(Overdraws)
        BY <1>0
      <3>2. later = [n \in DOMAIN asks |-> later[n]]
        OBVIOUS
      <3> HIDE DEF asks, later
      <3> QED BY <2>2, <3>1, <3>2, SameLength
    <2>4. \A n \in DOMAIN asks : asks[n].status # "pending" => later[n] = asks[n]
      OBVIOUS
    <2>5. Stands(asks, later)
      <3> HIDE DEF asks, later
      <3> QED BY <2>2, <2>3, <2>4 DEF Stands
    <2>6. overdraws' = [overdraws EXCEPT ![d] = later]
      BY <1>3 DEF Withdraw
    <2> HIDE DEF later
    <2> QED BY <2>3, <2>5, <2>6
  <1>4. ASSUME NEW d \in Dispatches, NEW n, NEW verdict \in {"approved", "rejected"},
               DecideOverdraw(d, n, verdict)
        PROVE  Moved
    <2> DEFINE asks == overdraws[d]
               later == [asks EXCEPT ![n] = [asks[n] EXCEPT !.status = verdict]]
    <2>1. n \in DOMAIN asks /\ asks[n].status = "pending"
      BY <1>4 DEF DecideOverdraw, PendingAsk
    <2>2. overdraws' = [overdraws EXCEPT ![d] = later]
      BY <1>4 DEF DecideOverdraw
    <2>3. asks \in Seq(Overdraws)
      BY <1>0
    <2> HIDE DEF asks
    <2>4. [asks[n] EXCEPT !.status = verdict] \in Overdraws
            /\ [asks[n] EXCEPT !.status = verdict].lines = asks[n].lines
      <3>1. asks[n] \in Overdraws
        BY <2>1, <2>3
      <3> QED BY <3>1, VerdictIsAsk
    <2>5. \A k \in DOMAIN asks : later[k] = IF k = n THEN [asks[n] EXCEPT !.status = verdict] ELSE asks[k]
      BY <2>1
    <2>6. later \in Seq(Overdraws) /\ DOMAIN later = DOMAIN asks
      <3>1. later = [k \in DOMAIN asks |-> later[k]] /\ \A k \in DOMAIN asks : later[k] \in Overdraws
        BY <2>3, <2>4
      <3> HIDE DEF later
      <3> QED BY <2>3, <3>1, SameLength
    <2>7. Stands(asks, later)
      <3> HIDE DEF later
      <3> QED BY <2>1, <2>4, <2>5, <2>6 DEF Stands
    <2> HIDE DEF later
    <2> QED BY <2>2, <2>6, <2>7 DEF asks
  <1>5. ASSUME NEW q \in Slots, BatchRefuse(q), ~UNCHANGED overdraws
        PROVE  Moved
    <2>1. PICK d, prior : d = request[q].dispatch /\ prior = request[q].prior
      OBVIOUS
    <2>2. d \in Dispatches /\ request[q].lines \in Figures
      BY <1>1, <1>5, <2>1, RequestFields DEF TypeOK, BatchRefuse
    <2> DEFINE asks == overdraws[d]
               later == [n \in DOMAIN asks |->
                            IF n = prior /\ asks[n].status = "pending"
                            THEN [asks[n] EXCEPT !.status = "rejected"] ELSE asks[n]]
               ask == [status |-> "pending", lines |-> request[q].lines]
    <2>3. overdraws' = [overdraws EXCEPT ![d] = Append(later, ask)]
      BY <1>5, <2>1 DEF BatchRefuse
    <2>4. ask \in Overdraws
      BY <2>2 DEF Overdraws
    <2>5. asks \in Seq(Overdraws)
      BY <1>0, <2>2
    <2>6. \A n \in DOMAIN asks : later[n] \in Overdraws /\ later[n].lines = asks[n].lines
      <3>1. \A n \in DOMAIN asks : asks[n] \in Overdraws
        BY <2>5
      <3> QED BY <3>1, VerdictIsAsk
    <2>7. \A n \in DOMAIN asks : asks[n].status # "pending" => later[n] = asks[n]
      OBVIOUS
    <2>8. later = [n \in DOMAIN asks |-> later[n]]
      OBVIOUS
    <2> HIDE DEF asks, later, ask
    <2>9. later \in Seq(Overdraws) /\ DOMAIN later = DOMAIN asks
      BY <2>5, <2>6, <2>8, SameLength
    <2>10. Stands(asks, later)
      BY <2>6, <2>7, <2>9 DEF Stands
    <2>11. Append(later, ask) \in Seq(Overdraws) /\ Stands(asks, Append(later, ask))
      BY <2>4, <2>5, <2>9, <2>10, AppendStands
    <2> QED BY <2>2, <2>3, <2>11 DEF asks
  <1> HIDE DEF Moved
  <1>6. CASE UNCHANGED vars
    BY <1>6 DEF vars, dispatchVars
  <1>7. CASE OrderStep
    BY <1>7 DEF OrderStep, CreateOrder, Confirm, Close, CancelOrder, ReadEdit, dispatchVars
  <1>8. CASE BundleStep
    BY <1>8 DEF BundleStep, Pack, ReleaseHold, HoldFor, ReadMove, DecideMove, dispatchVars
  <1>9. CASE DispatchStep
    <2>1. \A d \in Dispatches : CancelDispatch(d) => Moved
      BY <1>3 DEF CancelDispatch
    <2>2. \A d \in Dispatches, n \in 1..MaxAsks, verdict \in {"approved", "rejected"} :
            DecideOverdraw(d, n, verdict) => Moved
      BY <1>4
    <2>3. \A d \in Dispatches : Reserve(d) \/ Unreserve(d) => UNCHANGED overdraws
      BY DEF Reserve, Unreserve
    <2>4. \A d, c : OpenDispatch(d, c) => UNCHANGED overdraws
      BY DEF OpenDispatch
    <2> QED BY <1>9, <2>1, <2>2, <2>3, <2>4, DispatchStepTouches DEF Moved
  <1>10. CASE BatchStep
    <2>1. PICK q \in Slots :
            \/ Drop(q) \/ BatchEdit(q) \/ BatchAdd(q) \/ BatchRemove(q) \/ BatchRecustomer(q)
            \/ Suggest(q) \/ Relink(q) \/ Measure(q) \/ BatchRefuse(q) \/ BatchComplete(q)
            \/ AbortComplete(q) \/ BatchMove(q) \/ BatchAsk(q)
      BY <1>10 DEF BatchStep
    <2>2. BatchComplete(q) => Moved
      <3>1. BatchComplete(q) => request[q].dispatch \in Dispatches /\ Withdraw(request[q].dispatch)
        BY <1>1 DEF RequestsCarry, Carries, BatchComplete
      <3> QED BY <1>3, <3>1
    <2> QED BY <1>5, <2>1, <2>2
            DEF Moved, Drop, BatchEdit, BatchAdd, BatchRemove, BatchRecustomer, Suggest, Relink, Measure,
                AbortComplete, BatchMove, BatchAsk, dispatchVars
  <1> QED BY <1>6, <1>7, <1>8, <1>9, <1>10 DEF Next, Moved

-----------------------------------------------------------------------------
(* The requests in flight.                                                    *)

LEMMA RequestTypes ==
    /\ Idle \in Requests
    /\ \A o \in Orders, v \in Nat, s \in OrderStatuses, kg \in Nat, c \in Customers :
        [op |-> "edit", order |-> o, version |-> v, status |-> s, kg |-> kg, customer |-> c] \in Requests
    /\ \A d \in Dispatches, b \in Bundles, c \in Customers, pick \in Lines, hold \in BOOLEAN :
        [op |-> "add", dispatch |-> d, bundle |-> b, customer |-> c, pick |-> pick, hold |-> hold]
            \in Requests
    /\ \A d \in Dispatches, b \in Bundles, release \in BOOLEAN :
        [op |-> "remove", dispatch |-> d, bundle |-> b, release |-> release] \in Requests
    /\ \A d \in Dispatches, c \in Customers, picks \in [Bundles -> Lines] :
        [op |-> "recustomer", dispatch |-> d, customer |-> c, picks |-> picks] \in Requests
    /\ \A op \in {"suggest", "measure", "land"}, d \in Dispatches, c \in Customers,
          bs \in SUBSET Bundles, held \in SUBSET Bundles :
        [op |-> op, dispatch |-> d, customer |-> c, bundles |-> bs, held |-> held] \in Requests
    /\ \A d \in Dispatches, c \in Customers, bs \in SUBSET Bundles, picks \in [Bundles -> Lines] :
        [op |-> "relink", dispatch |-> d, customer |-> c, bundles |-> bs, picks |-> picks] \in Requests
    /\ \A d \in Dispatches, lines \in Figures, prior \in Nat :
        [op |-> "refuse", dispatch |-> d, lines |-> lines, prior |-> prior] \in Requests
    /\ \A b \in Bundles, from \in Lines, to \in Lines, approval \in BOOLEAN :
        [op |-> "move", bundle |-> b, from |-> from, to |-> to, approval |-> approval] \in Requests
  BY DEF Requests

RequestsTyped == request \in [Slots -> Requests]

LEMMA SlotTyped ==
    ASSUME RequestsTyped, NEW q \in Slots, NEW r \in Requests, request' = [request EXCEPT ![q] = r]
    PROVE  RequestsTyped'
  BY DEF RequestsTyped

LEMMA DoneTyped ==
    ASSUME RequestsTyped, NEW q \in Slots, Done(q)
    PROVE  RequestsTyped'
  BY RequestTypes, SlotTyped DEF Done

(* What a refusal asks for are figures of lines, and its prior request is one of *)
(* the dispatch's. *)
LEMMA RefusalTyped ==
    ASSUME FullInv, NEW q \in Slots, NEW d \in Dispatches, Refusal(q, d)
    PROVE  RequestsTyped'
  <1>1. TypeOK /\ RequestsTyped
    BY DEF FullInv, TypeOK, RequestsTyped
  <1>2. \A o \in Orders : Total(d, o) \in Nat
    <2> SUFFICES ASSUME NEW o \in Orders PROVE Total(d, o) \in Nat
      OBVIOUS
    <2> DEFINE its == {item \in (Completed \cup {d}) \X Bundles :
                        item[2] \in items[item[1]] /\ link[item[1]][item[2]] = o}
    <2>1. its \in SUBSET Loads
      BY DEF Completed, Loads
    <2> HIDE DEF its
    <2>2. Kg(its) \in Nat
      BY <2>1, KgIsNatural
    <2> QED BY <2>2 DEF its, Total, LinkedKg
  <1>3. OverFigures(d) \in Figures
    BY <1>1, <1>2 DEF OverFigures, Figures, TypeOK
  <1>4. Max(PendingAsk(d) \cup {0}) \in Nat
    <2>1. Len(overdraws[d]) \in Nat /\ DOMAIN overdraws[d] = 1..Len(overdraws[d])
      BY <1>1 DEF TypeOK
    <2>2. /\ PendingAsk(d) \cup {0} \in SUBSET Nat
          /\ \A k \in PendingAsk(d) \cup {0} : k <= Len(overdraws[d])
      BY <2>1 DEF PendingAsk
    <2>3. Max(PendingAsk(d) \cup {0}) \in PendingAsk(d) \cup {0}
      BY <2>1, <2>2, MaxOfBounded
    <2> QED BY <2>2, <2>3
  <1>5. [op |-> "refuse", dispatch |-> d, lines |-> OverFigures(d),
         prior |-> Max(PendingAsk(d) \cup {0})] \in Requests
    BY <1>3, <1>4, RequestTypes
  <1> QED BY <1>1, <1>5, SlotTyped DEF Refusal

LEMMA ReadsTyped ==
    ASSUME FullInv, NEW q \in Slots,
           \/ \E o \in Orders, c \in Customers, kg \in Amounts : ReadEdit(q, o, kg, c)
           \/ \E b \in Bundles, o \in Lines : ReadMove(q, b, o)
           \/ \E d \in Dispatches :
                \/ \E b \in Bundles : ReadAdd(q, d, b) \/ ReadRemove(q, d, b)
                \/ \E c \in Customers : ReadRecustomer(q, d, c)
                \/ ReadComplete(q, d)
    PROVE  RequestsTyped'
  <1>1. TypeOK /\ RequestsTyped /\ DispatchesHaveCustomers
    BY DEF FullInv, TypeOK, RequestsTyped
  <1>2. ASSUME NEW o \in Orders, NEW c \in Customers, NEW kg \in Amounts, ReadEdit(q, o, kg, c)
        PROVE  RequestsTyped'
    <2>1. kg \in Nat /\ orderVersion[o] \in Nat /\ orderStatus[o] \in OrderStatuses
      BY <1>1, <1>2, OrderAssumption DEF TypeOK, ReadEdit
    <2> DEFINE r == [op |-> "edit", order |-> o, version |-> orderVersion[o],
                     status |-> orderStatus[o], kg |-> kg, customer |-> c]
    <2>2. r \in Requests
      BY <2>1, RequestTypes
    <2>3. request' = [request EXCEPT ![q] = r]
      BY <1>2 DEF ReadEdit, Await
    <2> HIDE DEF r
    <2> QED BY <1>1, <2>2, <2>3, SlotTyped
  <1>3. ASSUME NEW b \in Bundles, NEW o \in Lines, ReadMove(q, b, o)
        PROVE  RequestsTyped'
    <2>1. onLine[b] \in Lines /\ NeedsApproval(b, o) \subseteq BOOLEAN
      BY <1>1 DEF TypeOK, NeedsApproval
    <2>2. PICK approval \in NeedsApproval(b, o) : request' = [request EXCEPT ![q] =
            [op |-> "move", bundle |-> b, from |-> onLine[b], to |-> o, approval |-> approval]]
      BY <1>3 DEF ReadMove, Await
    <2>3. [op |-> "move", bundle |-> b, from |-> onLine[b], to |-> o, approval |-> approval] \in Requests
      BY <2>1, RequestTypes
    <2> QED BY <1>1, <2>2, <2>3, SlotTyped
  <1>4. ASSUME NEW d \in Dispatches, NEW b \in Bundles, ReadAdd(q, d, b)
        PROVE  RequestsTyped'
    <2>1. PICK pick \in Suggested(OwnLine(b, dispatchCustomer[d]), dispatchCustomer[d]) :
            request' = [request EXCEPT ![q] =
                   [op |-> "add", dispatch |-> d, bundle |-> b, customer |-> dispatchCustomer[d],
                    pick |-> pick, hold |-> dispatchStatus[d] = "reserved"]]
      BY <1>4 DEF ReadAdd, Await
    <2>2. pick \in Lines
      BY <2>1 DEF Suggested, OpenFor, Lines
    <2>3. dispatchCustomer[d] \in Customers
      BY <1>1, <1>4 DEF ReadAdd, Editable, DispatchesHaveCustomers
    <2>4. (dispatchStatus[d] = "reserved") \in BOOLEAN
      OBVIOUS
    <2>5. [op |-> "add", dispatch |-> d, bundle |-> b, customer |-> dispatchCustomer[d],
           pick |-> pick, hold |-> dispatchStatus[d] = "reserved"] \in Requests
      BY <2>2, <2>3, <2>4, RequestTypes
    <2> QED BY <1>1, <2>1, <2>5, SlotTyped
  <1>5. ASSUME NEW d \in Dispatches, NEW b \in Bundles, ReadRemove(q, d, b)
        PROVE  RequestsTyped'
    <2>1. request' = [request EXCEPT ![q] = [op |-> "remove", dispatch |-> d, bundle |-> b,
                release |-> dispatchStatus[d] = "reserved" /\ b \in HeldHere(d)]]
      BY <1>5 DEF ReadRemove, Await
    <2>2. (dispatchStatus[d] = "reserved" /\ b \in HeldHere(d)) \in BOOLEAN
      OBVIOUS
    <2>3. [op |-> "remove", dispatch |-> d, bundle |-> b,
           release |-> dispatchStatus[d] = "reserved" /\ b \in HeldHere(d)] \in Requests
      BY <2>2, RequestTypes
    <2> QED BY <1>1, <2>1, <2>3, SlotTyped
  <1>6. ASSUME NEW d \in Dispatches, NEW c \in Customers, ReadRecustomer(q, d, c)
        PROVE  RequestsTyped'
    <2>1. PICK picks \in [Bundles -> Lines] :
            request' = [request EXCEPT ![q] =
                [op |-> "recustomer", dispatch |-> d, customer |-> c, picks |-> picks]]
      BY <1>6 DEF ReadRecustomer, Await
    <2>2. [op |-> "recustomer", dispatch |-> d, customer |-> c, picks |-> picks] \in Requests
      BY RequestTypes
    <2> QED BY <1>1, <2>1, <2>2, SlotTyped
  <1>7. ASSUME NEW d \in Dispatches, ReadComplete(q, d)
        PROVE  RequestsTyped'
    <2>1. request' = [request EXCEPT ![q] = [op |-> "suggest", dispatch |-> d,
                customer |-> dispatchCustomer[d], bundles |-> items[d], held |-> {}]]
      BY <1>7 DEF ReadComplete, Await
    <2>2. dispatchCustomer[d] \in Customers /\ items[d] \in SUBSET Bundles
      BY <1>1, <1>7 DEF ReadComplete, DispatchesHaveCustomers, TypeOK
    <2>3. [op |-> "suggest", dispatch |-> d, customer |-> dispatchCustomer[d],
           bundles |-> items[d], held |-> {}] \in Requests
      BY <2>2, RequestTypes
    <2> QED BY <1>1, <2>1, <2>3, SlotTyped
  <1> QED BY <1>2, <1>3, <1>4, <1>5, <1>6, <1>7

LEMMA CompletionTyped ==
    ASSUME FullInv, NEW q \in Slots, Suggest(q) \/ Relink(q) \/ Measure(q) \/ AbortComplete(q)
    PROVE  RequestsTyped'
  <1>1. RequestsTyped /\ request[q] \in Requests
    BY DEF FullInv, TypeOK, RequestsTyped
  <1>2. request[q].op \in {"suggest", "relink", "measure", "land"}
    BY DEF Suggest, Relink, Measure, AbortComplete
  <1>3. /\ request[q].dispatch \in Dispatches /\ request[q].customer \in Customers
        /\ request[q].bundles \in SUBSET Bundles
    BY <1>1, <1>2, RequestFields
  <1>4. ASSUME NEW op \in {"measure", "land"}, NEW held \in SUBSET Bundles,
               request' = [request EXCEPT ![q] = Completion(op, q, held)]
        PROVE  RequestsTyped'
    <2>1. Completion(op, q, held) \in Requests
      BY <1>3, RequestTypes DEF Completion
    <2> QED BY <1>1, <1>4, <2>1, SlotTyped
  <1>5. ASSUME request' = [request EXCEPT ![q] = Completion("measure", q, {})]
        PROVE  RequestsTyped'
    <2>1. PICK none \in SUBSET Bundles : none = {}
      OBVIOUS
    <2>2. request' = [request EXCEPT ![q] = Completion("measure", q, none)]
      BY <1>5, <2>1
    <2> QED BY <1>4, <2>2
  <1>6. CASE Relink(q)
    BY <1>6, <1>5 DEF Relink
  <1>7. CASE Suggest(q)
    <2>1. PICK picks \in [Bundles -> Lines] :
            \/ request' = [request EXCEPT ![q] = Completion("measure", q, {})]
            \/ request' = [request EXCEPT ![q] =
                    [op |-> "relink", dispatch |-> request[q].dispatch, customer |-> request[q].customer,
                     bundles |-> request[q].bundles, picks |-> picks]]
      BY <1>7 DEF Suggest
    <2>2. [op |-> "relink", dispatch |-> request[q].dispatch, customer |-> request[q].customer,
           bundles |-> request[q].bundles, picks |-> picks] \in Requests
      BY <1>3, RequestTypes
    <2> QED BY <1>1, <1>5, <2>1, <2>2, SlotTyped
  <1>8. CASE Measure(q)
    <2> DEFINE held == {b \in request[q].bundles : heldFor[b] # NoOrder}
    <2>1. held \in SUBSET Bundles
      BY <1>3
    <2>2. \/ Refusal(q, request[q].dispatch)
          \/ request' = [request EXCEPT ![q] = Completion("land", q, held)]
      BY <1>8 DEF Measure
    <2>3. CASE Refusal(q, request[q].dispatch)
      BY <1>3, <2>3, RefusalTyped
    <2>4. CASE request' = [request EXCEPT ![q] = Completion("land", q, held)]
      <3> HIDE DEF held
      <3> QED BY <1>4, <2>1, <2>4
    <2> QED BY <2>2, <2>3, <2>4
  <1>9. CASE AbortComplete(q)
    BY <1>1, <1>3, <1>9, RefusalTyped, DoneTyped DEF AbortComplete
  <1> QED BY <1>6, <1>8, <1>9, <1>7

LEMMA RequestTypesStep ==
    ASSUME FullInv, [Next]_vars
    PROVE  RequestsTyped'
  <1>1. RequestsTyped
    BY DEF FullInv, TypeOK, RequestsTyped
  <1>2. ASSUME UNCHANGED request
        PROVE  RequestsTyped'
    BY <1>1, <1>2 DEF RequestsTyped
  <1>3. CASE UNCHANGED vars
    BY <1>2, <1>3 DEF vars
  <1>4. CASE OrderStep
    <2>1. PICK o \in Orders :
            \/ \E c \in Customers, kg \in Amounts : CreateOrder(o, c, kg)
            \/ Confirm(o) \/ Close(o) \/ CancelOrder(o)
            \/ \E q \in Slots, c \in Customers, kg \in Amounts : ReadEdit(q, o, kg, c)
      BY <1>4 DEF OrderStep
    <2> QED BY <1>2, <2>1, ReadsTyped DEF CreateOrder, Confirm, Close, CancelOrder
  <1>5. CASE BundleStep
    <2>1. PICK b \in Bundles :
            \/ \E o \in Lines : Pack(b, o)
            \/ ReleaseHold(b)
            \/ \E o \in Orders : HoldFor(b, o)
            \/ \E verdict \in {"approved", "rejected"} : DecideMove(b, verdict)
            \/ \E q \in Slots, o \in Lines : ReadMove(q, b, o)
      BY <1>5 DEF BundleStep
    <2> QED BY <1>2, <2>1, ReadsTyped DEF Pack, ReleaseHold, HoldFor, DecideMove
  <1>6. CASE DispatchStep
    <2>1. PICK d \in Dispatches :
            \/ \E c \in Customers : OpenDispatch(d, c)
            \/ Reserve(d) \/ Unreserve(d) \/ CancelDispatch(d)
            \/ \E b \in Bundles : UnlinkItem(d, b) \/ \E o \in Orders : LinkItem(d, b, o)
            \/ \E n \in 1..MaxAsks, verdict \in {"approved", "rejected"} : DecideOverdraw(d, n, verdict)
            \/ \E q \in Slots :
                \/ \E b \in Bundles : ReadAdd(q, d, b) \/ ReadRemove(q, d, b)
                \/ \E c \in Customers : ReadRecustomer(q, d, c)
                \/ ReadComplete(q, d)
      BY <1>6 DEF DispatchStep
    <2>2. CASE \E q \in Slots :
                \/ \E b \in Bundles : ReadAdd(q, d, b) \/ ReadRemove(q, d, b)
                \/ \E c \in Customers : ReadRecustomer(q, d, c)
                \/ ReadComplete(q, d)
      BY <2>2, ReadsTyped
    <2> QED BY <1>2, <2>1, <2>2 DEF OpenDispatch, Reserve, Unreserve, CancelDispatch, UnlinkItem,
                                    LinkItem, DecideOverdraw
  <1>7. CASE BatchStep
    <2>1. PICK q \in Slots :
            \/ Drop(q) \/ BatchEdit(q) \/ BatchAdd(q) \/ BatchRemove(q) \/ BatchRecustomer(q)
            \/ Suggest(q) \/ Relink(q) \/ Measure(q) \/ BatchRefuse(q) \/ BatchComplete(q)
            \/ AbortComplete(q) \/ BatchMove(q) \/ BatchAsk(q)
      BY <1>7 DEF BatchStep
    <2>2. CASE Suggest(q) \/ Relink(q) \/ Measure(q) \/ AbortComplete(q)
      BY <2>2, CompletionTyped
    <2>3. CASE ~(Suggest(q) \/ Relink(q) \/ Measure(q) \/ AbortComplete(q))
      <3>1. Done(q)
        BY <2>1, <2>3 DEF Drop, BatchEdit, BatchAdd, BatchRemove, BatchRecustomer, BatchRefuse,
                          BatchComplete, BatchMove, BatchAsk
      <3> QED BY <1>1, <3>1, DoneTyped
    <2> QED BY <2>2, <2>3
  <1> QED BY <1>3, <1>4, <1>5, <1>6, <1>7 DEF Next

LEMMA FullInvariant == Spec => []FullInv
  <1>1. ASSUME FullInv, [Next]_vars
        PROVE  FullInv'
    <2>1. OrderInv'
      <3>1. OrderInv
        BY <1>1 DEF FullInv
      <3> QED BY <1>1, <3>1, RequestStep, LinkStep, HoldStep DEF OrderInv
    <2>2. overdraws' \in [Dispatches -> Seq(Overdraws)]
      <3>1. overdraws \in [Dispatches -> Seq(Overdraws)]
        BY <1>1 DEF FullInv, TypeOK
      <3> QED BY <1>1, <3>1, OverdrawsMove
    <2>3. TypeOK'
      <3>1. LinkTypes' /\ HoldTypes'
        BY <2>1 DEF OrderInv, LinkInv, HoldInv
      <3>2. OwnTypes' /\ RequestsTyped'
        BY <1>1, OwnTypesStep, RequestTypesStep
      <3> QED BY <2>2, <3>1, <3>2 DEF TypeOK, LinkTypes, HoldTypes, OwnTypes, RequestsTyped
    <2> QED BY <1>1, <2>1, <2>3, DispatchCustomersStep DEF FullInv
  <1> QED BY <1>1, FullStarts, PTL DEF Spec

-----------------------------------------------------------------------------
(* For any orders, bundles, weights and requests in flight, every field keeps its *)
(* type: the figures of an overdraw request, the prior request it names and what   *)
(* a request carries to its batch included.                                         *)
THEOREM OrderTypeCorrect == Spec => []TypeOK
  <1>1. FullInv => TypeOK
    BY DEF FullInv
  <1> QED BY <1>1, FullInvariant, PTL

(* However many completions are refused, requests decided and dispatches cancelled  *)
(* meanwhile, what an overdraw request names is never rewritten and its decision     *)
(* never taken back (refuseOverdraw, withdrawOverdrawRequests, approval.decide).      *)
THEOREM AsksAlwaysStand == Spec => AsksStand
  <1>1. ASSUME FullInv, [Next]_vars, NEW d \in Dispatches
        PROVE  Stands(overdraws[d], overdraws'[d])
    <2>1. Stands(overdraws[d], overdraws[d])
      BY DEF Stands
    <2>2. TypeOK
      BY <1>1 DEF FullInv
    <2>3. CASE UNCHANGED overdraws
      BY <2>1, <2>3
    <2>4. CASE ~UNCHANGED overdraws
      <3>1. PICK k \in Dispatches, later \in Seq(Overdraws) :
                overdraws' = [overdraws EXCEPT ![k] = later] /\ Stands(overdraws[k], later)
        BY <1>1, <2>4, OverdrawsMove
      <3>2. overdraws'[d] = IF d = k THEN later ELSE overdraws[d]
        BY <2>2, <3>1 DEF TypeOK
      <3> QED BY <2>1, <3>1, <3>2
    <2> QED BY <2>3, <2>4
  <1>2. FullInv /\ [Next]_vars =>
            [\A d \in Dispatches : \A n \in DOMAIN overdraws[d] :
                /\ n \in DOMAIN overdraws'[d]
                /\ overdraws'[d][n].lines = overdraws[d][n].lines
                /\ overdraws[d][n].status # "pending" => overdraws'[d][n] = overdraws[d][n]]_vars
    BY <1>1 DEF Stands
  <1> QED BY <1>2, FullInvariant, PTL DEF Spec, AsksStand

-----------------------------------------------------------------------------
(* What has left, and the items it left by.                                    *)

(* What has left has left with a completed dispatch. *)
LeftWithCompleted ==
    \A b \in Bundles :
        bundleStatus[b] = "dispatched" =>
            holder[b] \in Dispatches /\ dispatchStatus[holder[b]] = "completed"

LEMMA DepartedStay ==
    ASSUME FullInv, [Next]_vars, NEW b \in Bundles, bundleStatus[b] = "dispatched"
    PROVE  bundleStatus'[b] = "dispatched" /\ holder'[b] = holder[b] /\ onLine'[b] = onLine[b]
  <1> DEFINE Stays == bundleStatus'[b] = "dispatched" /\ holder'[b] = holder[b] /\ onLine'[b] = onLine[b]
  <1>1. /\ TypeOK /\ RequestsCarry
        /\ bundleStatus \in [Bundles -> {"absent", "available", "reserved", "dispatched"}]
        /\ holder \in [Bundles -> Dispatches \cup {NoDispatch}]
        /\ onLine \in [Bundles -> Lines]
    BY DEF FullInv, OrderInv, TypeOK
  <1>2. UNCHANGED <<bundleStatus, holder, onLine>> => Stays
    OBVIOUS
  <1>3. CASE UNCHANGED vars
    BY <1>2, <1>3 DEF vars, bundleVars
  <1>4. CASE OrderStep
    BY <1>2, <1>4 DEF OrderStep, CreateOrder, Confirm, Close, CancelOrder, ReadEdit, bundleVars
  <1>5. CASE BundleStep
    <2>1. PICK x \in Bundles :
            \/ \E o \in Lines : Pack(x, o)
            \/ ReleaseHold(x)
            \/ \E o \in Orders : HoldFor(x, o)
            \/ \E verdict \in {"approved", "rejected"} : DecideMove(x, verdict)
            \/ \E q \in Slots, o \in Lines : ReadMove(q, x, o)
      BY <1>5 DEF BundleStep
    <2>2. CASE \E o \in Lines : Pack(x, o)
      BY <1>1, <2>2 DEF Pack
    <2>3. CASE \E verdict \in {"approved", "rejected"} : DecideMove(x, verdict)
      <3>1. /\ UNCHANGED <<bundleStatus, holder>>
            /\ \E o : onLine' = [onLine EXCEPT ![x] = o] /\ (bundleStatus[x] # "available" => o = onLine[x])
        BY <2>3 DEF DecideMove
      <3> QED BY <1>1, <3>1
    <2> QED BY <1>2, <2>1, <2>2, <2>3 DEF ReleaseHold, HoldFor, ReadMove, bundleVars
  <1>6. ASSUME NEW d, Freed(HeldHere(d)), UNCHANGED onLine
        PROVE  Stays
    BY <1>1, <1>6 DEF Freed, HeldHere
  <1>7. CASE DispatchStep
    <2>1. PICK d \in Dispatches :
            \/ \E c \in Customers : OpenDispatch(d, c)
            \/ Reserve(d) \/ Unreserve(d) \/ CancelDispatch(d)
            \/ \E x \in Bundles : UnlinkItem(d, x) \/ \E o \in Orders : LinkItem(d, x, o)
            \/ \E n \in 1..MaxAsks, verdict \in {"approved", "rejected"} : DecideOverdraw(d, n, verdict)
            \/ \E q \in Slots :
                \/ \E x \in Bundles : ReadAdd(q, d, x) \/ ReadRemove(q, d, x)
                \/ \E c \in Customers : ReadRecustomer(q, d, c)
                \/ ReadComplete(q, d)
      BY <1>7 DEF DispatchStep
    <2>2. CASE Reserve(d)
      <3>1. b \notin items[d]
        BY <2>2 DEF Reserve
      <3> QED BY <1>1, <2>2, <3>1 DEF Reserve
    <2>3. CASE Unreserve(d) \/ CancelDispatch(d)
      BY <1>6, <2>3 DEF Unreserve, CancelDispatch
    <2> QED BY <1>2, <2>1, <2>2, <2>3
            DEF OpenDispatch, UnlinkItem, LinkItem, DecideOverdraw, ReadAdd, ReadRemove,
                ReadRecustomer, ReadComplete, bundleVars
  <1>8. CASE BatchStep
    <2>1. PICK q \in Slots :
            \/ Drop(q) \/ BatchEdit(q) \/ BatchAdd(q) \/ BatchRemove(q) \/ BatchRecustomer(q)
            \/ Suggest(q) \/ Relink(q) \/ Measure(q) \/ BatchRefuse(q) \/ BatchComplete(q)
            \/ AbortComplete(q) \/ BatchMove(q) \/ BatchAsk(q)
      BY <1>8 DEF BatchStep
    <2>2. CASE BatchAdd(q)
      <3>1. PICK x, d, s :
              /\ bundleStatus' = [bundleStatus EXCEPT ![x] = s]
              /\ \/ /\ bundleStatus[x] = "available"
                    /\ holder' = [holder EXCEPT ![x] = d]
                 \/ /\ s = bundleStatus[x]
                    /\ holder' = [holder EXCEPT ![x] = holder[x]]
              /\ UNCHANGED onLine
        BY <2>2 DEF BatchAdd
      <3> QED BY <1>1, <3>1
    <2>3. CASE BatchRemove(q)
      BY <1>1, <2>3 DEF BatchRemove, Freed, HeldHere
    <2>4. CASE BatchComplete(q)
      <3>1. PICK d, leaving, late, links :
              /\ leaving \subseteq HeldHere(d) /\ late \subseteq HeldHere(d)
              /\ bundleStatus' = [x \in Bundles |-> IF x \in leaving THEN "dispatched"
                                                    ELSE IF x \in late THEN "available" ELSE bundleStatus[x]]
              /\ holder' = [x \in Bundles |-> IF x \in late THEN NoDispatch ELSE holder[x]]
              /\ onLine' = [x \in Bundles |-> IF x \in leaving THEN links[x] ELSE onLine[x]]
        <4> DEFINE d == request[q].dispatch
                   leaving == request[q].bundles \cap HeldHere(d)
                   late == HeldHere(d) \ leaving
        <4>1. leaving \subseteq HeldHere(d) /\ late \subseteq HeldHere(d)
          OBVIOUS
        <4>2. /\ bundleStatus' = [x \in Bundles |-> IF x \in leaving THEN "dispatched"
                                                    ELSE IF x \in late THEN "available" ELSE bundleStatus[x]]
              /\ holder' = [x \in Bundles |-> IF x \in late THEN NoDispatch ELSE holder[x]]
              /\ onLine' = [x \in Bundles |-> IF x \in leaving THEN link[d][x] ELSE onLine[x]]
          BY <2>4 DEF BatchComplete
        <4> HIDE DEF leaving, late, d
        <4> QED BY <4>1, <4>2
      <3>2. b \notin leaving /\ b \notin late
        BY <3>1 DEF HeldHere
      <3> QED BY <3>1, <3>2
    <2>5. CASE BatchMove(q)
      <3>1. /\ UNCHANGED <<bundleStatus, holder>>
            /\ \E x, o : onLine' = [onLine EXCEPT ![x] = o] /\ bundleStatus[x] = "available"
        BY <2>5 DEF BatchMove
      <3> QED BY <1>1, <3>1
    <2> QED BY <1>2, <2>1, <2>2, <2>3, <2>4, <2>5
            DEF Drop, BatchEdit, BatchRecustomer, Suggest, Relink, Measure, BatchRefuse, AbortComplete,
                BatchAsk, bundleVars
  <1> QED BY <1>3, <1>4, <1>5, <1>7, <1>8 DEF Next

LEMMA CompletedStay ==
    ASSUME FullInv, [Next]_vars, NEW k \in Dispatches, dispatchStatus[k] = "completed"
    PROVE  /\ dispatchStatus'[k] = "completed"
           /\ \A b \in items[k] \cap items'[k] :
                link'[k][b] = link[k][b] \/ ~Open(link[k][b])
  <1> DEFINE Same == dispatchStatus'[k] = "completed" /\ items'[k] = items[k] /\ link'[k] = link[k]
  <1>1. /\ TypeOK /\ RequestsCarry
        /\ dispatchStatus \in [Dispatches -> DispatchStatuses \cup {"absent"}]
        /\ items \in [Dispatches -> SUBSET Bundles]
        /\ link \in [Dispatches -> [Bundles -> Lines]]
    BY DEF FullInv, OrderInv, TypeOK
  <1>2. SUFFICES Same \/ \E q \in Slots : BatchAdd(q) \/ BatchRemove(q) \/ Relink(q)
    <2>1. ASSUME NEW q \in Slots, BatchAdd(q)
          PROVE  /\ dispatchStatus'[k] = "completed"
                 /\ \A b \in items[k] \cap items'[k] : link'[k][b] = link[k][b]
      <3>1. PICK d \in Dispatches, b \in Bundles :
              /\ b \notin items[d]
              /\ \E o : link' = [link EXCEPT ![d][b] = o]
              /\ UNCHANGED dispatchStatus
        BY <1>1, <2>1 DEF BatchAdd, RequestsCarry, Carries
      <3>2. \A x \in items[k] : link'[k][x] = link[k][x]
        BY <1>1, <3>1
      <3> QED BY <3>1, <3>2
    <2>2. ASSUME NEW q \in Slots, BatchRemove(q)
          PROVE  /\ dispatchStatus'[k] = "completed"
                 /\ \A b \in items[k] \cap items'[k] : link'[k][b] = link[k][b]
      <3>1. PICK d \in Dispatches, b \in Bundles :
              /\ items' = [items EXCEPT ![d] = items[d] \ {b}]
              /\ link' = [link EXCEPT ![d][b] = NoOrder]
              /\ UNCHANGED dispatchStatus
        BY <1>1, <2>2 DEF BatchRemove, RequestsCarry, Carries
      <3>2. \A x \in items[k] \cap items'[k] : link'[k][x] = link[k][x]
        BY <1>1, <3>1
      <3> QED BY <3>1, <3>2
    <2>3. ASSUME NEW q \in Slots, Relink(q)
          PROVE  /\ dispatchStatus'[k] = "completed"
                 /\ \A b \in items[k] \cap items'[k] : link'[k][b] = link[k][b] \/ ~Open(link[k][b])
      <3>1. PICK d \in Dispatches, links \in [Bundles -> Lines] : Relinked(d, links)
        BY <2>3, RelinkOutcome DEF FullInv
      <3>2. UNCHANGED dispatchStatus /\ link' = [link EXCEPT ![d] = links]
        BY <3>1 DEF Relinked
      <3>3. CASE d # k
        BY <1>1, <3>2, <3>3
      <3>4. CASE d = k
        <4>1. ASSUME NEW b \in Bundles, links[b] # link[k][b]
              PROVE  ~Open(link[k][b])
          <5>1. links[b] = NoOrder /\ link[k][b] \notin OpenFor(dispatchCustomer[k])
            BY <3>1, <3>4, <4>1 DEF Relinked, Editable
          <5>2. orderCustomer[link[k][b]] = dispatchCustomer[k]
            BY <4>1, <5>1 DEF FullInv, OrderInv, LinkInv, LinksAreTheCustomers
          <5> QED BY <5>1, <5>2 DEF OpenFor, Open
        <4>2. items[k] \subseteq Bundles /\ link'[k] = links
          BY <1>1, <3>2, <3>4
        <4> QED BY <3>2, <4>1, <4>2
      <3> QED BY <3>3, <3>4
    <2> QED BY <2>1, <2>2, <2>3
  <1>3. UNCHANGED <<dispatchStatus, items, link>> => Same
    OBVIOUS
  <1>4. CASE UNCHANGED vars
    BY <1>3, <1>4 DEF vars, dispatchVars
  <1>5. CASE OrderStep
    BY <1>3, <1>5 DEF OrderStep, CreateOrder, Confirm, Close, CancelOrder, ReadEdit, dispatchVars
  <1>6. CASE BundleStep
    BY <1>3, <1>6 DEF BundleStep, Pack, ReleaseHold, HoldFor, ReadMove, DecideMove, dispatchVars
  <1>7. ASSUME NEW d \in Dispatches, d # k,
               \/ UNCHANGED dispatchStatus
               \/ \E s : dispatchStatus' = [dispatchStatus EXCEPT ![d] = s],
               UNCHANGED items \/ \E its : items' = [items EXCEPT ![d] = its],
               UNCHANGED link \/ \E links : link' = [link EXCEPT ![d] = links]
        PROVE  Same
    BY <1>1, <1>7
  <1>8. CASE DispatchStep
    <2>1. PICK d \in Dispatches :
            \/ \E c \in Customers : OpenDispatch(d, c)
            \/ Reserve(d) \/ Unreserve(d) \/ CancelDispatch(d)
            \/ \E x \in Bundles : UnlinkItem(d, x) \/ \E o \in Orders : LinkItem(d, x, o)
            \/ \E n \in 1..MaxAsks, verdict \in {"approved", "rejected"} : DecideOverdraw(d, n, verdict)
            \/ \E q \in Slots :
                \/ \E x \in Bundles : ReadAdd(q, d, x) \/ ReadRemove(q, d, x)
                \/ \E c \in Customers : ReadRecustomer(q, d, c)
                \/ ReadComplete(q, d)
      BY <1>8 DEF DispatchStep
    <2>2. CASE \/ \E c \in Customers : OpenDispatch(d, c)
               \/ Reserve(d) \/ Unreserve(d) \/ CancelDispatch(d)
      <3>1. /\ d # k /\ UNCHANGED <<items, link>>
            /\ \E s : dispatchStatus' = [dispatchStatus EXCEPT ![d] = s]
        BY <2>2 DEF OpenDispatch, Reserve, Unreserve, CancelDispatch, Editable
      <3> QED BY <1>7, <3>1
    <2>3. CASE \E x \in Bundles : UnlinkItem(d, x) \/ \E o \in Orders : LinkItem(d, x, o)
      <3>1. /\ d # k /\ UNCHANGED <<dispatchStatus, items>>
            /\ \E links : link' = [link EXCEPT ![d] = links]
        BY <2>3 DEF UnlinkItem, LinkItem, Editable
      <3> QED BY <1>7, <3>1
    <2> QED BY <1>3, <2>1, <2>2, <2>3
            DEF DecideOverdraw, ReadAdd, ReadRemove, ReadRecustomer, ReadComplete, dispatchVars
  <1>9. CASE BatchStep
    <2>1. PICK q \in Slots :
            \/ Drop(q) \/ BatchEdit(q) \/ BatchAdd(q) \/ BatchRemove(q) \/ BatchRecustomer(q)
            \/ Suggest(q) \/ Relink(q) \/ Measure(q) \/ BatchRefuse(q) \/ BatchComplete(q)
            \/ AbortComplete(q) \/ BatchMove(q) \/ BatchAsk(q)
      BY <1>9 DEF BatchStep
    <2>2. CASE BatchRecustomer(q)
      <3>1. PICK d \in Dispatches :
                /\ dispatchStatus[d] = "draft" /\ UNCHANGED <<dispatchStatus, items>>
                /\ \E links : link' = [link EXCEPT ![d] = links]
        BY <1>1, <2>2 DEF BatchRecustomer, MayChangeCustomer, RequestsCarry, Carries
      <3> QED BY <1>7, <3>1
    <2>3. CASE BatchComplete(q)
      <3>1. PICK d \in Dispatches :
                /\ dispatchStatus[d] = "reserved"
                /\ \E s : dispatchStatus' = [dispatchStatus EXCEPT ![d] = s]
                /\ \E its : items' = [items EXCEPT ![d] = its]
                /\ \E links : link' = [link EXCEPT ![d] = links]
        BY <1>1, <2>3 DEF BatchComplete, Landing, RequestsCarry, Carries
      <3> QED BY <1>7, <3>1
    <2> QED BY <1>3, <2>1, <2>2, <2>3
            DEF Drop, BatchEdit, Suggest, Measure, BatchRefuse, AbortComplete, BatchMove, BatchAsk, dispatchVars
  <1> QED BY <1>4, <1>5, <1>6, <1>8, <1>9 DEF Next

LEMMA OnlyLandingDispatches ==
    ASSUME FullInv, [Next]_vars, NEW b \in Bundles,
           bundleStatus[b] # "dispatched", bundleStatus'[b] = "dispatched"
    PROVE  \E q \in Slots :
                BatchComplete(q) /\ b \in request[q].bundles \cap HeldHere(request[q].dispatch)
  <1> DEFINE Goal == \E q \in Slots :
                BatchComplete(q) /\ b \in request[q].bundles \cap HeldHere(request[q].dispatch)
  <1>1. bundleStatus \in [Bundles -> {"absent", "available", "reserved", "dispatched"}]
    BY DEF FullInv, TypeOK
  <1>2. bundleStatus' # bundleStatus
    OBVIOUS
  <1>3. ~UNCHANGED vars
    BY <1>2 DEF vars, bundleVars
  <1>4. ~OrderStep
    BY <1>2 DEF OrderStep, CreateOrder, Confirm, Close, CancelOrder, ReadEdit, bundleVars
  <1>5. ~BundleStep
    <2>1. ASSUME NEW x \in Bundles, NEW o \in Lines, Pack(x, o)
          PROVE  FALSE
      BY <1>1, <2>1 DEF Pack
    <2> QED BY <1>2, <2>1 DEF BundleStep, ReleaseHold, HoldFor, ReadMove, DecideMove, bundleVars
  <1>6. \A bs : ~Freed(bs)
    BY DEF Freed
  <1>7. ~DispatchStep
    <2>1. \A d \in Dispatches : ~Reserve(d)
      BY <1>1 DEF Reserve
    <2>2. \A d \in Dispatches : ~Unreserve(d) /\ ~CancelDispatch(d)
      BY <1>6 DEF Unreserve, CancelDispatch
    <2>3. \A d, n, verdict : ~DecideOverdraw(d, n, verdict)
      BY <1>2 DEF DecideOverdraw, bundleVars
    <2>4. \A d, c : ~OpenDispatch(d, c)
      BY <1>2 DEF OpenDispatch, bundleVars
    <2> QED BY <1>2, <2>1, <2>2, <2>3, <2>4, DispatchStepTouches DEF bundleVars
  <1>8. PICK q \in Slots :
            \/ Drop(q) \/ BatchEdit(q) \/ BatchAdd(q) \/ BatchRemove(q) \/ BatchRecustomer(q)
            \/ Suggest(q) \/ Relink(q) \/ Measure(q) \/ BatchRefuse(q) \/ BatchComplete(q)
            \/ AbortComplete(q) \/ BatchMove(q) \/ BatchAsk(q)
    BY <1>3, <1>4, <1>5, <1>7 DEF Next, BatchStep
  <1>9. ~BatchAdd(q)
    <2> SUFFICES ASSUME BatchAdd(q) PROVE FALSE
      OBVIOUS
    <2>1. PICK x, s : /\ bundleStatus' = [bundleStatus EXCEPT ![x] = s]
                      /\ s = "reserved" \/ s = bundleStatus[x]
      BY DEF BatchAdd
    <2> QED BY <1>1, <2>1
  <1>10. ~BatchRemove(q)
    BY <1>6 DEF BatchRemove
  <1>11. BatchComplete(q)
    BY <1>2, <1>8, <1>9, <1>10
       DEF Drop, BatchEdit, BatchRecustomer, Suggest, Relink, Measure, BatchRefuse, AbortComplete,
           BatchMove, BatchAsk, bundleVars
  <1>12. bundleStatus' = [x \in Bundles |->
                IF x \in request[q].bundles \cap HeldHere(request[q].dispatch) THEN "dispatched"
                ELSE IF x \in HeldHere(request[q].dispatch)
                              \ (request[q].bundles \cap HeldHere(request[q].dispatch))
                     THEN "available" ELSE bundleStatus[x]]
    BY <1>11 DEF BatchComplete
  <1>13. b \in request[q].bundles \cap HeldHere(request[q].dispatch)
    BY <1>12
  <1> QED BY <1>11, <1>13

LeavingInv == FullInv /\ LeftWithCompleted

(* A bundle that leaves in the landing of q keeps its holder and takes its item's *)
(* link. *)
LEMMA LandingLeaves ==
    ASSUME FullInv, NEW q \in Slots, BatchComplete(q), NEW b \in Bundles,
           b \in request[q].bundles \cap HeldHere(request[q].dispatch)
    PROVE  /\ request[q].dispatch \in Dispatches
           /\ dispatchStatus'[request[q].dispatch] = "completed"
           /\ holder'[b] = request[q].dispatch /\ holder[b] = request[q].dispatch
           /\ onLine'[b] = link[request[q].dispatch][b]
  <1>1. PICK d : d = request[q].dispatch
    OBVIOUS
  <1>2. TypeOK /\ d \in Dispatches
    BY <1>1 DEF FullInv, OrderInv, RequestsCarry, Carries, BatchComplete
  <1>3. holder[b] = d
    BY <1>1 DEF HeldHere
  <1>4. /\ dispatchStatus' = [dispatchStatus EXCEPT ![d] = "completed"]
        /\ holder' = [x \in Bundles |-> IF x \in HeldHere(d) \ (request[q].bundles \cap HeldHere(d))
                                        THEN NoDispatch ELSE holder[x]]
        /\ onLine' = [x \in Bundles |-> IF x \in request[q].bundles \cap HeldHere(d)
                                        THEN link[d][x] ELSE onLine[x]]
    BY <1>1 DEF BatchComplete
  <1>5. dispatchStatus'[d] = "completed"
    BY <1>2, <1>4 DEF TypeOK
  <1>6. holder'[b] = d /\ onLine'[b] = link[d][b]
    BY <1>1, <1>3, <1>4
  <1> QED BY <1>1, <1>2, <1>3, <1>5, <1>6

LEMMA LeavingInvariant == Spec => []LeavingInv
  <1>1. Init => LeavingInv
    <2>1. Init => LeftWithCompleted
      BY DEF Init, LeftWithCompleted
    <2> QED BY <2>1, FullStarts DEF LeavingInv
  <1>2. ASSUME LeavingInv, FullInv', [Next]_vars
        PROVE  LeavingInv'
    <2>1. FullInv /\ LeftWithCompleted
      BY <1>2 DEF LeavingInv
    <2>2. ASSUME NEW b \in Bundles, bundleStatus'[b] = "dispatched"
          PROVE  holder'[b] \in Dispatches /\ dispatchStatus'[holder'[b]] = "completed"
      <3>1. CASE bundleStatus[b] = "dispatched"
        <4>1. holder[b] \in Dispatches /\ dispatchStatus[holder[b]] = "completed"
          BY <2>1, <3>1 DEF LeftWithCompleted
        <4>2. holder'[b] = holder[b]
          BY <1>2, <2>1, <3>1, DepartedStay
        <4>3. PICK k \in Dispatches : k = holder[b]
          BY <4>1
        <4>4. dispatchStatus'[k] = "completed"
          BY <1>2, <2>1, <4>1, <4>3, CompletedStay
        <4> QED BY <4>2, <4>3, <4>4
      <3>2. CASE bundleStatus[b] # "dispatched"
        <4>1. PICK q \in Slots :
                BatchComplete(q) /\ b \in request[q].bundles \cap HeldHere(request[q].dispatch)
          BY <1>2, <2>1, <2>2, <3>2, OnlyLandingDispatches
        <4> QED BY <2>1, <4>1, LandingLeaves
      <3> QED BY <3>1, <3>2
    <2> QED BY <1>2, <2>2 DEF LeavingInv, LeftWithCompleted
  <1> QED BY <1>1, <1>2, FullInvariant, PTL DEF Spec

(* Whatever is linked, scanned, removed or handed to another customer, what has left   *)
(* against a line stays there, and counts for it as long as its order is open and its   *)
(* item is not taken off: linkItem, recustomer and the linking half of relinkOpen leave *)
(* completed dispatches alone, and dropStaleSuggestions drops closed orders only.        *)
THEOREM LeftAlwaysCounts == Spec => LeftCountsUntilTakenOff
  <1>1. ASSUME LeavingInv, [Next]_vars, NEW o \in Orders, NEW b \in Left(o) \ Uncounted(o)
        PROVE  b \in Left(o)' /\ (b \in Uncounted(o)' => b \notin items'[holder[b]] \/ ~Open(o))
    <2>1. FullInv /\ LeftWithCompleted
      BY <1>1 DEF LeavingInv
    <2>2. /\ b \in Bundles /\ bundleStatus[b] = "dispatched" /\ onLine[b] = o
          /\ b \in items[holder[b]] /\ link[holder[b]][b] = o
      BY <1>1 DEF Left, Uncounted
    <2>3. bundleStatus'[b] = "dispatched" /\ holder'[b] = holder[b] /\ onLine'[b] = onLine[b]
      BY <1>1, <2>1, <2>2, DepartedStay
    <2>4. PICK k \in Dispatches : k = holder[b] /\ dispatchStatus[k] = "completed"
      BY <2>1, <2>2 DEF LeftWithCompleted
    <2>5. \A x \in items[k] \cap items'[k] : link'[k][x] = link[k][x] \/ ~Open(link[k][x])
      BY <1>1, <2>1, <2>4, CompletedStay
    <2>6. b \in Left(o)'
      BY <2>2, <2>3 DEF Left
    <2>7. ASSUME b \in items'[k], Open(o)
          PROVE  b \notin Uncounted(o)'
      <3>1. link'[k][b] = o
        BY <2>2, <2>4, <2>5, <2>7
      <3> QED BY <2>3, <2>4, <2>7, <3>1 DEF Uncounted
    <2> QED BY <2>4, <2>6, <2>7
  <1>2. LeavingInv /\ [Next]_vars =>
            [\A o \in Orders : \A b \in Left(o) \ Uncounted(o) :
                /\ b \in Left(o)'
                /\ b \in Uncounted(o)' => b \notin items'[holder[b]] \/ ~Open(o)]_vars
    BY <1>1
  <1> QED BY <1>2, LeavingInvariant, PTL DEF Spec, LeftCountsUntilTakenOff

(* The items of these dispatches linked to the line. *)
LinkedItems(ds, o) ==
    {item \in ds \X Bundles : item[2] \in items[item[1]] /\ link[item[1]][item[2]] = o}

LEMMA LandingStaysWithinTotal ==
    ASSUME LeavingInv, NEW q \in Slots, BatchComplete(q), [Next]_vars, NEW o \in Orders,
           Uncounted(o)' = {}
    PROVE  LeftFor(o)' <= Total(request[q].dispatch, o)
  <1>1. FullInv /\ LeftWithCompleted /\ TypeOK /\ RequestsCarry
    BY DEF LeavingInv, FullInv, OrderInv
  <1>2. PICK d \in Dispatches : d = request[q].dispatch
    BY <1>1 DEF RequestsCarry, Carries, BatchComplete
  <1> DEFINE its == {<<holder'[b], b>> : b \in Left(o)'}
  <1>3. /\ \A k \in Dispatches : items'[k] \subseteq items[k]
        /\ \A k \in Dispatches, b \in Bundles : link'[k][b] \in {link[k][b], NoOrder}
    <2>1. PICK late : /\ items' = [items EXCEPT ![d] = items[d] \ late]
                      /\ link' = [link EXCEPT ![d] =
                            [b \in Bundles |-> IF b \in late THEN NoOrder ELSE link[d][b]]]
      BY <1>2 DEF BatchComplete
    <2> QED BY <1>1, <2>1 DEF TypeOK
  <1>4. ASSUME NEW b \in Left(o)'
        PROVE  <<holder'[b], b>> \in LinkedItems(Completed \cup {d}, o)
    <2>1. b \in Bundles /\ bundleStatus'[b] = "dispatched" /\ onLine'[b] = o
      BY <1>4 DEF Left
    <2>2. holder'[b] \in Completed \cup {d}
      <3>1. CASE bundleStatus[b] = "dispatched"
        <4>1. holder[b] \in Dispatches /\ dispatchStatus[holder[b]] = "completed"
          BY <1>1, <2>1, <3>1 DEF LeftWithCompleted
        <4>2. holder'[b] = holder[b]
          BY <1>1, <2>1, <3>1, DepartedStay
        <4> QED BY <4>1, <4>2 DEF Completed
      <3>2. CASE bundleStatus[b] # "dispatched"
        <4>1. bundleStatus' = [x \in Bundles |->
                IF x \in request[q].bundles \cap HeldHere(d) THEN "dispatched"
                ELSE IF x \in HeldHere(d) \ (request[q].bundles \cap HeldHere(d))
                     THEN "available" ELSE bundleStatus[x]]
          BY <1>2 DEF BatchComplete
        <4>2. b \in request[q].bundles \cap HeldHere(d)
          BY <2>1, <3>2, <4>1
        <4>3. holder'[b] = d
          BY <1>1, <1>2, <2>1, <4>2, LandingLeaves
        <4> QED BY <4>3
      <3> QED BY <3>1, <3>2
    <2>3. b \in items'[holder'[b]] /\ link'[holder'[b]][b] = o
      BY <1>4 DEF Uncounted
    <2>4. PICK k \in Dispatches : k = holder'[b]
      BY <2>2 DEF Completed
    <2>5. b \in items[k] /\ link[k][b] = o
      BY <1>3, <2>1, <2>3, <2>4, OrderAssumption
    <2> QED BY <2>1, <2>2, <2>4, <2>5 DEF LinkedItems
  <1>5. its \in SUBSET LinkedItems(Completed \cup {d}, o)
    BY <1>4
  <1>6. LinkedItems(Completed \cup {d}, o) \in SUBSET Loads
    BY DEF LinkedItems, Completed, Loads
  <1>7. LeftFor(o)' = Kg(its)
    BY DEF LeftFor, Left
  <1>8. Total(d, o) = Kg(LinkedItems(Completed \cup {d}, o))
    BY DEF Total, LinkedKg, LinkedItems
  <1>9. Kg(its) <= Kg(LinkedItems(Completed \cup {d}, o))
    <2> HIDE DEF its
    <2> QED BY <1>5, <1>6, KgIsMonotone
  <1> QED BY <1>2, <1>7, <1>8, <1>9

(* A line that the dispatch does not serve gains nothing by its completion. *)
LEMMA OthersGainNothing ==
    ASSUME LeavingInv, NEW q \in Slots, BatchComplete(q), [Next]_vars, NEW o \in Orders,
           o \notin LinesOf(request[q].dispatch)
    PROVE  LeftFor(o)' <= LeftFor(o)
  <1>1. FullInv /\ LeftWithCompleted /\ TypeOK /\ RequestsCarry /\ LinksAreOfItems
    BY DEF LeavingInv, FullInv, OrderInv, LinkInv
  <1>2. PICK d \in Dispatches : d = request[q].dispatch
    BY <1>1 DEF RequestsCarry, Carries, BatchComplete
  <1> DEFINE after == {<<holder'[b], b>> : b \in Left(o)'}
             before == {<<holder[b], b>> : b \in Left(o)}
  <1>3. ASSUME NEW b \in Left(o)'
        PROVE  b \in Left(o) /\ holder'[b] = holder[b]
    <2>1. b \in Bundles /\ bundleStatus'[b] = "dispatched" /\ onLine'[b] = o
      BY <1>3 DEF Left
    <2>2. CASE bundleStatus[b] = "dispatched"
      <3>1. holder'[b] = holder[b] /\ onLine'[b] = onLine[b]
        BY <1>1, <2>1, <2>2, DepartedStay
      <3> QED BY <2>1, <2>2, <3>1 DEF Left
    <2>3. CASE bundleStatus[b] # "dispatched"
      <3>1. bundleStatus' = [x \in Bundles |->
                IF x \in request[q].bundles \cap HeldHere(d) THEN "dispatched"
                ELSE IF x \in HeldHere(d) \ (request[q].bundles \cap HeldHere(d))
                     THEN "available" ELSE bundleStatus[x]]
        BY <1>2 DEF BatchComplete
      <3>2. b \in request[q].bundles \cap HeldHere(d)
        BY <2>1, <2>3, <3>1
      <3>3. onLine'[b] = link[d][b]
        BY <1>1, <1>2, <2>1, <3>2, LandingLeaves
      <3>4. b \in items[d] /\ link[d][b] = o
        BY <1>1, <2>1, <3>3, OrderAssumption DEF LinksAreOfItems
      <3>5. o \in LinesOf(d)
        BY <3>4, OrderAssumption DEF LinesOf
      <3> QED BY <1>2, <3>5
    <2> QED BY <2>2, <2>3
  <1>4. after \in SUBSET before
    BY <1>3
  <1>5. before \in SUBSET Loads
    BY <1>1 DEF Left, Loads, LeftWithCompleted
  <1>6. LeftFor(o)' = Kg(after) /\ LeftFor(o) = Kg(before)
    BY DEF LeftFor, Left
  <1>7. Kg(after) <= Kg(before)
    <2> HIDE DEF after, before
    <2> QED BY <1>4, <1>5, KgIsMonotone
  <1> QED BY <1>6, <1>7

(* For any weights, tolerance and number of completions in flight, none takes a line  *)
(* past its limit without an approval, as long as all that has left is still counted:  *)
(* overdrawGuard, in the landing batch itself, adds up at least what will have left.     *)
THEOREM KgStaysWithinLimit == Spec => KgLeavesWithinLimit
  <1>1. ASSUME LeavingInv, LeavingInv', [Next]_vars, NEW d \in Dispatches, NEW o \in Orders, Completes(d),
               Uncounted(o)' = {}, LeftFor(o)' > LeftFor(o)
        PROVE  LeftFor(o)' <= LineLimit(o) \/ Allowed(d, o, LeftFor(o)')
    <2>1. FullInv /\ OrderInv /\ TypeOK
      BY <1>1 DEF LeavingInv, FullInv
    <2>2. Next
      BY <1>1 DEF Completes, vars, dispatchVars
    <2>3. PICK q \in Slots : BatchComplete(q) /\ request[q].dispatch = d
      BY <1>1, <2>1, <2>2, OnlyLandingCompletes
    <2>4. LeftFor(o)' <= Total(d, o)
      BY <1>1, <2>3, LandingStaysWithinTotal
    <2>5. LeftFor(o) \in Nat /\ LeftFor(o)' \in Nat
      <3>1. LeftWithCompleted /\ LeftWithCompleted'
        BY <1>1 DEF LeavingInv
      <3> DEFINE before == {<<holder[b], b>> : b \in Left(o)}
                 after == {<<holder'[b], b>> : b \in Left(o)'}
      <3>2. before \in SUBSET Loads /\ after \in SUBSET Loads
        BY <3>1 DEF LeftWithCompleted, Left, Loads
      <3>3. Kg(before) \in Nat /\ Kg(after) \in Nat
        <4> HIDE DEF before, after
        <4> QED BY <3>2, KgIsNatural
      <3> QED BY <3>3 DEF LeftFor, Left
    <2>6. o \in LinesOf(d)
      <3> SUFFICES ASSUME o \notin LinesOf(d) PROVE FALSE
        OBVIOUS
      <3>1. LeftFor(o)' <= LeftFor(o)
        BY <1>1, <2>3, OthersGainNothing
      <3> QED BY <1>1, <2>5, <3>1
    <2>7. ~(Total(d, o) > LineLimit(o)) \/ Allowed(d, o, Total(d, o))
      <3>1. Uncovered(d) = {}
        BY <2>3 DEF BatchComplete, Landing, OverdrawGuard
      <3> QED BY <2>6, <3>1 DEF Uncovered
    <2>8. Total(d, o) \in Nat
      <3>1. LinkedItems(Completed \cup {d}, o) \in SUBSET Loads
        BY DEF LinkedItems, Completed, Loads
      <3>2. Kg(LinkedItems(Completed \cup {d}, o)) \in Nat
        BY <3>1, KgIsNatural
      <3> QED BY <3>2 DEF Total, LinkedKg, LinkedItems
    <2>9. CASE ~(Total(d, o) > LineLimit(o))
      <3>1. LineLimit(o) \in Nat
        <4>1. orderKg[o] \in Nat /\ ToleranceBp \in Nat
          BY <2>1, OrderAssumption DEF TypeOK
        <4>2. orderKg[o] * ToleranceBp \in Nat
          BY <4>1
        <4>3. \A n \in Nat : n \div 10000 \in Nat
          OBVIOUS
        <4> QED BY <4>1, <4>2, <4>3 DEF LineLimit
      <3> QED BY <2>4, <2>5, <2>8, <2>9, <3>1
    <2>10. CASE Allowed(d, o, Total(d, o))
      <3>1. PICK n \in DOMAIN overdraws[d] :
                overdraws[d][n].status = "approved" /\ overdraws[d][n].lines[o].total >= Total(d, o)
        BY <2>10 DEF Allowed
      <3>2. overdraws[d][n].lines[o].total \in Nat
        <4>1. overdraws[d][n] \in Overdraws
          BY <2>1 DEF TypeOK
        <4> QED BY <4>1 DEF Overdraws, Figures
      <3>3. overdraws[d][n].lines[o].total >= LeftFor(o)'
        BY <2>4, <2>5, <2>8, <3>1, <3>2
      <3> QED BY <3>1, <3>3 DEF Allowed
    <2> QED BY <2>7, <2>9, <2>10
  <1>2. LeavingInv /\ LeavingInv' /\ [Next]_vars =>
            [\A d \in Dispatches, o \in Orders :
                (Completes(d) /\ Uncounted(o)' = {} /\ LeftFor(o)' > LeftFor(o))
                    => LeftFor(o)' <= LineLimit(o) \/ Allowed(d, o, LeftFor(o)')]_vars
    BY <1>1
  <1> QED BY <1>2, LeavingInvariant, PTL DEF Spec, KgLeavesWithinLimit
=============================================================================
