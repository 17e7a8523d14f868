----------------------------- MODULE OrderDraws -----------------------------
(***************************************************************************)
(* Sales orders and what draws on them: dispatches whose items are linked   *)
(* to an order, yard bundles held for one or packed for one, reallocations  *)
(* from one to another, and the approvals of both routers.  One section,    *)
(* and one line per order; the dispatch is here as far as orders see it.    *)
(*                                                                          *)
(* A handler whose batch repeats every condition it read is one step.  The  *)
(* others are a Read... step and a Batch... step that has only the guards   *)
(* of the statements, with the request in a slot between the two.           *)
(***************************************************************************)
EXTENDS Integers, Sequences, FiniteSets, FiniteSetsExt

CONSTANTS
    Bundles,        \* bundles of the section
    Orders,         \* sales orders, each with one line
    Based,          \* the orders whose line has a quantity basis: its kg is the server's
    Customers,      \* customers
    Dispatches,     \* dispatch ids
    Slots,          \* how many requests may be in flight, by name
    NoOrder,        \* no order line
    NoDispatch,     \* no dispatch
    NoCustomer,     \* the customer of a row that does not exist yet
    Weight,         \* kg of each bundle
    Amounts,        \* the kg an order may ask for
    ToleranceBp,    \* kg tolerance in basis points, one for all customers
    MaxVersion,     \* bound: no order is edited at a later version than this
    MaxAsks,        \* bound: overdraw requests per dispatch
    Asked           \* bound: the optional operations users ask for here

ASSUME OrderAssumption ==
    /\ Based \subseteq Orders
    /\ NoOrder \notin Orders
    /\ NoDispatch \notin Dispatches
    /\ NoCustomer \notin Customers
    /\ IsFiniteSet(Bundles) /\ IsFiniteSet(Dispatches)
    /\ Weight \in [Bundles -> Nat]
    /\ Amounts \subseteq Nat
    /\ ToleranceBp \in Nat /\ MaxVersion \in Nat /\ MaxAsks \in Nat

VARIABLES
    orderStatus,        \* sales_order.status; "absent" before the row exists
    orderCustomer,      \* sales_order.customer_id
    orderKg,            \* sales_order_line.kg_g
    orderVersion,       \* sales_order.server_seq, counted from 0
    dispatchStatus,     \* dispatch.status; "absent" before the row exists
    dispatchCustomer,   \* dispatch.customer_id
    items,              \* dispatch_item: the bundles a dispatch lists
    link,               \* dispatch_item.sales_order_line_id
    unlinkedBy,         \* the items with unlinked_by set
    overdraws,          \* the dispatch_overdraw requests of a dispatch, in order
    bundleStatus,       \* bundle.status
    holder,             \* bundle.current_dispatch_id
    onLine,             \* bundle.sales_order_line_id
    heldFor,            \* bundle.held_for_line_id
    asked,              \* the pending order_reallocate request of a bundle
    request             \* per slot: the request in flight

orderVars == <<orderStatus, orderCustomer, orderKg, orderVersion>>
dispatchVars == <<dispatchStatus, dispatchCustomer, items, link, unlinkedBy, overdraws>>
bundleVars == <<bundleStatus, holder, onLine, heldFor, asked>>
vars == <<orderVars, dispatchVars, bundleVars, request>>

Lines == Orders \cup {NoOrder}
Idle == [op |-> "idle"]
NoMove == [from |-> NoOrder, to |-> NoOrder]

OrderStatuses == {"booking", "confirmed", "dispatching", "closed", "cancelled"}
OpenStatuses == {"booking", "confirmed", "dispatching"}
DispatchStatuses == {"draft", "reserved", "completed", "cancelled"}
Editable == {"draft", "reserved"}

(* What an overdraw request names: ordered and total kg of each line that is   *)
(* over, zero for the others.                                                   *)
Figures == [Orders -> [ordered : Nat, total : Nat]]
Overdraws == [status : {"pending", "approved", "rejected"}, lines : Figures]

Requests ==
    {Idle}
    \cup [op : {"edit"}, order : Orders, version : Nat, status : OrderStatuses,
          kg : Nat, customer : Customers]
    \cup [op : {"add"}, dispatch : Dispatches, bundle : Bundles, customer : Customers,
          pick : Lines, hold : BOOLEAN]
    \cup [op : {"remove"}, dispatch : Dispatches, bundle : Bundles, release : BOOLEAN]
    \cup [op : {"recustomer"}, dispatch : Dispatches, customer : Customers,
          picks : [Bundles -> Lines]]
    \cup [op : {"suggest", "measure", "land"}, dispatch : Dispatches, customer : Customers,
          bundles : SUBSET Bundles, held : SUBSET Bundles]
    \cup [op : {"relink"}, dispatch : Dispatches, customer : Customers,
          bundles : SUBSET Bundles, picks : [Bundles -> Lines]]
    \cup [op : {"refuse"}, dispatch : Dispatches, lines : Figures, prior : Nat]
    \cup [op : {"move"}, bundle : Bundles, from : Lines, to : Lines, approval : BOOLEAN]

TypeOK ==
    /\ orderStatus \in [Orders -> OrderStatuses \cup {"absent"}]
    /\ orderCustomer \in [Orders -> Customers \cup {NoCustomer}]
    /\ orderKg \in [Orders -> Nat]
    /\ orderVersion \in [Orders -> Nat]
    /\ dispatchStatus \in [Dispatches -> DispatchStatuses \cup {"absent"}]
    /\ dispatchCustomer \in [Dispatches -> Customers \cup {NoCustomer}]
    /\ items \in [Dispatches -> SUBSET Bundles]
    /\ link \in [Dispatches -> [Bundles -> Lines]]
    /\ unlinkedBy \in [Dispatches -> SUBSET Bundles]
    /\ overdraws \in [Dispatches -> Seq(Overdraws)]
    /\ bundleStatus \in [Bundles -> {"absent", "available", "reserved", "dispatched"}]
    /\ holder \in [Bundles -> Dispatches \cup {NoDispatch}]
    /\ onLine \in [Bundles -> Lines]
    /\ heldFor \in [Bundles -> Lines]
    /\ asked \in [Bundles -> [from : Lines, to : Lines]]
    /\ request \in [Slots -> Requests]

Init ==
    /\ orderStatus = [o \in Orders |-> "absent"]
    /\ orderCustomer = [o \in Orders |-> NoCustomer]
    /\ orderKg = [o \in Orders |-> 0]
    /\ orderVersion = [o \in Orders |-> 0]
    /\ dispatchStatus = [d \in Dispatches |-> "absent"]
    /\ dispatchCustomer = [d \in Dispatches |-> NoCustomer]
    /\ items = [d \in Dispatches |-> {}]
    /\ link = [d \in Dispatches |-> [b \in Bundles |-> NoOrder]]
    /\ unlinkedBy = [d \in Dispatches |-> {}]
    /\ overdraws = [d \in Dispatches |-> <<>>]
    /\ bundleStatus = [b \in Bundles |-> "absent"]
    /\ holder = [b \in Bundles |-> NoDispatch]
    /\ onLine = [b \in Bundles |-> NoOrder]
    /\ heldFor = [b \in Bundles |-> NoOrder]
    /\ asked = [b \in Bundles |-> NoMove]
    /\ request = [q \in Slots |-> Idle]

-----------------------------------------------------------------------------
(* What handlers and statements look up.                                     *)

Open(o) == o \in Orders /\ orderStatus[o] \in OpenStatuses

OpenFor(c) == {o \in Orders : Open(o) /\ orderCustomer[o] = c}

(* heldForOtherCustomerSql: held for an open line of a customer other than c. *)
ForeignHold(b, c) == Open(heldFor[b]) /\ orderCustomer[heldFor[b]] # c

HeldHere(d) == {b \in Bundles : bundleStatus[b] = "reserved" /\ holder[b] = d}

OnLiveDispatch(b) == \E d \in Dispatches : dispatchStatus[d] \in Editable /\ b \in items[d]

(* Mutant of HasLinks: only what lies in the yard. *)
HasBundles(o) == \E b \in Bundles : o \in {onLine[b], heldFor[b]}

(* lineHasLinks: a bundle packed or held for the line, or any dispatch item. *)
HasLinks(o) ==
    \/ \E b \in Bundles : o \in {onLine[b], heldFor[b]}
    \/ \E d \in Dispatches, b \in Bundles : link[d][b] = o

(* orderHasWork, without press plans. *)
HasWork(o) ==
    \/ \E b \in Bundles : onLine[b] = o
    \/ \E d \in Dispatches, b \in Bundles : link[d][b] = o /\ dispatchStatus[d] # "cancelled"

Completed == {d \in Dispatches : dispatchStatus[d] = "completed"}

(* kg of the bundles of these items, each a dispatch and a bundle. *)
Kg(its) == MapThenSumSet(LAMBDA item : Weight[item[2]], its)

(* lineTotalSql: kg of the items of these dispatches linked to the line. *)
LinkedKg(ds, o) ==
    Kg({item \in ds \X Bundles : item[2] \in items[item[1]] /\ link[item[1]][item[2]] = o})

LineLimit(o) == orderKg[o] + (orderKg[o] * ToleranceBp) \div 10000

Total(d, o) == LinkedKg(Completed \cup {d}, o)

LinesOf(d) == {link[d][b] : b \in items[d]} \ {NoOrder}

Allowed(d, o, kg) ==
    \E n \in DOMAIN overdraws[d] :
        /\ overdraws[d][n].status = "approved"
        /\ overdraws[d][n].lines[o].total >= kg

(* dispatchOverdraw: the lines of the dispatch past the limit and not allowed. *)
Uncovered(d) ==
    {o \in LinesOf(d) : Total(d, o) > LineLimit(o) /\ ~Allowed(d, o, Total(d, o))}

OverFigures(d) ==
    [o \in Orders |->
        IF o \in Uncovered(d) THEN [ordered |-> orderKg[o], total |-> Total(d, o)]
                              ELSE [ordered |-> 0, total |-> 0]]

(* Mutant of OverdrawGuard: the completion trusts what it measured. *)
OverdrawAsRead(d) == TRUE

OverdrawGuard(d) == Uncovered(d) = {}

(* Mutant of UnlinkedWithOpenLine: left to the relinking before it. *)
RelinkedBefore(d) == {}

(* Items linked to nothing, by nobody's decision. *)
Loose(d) == {b \in items[d] \ unlinkedBy[d] : link[d][b] = NoOrder}

(* noUnlinkedWithOpenLine: while the dispatch's customer of now has an open     *)
(* order.                                                                       *)
UnlinkedWithOpenLine(d) == IF OpenFor(dispatchCustomer[d]) = {} THEN {} ELSE Loose(d)

(* suggestLines: the bundle's own line if it is an open one of the customer,   *)
(* else some open line of the customer, else none.  Which of several is a      *)
(* question of age and baki, left open here.                                   *)
Suggested(own, c) ==
    IF own \in OpenFor(c) THEN {own}
    ELSE IF OpenFor(c) = {} THEN {NoOrder} ELSE OpenFor(c)

(* linkLineFor: the line it is held for counts as its own. *)
OwnLine(b, c) == IF heldFor[b] \in OpenFor(c) THEN heldFor[b] ELSE onLine[b]

(* dropStaleSuggestions: an open line of the dispatch's customer of now. *)
LinkStands(d, o) == o \in OpenFor(dispatchCustomer[d])

Kept(d, o) == IF LinkStands(d, o) THEN o ELSE NoOrder

-----------------------------------------------------------------------------
Await(q, req) == request[q] = Idle /\ request' = [request EXCEPT ![q] = req]

Done(q) == request' = [request EXCEPT ![q] = Idle]

(* A request refused after its reads by a rule outside this module, or whose  *)
(* worker dies, writes nothing more.                                          *)
Drop(q) ==
    /\ request[q] # Idle
    /\ Done(q)
    /\ UNCHANGED <<orderVars, dispatchVars, bundleVars>>

(* Versions past the last that is edited are not told apart. *)
Later(version) == IF version > MaxVersion THEN version ELSE version + 1

Touch(o) == orderVersion' = [orderVersion EXCEPT ![o] = Later(@)]

SetOrder(o, status) == orderStatus' = [orderStatus EXCEPT ![o] = status]

-----------------------------------------------------------------------------
(* Orders: salesOrder.create, confirm, close, cancel and update.             *)

CreateOrder(o, c, kg) ==
    /\ orderStatus[o] = "absent"
    /\ SetOrder(o, "booking")
    /\ orderCustomer' = [orderCustomer EXCEPT ![o] = c]
    /\ orderKg' = [orderKg EXCEPT ![o] = kg]
    /\ UNCHANGED <<orderVersion, dispatchVars, bundleVars, request>>

Confirm(o) ==
    /\ orderStatus[o] = "booking"
    /\ SetOrder(o, "confirmed")
    /\ Touch(o)
    /\ UNCHANGED <<orderCustomer, orderKg, dispatchVars, bundleVars, request>>

(* Mutant of ReleaseHoldsOf: the id of the line is left behind, blank. *)
BlankHoldsOf(o) ==
    heldFor' = [b \in Bundles |-> IF heldFor[b] = o THEN "" ELSE heldFor[b]]

(* releaseOrderHoldsStatements: every hold of the order, whenever it was placed. *)
ReleaseHoldsOf(o) ==
    heldFor' = [b \in Bundles |-> IF heldFor[b] = o THEN NoOrder ELSE heldFor[b]]

Close(o) ==
    /\ orderStatus[o] \in {"confirmed", "dispatching"}
    /\ SetOrder(o, "closed")
    /\ Touch(o)
    /\ ReleaseHoldsOf(o)
    /\ UNCHANGED <<orderCustomer, orderKg, dispatchVars, bundleStatus, holder, onLine, asked, request>>

CancelOrder(o) ==
    /\ orderStatus[o] \in {"booking", "confirmed"}
    /\ ~HasWork(o)
    /\ SetOrder(o, "cancelled")
    /\ Touch(o)
    /\ ReleaseHoldsOf(o)
    /\ UNCHANGED <<orderCustomer, orderKg, dispatchVars, bundleStatus, holder, onLine, asked, request>>

(* salesOrder.update, of the ordered kg and the customer.  What has left is    *)
(* asked of a line with a quantity basis, here and nowhere later; the kg of    *)
(* other lines are taken as typed, those given a first basis here included.    *)
ReadEdit(q, o, kg, c) ==
    /\ orderStatus[o] \in OrderStatuses \ {"cancelled"}
    /\ orderVersion[o] <= MaxVersion
    /\ o \in Based /\ kg # orderKg[o] => kg >= LinkedKg(Completed, o)
    /\ c # orderCustomer[o] => ~HasLinks(o)
    /\ Await(q, [op |-> "edit", order |-> o, version |-> orderVersion[o],
                 status |-> orderStatus[o], kg |-> kg, customer |-> c])
    /\ UNCHANGED <<orderVars, dispatchVars, bundleVars>>

(* The version and status that were read, and no links if the customer changes; *)
(* else the whole edit aborts.                                                   *)
BatchEdit(q) ==
    LET o == request[q].order
    IN  /\ request[q].op = "edit"
        /\ orderVersion[o] = request[q].version
        /\ orderStatus[o] = request[q].status
        /\ request[q].customer # orderCustomer[o] => ~HasLinks(o)
        /\ orderCustomer' = [orderCustomer EXCEPT ![o] = request[q].customer]
        /\ orderKg' = [orderKg EXCEPT ![o] = request[q].kg]
        /\ Touch(o)
        /\ Done(q)
        /\ UNCHANGED <<orderStatus, dispatchVars, bundleVars>>

-----------------------------------------------------------------------------
(* Bundles: packing, holding and releasing.                                  *)

(* bundle.createReceipt, for an open line or for none. *)
Pack(b, o) ==
    /\ bundleStatus[b] = "absent"
    /\ o # NoOrder => Open(o)
    /\ bundleStatus' = [bundleStatus EXCEPT ![b] = "available"]
    /\ onLine' = [onLine EXCEPT ![b] = o]
    /\ UNCHANGED <<orderVars, dispatchVars, holder, heldFor, asked, request>>

(* holdCheck, which the UPDATE of orders.hold repeats. *)
Holdable(b, o) ==
    /\ bundleStatus[b] = "available"
    /\ heldFor[b] = NoOrder
    /\ onLine[b] \in {NoOrder, o}
    /\ ~OnLiveDispatch(b)
    /\ asked[b] = NoMove

HoldFor(b, o) ==
    /\ Open(o)
    /\ Holdable(b, o)
    /\ heldFor' = [heldFor EXCEPT ![b] = o]
    /\ UNCHANGED <<orderVars, dispatchVars, bundleStatus, holder, onLine, asked, request>>

ReleaseHold(b) ==
    /\ heldFor[b] # NoOrder
    /\ heldFor' = [heldFor EXCEPT ![b] = NoOrder]
    /\ UNCHANGED <<orderVars, dispatchVars, bundleStatus, holder, onLine, asked, request>>

-----------------------------------------------------------------------------
(* Dispatches and their items.                                               *)

OpenDispatch(d, c) ==
    /\ dispatchStatus[d] = "absent"
    /\ dispatchStatus' = [dispatchStatus EXCEPT ![d] = "draft"]
    /\ dispatchCustomer' = [dispatchCustomer EXCEPT ![d] = c]
    /\ UNCHANGED <<orderVars, items, link, unlinkedBy, overdraws, bundleVars, request>>

(* addByCodes, one code: classifyScan, then the suggested line. *)
ReadAdd(q, d, b) ==
    LET c == dispatchCustomer[d]
    IN  /\ dispatchStatus[d] \in Editable
        /\ b \notin items[d]
        /\ bundleStatus[b] = "available" \/ b \in HeldHere(d)
        /\ ~ForeignHold(b, c)
        /\ asked[b] = NoMove
        /\ onLine[b] # NoOrder => orderCustomer[onLine[b]] = c
        /\ \E pick \in Suggested(OwnLine(b, c), c) :
            Await(q, [op |-> "add", dispatch |-> d, bundle |-> b, customer |-> c,
                      pick |-> pick, hold |-> dispatchStatus[d] = "reserved"])
        /\ UNCHANGED <<orderVars, dispatchVars, bundleVars>>

(* A hold for another customer, or the item itself, that came in between        *)
(* aborts; whatever became of the dispatch or of a reallocation does not.       *)
BatchAdd(q) ==
    LET d == request[q].dispatch
        b == request[q].bundle
        holding == /\ request[q].hold
                   /\ dispatchStatus[d] = "reserved"
                   /\ bundleStatus[b] = "available"
    IN  /\ request[q].op = "add"
        /\ ~ForeignHold(b, request[q].customer)
        /\ b \notin items[d]
        /\ items' = [items EXCEPT ![d] = @ \cup {b}]
        /\ link' = [link EXCEPT ![d][b] = Kept(d, request[q].pick)]
        /\ bundleStatus' = [bundleStatus EXCEPT ![b] = IF holding THEN "reserved" ELSE @]
        /\ holder' = [holder EXCEPT ![b] = IF holding THEN d ELSE @]
        /\ Done(q)
        /\ UNCHANGED <<orderVars, dispatchStatus, dispatchCustomer, unlinkedBy, overdraws,
                       onLine, heldFor, asked>>

Freed(bs) ==
    /\ bundleStatus' = [b \in Bundles |-> IF b \in bs THEN "available" ELSE bundleStatus[b]]
    /\ holder' = [b \in Bundles |-> IF b \in bs THEN NoDispatch ELSE holder[b]]

(* removeBundle: the DELETE of the item carries no condition on the dispatch. *)
ReadRemove(q, d, b) ==
    /\ dispatchStatus[d] \in Editable
    /\ b \in items[d]
    /\ Await(q, [op |-> "remove", dispatch |-> d, bundle |-> b,
                 release |-> dispatchStatus[d] = "reserved" /\ b \in HeldHere(d)])
    /\ UNCHANGED <<orderVars, dispatchVars, bundleVars>>

BatchRemove(q) ==
    LET d == request[q].dispatch
        b == request[q].bundle
    IN  /\ request[q].op = "remove"
        /\ items' = [items EXCEPT ![d] = @ \ {b}]
        /\ link' = [link EXCEPT ![d][b] = NoOrder]
        /\ unlinkedBy' = [unlinkedBy EXCEPT ![d] = @ \ {b}]
        /\ Freed(IF request[q].release THEN {b} \cap HeldHere(d) ELSE {})
        /\ Done(q)
        /\ UNCHANGED <<orderVars, dispatchStatus, dispatchCustomer, overdraws, onLine, heldFor, asked>>

(* linkItem, to an open line of the customer or to none.  The office may unlink *)
(* on purpose, which is remembered; the floor only where no line is open.       *)
LinkItem(d, b, o) ==
    /\ dispatchStatus[d] \in Editable
    /\ b \in items[d]
    /\ o \in OpenFor(dispatchCustomer[d])
    /\ link' = [link EXCEPT ![d][b] = o]
    /\ unlinkedBy' = [unlinkedBy EXCEPT ![d] = @ \ {b}]
    /\ UNCHANGED <<orderVars, dispatchStatus, dispatchCustomer, items, overdraws, bundleVars, request>>

(* Mutant of UnlinkItem: of any dispatch. *)
UnlinkAnyItem(d, b) ==
    /\ link[d][b] # NoOrder
    /\ link' = [link EXCEPT ![d][b] = NoOrder]
    /\ unlinkedBy' = [unlinkedBy EXCEPT ![d] = @ \cup {b}]
    /\ UNCHANGED <<orderVars, dispatchStatus, dispatchCustomer, items, overdraws, bundleVars, request>>

UnlinkItem(d, b) ==
    /\ dispatchStatus[d] \in Editable
    /\ link[d][b] # NoOrder
    /\ link' = [link EXCEPT ![d][b] = NoOrder]
    /\ \/ unlinkedBy' = [unlinkedBy EXCEPT ![d] = @ \cup {b}]
       \/ OpenFor(dispatchCustomer[d]) = {} /\ UNCHANGED unlinkedBy
    /\ UNCHANGED <<orderVars, dispatchStatus, dispatchCustomer, items, overdraws, bundleVars, request>>

(* The races of reserve, unreserve and cancel are in Dispatch; one step here. *)
Reserve(d) ==
    /\ dispatchStatus[d] = "draft"
    /\ items[d] # {}
    /\ \A b \in items[d] : bundleStatus[b] = "available"
    /\ dispatchStatus' = [dispatchStatus EXCEPT ![d] = "reserved"]
    /\ bundleStatus' = [b \in Bundles |-> IF b \in items[d] THEN "reserved" ELSE bundleStatus[b]]
    /\ holder' = [b \in Bundles |-> IF b \in items[d] THEN d ELSE holder[b]]
    /\ UNCHANGED <<orderVars, dispatchCustomer, items, link, unlinkedBy, overdraws,
                   onLine, heldFor, asked, request>>

Unreserve(d) ==
    /\ dispatchStatus[d] = "reserved"
    /\ dispatchStatus' = [dispatchStatus EXCEPT ![d] = "draft"]
    /\ Freed(HeldHere(d))
    /\ UNCHANGED <<orderVars, dispatchCustomer, items, link, unlinkedBy, overdraws,
                   onLine, heldFor, asked, request>>

(* Mutant of Withdraw: the requests are not asked for their status. *)
WithdrawAll(d) ==
    overdraws' = [overdraws EXCEPT ![d] = [n \in DOMAIN @ |-> [@[n] EXCEPT !.status = "rejected"]]]

(* withdrawOverdrawRequests: what is still undecided is rejected. *)
Withdraw(d) ==
    overdraws' = [overdraws EXCEPT ![d] =
        [n \in DOMAIN @ |-> IF @[n].status = "pending" THEN [@[n] EXCEPT !.status = "rejected"] ELSE @[n]]]

CancelDispatch(d) ==
    /\ dispatchStatus[d] \in Editable
    /\ dispatchStatus' = [dispatchStatus EXCEPT ![d] = "cancelled"]
    /\ Freed(HeldHere(d))
    /\ Withdraw(d)
    /\ UNCHANGED <<orderVars, dispatchCustomer, items, link, unlinkedBy, onLine, heldFor, asked, request>>

(* dispatch.update with another customer: the items get the new customer's    *)
(* suggestions, whatever was unlinked on purpose before.                       *)
NoLinks(d) == \A b \in items[d] : link[d][b] = NoOrder

MayChangeCustomer(d) == dispatchStatus[d] = "draft" /\ NoLinks(d)

ReadRecustomer(q, d, c) ==
    /\ MayChangeCustomer(d)
    /\ c # dispatchCustomer[d]
    /\ \E picks \in [Bundles -> Lines] :
        /\ \A b \in Bundles :
            picks[b] \in IF b \in items[d] THEN Suggested(onLine[b], c) ELSE {NoOrder}
        /\ Await(q, [op |-> "recustomer", dispatch |-> d, customer |-> c, picks |-> picks])
    /\ UNCHANGED <<orderVars, dispatchVars, bundleVars>>

BatchRecustomer(q) ==
    LET d == request[q].dispatch
        c == request[q].customer
    IN  /\ request[q].op = "recustomer"
        /\ MayChangeCustomer(d)
        /\ dispatchCustomer' = [dispatchCustomer EXCEPT ![d] = c]
        /\ unlinkedBy' = [unlinkedBy EXCEPT ![d] = {}]
        /\ link' = [link EXCEPT ![d] = [b \in Bundles |->
              IF b \in items[d] /\ request[q].picks[b] \in OpenFor(c)
              THEN request[q].picks[b] ELSE link[d][b]]]
        /\ Done(q)
        /\ UNCHANGED <<orderVars, dispatchStatus, items, overdraws, bundleVars>>

-----------------------------------------------------------------------------
(* dispatch.complete.  It reads the dispatch, its bundles, what they wait for  *)
(* and are held for...                                                         *)

Completion(op, q, held) ==
    [op |-> op, dispatch |-> request[q].dispatch, customer |-> request[q].customer,
     bundles |-> request[q].bundles, held |-> held]

ReadComplete(q, d) ==
    LET c == dispatchCustomer[d]
    IN  /\ dispatchStatus[d] = "reserved"
        /\ items[d] # {}
        /\ items[d] \subseteq HeldHere(d)
        /\ \A b \in items[d] : asked[b] = NoMove /\ ~ForeignHold(b, c)
        /\ Await(q, [op |-> "suggest", dispatch |-> d, customer |-> c,
                     bundles |-> items[d], held |-> {}])
        /\ UNCHANGED <<orderVars, dispatchVars, bundleVars>>

(* ...picks lines for what nobody unlinked (relinkOpen)...                       *)
Suggest(q) ==
    LET d == request[q].dispatch
        c == request[q].customer
    IN  /\ request[q].op = "suggest"
        /\ \E picks \in [Bundles -> Lines] :
            /\ \A b \in Bundles :
                picks[b] \in IF b \in Loose(d) THEN Suggested(onLine[b], c) ELSE {NoOrder}
            /\ request' = [request EXCEPT ![q] =
                    IF \A b \in Bundles : picks[b] = NoOrder THEN Completion("measure", q, {})
                    ELSE [op |-> "relink", dispatch |-> d, customer |-> c,
                          bundles |-> request[q].bundles, picks |-> picks]]
        /\ UNCHANGED <<orderVars, dispatchVars, bundleVars>>

(* ...links them in a batch of its own: what is still loose, while the dispatch   *)
(* can change.  Whatever line a bundle with a pick has by then, it loses if that    *)
(* is no open one of the customer, and this half asks for no status...             *)
Relink(q) ==
    LET d == request[q].dispatch
        picks == request[q].picks
        may == IF dispatchStatus[d] \in Editable THEN Loose(d) ELSE {}
        linked == [b \in Bundles |-> IF b \in may THEN picks[b] ELSE link[d][b]]
    IN  /\ request[q].op = "relink"
        /\ link' = [link EXCEPT ![d] =
                [b \in Bundles |-> IF picks[b] # NoOrder THEN Kept(d, linked[b]) ELSE @[b]]]
        /\ request' = [request EXCEPT ![q] = Completion("measure", q, {})]
        /\ UNCHANGED <<orderVars, dispatchStatus, dispatchCustomer, items, unlinkedBy, overdraws, bundleVars>>

PendingAsk(d) == {n \in DOMAIN overdraws[d] : overdraws[d][n].status = "pending"}

(* refuseOverdraw begins: the pending request (0 for none) and the figures. *)
Refusal(q, d) ==
    request' = [request EXCEPT ![q] =
        [op |-> "refuse", dispatch |-> d, lines |-> OverFigures(d), prior |-> Max(PendingAsk(d) \cup {0})]]

(* ...measures the lines against their limits, and the holds it will end...     *)
Measure(q) ==
    LET d == request[q].dispatch
    IN  /\ request[q].op = "measure"
        /\ IF Uncovered(d) # {}
           THEN Refusal(q, d)
           ELSE request' = [request EXCEPT ![q] =
                    Completion("land", q, {b \in request[q].bundles : heldFor[b] # NoOrder})]
        /\ UNCHANGED <<orderVars, dispatchVars, bundleVars>>

(* The same figures stay asked for; others replace the request that was read,  *)
(* if it is still undecided.  One request is pending per dispatch: where        *)
(* another came first the batch fails.                                          *)
BatchRefuse(q) ==
    LET d == request[q].dispatch
        prior == request[q].prior
        withdrawn == [n \in DOMAIN overdraws[d] |->
            IF n = prior /\ overdraws[d][n].status = "pending"
            THEN [overdraws[d][n] EXCEPT !.status = "rejected"] ELSE overdraws[d][n]]
        same == prior # 0 /\ overdraws[d][prior].lines = request[q].lines
    IN  /\ request[q].op = "refuse"
        /\ IF same \/ PendingAsk(d) \ {prior} # {}
           THEN UNCHANGED overdraws
           ELSE /\ Len(overdraws[d]) < MaxAsks
                /\ overdraws' = [overdraws EXCEPT ![d] =
                        Append(withdrawn, [status |-> "pending", lines |-> request[q].lines])]
        /\ Done(q)
        /\ UNCHANGED <<orderVars, dispatchStatus, dispatchCustomer, items, link, unlinkedBy, bundleVars>>

(* ...and lands only if, at that moment, nothing of this has changed.  The      *)
(* foreign holds are judged by the customer that was read.                      *)
Landing(q) ==
    LET d == request[q].dispatch
    IN  /\ dispatchStatus[d] = "reserved"
        /\ OverdrawGuard(d)
        /\ UnlinkedWithOpenLine(d) = {}
        /\ \A b \in items[d] : asked[b] = NoMove /\ ~ForeignHold(b, request[q].customer)

BatchComplete(q) ==
    LET d == request[q].dispatch
        leaving == request[q].bundles \cap HeldHere(d)
        late == HeldHere(d) \ leaving
        met == {o \in {link[d][b] : b \in items[d] \ late} \ {NoOrder} :
                    orderStatus[o] \in {"booking", "confirmed"}}
    IN  /\ request[q].op = "land"
        /\ Landing(q)
        /\ dispatchStatus' = [dispatchStatus EXCEPT ![d] = "completed"]
        /\ bundleStatus' = [b \in Bundles |->
              IF b \in leaving THEN "dispatched"
              ELSE IF b \in late THEN "available" ELSE bundleStatus[b]]
        /\ holder' = [b \in Bundles |-> IF b \in late THEN NoDispatch ELSE holder[b]]
        /\ onLine' = [b \in Bundles |-> IF b \in leaving THEN link[d][b] ELSE onLine[b]]
        /\ heldFor' = [b \in Bundles |-> IF b \in request[q].held THEN NoOrder ELSE heldFor[b]]
        /\ items' = [items EXCEPT ![d] = @ \ late]
        /\ link' = [link EXCEPT ![d] = [b \in Bundles |-> IF b \in late THEN NoOrder ELSE @[b]]]
        /\ unlinkedBy' = [unlinkedBy EXCEPT ![d] = @ \ late]
        /\ orderStatus' = [o \in Orders |-> IF o \in met THEN "dispatching" ELSE orderStatus[o]]
        /\ orderVersion' = [o \in Orders |-> IF o \in met THEN Later(orderVersion[o]) ELSE orderVersion[o]]
        /\ Withdraw(d)
        /\ Done(q)
        /\ UNCHANGED <<orderCustomer, orderKg, dispatchCustomer, asked>>

(* A completion that did not land asks for the overdraw that stopped it. *)
AbortComplete(q) ==
    LET d == request[q].dispatch
    IN  /\ request[q].op = "land"
        /\ ~Landing(q)
        /\ IF dispatchStatus[d] = "reserved" /\ Uncovered(d) # {}
           THEN Refusal(q, d) ELSE Done(q)
        /\ UNCHANGED <<orderVars, dispatchVars, bundleVars>>

(* approval.decide of an overdraw request: only while it is pending. *)
DecideOverdraw(d, n, verdict) ==
    /\ n \in PendingAsk(d)
    /\ overdraws' = [overdraws EXCEPT ![d][n].status = verdict]
    /\ UNCHANGED <<orderVars, dispatchStatus, dispatchCustomer, items, link, unlinkedBy,
                   bundleVars, request>>

-----------------------------------------------------------------------------
(* Reallocation of one bundle to another line, or to plant stock (NoOrder).   *)

(* Bundles of another customer's line need an approval; plant stock needs one  *)
(* by where it came from, which is left open.                                   *)
NeedsApproval(b, o) ==
    IF o = NoOrder THEN {FALSE}
    ELSE IF onLine[b] = NoOrder THEN BOOLEAN
    ELSE {orderCustomer[onLine[b]] # orderCustomer[o]}

ReadMove(q, b, o) ==
    /\ o # NoOrder => Open(o)
    /\ asked[b] = NoMove
    /\ onLine[b] # o
    /\ heldFor[b] \in {NoOrder, o}
    /\ bundleStatus[b] = "available"
    /\ ~OnLiveDispatch(b)
    /\ \E approval \in NeedsApproval(b, o) :
        Await(q, [op |-> "move", bundle |-> b, from |-> onLine[b], to |-> o, approval |-> approval])
    /\ UNCHANGED <<orderVars, dispatchVars, bundleVars>>

(* Within a customer the bundle moves at once if it still lies available on     *)
(* its line and is held for no other.                                           *)
BatchMove(q) ==
    LET b == request[q].bundle
    IN  /\ request[q].op = "move"
        /\ ~request[q].approval
        /\ bundleStatus[b] = "available"
        /\ onLine[b] = request[q].from
        /\ heldFor[b] \in {NoOrder, request[q].to}
        /\ onLine' = [onLine EXCEPT ![b] = request[q].to]
        /\ Done(q)
        /\ UNCHANGED <<orderVars, dispatchVars, bundleStatus, holder, heldFor, asked>>

(* Mutant of MayAsk: a hold placed since the read does not matter. *)
MayAskHeld(b, o) == ~OnLiveDispatch(b) /\ asked[b] = NoMove

MayAsk(b, o) ==
    /\ ~OnLiveDispatch(b)
    /\ asked[b] = NoMove
    /\ heldFor[b] \in {NoOrder, o}

BatchAsk(q) ==
    LET b == request[q].bundle
        o == request[q].to
    IN  /\ request[q].op = "move"
        /\ request[q].approval
        /\ MayAsk(b, o)
        /\ asked' = [asked EXCEPT ![b] = [from |-> request[q].from, to |-> o]]
        /\ Done(q)
        /\ UNCHANGED <<orderVars, dispatchVars, bundleStatus, holder, onLine, heldFor>>

(* reallocateDecision: approved, the bundle moves if it still lies available on *)
(* the line it was asked from and the other order is open.                      *)
DecideMove(b, verdict) ==
    LET moves == /\ verdict = "approved"
                 /\ bundleStatus[b] = "available"
                 /\ onLine[b] = asked[b].from
                 /\ Open(asked[b].to)
    IN  /\ asked[b] # NoMove
        /\ onLine' = [onLine EXCEPT ![b] = IF moves THEN asked[b].to ELSE @]
        /\ asked' = [asked EXCEPT ![b] = NoMove]
        /\ UNCHANGED <<orderVars, dispatchVars, bundleStatus, holder, heldFor, request>>

-----------------------------------------------------------------------------
OrderStep ==
    \E o \in Orders :
        \/ \E c \in Customers, kg \in Amounts : CreateOrder(o, c, kg)
        \/ Confirm(o)
        \/ "close" \in Asked /\ (Close(o) \/ CancelOrder(o))
        \/ /\ "edit" \in Asked
           /\ \E q \in Slots, c \in Customers, kg \in Amounts : ReadEdit(q, o, kg, c)

BundleStep ==
    \E b \in Bundles :
        \/ \E o \in Lines : Pack(b, o)
        \/ "hold" \in Asked /\ (ReleaseHold(b) \/ \E o \in Orders : HoldFor(b, o))
        \/ /\ "move" \in Asked
           /\ \/ \E q \in Slots, o \in Lines : ReadMove(q, b, o)
              \/ \E verdict \in {"approved", "rejected"} : DecideMove(b, verdict)

DispatchStep ==
    \E d \in Dispatches :
        \/ \E c \in Customers : OpenDispatch(d, c)
        \/ Reserve(d)
        \/ "unreserve" \in Asked /\ Unreserve(d)
        \/ "cancel" \in Asked /\ CancelDispatch(d)
        \/ "link" \in Asked /\ \E b \in Bundles : UnlinkItem(d, b) \/ \E o \in Orders : LinkItem(d, b, o)
        \/ \E n \in 1..MaxAsks, verdict \in {"approved", "rejected"} : DecideOverdraw(d, n, verdict)
        \/ \E q \in Slots :
            \/ \E b \in Bundles : ReadAdd(q, d, b)
            \/ "remove" \in Asked /\ \E b \in Bundles : ReadRemove(q, d, b)
            \/ "recustomer" \in Asked /\ \E c \in Customers : ReadRecustomer(q, d, c)
            \/ ReadComplete(q, d)

BatchStep ==
    \E q \in Slots :
        \/ Drop(q)
        \/ BatchEdit(q)
        \/ BatchAdd(q)
        \/ BatchRemove(q)
        \/ BatchRecustomer(q)
        \/ Suggest(q)
        \/ Relink(q)
        \/ Measure(q)
        \/ BatchRefuse(q)
        \/ BatchComplete(q)
        \/ AbortComplete(q)
        \/ BatchMove(q)
        \/ BatchAsk(q)

Next == OrderStep \/ BundleStep \/ DispatchStep \/ BatchStep

Spec == Init /\ [][Next]_vars

-----------------------------------------------------------------------------
(* An item is only ever linked to an order of its dispatch's customer, though  *)
(* customers of dispatches and of orders change while links are suggested,     *)
(* made and dropped.                                                           *)
LinksAreTheCustomers ==
    \A d \in Dispatches, b \in Bundles :
        link[d][b] # NoOrder => orderCustomer[link[d][b]] = dispatchCustomer[d]

(* Stock in the yard is held for an open order only, and for the order it is   *)
(* packed for if there is one (orderHold.ts, at its head): closing, cancelling, *)
(* reallocating and holding race for both fields.                              *)
HoldsAreForOpenOrders ==
    \A b \in Bundles :
        heldFor[b] # NoOrder =>
            /\ Open(heldFor[b])
            /\ bundleStatus[b] # "dispatched" => onLine[b] \in {NoOrder, heldFor[b]}

(* What has really left against a line, counted at the bundles. *)
Left(o) == {b \in Bundles : bundleStatus[b] = "dispatched" /\ onLine[b] = o}

LeftFor(o) == Kg({<<holder[b], b>> : b \in Left(o)})

(* What has left against a line and is not, or no longer, an item linked to it   *)
(* on the dispatch it left with: the sums over items miss it.                     *)
Uncounted(o) ==
    {b \in Left(o) : b \notin items[holder[b]] \/ link[holder[b]][b] # o}

Completes(d) == dispatchStatus[d] = "reserved" /\ dispatchStatus'[d] = "completed"

(* Kg that have left against a line stay there, and count for it while its order  *)
(* is open until their item is taken off, whatever is linked, scanned, removed or   *)
(* suggested anew (linkItem, relinkOpen, dispatch.update).                            *)
LeftCountsUntilTakenOff ==
    [][\A o \in Orders : \A b \in Left(o) \ Uncounted(o) :
        /\ b \in Left(o)'
        /\ b \in Uncounted(o)' => b \notin items'[holder[b]] \/ ~Open(o)]_vars

(* Whatever completes at the same time, and whatever is linked or edited after  *)
(* the measuring, a completion takes no line past its kg and tolerance unless   *)
(* an approved request of that dispatch allows as much; as long as all that has  *)
(* left against the line is still counted at an item.                             *)
KgLeavesWithinLimit ==
    [][\A d \in Dispatches, o \in Orders :
        (Completes(d) /\ Uncounted(o)' = {} /\ LeftFor(o)' > LeftFor(o))
            => LeftFor(o)' <= LineLimit(o) \/ Allowed(d, o, LeftFor(o)')]_vars

(* No listed bundle leaves past an open order of the customer without counting   *)
(* for it, unless the office took it off the order while the dispatch was this    *)
(* customer's.                                                                    *)
KgMeetsTheOrder ==
    [][\A d \in Dispatches : \A b \in items[d] :
        (Completes(d) /\ bundleStatus'[b] = "dispatched" /\ bundleStatus[b] = "reserved"
                      /\ holder[b] = d /\ OpenFor(dispatchCustomer[d]) # {})
            => \/ onLine'[b] \in {o \in Orders : orderCustomer[o] = dispatchCustomer[d]}
               \/ b \in unlinkedBy[d]]_vars

(* A request for an overdraw is decided or withdrawn once, and what it names is   *)
(* never rewritten under the eyes of who approves it (refuseOverdraw).            *)
AsksStand ==
    [][\A d \in Dispatches : \A n \in DOMAIN overdraws[d] :
        /\ n \in DOMAIN overdraws'[d]
        /\ overdraws'[d][n].lines = overdraws[d][n].lines
        /\ overdraws[d][n].status # "pending" => overdraws'[d][n] = overdraws[d][n]]_vars

-----------------------------------------------------------------------------
(* What the code says and does not keep.                                     *)

(* complete: "a race cannot slip past it": past the order and its tolerance      *)
(* without an approval, counted by what has left.                                *)
NoOverdrawSlipsPast ==
    [][\A d \in Dispatches, o \in Orders :
        (Completes(d) /\ LeftFor(o)' > LeftFor(o))
            => LeftFor(o)' <= LineLimit(o) \/ Allowed(d, o, LeftFor(o)')]_vars
=============================================================================
