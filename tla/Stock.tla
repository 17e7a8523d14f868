------------------------------- MODULE Stock -------------------------------
(***************************************************************************)
(* The yard and the kg stock ledger: bundles, the locations they lie at and *)
(* the ledger rows posted beside every bundle write.                        *)
(*                                                                          *)
(* The database gives a request no transaction over its reads.  A request   *)
(* reads, decides, and then sends ONE batch of statements that runs         *)
(* serially and all or nothing; between the two anything else may run.  So  *)
(* every handler below is two actions, Read... and Batch..., and `request'  *)
(* carries what the read saw.  What the batch trusts from the read and what *)
(* it checks again in its WHERE clauses is the subject of the module.       *)
(***************************************************************************)
EXTENDS Integers, FiniteSets, FiniteSetsExt

CONSTANTS
    Bundles,        \* bundle ids, those not packed yet included
    Legacy,         \* bundles from before the ledger existed
    Locations,      \* location ids
    NoPlace,        \* bundle.location_id IS NULL
    Weight,         \* grams of each bundle; no code changes a bundle's weight
    NoDispatch,     \* bundle.current_dispatch_id IS NULL
    StockSlots      \* how many stock requests may be in flight, by name

Places == Locations \cup {NoPlace}

ASSUME StockAssumption ==
    /\ IsFiniteSet(Bundles)
    /\ Legacy \subseteq Bundles
    /\ NoPlace \notin Locations
    /\ Weight \in [Bundles -> Nat \ {0}]

VARIABLES
    bundleStatus,       \* bundle.status; "absent" before the row exists
    currentDispatchId,  \* bundle.current_dispatch_id
    locationId,         \* bundle.location_id
    active,             \* location.active
    kind,               \* location.kind, "yard" or any other kind
    ledger,             \* sum of stock_ledger.qty_g of a bundle at a place
    onLedger,           \* bundles that have ledger rows
    request             \* per slot: the stock request in flight

bundleVars == <<bundleStatus, currentDispatchId, locationId>>
locationVars == <<active, kind>>
ledgerVars == <<ledger, onLedger>>
stockVars == <<bundleVars, locationVars, ledgerVars, request>>

BundleStatuses == {"available", "reserved", "dispatched", "void"}
InStockStatuses == {"available", "reserved"}
LocationKinds == {"yard", "store"}

Idle == [op |-> "idle"]

InStock(b) == bundleStatus[b] \in InStockStatuses

Exists(b) == bundleStatus[b] # "absent"

(* Stock of one bundle by place, as the bundle row says it should be. *)
Projection(b) ==
    [p \in Places |-> IF InStock(b) /\ locationId[b] = p THEN Weight[b] ELSE 0]

ActiveYard(p) == p \in Locations /\ active[p] /\ kind[p] = "yard"

LedgerAt(p) == MapThenSumSet(LAMBDA b : ledger[b][p], Bundles)

LocationIsEmpty(l) ==
    /\ \A b \in Bundles : ~(InStock(b) /\ locationId[b] = l)
    /\ LedgerAt(l) = 0

(* M4_ALLOWED_TRANSITIONS: what bundle.transitionStatus may do. *)
TransitionAllowed(from, to) == <<from, to>> \in {<<"available", "void">>, <<"void", "available">>}

-----------------------------------------------------------------------------
(* Postings.  `bs' is a set of bundles whose row the batch has just written; *)
(* only those on the ledger are posted, and the place is read from the row.  *)

(* Mutant of PostAt: rows posted for bundles the ledger does not know yet. *)
PostAlways(book, bs, sign) ==
    [b \in Bundles |->
        IF b \in bs THEN [book[b] EXCEPT ![locationId[b]] = @ + sign * Weight[b]] ELSE book[b]]

PostAt(book, bs, sign) ==
    [b \in Bundles |->
        IF b \in bs \cap onLedger
        THEN [book[b] EXCEPT ![locationId[b]] = @ + sign * Weight[b]]
        ELSE book[b]]

PackRows(b, p) ==
    /\ ledger' = [ledger EXCEPT ![b][p] = @ + Weight[b]]
    /\ onLedger' = onLedger \cup {b}

VoidRows(b) == ledger' = PostAt(ledger, {b}, -1)

RestoreRows(b) == ledger' = PostAt(ledger, {b}, 1)

DispatchRows(bs) == ledger' = PostAt(ledger, bs, -1)

(* The - rows at the old place and the + rows at the new one. *)
MoveRows(bs, to) ==
    ledger' = [b \in Bundles |->
        IF b \in bs \cap onLedger
        THEN [ledger[b] EXCEPT ![locationId[b]] = @ - Weight[b], ![to] = @ + Weight[b]]
        ELSE ledger[b]]

-----------------------------------------------------------------------------
(* An update of the code, name or sort order alone changes nothing here. *)
Patches ==
    [active : {"keep", "on", "off"}, kind : LocationKinds \cup {"keep"}]
        \ {[active |-> "keep", kind |-> "keep"]}

StockRequests ==
    {Idle}
    \cup [op : {"receipt"}, place : Places]
    \cup [op : {"transition"}, bundle : Bundles, from : BundleStatuses, to : BundleStatuses]
    \cup [op : {"move"}, bundles : SUBSET Bundles, to : Locations]
    \cup [op : {"update"}, location : Locations, patch : Patches, guarded : BOOLEAN]

StockTypeOK ==
    /\ bundleStatus \in [Bundles -> BundleStatuses \cup {"absent"}]
    /\ locationId \in [Bundles -> Places]
    /\ active \in [Locations -> BOOLEAN]
    /\ kind \in [Locations -> LocationKinds]
    /\ ledger \in [Bundles -> [Places -> Int]]
    /\ onLedger \subseteq Bundles
    /\ request \in [StockSlots -> StockRequests]

(* Legacy bundles lie somewhere in the yard and have no ledger rows yet. *)
StockInit ==
    /\ bundleStatus = [b \in Bundles |-> IF b \in Legacy THEN "available" ELSE "absent"]
    /\ currentDispatchId = [b \in Bundles |-> NoDispatch]
    /\ locationId \in {f \in [Bundles -> Places] : \A b \in Bundles \ Legacy : f[b] = NoPlace}
    /\ active = [l \in Locations |-> TRUE]
    /\ kind = [l \in Locations |-> "yard"]
    /\ ledger = [b \in Bundles |-> [p \in Places |-> 0]]
    /\ onLedger = {}
    /\ request = [r \in StockSlots |-> Idle]

Begin(r, req) ==
    /\ request[r] = Idle
    /\ request' = [request EXCEPT ![r] = req]
    /\ UNCHANGED <<bundleVars, locationVars, ledgerVars>>

Finish(r) == request' = [request EXCEPT ![r] = Idle]

(* A request that is refused after its reads by a check that is not modelled *)
(* (ageing, order lines), or whose worker dies: it writes nothing.           *)
Drop(r) ==
    /\ request[r] # Idle
    /\ Finish(r)
    /\ UNCHANGED <<bundleVars, locationVars, ledgerVars>>

(* bundle.createReceipt: pack a new bundle into a yard. *)
ReadReceipt(r, p) ==
    /\ p = NoPlace => \A l \in Locations : ~ActiveYard(l)
    /\ p # NoPlace => ActiveYard(p)
    /\ Begin(r, [op |-> "receipt", place |-> p])

ReceiptLands(r) == request[r].place = NoPlace \/ ActiveYard(request[r].place)

BatchReceipt(r, b) ==
    /\ request[r].op = "receipt"
    /\ ~Exists(b)
    /\ ReceiptLands(r)
    /\ bundleStatus' = [bundleStatus EXCEPT ![b] = "available"]
    /\ locationId' = [locationId EXCEPT ![b] = request[r].place]
    /\ PackRows(b, request[r].place)
    /\ Finish(r)
    /\ UNCHANGED <<currentDispatchId, locationVars>>

(* The group row does not land, so the bundles break its foreign key. *)
AbortReceipt(r) ==
    /\ request[r].op = "receipt"
    /\ ~ReceiptLands(r)
    /\ Finish(r)
    /\ UNCHANGED <<bundleVars, locationVars, ledgerVars>>

(* bundle.import: stock taken on at an unknown place, straight onto the ledger. *)
Import(b) ==
    /\ ~Exists(b)
    /\ bundleStatus' = [bundleStatus EXCEPT ![b] = "available"]
    /\ locationId' = [locationId EXCEPT ![b] = NoPlace]
    /\ PackRows(b, NoPlace)
    /\ UNCHANGED <<currentDispatchId, locationVars, request>>

(* bundle.transitionStatus: void a bundle, or restore a void one. *)
ReadTransition(r, b, to) ==
    /\ Exists(b)
    /\ TransitionAllowed(bundleStatus[b], to)
    /\ Begin(r, [op |-> "transition", bundle |-> b, from |-> bundleStatus[b], to |-> to])

(* Mutant of TransitionLands: no status predicate in the UPDATE. *)
TransitionAlwaysLands(r) == TRUE

TransitionLands(r) == bundleStatus[request[r].bundle] = request[r].from

BatchTransition(r) ==
    LET b == request[r].bundle
        to == request[r].to
    IN  /\ request[r].op = "transition"
        /\ IF TransitionLands(r)
           THEN /\ bundleStatus' = [bundleStatus EXCEPT ![b] = to]
                /\ IF to = "void" THEN VoidRows(b) ELSE RestoreRows(b)
           ELSE UNCHANGED <<bundleStatus, ledger>>
        /\ Finish(r)
        /\ UNCHANGED <<currentDispatchId, locationId, locationVars, onLedger>>

(* stock.move: bundles to a yard; those already there stay out of the batch. *)
ReadMove(r, bs, to) ==
    /\ ActiveYard(to)
    /\ \A b \in bs : InStock(b)
    /\ \E b \in bs : locationId[b] # to
    /\ Begin(r, [op |-> "move", bundles |-> {b \in bs : locationId[b] # to}, to |-> to])

(* Mutant of Movable: the yard is trusted from the read. *)
MovableAnywhere(b, to) == InStock(b) /\ locationId[b] # to

Movable(b, to) == InStock(b) /\ locationId[b] # to /\ ActiveYard(to)

BatchMove(r) ==
    LET to == request[r].to
        moved == {b \in request[r].bundles : Movable(b, to)}
    IN  /\ request[r].op = "move"
        /\ locationId' = [b \in Bundles |-> IF b \in moved THEN to ELSE locationId[b]]
        /\ MoveRows(moved, to)
        /\ Finish(r)
        /\ UNCHANGED <<bundleStatus, currentDispatchId, locationVars, onLedger>>

(* stock.locations.update.  Whether the emptiness guard goes into the UPDATE *)
(* is decided on the row as it was read.                                     *)
Retiring(l, patch) == patch.active = "off" /\ active[l]

Retyping(l, patch) == patch.kind # "keep" /\ patch.kind # kind[l]

ReadUpdate(r, l, patch) ==
    Begin(r, [op |-> "update", location |-> l, patch |-> patch,
              guarded |-> Retiring(l, patch) \/ Retyping(l, patch)])

BatchUpdate(r) ==
    LET l == request[r].location
        patch == request[r].patch
    IN  /\ request[r].op = "update"
        /\ IF request[r].guarded => LocationIsEmpty(l)
           THEN /\ active' = [active EXCEPT ![l] = IF patch.active = "keep" THEN @ ELSE patch.active = "on"]
                /\ kind' = [kind EXCEPT ![l] = IF patch.kind = "keep" THEN @ ELSE patch.kind]
           ELSE UNCHANGED locationVars
        /\ Finish(r)
        /\ UNCHANGED <<bundleVars, ledgerVars>>

(* stock.openingBalance: every in-stock bundle without rows goes on the ledger. *)
OffLedger == {b \in Bundles : InStock(b) /\ b \notin onLedger}

OpeningBalance ==
    /\ OffLedger # {}
    /\ onLedger' = onLedger \cup OffLedger
    /\ ledger' = [b \in Bundles |->
            IF b \in OffLedger THEN [ledger[b] EXCEPT ![locationId[b]] = @ + Weight[b]] ELSE ledger[b]]
    /\ UNCHANGED <<bundleVars, locationVars, request>>

StockNext ==
    \/ OpeningBalance
    \/ \E b \in Bundles : Import(b)
    \/ \E r \in StockSlots :
        \/ Drop(r)
        \/ \E p \in Places : ReadReceipt(r, p)
        \/ \E b \in Bundles : BatchReceipt(r, b)
        \/ AbortReceipt(r)
        \/ \E b \in Bundles, to \in BundleStatuses : ReadTransition(r, b, to)
        \/ BatchTransition(r)
        \/ \E bs \in SUBSET Bundles, to \in Locations : ReadMove(r, bs, to)
        \/ BatchMove(r)
        \/ \E l \in Locations, patch \in Patches : ReadUpdate(r, l, patch)
        \/ BatchUpdate(r)

=============================================================================
