------------------------------ MODULE Dispatch ------------------------------
(***************************************************************************)
(* The dispatch router over the yard: a dispatch lists bundles, reserves    *)
(* them, and completing it sends them out with a packing list.  As in       *)
(* Stock, a handler is a Read... step and a Batch... step, and anything may *)
(* run between them; the batch has only the guards its statements carry.    *)
(***************************************************************************)
EXTENDS Stock

CONSTANTS
    Dispatches,         \* dispatch ids
    DispatchSlots       \* how many dispatch requests may be in flight, by name

ASSUME DispatchAssumption ==
    /\ NoDispatch \notin Dispatches

VARIABLES
    dispatchStatus,     \* dispatch.status; "absent" before the row exists
    deleted,            \* dispatches with deleted_at set
    items,              \* dispatch_item: the bundles a dispatch lists
    listed,             \* packing_list_line of the dispatch's packing list
    pending             \* per slot: the dispatch request in flight

dispatchVars == <<dispatchStatus, deleted, items, listed, pending>>
vars == <<stockVars, dispatchVars>>

DispatchStatuses == {"draft", "reserved", "completed", "cancelled"}

(* DISPATCH_TRANSITIONS of the shared domain package. *)
DISPATCH_TRANSITIONS ==
    [draft |-> {"reserved", "cancelled"},
     reserved |-> {"draft", "completed", "cancelled"},
     completed |-> {},
     cancelled |-> {}]

EditableDispatch == {"draft", "reserved"}

Live(d) == dispatchStatus[d] # "absent" /\ d \notin deleted

(* assertDispatchTransition: the row as a handler reads it. *)
MayMove(d, to) == Live(d) /\ to \in DISPATCH_TRANSITIONS[dispatchStatus[d]]

(* Mutant of StillMoves: the UPDATE asks only for a live row. *)
StillLive(d, to) == Live(d)

(* dispatchInStatus(dispatchStatusesInto(to)): the same table at write time. *)
StillMoves(d, to) == Live(d) /\ to \in DISPATCH_TRANSITIONS[dispatchStatus[d]]

(* Mutant of DispatchIsHeld: the hold asks only for a live row. *)
DispatchIsLive(d) == d \notin deleted

(* dispatchIsHeld: live and reserved right now. *)
DispatchIsHeld(d) == d \notin deleted /\ dispatchStatus[d] = "reserved"

HeldBy(d) == {b \in Bundles : bundleStatus[b] = "reserved" /\ currentDispatchId[b] = d}

DispatchRequests ==
    {Idle}
    \cup [op : {"add"}, dispatch : Dispatches, bundles : SUBSET Bundles, hold : BOOLEAN]
    \cup [op : {"remove"}, dispatch : Dispatches, bundle : Bundles, release : BOOLEAN]
    \cup [op : {"reserve", "complete"}, dispatch : Dispatches, bundles : SUBSET Bundles]
    \cup [op : {"list"}, dispatch : Dispatches, bundles : SUBSET Bundles, lines : SUBSET Bundles]
    \cup [op : {"unreserve", "cancel", "delete"}, dispatch : Dispatches]

TypeOK ==
    /\ StockTypeOK
    /\ currentDispatchId \in [Bundles -> Dispatches \cup {NoDispatch}]
    /\ dispatchStatus \in [Dispatches -> DispatchStatuses \cup {"absent"}]
    /\ deleted \subseteq Dispatches
    /\ items \in [Dispatches -> SUBSET Bundles]
    /\ listed \in [Dispatches -> SUBSET Bundles]
    /\ pending \in [DispatchSlots -> DispatchRequests]

Init ==
    /\ StockInit
    /\ dispatchStatus = [d \in Dispatches |-> "absent"]
    /\ deleted = {}
    /\ items = [d \in Dispatches |-> {}]
    /\ listed = [d \in Dispatches |-> {}]
    /\ pending = [q \in DispatchSlots |-> Idle]

-----------------------------------------------------------------------------
(* Bundle writes the dispatch procedures share. *)

Hold(bs, d) ==
    /\ bundleStatus' = [b \in Bundles |-> IF b \in bs THEN "reserved" ELSE bundleStatus[b]]
    /\ currentDispatchId' = [b \in Bundles |-> IF b \in bs THEN d ELSE currentDispatchId[b]]

Release(bs) ==
    /\ bundleStatus' = [b \in Bundles |-> IF b \in bs THEN "available" ELSE bundleStatus[b]]
    /\ currentDispatchId' = [b \in Bundles |-> IF b \in bs THEN NoDispatch ELSE currentDispatchId[b]]

(* Mutant of Available: the hold trusts the statuses its request read. *)
AvailableAsRead(bs) == bs

Available(bs) == {b \in bs : bundleStatus[b] = "available"}

(* Mutant of SetStatus: a bundle status written to a dispatch. *)
SetBundleStatus(d, to) ==
    dispatchStatus' = [dispatchStatus EXCEPT ![d] = IF to = "cancelled" THEN "void" ELSE to]

SetStatus(d, to) == dispatchStatus' = [dispatchStatus EXCEPT ![d] = to]

Await(q, req) ==
    /\ pending' = [pending EXCEPT ![q] = req]
    /\ UNCHANGED <<stockVars, dispatchStatus, deleted, items, listed>>

Ask(q, req) == pending[q] = Idle /\ Await(q, req)

Done(q) == pending' = [pending EXCEPT ![q] = Idle]

(* A request refused after its reads by a rule outside this module (order    *)
(* holds, ageing, capacity, overdraw), or whose worker dies, writes nothing. *)
Fail(q) ==
    /\ pending[q] # Idle
    /\ Done(q)
    /\ UNCHANGED <<stockVars, dispatchStatus, deleted, items, listed>>

-----------------------------------------------------------------------------
Create(d) ==
    /\ dispatchStatus[d] = "absent"
    /\ SetStatus(d, "draft")
    /\ UNCHANGED <<stockVars, deleted, items, listed, pending>>

(* dispatch.scan, addBundlesBySerial and addBundle: of the codes asked for,  *)
(* those that are free (or held here already) and not yet listed.            *)
ReadAdd(q, d, bs) ==
    LET free == {b \in bs : bundleStatus[b] = "available" \/ b \in HeldBy(d)} \ items[d]
    IN  /\ Live(d)
        /\ dispatchStatus[d] \in EditableDispatch
        /\ free # {}
        /\ Ask(q, [op |-> "add", dispatch |-> d, bundles |-> free,
                   hold |-> dispatchStatus[d] = "reserved"])

(* The items land whatever became of the dispatch; only the hold is guarded. *)
BatchAdd(q) ==
    LET d == pending[q].dispatch
        bs == pending[q].bundles
        holding == IF pending[q].hold /\ DispatchIsHeld(d) THEN Available(bs) ELSE {}
    IN  /\ pending[q].op = "add"
        /\ bs \cap items[d] = {}
        /\ items' = [items EXCEPT ![d] = @ \cup bs]
        /\ Hold(holding, d)
        /\ Done(q)
        /\ UNCHANGED <<locationId, locationVars, ledgerVars, request, dispatchStatus, deleted, listed>>

(* UNIQUE(dispatch_id, bundle_id): the batch rolls back and the caller reads again. *)
AbortAdd(q) ==
    /\ pending[q].op = "add"
    /\ pending[q].bundles \cap items[pending[q].dispatch] # {}
    /\ Done(q)
    /\ UNCHANGED <<stockVars, dispatchStatus, deleted, items, listed>>

ReadRemove(q, d, b) ==
    /\ Live(d)
    /\ dispatchStatus[d] \in EditableDispatch
    /\ b \in items[d]
    /\ Ask(q, [op |-> "remove", dispatch |-> d, bundle |-> b,
               release |-> dispatchStatus[d] = "reserved" /\ b \in HeldBy(d)])

(* The DELETE of the item carries no condition on the dispatch. *)
BatchRemove(q) ==
    LET d == pending[q].dispatch
        b == pending[q].bundle
    IN  /\ pending[q].op = "remove"
        /\ items' = [items EXCEPT ![d] = @ \ {b}]
        /\ Release(IF pending[q].release THEN {b} \cap HeldBy(d) ELSE {})
        /\ Done(q)
        /\ UNCHANGED <<locationId, locationVars, ledgerVars, request, dispatchStatus, deleted, listed>>

ReadReserve(q, d) ==
    /\ MayMove(d, "reserved")
    /\ items[d] # {}
    /\ \A b \in items[d] : bundleStatus[b] = "available"
    /\ Ask(q, [op |-> "reserve", dispatch |-> d, bundles |-> items[d]])

(* The dispatch first; the holds land only if that very write did. *)
BatchReserve(q) ==
    LET d == pending[q].dispatch
    IN  /\ pending[q].op = "reserve"
        /\ IF StillMoves(d, "reserved")
           THEN SetStatus(d, "reserved") /\ Hold(Available(pending[q].bundles), d)
           ELSE UNCHANGED <<dispatchStatus, bundleStatus, currentDispatchId>>
        /\ Done(q)
        /\ UNCHANGED <<locationId, locationVars, ledgerVars, request, deleted, items, listed>>

ReadUnreserve(q, d) ==
    /\ MayMove(d, "draft")
    /\ Ask(q, [op |-> "unreserve", dispatch |-> d])

ReadCancel(q, d) ==
    /\ MayMove(d, "cancelled")
    /\ Ask(q, [op |-> "cancel", dispatch |-> d])

(* Every hold of the dispatch goes, whatever its status is by now; the      *)
(* status moves only along the table.                                        *)
HeldItems(d) == HeldBy(d) \cap items[d]     \* mutant of ToRelease: only the items listed

ToRelease(d) == HeldBy(d)

ReleaseAllHolds(q, to) ==
    LET d == pending[q].dispatch
    IN  /\ Release(ToRelease(d))
        /\ IF StillMoves(d, to) THEN SetStatus(d, to) ELSE UNCHANGED dispatchStatus
        /\ Done(q)
        /\ UNCHANGED <<locationId, locationVars, ledgerVars, request, deleted, items, listed>>

BatchUnreserve(q) == pending[q].op = "unreserve" /\ ReleaseAllHolds(q, "draft")

BatchCancel(q) == pending[q].op = "cancel" /\ ReleaseAllHolds(q, "cancelled")

(* dispatch.complete reads the dispatch with its items and their bundles... *)
ReadComplete(q, d) ==
    /\ MayMove(d, "completed")
    /\ items[d] # {}
    /\ items[d] \subseteq HeldBy(d)
    /\ Ask(q, [op |-> "complete", dispatch |-> d, bundles |-> items[d]])

(* ...and later, in packingListWriteBatch, the items once more for the list. *)
ReadPackingList(q) ==
    /\ pending[q].op = "complete"
    /\ Await(q, [op |-> "list", dispatch |-> pending[q].dispatch, bundles |-> pending[q].bundles,
                 lines |-> items[pending[q].dispatch]])

(* The bundles of the first read leave if they are still held here; a       *)
(* bundle held here that was not in that read is unlisted and released.      *)
BatchComplete(q) ==
    LET d == pending[q].dispatch
        leaving == pending[q].bundles \cap HeldBy(d)
        late == HeldBy(d) \ leaving
    IN  /\ pending[q].op = "list"
        /\ StillMoves(d, "completed")
        /\ SetStatus(d, "completed")
        /\ bundleStatus' = [b \in Bundles |->
                CASE b \in leaving -> "dispatched"
                  [] b \in late -> "available"
                  [] OTHER -> bundleStatus[b]]
        /\ currentDispatchId' = [b \in Bundles |->
                IF b \in late THEN NoDispatch ELSE currentDispatchId[b]]
        /\ items' = [items EXCEPT ![d] = @ \ late]
        /\ DispatchRows(leaving)
        /\ listed' = [listed EXCEPT ![d] = pending[q].lines]
        /\ Done(q)
        /\ UNCHANGED <<locationId, locationVars, onLedger, request, deleted>>

(* batchAbortUnless(landed): the completion that lost its race writes nothing. *)
AbortComplete(q) ==
    /\ pending[q].op = "list"
    /\ ~StillMoves(pending[q].dispatch, "completed")
    /\ Done(q)
    /\ UNCHANGED <<stockVars, dispatchStatus, deleted, items, listed>>

Deletable == {"draft", "cancelled"}

ReadDelete(q, d) ==
    /\ Live(d)
    /\ dispatchStatus[d] \in Deletable
    /\ Ask(q, [op |-> "delete", dispatch |-> d])

BatchDelete(q) ==
    LET d == pending[q].dispatch
    IN  /\ pending[q].op = "delete"
        /\ deleted' = IF dispatchStatus[d] \in Deletable THEN deleted \cup {d} ELSE deleted
        /\ Done(q)
        /\ UNCHANGED <<stockVars, dispatchStatus, items, listed>>

DispatchNext ==
    \/ \E d \in Dispatches : Create(d)
    \/ \E q \in DispatchSlots :
        \/ Fail(q)
        \/ \E d \in Dispatches :
            \/ \E bs \in SUBSET Bundles : ReadAdd(q, d, bs)
            \/ \E b \in Bundles : ReadRemove(q, d, b)
            \/ ReadReserve(q, d)
            \/ ReadUnreserve(q, d)
            \/ ReadCancel(q, d)
            \/ ReadComplete(q, d)
            \/ ReadDelete(q, d)
        \/ BatchAdd(q)
        \/ AbortAdd(q)
        \/ BatchRemove(q)
        \/ BatchReserve(q)
        \/ BatchUnreserve(q)
        \/ BatchCancel(q)
        \/ ReadPackingList(q)
        \/ BatchComplete(q)
        \/ AbortComplete(q)
        \/ BatchDelete(q)

Next == (StockNext /\ UNCHANGED dispatchVars) \/ DispatchNext

Spec == Init /\ [][Next]_vars

-----------------------------------------------------------------------------
(* No bundle is left reserved against a dispatch that is not live and        *)
(* reserved, one that left did so with a completed dispatch, and any other   *)
(* bundle points at no dispatch: the guarantee at the head of dispatch.ts,   *)
(* "whatever the interleaving of these procedures".                          *)
NoStrayHold ==
    \A b \in Bundles :
        LET d == currentDispatchId[b]
        IN  /\ bundleStatus[b] = "reserved" => d \in Dispatches \ deleted /\ dispatchStatus[d] = "reserved"
            /\ bundleStatus[b] = "dispatched" => d \in Dispatches /\ dispatchStatus[d] = "completed"
            /\ bundleStatus[b] \notin {"reserved", "dispatched"} => d = NoDispatch

(* A bundle's ledger balance, place by place, always equals its projection   *)
(* (ledger.ts: available or reserved is + weight where the bundle lies,      *)
(* dispatched or void is 0), and a bundle off the ledger has no balance.     *)
LedgerMatchesProjection ==
    \A b \in Bundles :
        ledger[b] = IF b \in onLedger THEN Projection(b) ELSE [p \in Places |-> 0]

(* Neither status moves along a transition its domain table forbids          *)
(* (DISPATCH_TRANSITIONS; available-void for bundle.transitionStatus and     *)
(* available-reserved-dispatched for the dispatch flow), and what left with  *)
(* a dispatch stays with it.                                                 *)
BundleMoves ==
    {<<"absent", "available">>, <<"available", "void">>, <<"void", "available">>,
     <<"available", "reserved">>, <<"reserved", "available">>, <<"reserved", "dispatched">>}

DispatchMoves ==
    {<<"absent", "draft">>, <<"draft", "reserved">>, <<"draft", "cancelled">>,
     <<"reserved", "draft">>, <<"reserved", "completed">>, <<"reserved", "cancelled">>}

StatusMovesFollowTheTables ==
    [][/\ \A d \in Dispatches :
            \/ dispatchStatus'[d] = dispatchStatus[d]
            \/ d \notin deleted /\ <<dispatchStatus[d], dispatchStatus'[d]>> \in DispatchMoves
       /\ \A b \in Bundles :
            \/ bundleStatus'[b] = bundleStatus[b] /\ currentDispatchId'[b] = currentDispatchId[b]
            \/ <<bundleStatus[b], bundleStatus'[b]>> \in BundleMoves]_vars

(* A bundle comes to lie at a location only while that location is an active *)
(* yard, also when it was retired or re-typed after the request read it.     *)
BundlesGoToActiveYards ==
    [][\A b \in Bundles :
        locationId'[b] # locationId[b] => locationId'[b] = NoPlace \/ ActiveYard(locationId'[b])]_vars

(* Deleting, cancelling or completing a dispatch is the last thing that      *)
(* happens to its stock: no later request can hold a bundle for it or send   *)
(* another one out with it.                                                  *)
ClosedDispatchGainsNoStock ==
    [][\A d \in Dispatches :
        (d \in deleted \/ dispatchStatus[d] \in {"completed", "cancelled"})
            => \A b \in Bundles : currentDispatchId'[b] = d => currentDispatchId[b] = d]_vars

(* Dispatch and yard together keep the book of HoldBook: every batch is one  *)
(* of its operations or changes nothing there.                               *)
WhereIs(b) ==
    CASE bundleStatus[b] = "absent" -> <<"out">>
      [] bundleStatus[b] = "available" -> <<"free">>
      [] bundleStatus[b] = "void" -> <<"void">>
      [] bundleStatus[b] = "reserved" -> <<"held", currentDispatchId[b]>>
      [] bundleStatus[b] = "dispatched" -> <<"gone", currentDispatchId[b]>>

Whereabouts == [b \in Bundles |-> WhereIs(b)]

Book == INSTANCE HoldBook WITH where <- Whereabouts, stage <- dispatchStatus

KeepsTheBook == Book!BookSpec

-----------------------------------------------------------------------------
(* What the code says and does not keep.                                     *)

(* complete: "Bundles added (and reserved) after our read are not on the     *)
(* packing list: unlist and release them".                                   *)
LateBundlesAreNotListed ==
    [][\A d \in Dispatches, b \in Bundles :
        /\ dispatchStatus[d] = "reserved" /\ dispatchStatus'[d] = "completed"
        /\ b \in HeldBy(d) /\ bundleStatus'[b] = "available"
        => b \notin listed'[d]]_vars

(* stock.locations.update: "A retired or re-typed location must be empty."   *)
UnusableYardIsEmpty ==
    \A l \in Locations : ~ActiveYard(l) => \A b \in Bundles : ~(InStock(b) /\ locationId[b] = l)
=============================================================================
