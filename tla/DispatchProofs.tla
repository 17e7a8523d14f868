--------------------------- MODULE DispatchProofs ---------------------------
(***************************************************************************)
(* Theorems about Dispatch for any set of bundles, dispatches, locations    *)
(* and requests in flight: it is well typed and keeps holds sound.          *)
(***************************************************************************)
EXTENDS Dispatch, TLAPS

-----------------------------------------------------------------------------
(* What a request in flight carries, by the kind of request. *)

LEMMA StockRequestFields ==
    ASSUME StockTypeOK, NEW r \in StockSlots
    PROVE  /\ request[r].op = "receipt" => request[r].place \in Places
           /\ request[r].op = "transition" =>
                /\ request[r].bundle \in Bundles
                /\ request[r].from \in BundleStatuses
                /\ request[r].to \in BundleStatuses
           /\ request[r].op = "move" =>
                /\ request[r].bundles \in SUBSET Bundles
                /\ request[r].to \in Locations
           /\ request[r].op = "update" =>
                /\ request[r].location \in Locations
                /\ request[r].patch \in Patches
                /\ request[r].guarded \in BOOLEAN
  BY DEF StockTypeOK, StockRequests, Idle

LEMMA PendingFields ==
    ASSUME TypeOK, NEW q \in DispatchSlots
    PROVE  /\ pending[q].op # "idle" => pending[q].dispatch \in Dispatches
           /\ pending[q].op \in {"add", "reserve", "complete", "list"} => pending[q].bundles \in SUBSET Bundles
           /\ pending[q].op = "remove" => pending[q].bundle \in Bundles
           /\ pending[q].op = "list" => pending[q].lines \in SUBSET Bundles
  BY DEF TypeOK, DispatchRequests, Idle

-----------------------------------------------------------------------------
(* Type correctness. *)

(* A bundle's weight is a number, so any posting leaves numbers behind. *)
LEMMA PostingTypes ==
    ASSUME StockTypeOK, NEW bs \in SUBSET Bundles
    PROVE  /\ \A sign \in {1, -1} : PostAt(ledger, bs, sign) \in [Bundles -> [Places -> Int]]
           /\ \A to \in Places : MoveRows(bs, to) => ledger' \in [Bundles -> [Places -> Int]]
           /\ \A b \in Bundles, p \in Places : PackRows(b, p) =>
                ledger' \in [Bundles -> [Places -> Int]] /\ onLedger' \subseteq Bundles
  <1> USE StockAssumption DEF StockTypeOK
  <1>1. ASSUME NEW sign \in {1, -1}
        PROVE  PostAt(ledger, bs, sign) \in [Bundles -> [Places -> Int]]
    BY <1>1 DEF PostAt
  <1>2. ASSUME NEW to \in Places, MoveRows(bs, to)
        PROVE  ledger' \in [Bundles -> [Places -> Int]]
    BY <1>2 DEF MoveRows
  <1>3. ASSUME NEW b \in Bundles, NEW p \in Places, PackRows(b, p)
        PROVE  ledger' \in [Bundles -> [Places -> Int]] /\ onLedger' \subseteq Bundles
    BY <1>3 DEF PackRows
  <1> QED BY <1>1, <1>2, <1>3

LEMMA StockStepTypes ==
    ASSUME StockTypeOK, StockNext
    PROVE  StockTypeOK'
  <1> USE DEF StockTypeOK
  <1>1. CASE OpeningBalance
    <2>1. ledger' \in [Bundles -> [Places -> Int]]
      BY <1>1, StockAssumption DEF OpeningBalance
    <2> QED BY <1>1, <2>1 DEF OpeningBalance, OffLedger, bundleVars, locationVars
  <1>2. ASSUME NEW b \in Bundles, Import(b)
        PROVE  StockTypeOK'
    <2>1. NoPlace \in Places
      BY DEF Places
    <2>2. ledger' \in [Bundles -> [Places -> Int]] /\ onLedger' \subseteq Bundles
      BY <1>2, <2>1, PostingTypes DEF Import
    <2> QED BY <1>2, <2>1, <2>2 DEF Import, BundleStatuses, locationVars
  <1>3. ASSUME NEW r \in StockSlots, Drop(r)
        PROVE  StockTypeOK'
    BY <1>3 DEF Drop, Finish, StockRequests, bundleVars, locationVars, ledgerVars
  <1>4. ASSUME NEW r \in StockSlots, NEW p \in Places, ReadReceipt(r, p)
        PROVE  StockTypeOK'
    BY <1>4 DEF ReadReceipt, Begin, StockRequests, bundleVars, locationVars, ledgerVars
  <1>5. ASSUME NEW r \in StockSlots, NEW b \in Bundles, BatchReceipt(r, b)
        PROVE  StockTypeOK'
    <2>1. request[r].place \in Places
      BY <1>5, StockRequestFields DEF BatchReceipt
    <2>2. ledger' \in [Bundles -> [Places -> Int]] /\ onLedger' \subseteq Bundles
      BY <1>5, <2>1, PostingTypes DEF BatchReceipt
    <2> QED BY <1>5, <2>1, <2>2
            DEF BatchReceipt, Finish, StockRequests, BundleStatuses, locationVars
  <1>6. ASSUME NEW r \in StockSlots, AbortReceipt(r)
        PROVE  StockTypeOK'
    BY <1>6 DEF AbortReceipt, Finish, StockRequests, bundleVars, locationVars, ledgerVars
  <1>7. ASSUME NEW r \in StockSlots, NEW b \in Bundles, NEW to \in BundleStatuses, ReadTransition(r, b, to)
        PROVE  StockTypeOK'
    BY <1>7 DEF ReadTransition, Exists, Begin, StockRequests, bundleVars, locationVars, ledgerVars
  <1>8. ASSUME NEW r \in StockSlots, BatchTransition(r)
        PROVE  StockTypeOK'
    <2>1. request[r].bundle \in Bundles /\ request[r].to \in BundleStatuses
      BY <1>8, StockRequestFields DEF BatchTransition
    <2>2. ledger' \in [Bundles -> [Places -> Int]]
      BY <1>8, <2>1, PostingTypes DEF BatchTransition, VoidRows, RestoreRows
    <2> QED BY <1>8, <2>1, <2>2 DEF BatchTransition, Finish, StockRequests, locationVars
  <1>9. ASSUME NEW r \in StockSlots, NEW bs \in SUBSET Bundles, NEW to \in Locations, ReadMove(r, bs, to)
        PROVE  StockTypeOK'
    BY <1>9 DEF ReadMove, Begin, StockRequests, bundleVars, locationVars, ledgerVars
  <1>10. ASSUME NEW r \in StockSlots, BatchMove(r)
         PROVE  StockTypeOK'
    <2> DEFINE moved == {b \in request[r].bundles : Movable(b, request[r].to)}
    <2>1. request[r].bundles \in SUBSET Bundles /\ request[r].to \in Places
      BY <1>10, StockRequestFields DEF BatchMove, Places
    <2>2. ledger' \in [Bundles -> [Places -> Int]]
      BY <1>10, <2>1, PostingTypes DEF BatchMove
    <2> QED BY <1>10, <2>1, <2>2 DEF BatchMove, Finish, StockRequests, locationVars
  <1>11. ASSUME NEW r \in StockSlots, NEW l \in Locations, NEW patch \in Patches, ReadUpdate(r, l, patch)
         PROVE  StockTypeOK'
    <2>1. (Retiring(l, patch) \/ Retyping(l, patch)) \in BOOLEAN
      OBVIOUS
    <2> QED BY <1>11, <2>1 DEF ReadUpdate, Begin, StockRequests, bundleVars, locationVars, ledgerVars
  <1>12. ASSUME NEW r \in StockSlots, BatchUpdate(r)
         PROVE  StockTypeOK'
    <2>1. request[r].location \in Locations /\ request[r].patch \in Patches
      BY <1>12, StockRequestFields DEF BatchUpdate
    <2>2. active' \in [Locations -> BOOLEAN] /\ kind' \in [Locations -> LocationKinds]
      BY <1>12, <2>1 DEF BatchUpdate, Patches, locationVars
    <2> QED BY <1>12, <2>2 DEF BatchUpdate, Finish, StockRequests, bundleVars, ledgerVars
  <1> QED BY <1>1, <1>2, <1>3, <1>4, <1>5, <1>6, <1>7, <1>8, <1>9, <1>10, <1>11, <1>12 DEF StockNext

(* What a dispatch handler writes to the bundle rows stays well typed. *)
LEMMA HoldTypes ==
    ASSUME TypeOK, NEW bs \in SUBSET Bundles, NEW d \in Dispatches
    PROVE  Hold(bs, d) \/ Release(bs) =>
             /\ bundleStatus' \in [Bundles -> BundleStatuses \cup {"absent"}]
             /\ currentDispatchId' \in [Bundles -> Dispatches \cup {NoDispatch}]
  BY DEF TypeOK, StockTypeOK, Hold, Release, BundleStatuses

(* A read leaves everything but the request as it was. *)
LEMMA AwaitTypes ==
    ASSUME TypeOK, NEW q \in DispatchSlots, NEW req \in DispatchRequests, Await(q, req)
    PROVE  TypeOK'
  BY DEF TypeOK, StockTypeOK, Await, stockVars, bundleVars, locationVars, ledgerVars

LEMMA ReadTypes ==
    ASSUME TypeOK, NEW q \in DispatchSlots, NEW d \in Dispatches,
           \/ \E bs \in SUBSET Bundles : ReadAdd(q, d, bs)
           \/ \E b \in Bundles : ReadRemove(q, d, b)
           \/ ReadReserve(q, d)
           \/ ReadUnreserve(q, d)
           \/ ReadCancel(q, d)
           \/ ReadComplete(q, d)
           \/ ReadDelete(q, d)
    PROVE  TypeOK'
  <1>1. ASSUME NEW bs \in SUBSET Bundles, ReadAdd(q, d, bs)
        PROVE  TypeOK'
    <2> DEFINE free == {b \in bs : bundleStatus[b] = "available" \/ b \in HeldBy(d)} \ items[d]
               req == [op |-> "add", dispatch |-> d, bundles |-> free, hold |-> dispatchStatus[d] = "reserved"]
    <2>1. req \in DispatchRequests
      BY DEF DispatchRequests
    <2>2. Await(q, req)
      BY <1>1 DEF ReadAdd, Ask
    <2> QED BY <2>1, <2>2, AwaitTypes
  <1>2. ASSUME NEW b \in Bundles, ReadRemove(q, d, b)
        PROVE  TypeOK'
    <2> DEFINE req == [op |-> "remove", dispatch |-> d, bundle |-> b,
                       release |-> dispatchStatus[d] = "reserved" /\ b \in HeldBy(d)]
    <2>1. req \in DispatchRequests
      BY DEF DispatchRequests
    <2>2. Await(q, req)
      BY <1>2 DEF ReadRemove, Ask
    <2> QED BY <2>1, <2>2, AwaitTypes
  <1>3. CASE ReadReserve(q, d) \/ ReadComplete(q, d)
    <2>1. PICK req \in DispatchRequests : Await(q, req)
      BY <1>3 DEF ReadReserve, ReadComplete, Ask, DispatchRequests, TypeOK
    <2> QED BY <2>1, AwaitTypes
  <1>4. CASE ReadUnreserve(q, d) \/ ReadCancel(q, d) \/ ReadDelete(q, d)
    <2>1. PICK req \in DispatchRequests : Await(q, req)
      BY <1>4 DEF ReadUnreserve, ReadCancel, ReadDelete, Ask, DispatchRequests
    <2> QED BY <2>1, AwaitTypes
  <1> QED BY <1>1, <1>2, <1>3, <1>4

LEMMA DispatchStepTypes ==
    ASSUME TypeOK, DispatchNext
    PROVE  TypeOK'
  <1> USE DEF stockVars, bundleVars, locationVars, ledgerVars
  <1>1. ASSUME NEW d \in Dispatches, Create(d)
        PROVE  TypeOK'
    BY <1>1 DEF TypeOK, StockTypeOK, Create, SetStatus, DispatchStatuses
  <1>2. ASSUME NEW q \in DispatchSlots, Fail(q) \/ AbortAdd(q) \/ AbortComplete(q)
        PROVE  TypeOK'
    BY <1>2 DEF TypeOK, StockTypeOK, Fail, AbortAdd, AbortComplete, Done, DispatchRequests
  <1>3. ASSUME NEW q \in DispatchSlots, BatchAdd(q)
        PROVE  TypeOK'
    <2> DEFINE d == pending[q].dispatch
               bs == pending[q].bundles
               holding == IF pending[q].hold /\ DispatchIsHeld(d) THEN Available(bs) ELSE {}
    <2>1. d \in Dispatches /\ bs \in SUBSET Bundles
      BY <1>3, PendingFields DEF BatchAdd
    <2>2. holding \in SUBSET Bundles
      BY <2>1 DEF Available
    <2>3. /\ bundleStatus' \in [Bundles -> BundleStatuses \cup {"absent"}]
          /\ currentDispatchId' \in [Bundles -> Dispatches \cup {NoDispatch}]
      BY <1>3, <2>1, <2>2, HoldTypes DEF BatchAdd
    <2> QED BY <1>3, <2>1, <2>3 DEF TypeOK, StockTypeOK, BatchAdd, Done, DispatchRequests
  <1>4. ASSUME NEW q \in DispatchSlots, BatchRemove(q)
        PROVE  TypeOK'
    <2> DEFINE d == pending[q].dispatch
               b == pending[q].bundle
               freed == IF pending[q].release THEN {b} \cap HeldBy(d) ELSE {}
    <2>1. d \in Dispatches /\ b \in Bundles
      BY <1>4, PendingFields DEF BatchRemove
    <2>2. freed \in SUBSET Bundles
      BY <2>1
    <2>3. /\ bundleStatus' \in [Bundles -> BundleStatuses \cup {"absent"}]
          /\ currentDispatchId' \in [Bundles -> Dispatches \cup {NoDispatch}]
      BY <1>4, <2>1, <2>2, HoldTypes DEF BatchRemove
    <2> QED BY <1>4, <2>1, <2>3 DEF TypeOK, StockTypeOK, BatchRemove, Done, DispatchRequests
  <1>5. ASSUME NEW q \in DispatchSlots, BatchReserve(q)
        PROVE  TypeOK'
    <2>1. pending[q].dispatch \in Dispatches /\ pending[q].bundles \in SUBSET Bundles
      BY <1>5, PendingFields DEF BatchReserve
    <2>2. Available(pending[q].bundles) \in SUBSET Bundles
      BY <2>1 DEF Available
    <2>3. /\ bundleStatus' \in [Bundles -> BundleStatuses \cup {"absent"}]
          /\ currentDispatchId' \in [Bundles -> Dispatches \cup {NoDispatch}]
      BY <1>5, <2>1, <2>2, HoldTypes DEF BatchReserve, TypeOK, StockTypeOK
    <2> QED BY <1>5, <2>1, <2>3
            DEF TypeOK, StockTypeOK, BatchReserve, SetStatus, DispatchStatuses, Done, DispatchRequests
  <1>6. ASSUME NEW q \in DispatchSlots, NEW to \in DispatchStatuses,
               pending[q].op # "idle", ReleaseAllHolds(q, to)
        PROVE  TypeOK'
    <2>1. pending[q].dispatch \in Dispatches
      BY <1>6, PendingFields
    <2>2. ToRelease(pending[q].dispatch) \in SUBSET Bundles
      BY DEF ToRelease, HeldBy
    <2>3. /\ bundleStatus' \in [Bundles -> BundleStatuses \cup {"absent"}]
          /\ currentDispatchId' \in [Bundles -> Dispatches \cup {NoDispatch}]
      BY <1>6, <2>1, <2>2, HoldTypes DEF ReleaseAllHolds
    <2> QED BY <1>6, <2>1, <2>3 DEF TypeOK, StockTypeOK, ReleaseAllHolds, SetStatus, Done, DispatchRequests
  <1>7. ASSUME NEW q \in DispatchSlots, ReadPackingList(q)
        PROVE  TypeOK'
    <2>1. PICK req \in DispatchRequests : Await(q, req)
      BY <1>7, PendingFields DEF ReadPackingList, DispatchRequests, TypeOK
    <2> QED BY <2>1, AwaitTypes
  <1>8. ASSUME NEW q \in DispatchSlots, BatchComplete(q)
        PROVE  TypeOK'
    <2> DEFINE d == pending[q].dispatch
               leaving == pending[q].bundles \cap HeldBy(d)
               late == HeldBy(d) \ leaving
    <2>1. /\ d \in Dispatches
          /\ leaving \in SUBSET Bundles
          /\ late \in SUBSET Bundles
          /\ pending[q].lines \in SUBSET Bundles
      BY <1>8, PendingFields DEF BatchComplete, HeldBy
    <2>2. ledger' \in [Bundles -> [Places -> Int]]
      <3>1. StockTypeOK
        BY DEF TypeOK
      <3>2. DispatchRows(leaving)
        BY <1>8 DEF BatchComplete
      <3> QED BY <2>1, <3>1, <3>2, PostingTypes DEF DispatchRows
    <2>3. bundleStatus' \in [Bundles -> BundleStatuses \cup {"absent"}]
      BY <1>8 DEF BatchComplete, TypeOK, StockTypeOK, BundleStatuses
    <2>4. currentDispatchId' \in [Bundles -> Dispatches \cup {NoDispatch}]
      BY <1>8 DEF BatchComplete, TypeOK
    <2>5. items' \in [Dispatches -> SUBSET Bundles] /\ listed' \in [Dispatches -> SUBSET Bundles]
      BY <1>8, <2>1 DEF BatchComplete, TypeOK
    <2> QED BY <1>8, <2>1, <2>2, <2>3, <2>4, <2>5
            DEF TypeOK, StockTypeOK, BatchComplete, SetStatus, DispatchStatuses, Done, DispatchRequests
  <1>9. ASSUME NEW q \in DispatchSlots, BatchDelete(q)
        PROVE  TypeOK'
    <2>1. pending[q].dispatch \in Dispatches
      BY <1>9, PendingFields DEF BatchDelete
    <2> QED BY <1>9, <2>1 DEF TypeOK, StockTypeOK, BatchDelete, Done, DispatchRequests
  <1>10. ASSUME NEW q \in DispatchSlots, BatchUnreserve(q) \/ BatchCancel(q)
         PROVE  TypeOK'
    BY <1>6, <1>10 DEF BatchUnreserve, BatchCancel, DispatchStatuses
  <1> QED BY <1>1, <1>2, <1>3, <1>4, <1>5, <1>7, <1>8, <1>9, <1>10, ReadTypes DEF DispatchNext

LEMMA InitTypes == Init => TypeOK
  BY DEF Init, StockInit, TypeOK, StockTypeOK, DispatchRequests, StockRequests, BundleStatuses,
         LocationKinds, Places

LEMMA TypeStep == TypeOK /\ [Next]_vars => TypeOK'
  <1> SUFFICES ASSUME TypeOK, [Next]_vars
               PROVE  TypeOK'
    OBVIOUS
  <1>1. CASE StockNext /\ UNCHANGED dispatchVars
    <2>1. StockTypeOK'
      BY <1>1, StockStepTypes DEF TypeOK
    <2>2. currentDispatchId' = currentDispatchId
      BY <1>1 DEF StockNext, OpeningBalance, Import, Drop, ReadReceipt, BatchReceipt, AbortReceipt,
                  ReadTransition, BatchTransition, ReadMove, BatchMove, ReadUpdate, BatchUpdate,
                  Begin, bundleVars
    <2> QED BY <1>1, <2>1, <2>2 DEF TypeOK, dispatchVars
  <1>2. CASE DispatchNext
    BY <1>2, DispatchStepTypes
  <1>3. CASE UNCHANGED vars
    BY <1>3 DEF vars, stockVars, bundleVars, locationVars, ledgerVars, dispatchVars, TypeOK, StockTypeOK
  <1> QED BY <1>1, <1>2, <1>3 DEF Next

(* Every state the system reaches is well typed: every request in flight     *)
(* carries what its handler needs, every ledger balance is a number.         *)
THEOREM TypeCorrect == Spec => []TypeOK
  BY InitTypes, TypeStep, PTL DEF Spec

-----------------------------------------------------------------------------
(* Holds.                                                                    *)

(* A transition in flight is one the table allowed when it was read. *)
TransitionsAreAllowed ==
    \A r \in StockSlots :
        request[r].op = "transition" => TransitionAllowed(request[r].from, request[r].to)

(* NoStrayHold is inductive once the requests in flight are known to carry  *)
(* allowed transitions; nothing need be known of dispatch requests, because *)
(* their batches check again whatever the hold depends on.                   *)
HoldInv ==
    /\ TypeOK
    /\ NoStrayHold
    /\ TransitionsAreAllowed

-----------------------------------------------------------------------------
LEMMA StockKeepsTransitions ==
    ASSUME TypeOK, TransitionsAreAllowed, StockNext
    PROVE  TransitionsAreAllowed'
  <1> USE DEF TransitionsAreAllowed, TransitionAllowed
  <1>1. CASE OpeningBalance \/ \E b \in Bundles : Import(b)
    BY <1>1 DEF OpeningBalance, Import
  <1>2. ASSUME NEW r \in StockSlots, request' = [request EXCEPT ![r] = Idle]
        PROVE  TransitionsAreAllowed'
    BY <1>2 DEF TypeOK, StockTypeOK, Idle
  <1>3. ASSUME NEW r \in StockSlots, NEW b \in Bundles, NEW to \in BundleStatuses, ReadTransition(r, b, to)
        PROVE  TransitionsAreAllowed'
    BY <1>3 DEF ReadTransition, Begin, TypeOK, StockTypeOK
  <1>4. ASSUME NEW r \in StockSlots,
               \/ \E p \in Places : ReadReceipt(r, p)
               \/ \E bs \in SUBSET Bundles, to \in Locations : ReadMove(r, bs, to)
               \/ \E l \in Locations, patch \in Patches : ReadUpdate(r, l, patch)
        PROVE  TransitionsAreAllowed'
    BY <1>4 DEF ReadReceipt, ReadMove, ReadUpdate, Begin, TypeOK, StockTypeOK
  <1>5. ASSUME NEW r \in StockSlots,
               \/ Drop(r)
               \/ \E b \in Bundles : BatchReceipt(r, b)
               \/ AbortReceipt(r)
               \/ BatchTransition(r)
               \/ BatchMove(r)
               \/ BatchUpdate(r)
        PROVE  TransitionsAreAllowed'
    <2>1. request' = [request EXCEPT ![r] = Idle]
      BY <1>5 DEF Drop, BatchReceipt, AbortReceipt, BatchTransition, BatchMove, BatchUpdate, Finish
    <2> QED BY <1>2, <2>1
  <1> QED BY <1>1, <1>3, <1>4, <1>5 DEF StockNext

(* The yard never touches a bundle that a dispatch holds or has sent out. *)
LEMMA StockKeepsHolds ==
    ASSUME HoldInv, StockNext, UNCHANGED dispatchVars
    PROVE  NoStrayHold'
  <1> USE DEF HoldInv, NoStrayHold, dispatchVars
  <1>1. currentDispatchId' = currentDispatchId /\ dispatchStatus' = dispatchStatus /\ deleted' = deleted
    BY DEF StockNext, OpeningBalance, Import, Drop, ReadReceipt, BatchReceipt, AbortReceipt,
           ReadTransition, BatchTransition, ReadMove, BatchMove, ReadUpdate, BatchUpdate,
           Begin, bundleVars
  <1>2. ASSUME NEW b \in Bundles, ~Exists(b), bundleStatus' = [bundleStatus EXCEPT ![b] = "available"]
        PROVE  NoStrayHold'
    BY <1>1, <1>2 DEF Exists, TypeOK, StockTypeOK
  <1>3. CASE \E b \in Bundles : Import(b)
    BY <1>2, <1>3 DEF Import
  <1>4. CASE \E r \in StockSlots, b \in Bundles : BatchReceipt(r, b)
    BY <1>2, <1>4 DEF BatchReceipt
  <1>5. ASSUME NEW r \in StockSlots, BatchTransition(r)
        PROVE  NoStrayHold'
    <2> DEFINE b == request[r].bundle
               to == request[r].to
    <2>1. b \in Bundles /\ TransitionAllowed(request[r].from, to)
      BY <1>5, StockRequestFields DEF BatchTransition, TypeOK, TransitionsAreAllowed
    <2>2. CASE TransitionLands(r)
      <3>1. bundleStatus' = [bundleStatus EXCEPT ![b] = to]
        BY <1>5, <2>2 DEF BatchTransition
      <3>2. bundleStatus[b] \in {"available", "void"} /\ to \in {"available", "void"}
        BY <2>1, <2>2 DEF TransitionLands, TransitionAllowed
      <3> QED BY <1>1, <2>1, <3>1, <3>2 DEF TypeOK, StockTypeOK
    <2>3. CASE ~TransitionLands(r)
      BY <1>1, <1>5, <2>3 DEF BatchTransition
    <2> QED BY <2>2, <2>3
  <1>6. CASE bundleStatus' = bundleStatus
    BY <1>1, <1>6
  <1>7. \/ \E b \in Bundles : Import(b)
        \/ \E r \in StockSlots, b \in Bundles : BatchReceipt(r, b)
        \/ \E r \in StockSlots : BatchTransition(r)
        \/ bundleStatus' = bundleStatus
    BY DEF StockNext, OpeningBalance, Drop, ReadReceipt, AbortReceipt,
           ReadTransition, ReadMove, BatchMove, ReadUpdate, BatchUpdate, Begin, bundleVars
  <1> QED BY <1>3, <1>4, <1>5, <1>6, <1>7

-----------------------------------------------------------------------------
(* The dispatch batches, one lemma each: what a batch does to the holds     *)
(* depends only on what it checks itself.                                    *)

LEMMA AddKeepsHolds ==
    ASSUME HoldInv, NEW q \in DispatchSlots, BatchAdd(q)
    PROVE  NoStrayHold'
  <1> DEFINE d == pending[q].dispatch
             bs == pending[q].bundles
             holding == IF pending[q].hold /\ DispatchIsHeld(d) THEN Available(bs) ELSE {}
  <1>1. d \in Dispatches /\ Hold(holding, d) /\ dispatchStatus' = dispatchStatus /\ deleted' = deleted
    BY PendingFields DEF BatchAdd, HoldInv
  <1>2. holding # {} => d \notin deleted /\ dispatchStatus[d] = "reserved"
    BY DEF DispatchIsHeld
  <1> QED BY <1>1, <1>2 DEF NoStrayHold, HoldInv, Hold

LEMMA RemoveKeepsHolds ==
    ASSUME HoldInv, NEW q \in DispatchSlots, BatchRemove(q)
    PROVE  NoStrayHold'
  BY DEF BatchRemove, NoStrayHold, HoldInv, Release

LEMMA ReserveKeepsHolds ==
    ASSUME HoldInv, NEW q \in DispatchSlots, BatchReserve(q)
    PROVE  NoStrayHold'
  <1> DEFINE d == pending[q].dispatch
  <1>1. d \in Dispatches /\ deleted' = deleted
    BY PendingFields DEF BatchReserve, HoldInv
  <1>2. CASE StillMoves(d, "reserved")
    <2>1. d \notin deleted /\ dispatchStatus[d] = "draft"
      BY <1>1, <1>2 DEF StillMoves, Live, DISPATCH_TRANSITIONS, HoldInv, TypeOK, DispatchStatuses
    <2>2. /\ dispatchStatus' = [dispatchStatus EXCEPT ![d] = "reserved"]
          /\ Hold(Available(pending[q].bundles), d)
      BY <1>2 DEF BatchReserve, SetStatus
    <2> QED BY <1>1, <2>1, <2>2 DEF NoStrayHold, HoldInv, Hold, TypeOK
  <1>3. CASE ~StillMoves(d, "reserved")
    BY <1>1, <1>3 DEF BatchReserve, NoStrayHold, HoldInv
  <1> QED BY <1>2, <1>3

LEMMA ReleaseKeepsHolds ==
    ASSUME HoldInv, NEW q \in DispatchSlots, BatchUnreserve(q) \/ BatchCancel(q)
    PROVE  NoStrayHold'
  <1> DEFINE d == pending[q].dispatch
  <1>1. PICK to \in {"draft", "cancelled"} : ReleaseAllHolds(q, to)
    BY DEF BatchUnreserve, BatchCancel
  <1>2. d \in Dispatches /\ deleted' = deleted /\ Release(HeldBy(d))
    BY <1>1, PendingFields DEF BatchUnreserve, BatchCancel, HoldInv, ReleaseAllHolds, ToRelease
  <1>3. CASE StillMoves(d, to)
    <2>1. dispatchStatus[d] # "completed" /\ dispatchStatus' = [dispatchStatus EXCEPT ![d] = to]
      BY <1>1, <1>3 DEF ReleaseAllHolds, SetStatus, StillMoves, DISPATCH_TRANSITIONS
    <2> QED BY <1>2, <2>1 DEF NoStrayHold, HoldInv, Release, HeldBy, TypeOK
  <1>4. CASE ~StillMoves(d, to)
    BY <1>1, <1>2, <1>4 DEF ReleaseAllHolds, NoStrayHold, HoldInv, Release, HeldBy
  <1> QED BY <1>3, <1>4

LEMMA CompleteKeepsHolds ==
    ASSUME HoldInv, NEW q \in DispatchSlots, BatchComplete(q)
    PROVE  NoStrayHold'
  <1> DEFINE d == pending[q].dispatch
             leaving == pending[q].bundles \cap HeldBy(d)
             late == HeldBy(d) \ leaving
  <1>1. d \in Dispatches /\ deleted' = deleted /\ dispatchStatus[d] = "reserved"
    BY PendingFields DEF BatchComplete, HoldInv, StillMoves, Live, DISPATCH_TRANSITIONS, TypeOK, DispatchStatuses
  <1>2. /\ dispatchStatus' = [dispatchStatus EXCEPT ![d] = "completed"]
        /\ bundleStatus' = [b \in Bundles |->
                CASE b \in leaving -> "dispatched"
                  [] b \in late -> "available"
                  [] OTHER -> bundleStatus[b]]
        /\ currentDispatchId' = [b \in Bundles |->
                IF b \in late THEN NoDispatch ELSE currentDispatchId[b]]
    BY DEF BatchComplete, SetStatus
  <1> SUFFICES ASSUME NEW b \in Bundles
               PROVE  /\ bundleStatus'[b] = "reserved" =>
                            /\ currentDispatchId'[b] \in Dispatches \ deleted'
                            /\ dispatchStatus'[currentDispatchId'[b]] = "reserved"
                      /\ bundleStatus'[b] = "dispatched" =>
                            /\ currentDispatchId'[b] \in Dispatches
                            /\ dispatchStatus'[currentDispatchId'[b]] = "completed"
                      /\ bundleStatus'[b] \notin {"reserved", "dispatched"} => currentDispatchId'[b] = NoDispatch
    BY DEF NoStrayHold
  <1>3. CASE b \in HeldBy(d)
    BY <1>1, <1>2, <1>3 DEF HeldBy, HoldInv, TypeOK
  <1>4. CASE b \notin HeldBy(d)
    BY <1>1, <1>2, <1>4 DEF HeldBy, HoldInv, TypeOK, NoStrayHold
  <1> QED BY <1>3, <1>4

LEMMA DeleteKeepsHolds ==
    ASSUME HoldInv, NEW q \in DispatchSlots, BatchDelete(q)
    PROVE  NoStrayHold'
  BY DEF BatchDelete, Deletable, NoStrayHold, HoldInv, stockVars, bundleVars

LEMMA DispatchKeepsHolds ==
    ASSUME HoldInv, DispatchNext
    PROVE  NoStrayHold'
  <1>1. ASSUME NEW d \in Dispatches, Create(d)
        PROVE  NoStrayHold'
    BY <1>1 DEF Create, SetStatus, NoStrayHold, HoldInv, TypeOK, stockVars, bundleVars
  <1>2. CASE UNCHANGED <<bundleStatus, currentDispatchId, dispatchStatus, deleted>>
    BY <1>2 DEF NoStrayHold, HoldInv
  <1>3. ASSUME NEW q \in DispatchSlots,
               \/ Fail(q)
               \/ AbortAdd(q)
               \/ ReadPackingList(q)
               \/ AbortComplete(q)
               \/ \E d \in Dispatches :
                    \/ \E bs \in SUBSET Bundles : ReadAdd(q, d, bs)
                    \/ \E b \in Bundles : ReadRemove(q, d, b)
                    \/ ReadReserve(q, d)
                    \/ ReadUnreserve(q, d)
                    \/ ReadCancel(q, d)
                    \/ ReadComplete(q, d)
                    \/ ReadDelete(q, d)
        PROVE  NoStrayHold'
    <2>1. UNCHANGED <<bundleStatus, currentDispatchId, dispatchStatus, deleted>>
      BY <1>3 DEF Fail, AbortAdd, ReadPackingList, AbortComplete, ReadAdd, ReadRemove, ReadReserve,
                  ReadUnreserve, ReadCancel, ReadComplete, ReadDelete, Ask, Await, stockVars, bundleVars
    <2> QED BY <1>2, <2>1
  <1>4. ASSUME NEW q \in DispatchSlots,
               \/ BatchAdd(q)
               \/ BatchRemove(q)
               \/ BatchReserve(q)
               \/ BatchUnreserve(q) \/ BatchCancel(q)
               \/ BatchComplete(q)
               \/ BatchDelete(q)
        PROVE  NoStrayHold'
    BY <1>4, AddKeepsHolds, RemoveKeepsHolds, ReserveKeepsHolds, ReleaseKeepsHolds,
       CompleteKeepsHolds, DeleteKeepsHolds
  <1> QED BY <1>1, <1>3, <1>4 DEF DispatchNext

(* No dispatch handler touches a yard request, or where a bundle lies. *)
LEMMA DispatchLeavesRequests == DispatchNext => request' = request /\ locationId' = locationId
  <1>1. ASSUME NEW d \in Dispatches, Create(d)
        PROVE  request' = request /\ locationId' = locationId
    BY <1>1 DEF Create, stockVars, bundleVars
  <1>2. ASSUME NEW q \in DispatchSlots, NEW d \in Dispatches,
               \/ \E bs \in SUBSET Bundles : ReadAdd(q, d, bs)
               \/ \E b \in Bundles : ReadRemove(q, d, b)
               \/ ReadReserve(q, d)
               \/ ReadUnreserve(q, d)
               \/ ReadCancel(q, d)
               \/ ReadComplete(q, d)
               \/ ReadDelete(q, d)
        PROVE  request' = request /\ locationId' = locationId
    BY <1>2 DEF ReadAdd, ReadRemove, ReadReserve, ReadUnreserve, ReadCancel, ReadComplete, ReadDelete,
                Ask, Await, stockVars, bundleVars
  <1>3. ASSUME NEW q \in DispatchSlots,
               Fail(q) \/ AbortAdd(q) \/ ReadPackingList(q) \/ AbortComplete(q) \/ BatchDelete(q)
        PROVE  request' = request /\ locationId' = locationId
    BY <1>3 DEF Fail, AbortAdd, ReadPackingList, AbortComplete, BatchDelete, Await, stockVars, bundleVars
  <1>4. ASSUME NEW q \in DispatchSlots, BatchAdd(q) \/ BatchRemove(q) \/ BatchReserve(q) \/ BatchComplete(q)
        PROVE  request' = request /\ locationId' = locationId
    BY <1>4 DEF BatchAdd, BatchRemove, BatchReserve, BatchComplete
  <1>5. ASSUME NEW q \in DispatchSlots, BatchUnreserve(q) \/ BatchCancel(q)
        PROVE  request' = request /\ locationId' = locationId
    BY <1>5 DEF BatchUnreserve, BatchCancel, ReleaseAllHolds
  <1> QED BY <1>1, <1>2, <1>3, <1>4, <1>5 DEF DispatchNext

-----------------------------------------------------------------------------
LEMMA HoldInvInductive == HoldInv /\ [Next]_vars => HoldInv'
  <1> SUFFICES ASSUME HoldInv, [Next]_vars
               PROVE  HoldInv'
    OBVIOUS
  <1>1. TypeOK'
    BY TypeStep DEF HoldInv
  <1>2. CASE StockNext /\ UNCHANGED dispatchVars
    BY <1>1, <1>2, StockKeepsTransitions, StockKeepsHolds DEF HoldInv
  <1>3. CASE DispatchNext
    <2>1. request' = request
      BY <1>3, DispatchLeavesRequests
    <2> QED BY <1>1, <1>3, <2>1, DispatchKeepsHolds DEF HoldInv, TransitionsAreAllowed
  <1>4. CASE UNCHANGED vars
    BY <1>1, <1>4 DEF HoldInv, NoStrayHold, TransitionsAreAllowed, vars, stockVars, bundleVars, dispatchVars
  <1> QED BY <1>2, <1>3, <1>4 DEF Next

LEMMA HoldInvAlways == Spec => []HoldInv
  <1>1. Init => HoldInv
    BY InitTypes DEF HoldInv, Init, StockInit, NoStrayHold, TransitionsAreAllowed, Idle
  <1> QED BY <1>1, HoldInvInductive, PTL DEF Spec

(* Whatever the interleaving of dispatch and yard requests, no bundle is    *)
(* left reserved against a dispatch that is not live and reserved.           *)
THEOREM HoldsAreSound == Spec => []NoStrayHold
  <1>1. HoldInv => NoStrayHold
    BY DEF HoldInv
  <1> QED BY <1>1, HoldInvAlways, PTL

-----------------------------------------------------------------------------
(* Only a hold points a bundle at a dispatch, and both holds ask again, as   *)
(* they land, for a dispatch that may still hold stock.                      *)
LEMMA OnlyOpenDispatchesGain ==
    ASSUME HoldInv, DispatchNext, NEW b \in Bundles, NEW d \in Dispatches,
           currentDispatchId'[b] = d, currentDispatchId[b] # d
    PROVE  d \notin deleted /\ dispatchStatus[d] \in {"draft", "reserved"}
  <1> USE DispatchAssumption DEF HoldInv
  <1>1. ASSUME NEW bs \in SUBSET Bundles, Release(bs)
        PROVE  FALSE
    BY <1>1 DEF Release
  <1>2. ASSUME NEW q \in DispatchSlots, BatchAdd(q)
        PROVE  d \notin deleted /\ dispatchStatus[d] = "reserved"
    <2> DEFINE e == pending[q].dispatch
               holding == IF pending[q].hold /\ DispatchIsHeld(e) THEN Available(pending[q].bundles) ELSE {}
    <2>1. Hold(holding, e)
      BY <1>2 DEF BatchAdd
    <2>2. b \in holding /\ e = d
      BY <2>1 DEF Hold
    <2> QED BY <2>2 DEF DispatchIsHeld
  <1>3. ASSUME NEW q \in DispatchSlots, BatchReserve(q)
        PROVE  d \notin deleted /\ dispatchStatus[d] = "draft"
    <2> DEFINE e == pending[q].dispatch
    <2>1. StillMoves(e, "reserved") /\ Hold(Available(pending[q].bundles), e)
      BY <1>3 DEF BatchReserve
    <2>2. e = d
      BY <2>1 DEF Hold
    <2> QED BY <2>1, <2>2 DEF StillMoves, Live, DISPATCH_TRANSITIONS, TypeOK, DispatchStatuses
  <1>4. ASSUME NEW q \in DispatchSlots, BatchRemove(q) \/ BatchUnreserve(q) \/ BatchCancel(q)
        PROVE  FALSE
    <2>1. PICK bs \in SUBSET Bundles : Release(bs)
      BY <1>4 DEF BatchRemove, BatchUnreserve, BatchCancel, ReleaseAllHolds, ToRelease, HeldBy
    <2> QED BY <1>1, <2>1
  <1>5. ASSUME NEW q \in DispatchSlots, BatchComplete(q)
        PROVE  FALSE
    BY <1>5 DEF BatchComplete
  <1>6. ASSUME UNCHANGED currentDispatchId
        PROVE  FALSE
    BY <1>6
  <1>7. ASSUME NEW e \in Dispatches, Create(e)
        PROVE  FALSE
    BY <1>6, <1>7 DEF Create, stockVars, bundleVars
  <1>8. ASSUME NEW q \in DispatchSlots, NEW e \in Dispatches,
               \/ \E bs \in SUBSET Bundles : ReadAdd(q, e, bs)
               \/ \E c \in Bundles : ReadRemove(q, e, c)
               \/ ReadReserve(q, e)
               \/ ReadUnreserve(q, e)
               \/ ReadCancel(q, e)
               \/ ReadComplete(q, e)
               \/ ReadDelete(q, e)
        PROVE  FALSE
    <2>1. UNCHANGED currentDispatchId
      BY <1>8 DEF ReadAdd, ReadRemove, ReadReserve, ReadUnreserve, ReadCancel, ReadComplete, ReadDelete,
                  Ask, Await, stockVars, bundleVars
    <2> QED BY <1>6, <2>1
  <1>9. ASSUME NEW q \in DispatchSlots,
               Fail(q) \/ AbortAdd(q) \/ ReadPackingList(q) \/ AbortComplete(q) \/ BatchDelete(q)
        PROVE  FALSE
    <2>1. UNCHANGED currentDispatchId
      BY <1>9 DEF Fail, AbortAdd, ReadPackingList, AbortComplete, BatchDelete, Await, stockVars, bundleVars
    <2> QED BY <1>6, <2>1
  <1> QED BY <1>2, <1>3, <1>4, <1>5, <1>7, <1>8, <1>9 DEF DispatchNext

(* Deleting, cancelling or completing a dispatch is the last thing that      *)
(* happens to its stock, however late a request that read it earlier lands.  *)
THEOREM ClosedDispatchesGainNothing == Spec => ClosedDispatchGainsNoStock
  <1>1. HoldInv /\ [Next]_vars =>
          [\A d \in Dispatches :
              (d \in deleted \/ dispatchStatus[d] \in {"completed", "cancelled"})
                  => \A b \in Bundles : currentDispatchId'[b] = d => currentDispatchId[b] = d]_vars
    <2> SUFFICES ASSUME HoldInv, Next,
                        NEW d \in Dispatches,
                        d \in deleted \/ dispatchStatus[d] \in {"completed", "cancelled"},
                        NEW b \in Bundles,
                        currentDispatchId'[b] = d
                 PROVE  currentDispatchId[b] = d
      OBVIOUS
    <2>1. CASE StockNext /\ UNCHANGED dispatchVars
      BY <2>1 DEF StockNext, OpeningBalance, Import, Drop, ReadReceipt, BatchReceipt, AbortReceipt,
                  ReadTransition, BatchTransition, ReadMove, BatchMove, ReadUpdate, BatchUpdate,
                  Begin, bundleVars
    <2>2. CASE DispatchNext
      BY <2>2, OnlyOpenDispatchesGain
    <2> QED BY <2>1, <2>2 DEF Next
  <1> QED BY <1>1, HoldInvAlways, PTL DEF Spec, ClosedDispatchGainsNoStock

-----------------------------------------------------------------------------
(* Only a row can be deleted; so a dispatch that is created is not. *)
DeletedExist == \A d \in deleted : dispatchStatus[d] # "absent"

BundleKeepsTheTable(b) ==
    \/ bundleStatus'[b] = bundleStatus[b] /\ currentDispatchId'[b] = currentDispatchId[b]
    \/ <<bundleStatus[b], bundleStatus'[b]>> \in BundleMoves

DispatchKeepsTheTable(d) ==
    \/ dispatchStatus'[d] = dispatchStatus[d]
    \/ d \notin deleted /\ <<dispatchStatus[d], dispatchStatus'[d]>> \in DispatchMoves

(* The yard packs, voids and restores; a transition in flight lands only on    *)
(* the status it read, and what it read was allowed.                            *)
LEMMA StockFollowsTheTables ==
    ASSUME HoldInv, StockNext, NEW b \in Bundles
    PROVE  BundleKeepsTheTable(b)
  <1> USE DEF HoldInv, BundleKeepsTheTable, BundleMoves
  <1>1. currentDispatchId' = currentDispatchId
    BY DEF StockNext, OpeningBalance, Import, Drop, ReadReceipt, BatchReceipt, AbortReceipt,
           ReadTransition, BatchTransition, ReadMove, BatchMove, ReadUpdate, BatchUpdate,
           Begin, bundleVars
  <1>2. CASE UNCHANGED bundleStatus
    BY <1>1, <1>2
  <1>3. ASSUME NEW c \in Bundles, ~Exists(c), bundleStatus' = [bundleStatus EXCEPT ![c] = "available"]
        PROVE  BundleKeepsTheTable(b)
    BY <1>1, <1>3 DEF Exists, TypeOK, StockTypeOK
  <1>4. CASE \E c \in Bundles : Import(c)
    BY <1>3, <1>4 DEF Import
  <1>5. CASE \E r \in StockSlots, c \in Bundles : BatchReceipt(r, c)
    BY <1>3, <1>5 DEF BatchReceipt
  <1>6. ASSUME NEW r \in StockSlots, BatchTransition(r)
        PROVE  BundleKeepsTheTable(b)
    <2>1. TransitionAllowed(request[r].from, request[r].to)
      BY <1>6 DEF BatchTransition, TransitionsAreAllowed
    <2>2. CASE TransitionLands(r)
      <3>1. bundleStatus' = [bundleStatus EXCEPT ![request[r].bundle] = request[r].to]
        BY <1>6, <2>2 DEF BatchTransition
      <3>2. CASE b = request[r].bundle
        <4>1. bundleStatus'[b] = request[r].to /\ bundleStatus[b] = request[r].from
          BY <2>2, <3>1, <3>2 DEF TransitionLands, TypeOK, StockTypeOK
        <4> QED BY <2>1, <4>1 DEF TransitionAllowed
      <3>3. CASE b # request[r].bundle
        BY <1>1, <3>1, <3>3 DEF TypeOK, StockTypeOK
      <3> QED BY <3>2, <3>3
    <2>3. CASE ~TransitionLands(r)
      BY <1>2, <1>6, <2>3 DEF BatchTransition
    <2> QED BY <2>2, <2>3
  <1>7. ASSUME OpeningBalance \/ \E r \in StockSlots :
                 \/ Drop(r) \/ AbortReceipt(r) \/ BatchMove(r) \/ BatchUpdate(r)
                 \/ \E p \in Places : ReadReceipt(r, p)
                 \/ \E c \in Bundles, to \in BundleStatuses : ReadTransition(r, c, to)
                 \/ \E bs \in SUBSET Bundles, to \in Locations : ReadMove(r, bs, to)
                 \/ \E l \in Locations, patch \in Patches : ReadUpdate(r, l, patch)
        PROVE  UNCHANGED bundleStatus
    BY <1>7 DEF OpeningBalance, Drop, AbortReceipt, BatchMove, BatchUpdate, ReadReceipt, ReadTransition,
                ReadMove, ReadUpdate, Begin, bundleVars
  <1> QED BY <1>2, <1>4, <1>5, <1>6, <1>7 DEF StockNext

(* Only available bundles are held, only held ones released or sent out, and   *)
(* the status of a dispatch is written under StillMoves.                        *)
LEMMA DispatchFollowsTheTables ==
    ASSUME HoldInv, DeletedExist, DispatchNext
    PROVE  /\ \A b \in Bundles : BundleKeepsTheTable(b)
           /\ \A d \in Dispatches : DispatchKeepsTheTable(d)
  <1> USE DEF HoldInv, BundleKeepsTheTable, DispatchKeepsTheTable, BundleMoves, DispatchMoves
  <1>1. ASSUME NEW bs \in SUBSET Bundles, NEW e, Hold(Available(bs), e)
        PROVE  \A b \in Bundles : BundleKeepsTheTable(b)
    BY <1>1 DEF Hold, Available
  <1>2. ASSUME NEW bs, NEW e, bs \subseteq HeldBy(e), Release(bs)
        PROVE  \A b \in Bundles : BundleKeepsTheTable(b)
    BY <1>2 DEF Release, HeldBy
  <1>3. ASSUME NEW e, NEW to \in DispatchStatuses, StillMoves(e, to), SetStatus(e, to), e \in Dispatches
        PROVE  \A d \in Dispatches : DispatchKeepsTheTable(d)
    <2>1. e \notin deleted /\ <<dispatchStatus[e], to>> \in DispatchMoves
      BY <1>3 DEF StillMoves, Live, DISPATCH_TRANSITIONS, TypeOK, DispatchStatuses
    <2> QED BY <1>3, <2>1 DEF SetStatus, TypeOK
  <1>4. ASSUME UNCHANGED <<bundleStatus, currentDispatchId>>
        PROVE  \A b \in Bundles : BundleKeepsTheTable(b)
    BY <1>4
  <1>5. ASSUME UNCHANGED dispatchStatus
        PROVE  \A d \in Dispatches : DispatchKeepsTheTable(d)
    BY <1>5
  <1>6. ASSUME NEW e \in Dispatches, Create(e)
        PROVE  /\ \A b \in Bundles : BundleKeepsTheTable(b)
               /\ \A d \in Dispatches : DispatchKeepsTheTable(d)
    <2>1. UNCHANGED <<bundleStatus, currentDispatchId>>
      BY <1>6 DEF Create, stockVars, bundleVars
    <2>2. dispatchStatus[e] = "absent" /\ dispatchStatus' = [dispatchStatus EXCEPT ![e] = "draft"]
      BY <1>6 DEF Create, SetStatus
    <2>3. e \notin deleted
      BY <2>2 DEF DeletedExist
    <2> QED BY <1>4, <2>1, <2>2, <2>3 DEF TypeOK
  <1>7. ASSUME NEW q \in DispatchSlots, NEW e \in Dispatches,
               \/ \E bs \in SUBSET Bundles : ReadAdd(q, e, bs)
               \/ \E c \in Bundles : ReadRemove(q, e, c)
               \/ ReadReserve(q, e)
               \/ ReadUnreserve(q, e)
               \/ ReadCancel(q, e)
               \/ ReadComplete(q, e)
               \/ ReadDelete(q, e)
        PROVE  UNCHANGED <<bundleStatus, currentDispatchId, dispatchStatus>>
    BY <1>7 DEF ReadAdd, ReadRemove, ReadReserve, ReadUnreserve, ReadCancel, ReadComplete, ReadDelete,
                Ask, Await, stockVars, bundleVars
  <1>8. ASSUME NEW q \in DispatchSlots,
               Fail(q) \/ AbortAdd(q) \/ ReadPackingList(q) \/ AbortComplete(q) \/ BatchDelete(q)
        PROVE  UNCHANGED <<bundleStatus, currentDispatchId, dispatchStatus>>
    BY <1>8 DEF Fail, AbortAdd, ReadPackingList, AbortComplete, BatchDelete, Await, stockVars, bundleVars
  <1>9. ASSUME NEW q \in DispatchSlots, BatchAdd(q)
        PROVE  /\ \A b \in Bundles : BundleKeepsTheTable(b)
               /\ UNCHANGED dispatchStatus
    <2>1. \E bs \in SUBSET Bundles : Hold(Available(bs), pending[q].dispatch)
      <3>1. pending[q].bundles \in SUBSET Bundles
        BY <1>9, PendingFields DEF BatchAdd
      <3>2. Available({}) = {}
        BY DEF Available
      <3> QED BY <1>9, <3>1, <3>2 DEF BatchAdd
    <2> QED BY <1>1, <1>9, <2>1 DEF BatchAdd
  <1>10. ASSUME NEW q \in DispatchSlots, BatchRemove(q)
         PROVE  /\ \A b \in Bundles : BundleKeepsTheTable(b)
                /\ UNCHANGED dispatchStatus
    <2>1. \E bs : bs \subseteq HeldBy(pending[q].dispatch) /\ Release(bs)
      BY <1>10 DEF BatchRemove
    <2> QED BY <1>2, <1>10, <2>1 DEF BatchRemove
  <1>11. ASSUME NEW q \in DispatchSlots, BatchReserve(q)
         PROVE  /\ \A b \in Bundles : BundleKeepsTheTable(b)
                /\ \A d \in Dispatches : DispatchKeepsTheTable(d)
    <2>1. pending[q].dispatch \in Dispatches /\ pending[q].bundles \in SUBSET Bundles
      BY <1>11, PendingFields DEF BatchReserve
    <2>2. CASE StillMoves(pending[q].dispatch, "reserved")
      BY <1>1, <1>3, <1>11, <2>1, <2>2 DEF BatchReserve, DispatchStatuses
    <2>3. CASE ~StillMoves(pending[q].dispatch, "reserved")
      BY <1>4, <1>5, <1>11, <2>3 DEF BatchReserve
    <2> QED BY <2>2, <2>3
  <1>12. ASSUME NEW q \in DispatchSlots, NEW to \in {"draft", "cancelled"}, ReleaseAllHolds(q, to),
                pending[q].dispatch \in Dispatches
         PROVE  /\ \A b \in Bundles : BundleKeepsTheTable(b)
                /\ \A d \in Dispatches : DispatchKeepsTheTable(d)
    <2>1. \A b \in Bundles : BundleKeepsTheTable(b)
      BY <1>2, <1>12 DEF ReleaseAllHolds, ToRelease
    <2>2. CASE StillMoves(pending[q].dispatch, to)
      BY <1>3, <1>12, <2>1, <2>2 DEF ReleaseAllHolds, DispatchStatuses
    <2>3. CASE ~StillMoves(pending[q].dispatch, to)
      BY <1>5, <1>12, <2>1, <2>3 DEF ReleaseAllHolds
    <2> QED BY <2>2, <2>3
  <1>13. ASSUME NEW q \in DispatchSlots, BatchUnreserve(q) \/ BatchCancel(q)
         PROVE  /\ \A b \in Bundles : BundleKeepsTheTable(b)
                /\ \A d \in Dispatches : DispatchKeepsTheTable(d)
    <2>1. pending[q].dispatch \in Dispatches
      BY <1>13, PendingFields DEF BatchUnreserve, BatchCancel
    <2> QED BY <1>12, <1>13, <2>1 DEF BatchUnreserve, BatchCancel
  <1>14. ASSUME NEW q \in DispatchSlots, BatchComplete(q)
         PROVE  /\ \A b \in Bundles : BundleKeepsTheTable(b)
                /\ \A d \in Dispatches : DispatchKeepsTheTable(d)
    <2>1. pending[q].dispatch \in Dispatches
      BY <1>14, PendingFields DEF BatchComplete
    <2>2. \A d \in Dispatches : DispatchKeepsTheTable(d)
      BY <1>3, <1>14, <2>1 DEF BatchComplete, DispatchStatuses
    <2> DEFINE leaving == pending[q].bundles \cap HeldBy(pending[q].dispatch)
               late == HeldBy(pending[q].dispatch) \ leaving
    <2>3. ASSUME NEW b \in Bundles
          PROVE  BundleKeepsTheTable(b)
      <3>1. /\ bundleStatus'[b] = CASE b \in leaving -> "dispatched"
                                    [] b \in late -> "available"
                                    [] OTHER -> bundleStatus[b]
            /\ currentDispatchId'[b] = IF b \in late THEN NoDispatch ELSE currentDispatchId[b]
        BY <1>14, <2>3 DEF BatchComplete
      <3>2. CASE b \in HeldBy(pending[q].dispatch)
        <4>1. bundleStatus[b] = "reserved"
          BY <3>2 DEF HeldBy
        <4> QED BY <3>1, <3>2, <4>1
      <3>3. CASE b \notin HeldBy(pending[q].dispatch)
        BY <3>1, <3>3
      <3> QED BY <3>2, <3>3
    <2> QED BY <2>2, <2>3
  <1> QED BY <1>4, <1>5, <1>6, <1>7, <1>8, <1>9, <1>10, <1>11, <1>13, <1>14 DEF DispatchNext

(* Rows are only ever added, and only rows are deleted. *)
LEMMA DeletedStayRows ==
    ASSUME HoldInv, DeletedExist, [Next]_vars
    PROVE  DeletedExist'
  <1>1. CASE UNCHANGED <<deleted, dispatchStatus>>
    BY <1>1 DEF DeletedExist
  <1>2. CASE UNCHANGED vars
    BY <1>1, <1>2 DEF vars, dispatchVars
  <1>3. CASE StockNext /\ UNCHANGED dispatchVars
    BY <1>1, <1>3 DEF dispatchVars
  <1>4. CASE DispatchNext
    <2>1. \A d \in Dispatches : dispatchStatus[d] # "absent" => dispatchStatus'[d] # "absent"
      BY <1>4, DispatchFollowsTheTables DEF DispatchKeepsTheTable, DispatchMoves
    <2>2. deleted \subseteq Dispatches
      BY DEF HoldInv, TypeOK
    <2>3. CASE UNCHANGED deleted
      BY <2>1, <2>2, <2>3 DEF DeletedExist
    <2>4. ASSUME NEW q \in DispatchSlots, BatchDelete(q)
          PROVE  DeletedExist'
      BY <2>4 DEF BatchDelete, Deletable, DeletedExist
    <2>5. ASSUME NEW q \in DispatchSlots, NEW d \in Dispatches,
                 \/ \E bs \in SUBSET Bundles : ReadAdd(q, d, bs)
                 \/ \E b \in Bundles : ReadRemove(q, d, b)
                 \/ ReadReserve(q, d)
                 \/ ReadUnreserve(q, d)
                 \/ ReadCancel(q, d)
                 \/ ReadComplete(q, d)
                 \/ ReadDelete(q, d)
          PROVE  UNCHANGED deleted
      BY <2>5 DEF ReadAdd, ReadRemove, ReadReserve, ReadUnreserve, ReadCancel, ReadComplete, ReadDelete,
                  Ask, Await
    <2>6. ASSUME NEW q \in DispatchSlots,
                 \/ Fail(q) \/ AbortAdd(q) \/ ReadPackingList(q) \/ AbortComplete(q)
                 \/ BatchAdd(q) \/ BatchRemove(q) \/ BatchReserve(q) \/ BatchComplete(q)
                 \/ BatchUnreserve(q) \/ BatchCancel(q)
          PROVE  UNCHANGED deleted
      BY <2>6 DEF Fail, AbortAdd, ReadPackingList, AbortComplete, Await, BatchAdd, BatchRemove, BatchReserve,
                  BatchComplete, BatchUnreserve, BatchCancel, ReleaseAllHolds
    <2>7. CASE \E d \in Dispatches : Create(d)
      BY <2>3, <2>7 DEF Create
    <2> QED BY <1>4, <2>3, <2>4, <2>5, <2>6, <2>7 DEF DispatchNext
  <1> QED BY <1>2, <1>3, <1>4 DEF Next

(* Whatever requests are in flight, and however old what they read, the status of   *)
(* a bundle or of a dispatch only moves along the tables of the domain package       *)
(* (dispatchStatusesInto and the status predicates of the batches).                    *)
THEOREM StatusesFollowTheTables == Spec => StatusMovesFollowTheTables
  <1> DEFINE MovesInv == HoldInv /\ DeletedExist
  <1>1. Spec => []MovesInv
    <2>1. Init => DeletedExist
      BY DEF Init, DeletedExist
    <2>2. HoldInv /\ DeletedExist /\ [Next]_vars => DeletedExist'
      BY DeletedStayRows
    <2> QED BY <2>1, <2>2, HoldInvAlways, PTL DEF Spec
  <1>2. MovesInv /\ [Next]_vars =>
          [/\ \A d \in Dispatches :
                \/ dispatchStatus'[d] = dispatchStatus[d]
                \/ d \notin deleted /\ <<dispatchStatus[d], dispatchStatus'[d]>> \in DispatchMoves
           /\ \A b \in Bundles :
                \/ bundleStatus'[b] = bundleStatus[b] /\ currentDispatchId'[b] = currentDispatchId[b]
                \/ <<bundleStatus[b], bundleStatus'[b]>> \in BundleMoves]_vars
    <2> SUFFICES ASSUME MovesInv, Next
                 PROVE  /\ \A d \in Dispatches : DispatchKeepsTheTable(d)
                        /\ \A b \in Bundles : BundleKeepsTheTable(b)
      BY DEF DispatchKeepsTheTable, BundleKeepsTheTable
    <2>1. CASE StockNext /\ UNCHANGED dispatchVars
      BY <2>1, StockFollowsTheTables DEF DispatchKeepsTheTable, dispatchVars
    <2>2. CASE DispatchNext
      BY <2>2, DispatchFollowsTheTables
    <2> QED BY <2>1, <2>2 DEF Next
  <1> QED BY <1>1, <1>2, PTL DEF Spec, StatusMovesFollowTheTables

(* However a yard is retired or re-typed while receipts and moves are in flight, a   *)
(* bundle only comes to lie at a place that is an active yard as it gets there         *)
(* (the yard predicate of createReceipt's group row and of moveRows).                   *)
THEOREM OnlyActiveYardsGain == Spec => BundlesGoToActiveYards
  <1>1. HoldInv /\ [Next]_vars =>
          [\A b \in Bundles :
             locationId'[b] # locationId[b] => locationId'[b] = NoPlace \/ ActiveYard(locationId'[b])]_vars
    <2> SUFFICES ASSUME HoldInv, Next, NEW b \in Bundles, locationId'[b] # locationId[b]
                 PROVE  locationId'[b] = NoPlace \/ ActiveYard(locationId'[b])
      OBVIOUS
    <2>1. locationId' # locationId
      OBVIOUS
    <2>2. ~DispatchNext
      BY <2>1, DispatchLeavesRequests
    <2>3. StockNext
      BY <2>2 DEF Next
    <2>4. \/ \E c \in Bundles : Import(c)
          \/ \E r \in StockSlots : BatchMove(r) \/ \E c \in Bundles : BatchReceipt(r, c)
      BY <2>1, <2>3 DEF StockNext, OpeningBalance, Drop, ReadReceipt, AbortReceipt, ReadTransition,
                        BatchTransition, ReadMove, ReadUpdate, BatchUpdate, Begin, bundleVars
    <2>5. ASSUME NEW c \in Bundles, NEW p, locationId' = [locationId EXCEPT ![c] = p]
          PROVE  locationId'[b] = p
      BY <2>5 DEF HoldInv, TypeOK, StockTypeOK
    <2>6. CASE \E c \in Bundles : Import(c)
      BY <2>5, <2>6 DEF Import
    <2>7. CASE \E r \in StockSlots, c \in Bundles : BatchReceipt(r, c)
      BY <2>5, <2>7 DEF BatchReceipt, ReceiptLands
    <2>8. CASE \E r \in StockSlots : BatchMove(r)
      BY <2>8 DEF BatchMove, Movable
    <2> QED BY <2>4, <2>6, <2>7, <2>8
  <1> QED BY <1>1, HoldInvAlways, PTL DEF Spec, BundlesGoToActiveYards
=============================================================================
