----------------------------- MODULE BookProofs -----------------------------
(***************************************************************************)
(* Dispatch keeps the books.  It implements HoldBook: every batch of a      *)
(* dispatch or yard request is one operation of the book, or changes        *)
(* nothing in it; sound holds are needed for it, because a release that     *)
(* finds the dispatch no longer reserved must find nothing to release.  And *)
(* its kg ledger equals the bundle rows in every reachable state, for any   *)
(* weights.                                                                 *)
(***************************************************************************)
EXTENDS DispatchProofs

(* The book entry of a bundle, before and after a step, by its status. *)
LEMMA Entry ==
    ASSUME TypeOK, NEW b \in Bundles
    PROVE  /\ bundleStatus[b] = "absent" => Whereabouts[b] = Book!Out
           /\ bundleStatus[b] = "available" => Whereabouts[b] = Book!Free
           /\ bundleStatus[b] = "void" => Whereabouts[b] = Book!Void
           /\ bundleStatus[b] = "reserved" => Whereabouts[b] = Book!Held(currentDispatchId[b])
           /\ bundleStatus[b] = "dispatched" => Whereabouts[b] = Book!Gone(currentDispatchId[b])
  BY DEF Whereabouts, WhereIs, Book!Out, Book!Free, Book!Void, Book!Held, Book!Gone

LEMMA EntryAfter ==
    ASSUME TypeOK', NEW b \in Bundles
    PROVE  /\ bundleStatus'[b] = "absent" => Whereabouts'[b] = Book!Out
           /\ bundleStatus'[b] = "available" => Whereabouts'[b] = Book!Free
           /\ bundleStatus'[b] = "void" => Whereabouts'[b] = Book!Void
           /\ bundleStatus'[b] = "reserved" => Whereabouts'[b] = Book!Held(currentDispatchId'[b])
           /\ bundleStatus'[b] = "dispatched" => Whereabouts'[b] = Book!Gone(currentDispatchId'[b])
  BY DEF Whereabouts, WhereIs, Book!Out, Book!Free, Book!Void, Book!Held, Book!Gone

(* A bundle whose row kept status and dispatch kept its entry. *)
LEMMA EntryKept ==
    ASSUME NEW b \in Bundles, bundleStatus'[b] = bundleStatus[b], currentDispatchId'[b] = currentDispatchId[b]
    PROVE  Whereabouts'[b] = Whereabouts[b]
  <1>1. Whereabouts[b] = WhereIs(b) /\ Whereabouts'[b] = WhereIs(b)'
    BY DEF Whereabouts
  <1>2. WhereIs(b)' = WhereIs(b)
    BY DEF WhereIs
  <1> QED BY <1>1, <1>2

LEMMA WhereaboutsIsAFunction ==
    /\ Whereabouts = [b \in Bundles |-> Whereabouts[b]]
    /\ Whereabouts' = [b \in Bundles |-> Whereabouts'[b]]
  <1>1. Whereabouts = [b \in Bundles |-> Whereabouts[b]]
    BY DEF Whereabouts
  <1>2. Whereabouts' = [b \in Bundles |-> WhereIs(b)']
    BY DEF Whereabouts
  <1>3. Whereabouts' = [b \in Bundles |-> Whereabouts'[b]]
    BY <1>2
  <1> QED BY <1>1, <1>3

BookStep == [Book!BookNext]_<<Whereabouts, dispatchStatus>>

LEMMA Quiet ==
    ASSUME UNCHANGED <<bundleStatus, currentDispatchId, dispatchStatus>>
    PROVE  BookStep
  <1>1. \A b \in Bundles : Whereabouts'[b] = Whereabouts[b]
    BY EntryKept
  <1> QED BY <1>1, WhereaboutsIsAFunction DEF BookStep

-----------------------------------------------------------------------------
(* One bundle that no dispatch has moves from one entry to another. *)
LEMMA OneMoves ==
    ASSUME TypeOK, TypeOK', NEW b \in Bundles, NEW to,
           bundleStatus' = [bundleStatus EXCEPT ![b] = to],
           currentDispatchId' = currentDispatchId, dispatchStatus' = dispatchStatus,
           <<bundleStatus[b], to>> \in
                {<<"absent", "available">>, <<"available", "void">>, <<"void", "available">>}
    PROVE  BookStep
  <1>1. bundleStatus'[b] = to /\ \A c \in Bundles \ {b} : bundleStatus'[c] = bundleStatus[c]
    BY DEF TypeOK, StockTypeOK
  <1>2. ASSUME NEW e, Whereabouts'[b] = e
        PROVE  Whereabouts' = [Whereabouts EXCEPT ![b] = e]
    <2>1. \A c \in Bundles \ {b} : Whereabouts'[c] = Whereabouts[c]
      BY <1>1, EntryKept
    <2> QED BY <1>2, <2>1, WhereaboutsIsAFunction
  <1>3. CASE bundleStatus[b] = "absent" /\ to = "available"
    <2>1. Whereabouts[b] = Book!Out /\ Whereabouts'[b] = Book!Free
      BY <1>1, <1>3, Entry, EntryAfter
    <2>2. Whereabouts' = [Whereabouts EXCEPT ![b] = Book!Free]
      BY <1>2, <2>1
    <2>3. Book!Enter(b)
      BY <2>1, <2>2 DEF Book!Enter
    <2> QED BY <2>3 DEF BookStep, Book!BookNext
  <1>4. CASE bundleStatus[b] = "available" /\ to = "void"
    <2>1. Whereabouts[b] = Book!Free /\ Whereabouts'[b] = Book!Void
      BY <1>1, <1>4, Entry, EntryAfter
    <2>2. Whereabouts' = [Whereabouts EXCEPT ![b] = Book!Void]
      BY <1>2, <2>1
    <2>3. Book!Strike(b)
      BY <2>1, <2>2 DEF Book!Strike
    <2> QED BY <2>3 DEF BookStep, Book!BookNext
  <1>5. CASE bundleStatus[b] = "void" /\ to = "available"
    <2>1. Whereabouts[b] = Book!Void /\ Whereabouts'[b] = Book!Free
      BY <1>1, <1>5, Entry, EntryAfter
    <2>2. Whereabouts' = [Whereabouts EXCEPT ![b] = Book!Free]
      BY <1>2, <2>1
    <2>3. Book!Reinstate(b)
      BY <2>1, <2>2 DEF Book!Reinstate
    <2> QED BY <2>3 DEF BookStep, Book!BookNext
  <1> QED BY <1>3, <1>4, <1>5

LEMMA StockKeepsTheBook ==
    ASSUME HoldInv, TypeOK', StockNext, UNCHANGED dispatchVars
    PROVE  BookStep
  <1>1. dispatchStatus' = dispatchStatus /\ currentDispatchId' = currentDispatchId
    BY DEF dispatchVars, StockNext, OpeningBalance, Import, Drop, ReadReceipt, BatchReceipt, AbortReceipt,
           ReadTransition, BatchTransition, ReadMove, BatchMove, ReadUpdate, BatchUpdate, Begin, bundleVars
  <1>2. ASSUME NEW b \in Bundles, ~Exists(b), bundleStatus' = [bundleStatus EXCEPT ![b] = "available"]
        PROVE  BookStep
    BY <1>1, <1>2, OneMoves DEF Exists, HoldInv
  <1>3. CASE \E b \in Bundles : Import(b)
    BY <1>2, <1>3 DEF Import
  <1>4. CASE \E r \in StockSlots, b \in Bundles : BatchReceipt(r, b)
    BY <1>2, <1>4 DEF BatchReceipt
  <1>5. ASSUME NEW r \in StockSlots, BatchTransition(r)
        PROVE  BookStep
    <2> DEFINE b == request[r].bundle
               to == request[r].to
    <2>1. b \in Bundles /\ TransitionAllowed(request[r].from, to)
      BY <1>5, StockRequestFields DEF BatchTransition, HoldInv, TypeOK, TransitionsAreAllowed
    <2>2. CASE TransitionLands(r)
      <3>1. bundleStatus' = [bundleStatus EXCEPT ![b] = to] /\ bundleStatus[b] = request[r].from
        BY <1>5, <2>2 DEF BatchTransition, TransitionLands
      <3>2. <<bundleStatus[b], to>> \in {<<"available", "void">>, <<"void", "available">>}
        BY <2>1, <3>1 DEF TransitionAllowed
      <3> QED BY <1>1, <2>1, <3>1, <3>2, OneMoves DEF HoldInv
    <2>3. CASE ~TransitionLands(r)
      BY <1>1, <1>5, <2>3, Quiet DEF BatchTransition
    <2> QED BY <2>2, <2>3
  <1>6. CASE bundleStatus' = bundleStatus
    BY <1>1, <1>6, Quiet
  <1>7. \/ \E b \in Bundles : Import(b)
        \/ \E r \in StockSlots, b \in Bundles : BatchReceipt(r, b)
        \/ \E r \in StockSlots : BatchTransition(r)
        \/ bundleStatus' = bundleStatus
    BY DEF StockNext, OpeningBalance, Drop, ReadReceipt, AbortReceipt,
           ReadTransition, ReadMove, BatchMove, ReadUpdate, BatchUpdate, Begin, bundleVars
  <1> QED BY <1>3, <1>4, <1>5, <1>6, <1>7

-----------------------------------------------------------------------------
(* A dispatch that is open for holding takes free bundles. *)
LEMMA HoldIsTake ==
    ASSUME HoldInv, TypeOK', NEW d \in Dispatches, NEW bs \in SUBSET Bundles,
           \A b \in bs : bundleStatus[b] = "available",
           Hold(bs, d),
           dispatchStatus[d] \in {"draft", "reserved"},
           dispatchStatus' = [dispatchStatus EXCEPT ![d] = "reserved"]
    PROVE  BookStep
  <1>1. \A b \in bs : Whereabouts[b] = Book!Free /\ Whereabouts'[b] = Book!Held(d)
    BY Entry, EntryAfter DEF HoldInv, Hold
  <1>2. \A b \in Bundles \ bs : Whereabouts'[b] = Whereabouts[b]
    BY EntryKept DEF Hold
  <1>3. Whereabouts' = [b \in Bundles |-> IF b \in bs THEN Book!Held(d) ELSE Whereabouts[b]]
    BY <1>1, <1>2, WhereaboutsIsAFunction
  <1>4. Book!Take(d, bs)
    BY <1>1, <1>3 DEF Book!Take
  <1> QED BY <1>4 DEF BookStep, Book!BookNext

LEMMA AddKeepsTheBook ==
    ASSUME HoldInv, TypeOK', NEW q \in DispatchSlots, BatchAdd(q)
    PROVE  BookStep
  <1> DEFINE d == pending[q].dispatch
             bs == pending[q].bundles
             holding == IF pending[q].hold /\ DispatchIsHeld(d) THEN Available(bs) ELSE {}
  <1>1. d \in Dispatches /\ bs \in SUBSET Bundles /\ Hold(holding, d) /\ dispatchStatus' = dispatchStatus
    BY PendingFields DEF BatchAdd, HoldInv
  <1>2. CASE holding = {}
    <2>1. UNCHANGED <<bundleStatus, currentDispatchId>>
      BY <1>1, <1>2 DEF Hold, HoldInv, TypeOK, StockTypeOK
    <2> QED BY <1>1, <2>1, Quiet
  <1>3. CASE holding # {}
    <2>1. dispatchStatus[d] = "reserved" /\ holding \in SUBSET Bundles
      BY <1>1, <1>3 DEF DispatchIsHeld, Available
    <2>2. dispatchStatus' = [dispatchStatus EXCEPT ![d] = "reserved"]
      BY <1>1, <2>1 DEF HoldInv, TypeOK
    <2>3. \A b \in holding : bundleStatus[b] = "available"
      BY DEF Available
    <2> QED BY <1>1, <2>1, <2>2, <2>3, HoldIsTake
  <1> QED BY <1>2, <1>3

LEMMA ReserveKeepsTheBook ==
    ASSUME HoldInv, TypeOK', NEW q \in DispatchSlots, BatchReserve(q)
    PROVE  BookStep
  <1> DEFINE d == pending[q].dispatch
  <1>1. d \in Dispatches /\ pending[q].bundles \in SUBSET Bundles
    BY PendingFields DEF BatchReserve, HoldInv
  <1>2. CASE StillMoves(d, "reserved")
    <2>1. dispatchStatus[d] = "draft"
      BY <1>1, <1>2 DEF StillMoves, Live, DISPATCH_TRANSITIONS, HoldInv, TypeOK, DispatchStatuses
    <2>2. /\ dispatchStatus' = [dispatchStatus EXCEPT ![d] = "reserved"]
          /\ Hold(Available(pending[q].bundles), d)
      BY <1>2 DEF BatchReserve, SetStatus
    <2>3. /\ Available(pending[q].bundles) \in SUBSET Bundles
          /\ \A b \in Available(pending[q].bundles) : bundleStatus[b] = "available"
      BY <1>1 DEF Available
    <2> QED BY <1>1, <2>1, <2>2, <2>3, HoldIsTake
  <1>3. CASE ~StillMoves(d, "reserved")
    BY <1>3, Quiet DEF BatchReserve
  <1> QED BY <1>2, <1>3

LEMMA RemoveKeepsTheBook ==
    ASSUME HoldInv, TypeOK', NEW q \in DispatchSlots, BatchRemove(q)
    PROVE  BookStep
  <1> DEFINE d == pending[q].dispatch
             b == pending[q].bundle
             freed == IF pending[q].release THEN {b} \cap HeldBy(d) ELSE {}
  <1>1. d \in Dispatches /\ b \in Bundles /\ Release(freed) /\ dispatchStatus' = dispatchStatus
    BY PendingFields DEF BatchRemove, HoldInv
  <1>2. CASE freed = {}
    <2>1. UNCHANGED <<bundleStatus, currentDispatchId>>
      BY <1>1, <1>2 DEF Release, HoldInv, TypeOK, StockTypeOK
    <2> QED BY <1>1, <2>1, Quiet
  <1>3. CASE freed # {}
    <2>1. freed = {b} /\ bundleStatus[b] = "reserved" /\ currentDispatchId[b] = d
      BY <1>3 DEF HeldBy
    <2>2. Whereabouts[b] = Book!Held(d) /\ Whereabouts'[b] = Book!Free
      BY <1>1, <2>1, Entry, EntryAfter DEF Release, HoldInv
    <2>3. \A c \in Bundles \ {b} : Whereabouts'[c] = Whereabouts[c]
      BY <1>1, <2>1, EntryKept DEF Release
    <2>4. Book!GiveBack(d, b)
      BY <1>1, <2>2, <2>3, WhereaboutsIsAFunction DEF Book!GiveBack
    <2> QED BY <1>1, <2>4 DEF BookStep, Book!BookNext
  <1> QED BY <1>2, <1>3

(* Releasing every hold of a dispatch frees exactly its entries in the book. *)
LEMMA ReleaseFrees ==
    ASSUME HoldInv, TypeOK', NEW d \in Dispatches, Release(HeldBy(d))
    PROVE  Whereabouts' = Book!Freed(d)
  <1>1. ASSUME NEW b \in HeldBy(d)
        PROVE  Whereabouts[b] = Book!Held(d) /\ Whereabouts'[b] = Book!Free
    BY <1>1, Entry, EntryAfter DEF HeldBy, Release, HoldInv
  <1>2. ASSUME NEW b \in Bundles \ HeldBy(d)
        PROVE  Whereabouts[b] # Book!Held(d) /\ Whereabouts'[b] = Whereabouts[b]
    <2>1. Whereabouts'[b] = Whereabouts[b]
      BY <1>2, EntryKept DEF Release
    <2>2. Whereabouts[b] # Book!Held(d)
      <3>1. bundleStatus[b] \in BundleStatuses \cup {"absent"}
        BY DEF HoldInv, TypeOK, StockTypeOK
      <3> QED BY <1>2, <3>1 DEF HeldBy, Whereabouts, WhereIs, Book!Held, BundleStatuses
    <2> QED BY <2>1, <2>2
  <1> QED BY <1>1, <1>2, WhereaboutsIsAFunction DEF Book!Freed

LEMMA ReleaseKeepsTheBook ==
    ASSUME HoldInv, TypeOK', NEW q \in DispatchSlots, BatchUnreserve(q) \/ BatchCancel(q)
    PROVE  BookStep
  <1> DEFINE d == pending[q].dispatch
  <1>1. PICK to \in {"draft", "cancelled"} : ReleaseAllHolds(q, to)
    BY DEF BatchUnreserve, BatchCancel
  <1>2. d \in Dispatches /\ Release(HeldBy(d))
    BY <1>1, PendingFields DEF BatchUnreserve, BatchCancel, HoldInv, ReleaseAllHolds, ToRelease
  <1>3. CASE StillMoves(d, to)
    <2>1. dispatchStatus' = [dispatchStatus EXCEPT ![d] = to]
      BY <1>1, <1>3 DEF ReleaseAllHolds, SetStatus
    <2>2. dispatchStatus[d] \in {"draft", "reserved"} /\ (to = "draft" => dispatchStatus[d] = "reserved")
      BY <1>2, <1>3 DEF StillMoves, Live, DISPATCH_TRANSITIONS, HoldInv, TypeOK, DispatchStatuses
    <2>3. Whereabouts' = Book!Freed(d)
      BY <1>2, ReleaseFrees
    <2>4. Book!Reopen(d) \/ Book!Cancel(d)
      BY <2>1, <2>2, <2>3 DEF Book!Reopen, Book!Cancel
    <2> QED BY <1>2, <2>4 DEF BookStep, Book!BookNext
  <1>4. CASE ~StillMoves(d, to)
    <2>1. dispatchStatus' = dispatchStatus
      BY <1>1, <1>4 DEF ReleaseAllHolds
    <2>2. HeldBy(d) = {}
      BY <1>2, <1>4 DEF StillMoves, Live, DISPATCH_TRANSITIONS, HoldInv, NoStrayHold, HeldBy
    <2>3. UNCHANGED <<bundleStatus, currentDispatchId>>
      BY <1>2, <2>2 DEF Release, HoldInv, TypeOK, StockTypeOK
    <2> QED BY <2>1, <2>3, Quiet
  <1> QED BY <1>3, <1>4

LEMMA CompleteKeepsTheBook ==
    ASSUME HoldInv, TypeOK', NEW q \in DispatchSlots, BatchComplete(q)
    PROVE  BookStep
  <1> DEFINE d == pending[q].dispatch
             leaving == pending[q].bundles \cap HeldBy(d)
             late == HeldBy(d) \ leaving
  <1>1. d \in Dispatches /\ dispatchStatus[d] = "reserved" /\ leaving \in SUBSET Bundles
    BY PendingFields DEF BatchComplete, HoldInv, StillMoves, Live, DISPATCH_TRANSITIONS, TypeOK,
                         DispatchStatuses, HeldBy
  <1>2. /\ dispatchStatus' = [dispatchStatus EXCEPT ![d] = "completed"]
        /\ bundleStatus' = [b \in Bundles |->
                CASE b \in leaving -> "dispatched"
                  [] b \in late -> "available"
                  [] OTHER -> bundleStatus[b]]
        /\ currentDispatchId' = [b \in Bundles |->
                IF b \in late THEN NoDispatch ELSE currentDispatchId[b]]
    BY DEF BatchComplete, SetStatus
  <1>3. ASSUME NEW b \in leaving
        PROVE  Whereabouts[b] = Book!Held(d) /\ Whereabouts'[b] = Book!Gone(d)
    BY <1>1, <1>2, <1>3, Entry, EntryAfter DEF HeldBy, HoldInv
  <1>4. ASSUME NEW b \in late
        PROVE  Whereabouts[b] = Book!Held(d) /\ Whereabouts'[b] = Book!Free
    BY <1>1, <1>2, <1>4, Entry, EntryAfter DEF HeldBy, HoldInv
  <1>5. ASSUME NEW b \in Bundles \ HeldBy(d)
        PROVE  Whereabouts[b] # Book!Held(d) /\ Whereabouts'[b] = Whereabouts[b]
    <2>1. bundleStatus[b] \in BundleStatuses \cup {"absent"}
      BY DEF HoldInv, TypeOK, StockTypeOK
    <2>2. Whereabouts[b] # Book!Held(d)
      BY <1>5, <2>1 DEF HeldBy, Whereabouts, WhereIs, Book!Held, BundleStatuses
    <2>3. bundleStatus'[b] = bundleStatus[b] /\ currentDispatchId'[b] = currentDispatchId[b]
      BY <1>2, <1>5 DEF HeldBy
    <2> QED BY <2>2, <2>3, EntryKept
  <1>6. Whereabouts' = [b \in Bundles |-> IF b \in leaving THEN Book!Gone(d) ELSE Book!Freed(d)[b]]
    <2>1. ASSUME NEW b \in Bundles
          PROVE  Whereabouts'[b] = IF b \in leaving THEN Book!Gone(d) ELSE Book!Freed(d)[b]
      BY <1>3, <1>4, <1>5 DEF Book!Freed
    <2> QED BY <2>1, WhereaboutsIsAFunction
  <1>7. Book!Ship(d, leaving)
    BY <1>1, <1>2, <1>3, <1>6 DEF Book!Ship
  <1> QED BY <1>1, <1>7 DEF BookStep, Book!BookNext

LEMMA DispatchKeepsTheBook ==
    ASSUME HoldInv, TypeOK', DispatchNext
    PROVE  BookStep
  <1>1. ASSUME NEW d \in Dispatches, Create(d)
        PROVE  BookStep
    <2>1. UNCHANGED Whereabouts
      BY <1>1, EntryKept, WhereaboutsIsAFunction DEF Create, stockVars, bundleVars
    <2>2. Book!Open(d)
      BY <1>1, <2>1 DEF Create, SetStatus, Book!Open
    <2> QED BY <2>2 DEF BookStep, Book!BookNext
  <1>2. ASSUME NEW q \in DispatchSlots, NEW d \in Dispatches,
               \/ \E bs \in SUBSET Bundles : ReadAdd(q, d, bs)
               \/ \E b \in Bundles : ReadRemove(q, d, b)
               \/ ReadReserve(q, d)
               \/ ReadUnreserve(q, d)
               \/ ReadCancel(q, d)
               \/ ReadComplete(q, d)
               \/ ReadDelete(q, d)
        PROVE  BookStep
    <2>1. UNCHANGED <<bundleStatus, currentDispatchId, dispatchStatus>>
      BY <1>2 DEF ReadAdd, ReadRemove, ReadReserve, ReadUnreserve, ReadCancel, ReadComplete, ReadDelete,
                  Ask, Await, stockVars, bundleVars
    <2> QED BY <2>1, Quiet
  <1>3. ASSUME NEW q \in DispatchSlots,
               Fail(q) \/ AbortAdd(q) \/ ReadPackingList(q) \/ AbortComplete(q) \/ BatchDelete(q)
        PROVE  BookStep
    <2>1. UNCHANGED <<bundleStatus, currentDispatchId, dispatchStatus>>
      BY <1>3 DEF Fail, AbortAdd, ReadPackingList, AbortComplete, BatchDelete, Await, stockVars, bundleVars
    <2> QED BY <2>1, Quiet
  <1>4. ASSUME NEW q \in DispatchSlots,
               \/ BatchAdd(q)
               \/ BatchRemove(q)
               \/ BatchReserve(q)
               \/ BatchUnreserve(q) \/ BatchCancel(q)
               \/ BatchComplete(q)
        PROVE  BookStep
    BY <1>4, AddKeepsTheBook, RemoveKeepsTheBook, ReserveKeepsTheBook, ReleaseKeepsTheBook,
       CompleteKeepsTheBook
  <1> QED BY <1>1, <1>2, <1>3, <1>4 DEF DispatchNext

(* Dispatch and yard requests, however they interleave, implement the book. *)
THEOREM DispatchImplementsTheBook == Spec => KeepsTheBook
  <1>1. Init => Book!BookInit
    BY DEF Init, StockInit, Book!BookInit, Whereabouts, WhereIs, Book!Out, Book!Free
  <1>2. HoldInv /\ HoldInv' /\ [Next]_vars => BookStep
    <2> SUFFICES ASSUME HoldInv, HoldInv', [Next]_vars
                 PROVE  BookStep
      OBVIOUS
    <2>1. TypeOK'
      BY DEF HoldInv
    <2>2. CASE UNCHANGED vars
      BY <2>2, Quiet DEF vars, stockVars, bundleVars, dispatchVars
    <2> QED BY <2>1, <2>2, StockKeepsTheBook, DispatchKeepsTheBook DEF Next
  <1> QED BY <1>1, <1>2, HoldInvAlways, PTL DEF Spec, KeepsTheBook, Book!BookSpec, BookStep

-----------------------------------------------------------------------------
(* The kg ledger.                                                            *)

(* The balance a bundle should have at a place. *)
Due(b, p) == IF b \in onLedger /\ InStock(b) /\ locationId[b] = p THEN Weight[b] ELSE 0

EveryBalanceIsDue == \A b \in Bundles, p \in Places : ledger[b][p] = Due(b, p)

(* The ledger matches the projection exactly when every balance is due. *)
LEMMA LedgerIsDue ==
    ASSUME TypeOK
    PROVE  LedgerMatchesProjection <=> EveryBalanceIsDue
  <1>1. \A b \in Bundles : ledger[b] = [p \in Places |-> ledger[b][p]]
    BY DEF TypeOK, StockTypeOK
  <1>2. ASSUME NEW b \in Bundles
        PROVE  (IF b \in onLedger THEN Projection(b) ELSE [p \in Places |-> 0]) = [p \in Places |-> Due(b, p)]
    BY DEF Projection, Due
  <1>3. ASSUME NEW b \in Bundles
        PROVE  ledger[b] = [p \in Places |-> Due(b, p)] <=> \A p \in Places : ledger[b][p] = Due(b, p)
    BY <1>1
  <1> QED BY <1>2, <1>3 DEF LedgerMatchesProjection, EveryBalanceIsDue

-----------------------------------------------------------------------------
(* A step that keeps a bundle's place, its ledger rows and whether it is in  *)
(* stock keeps its balances due.                                             *)
LEMMA DueKept ==
    ASSUME EveryBalanceIsDue, UNCHANGED <<ledger, onLedger, locationId>>,
           \A b \in Bundles : InStock(b)' = InStock(b)
    PROVE  EveryBalanceIsDue'
  BY DEF EveryBalanceIsDue, Due

(* A new bundle enters at a place, on the ledger from the first. *)
LEMMA EntryIsDue ==
    ASSUME TypeOK, EveryBalanceIsDue, NEW b \in Bundles, NEW p \in Places,
           ~Exists(b), PackRows(b, p),
           bundleStatus' = [bundleStatus EXCEPT ![b] = "available"],
           locationId' = [locationId EXCEPT ![b] = p]
    PROVE  EveryBalanceIsDue'
  <1> SUFFICES ASSUME NEW c \in Bundles, NEW k \in Places
               PROVE  ledger'[c][k] = Due(c, k)'
    BY DEF EveryBalanceIsDue
  <1>1. CASE c = b
    <2>1. ledger[b][k] = 0
      BY DEF EveryBalanceIsDue, Due, InStock, InStockStatuses, Exists
    <2>2. /\ ledger'[b][k] = IF k = p THEN ledger[b][k] + Weight[b] ELSE ledger[b][k]
          /\ b \in onLedger'
      BY DEF PackRows, TypeOK, StockTypeOK
    <2>3. InStock(b)' /\ locationId'[b] = p
      BY DEF InStock, InStockStatuses, TypeOK, StockTypeOK
    <2> QED BY <1>1, <2>1, <2>2, <2>3, StockAssumption DEF Due
  <1>2. CASE c # b
    <2>1. ledger'[c] = ledger[c] /\ (c \in onLedger' <=> c \in onLedger)
      BY <1>2 DEF PackRows, TypeOK, StockTypeOK
    <2>2. InStock(c)' = InStock(c) /\ locationId'[c] = locationId[c]
      BY <1>2 DEF InStock, TypeOK, StockTypeOK
    <2> QED BY <2>1, <2>2 DEF EveryBalanceIsDue, Due
  <1> QED BY <1>1, <1>2

(* Bundles that leave the stock, or come back to it, with the rows posted    *)
(* where they lie.                                                           *)
LEMMA PostingIsDue ==
    ASSUME TypeOK, EveryBalanceIsDue, NEW bs \in SUBSET Bundles, NEW sign \in {1, -1},
           ledger' = PostAt(ledger, bs, sign),
           UNCHANGED <<onLedger, locationId>>,
           \/ sign = -1 /\ \A b \in bs : InStock(b) /\ ~InStock(b)'
           \/ sign = 1 /\ \A b \in bs : ~InStock(b) /\ InStock(b)',
           \A b \in Bundles \ bs : InStock(b)' = InStock(b)
    PROVE  EveryBalanceIsDue'
  <1> SUFFICES ASSUME NEW b \in Bundles, NEW p \in Places
               PROVE  ledger'[b][p] = Due(b, p)'
    BY DEF EveryBalanceIsDue
  <1>1. Weight[b] \in Int /\ ledger[b] \in [Places -> Int] /\ ledger[b][p] = Due(b, p)
    BY StockAssumption DEF TypeOK, StockTypeOK, EveryBalanceIsDue
  <1>2. CASE b \in bs /\ b \in onLedger
    <2>1. ledger'[b][p] = IF p = locationId[b] THEN ledger[b][p] + sign * Weight[b] ELSE ledger[b][p]
      BY <1>1, <1>2 DEF PostAt
    <2>2. CASE sign = -1
      BY <1>1, <1>2, <2>1, <2>2 DEF Due
    <2>3. CASE sign = 1
      BY <1>1, <1>2, <2>1, <2>3 DEF Due
    <2> QED BY <2>2, <2>3
  <1>3. CASE ~(b \in bs /\ b \in onLedger)
    <2>1. ledger'[b] = ledger[b]
      BY <1>3 DEF PostAt
    <2> QED BY <1>1, <1>3, <2>1 DEF Due
  <1> QED BY <1>2, <1>3

-----------------------------------------------------------------------------
LEMMA OpeningIsDue ==
    ASSUME TypeOK, EveryBalanceIsDue, OpeningBalance
    PROVE  EveryBalanceIsDue'
  <1> SUFFICES ASSUME NEW b \in Bundles, NEW p \in Places
               PROVE  ledger'[b][p] = Due(b, p)'
    BY DEF EveryBalanceIsDue
  <1>1. Weight[b] \in Int /\ ledger[b] \in [Places -> Int] /\ ledger[b][p] = Due(b, p)
    BY StockAssumption DEF TypeOK, StockTypeOK, EveryBalanceIsDue
  <1>2. InStock(b)' = InStock(b) /\ locationId'[b] = locationId[b]
    BY DEF OpeningBalance, bundleVars, InStock
  <1>3. CASE b \in OffLedger
    <2>1. ledger'[b][p] = IF p = locationId[b] THEN ledger[b][p] + Weight[b] ELSE ledger[b][p]
      BY <1>1, <1>3 DEF OpeningBalance
    <2>2. b \notin onLedger /\ InStock(b) /\ b \in onLedger'
      BY <1>3 DEF OpeningBalance, OffLedger
    <2> QED BY <1>1, <1>2, <2>1, <2>2 DEF Due
  <1>4. CASE b \notin OffLedger
    <2>1. ledger'[b] = ledger[b] /\ (b \in onLedger' <=> b \in onLedger)
      BY <1>4 DEF OpeningBalance
    <2> QED BY <1>1, <1>2, <2>1 DEF Due
  <1> QED BY <1>3, <1>4

LEMMA TransitionIsDue ==
    ASSUME HoldInv, EveryBalanceIsDue, NEW r \in StockSlots, BatchTransition(r)
    PROVE  EveryBalanceIsDue'
  <1>1. PICK b \in Bundles, to \in BundleStatuses :
            b = request[r].bundle /\ to = request[r].to /\ TransitionAllowed(request[r].from, to)
    BY StockRequestFields DEF BatchTransition, HoldInv, TypeOK, TransitionsAreAllowed
  <1>2. CASE TransitionLands(r)
    <2>1. /\ bundleStatus' = [bundleStatus EXCEPT ![b] = to]
          /\ IF to = "void" THEN VoidRows(b) ELSE RestoreRows(b)
          /\ UNCHANGED <<onLedger, locationId>>
          /\ bundleStatus[b] = request[r].from
      BY <1>1, <1>2 DEF BatchTransition, TransitionLands
    <2>2. /\ bundleStatus'[b] = to
          /\ \A c \in Bundles \ {b} : InStock(c)' = InStock(c)
      BY <1>1, <2>1 DEF InStock, HoldInv, TypeOK, StockTypeOK
    <2>3. CASE bundleStatus[b] = "available" /\ to = "void"
      <3>1. InStock(b) /\ ~InStock(b)' /\ ledger' = PostAt(ledger, {b}, -1)
        BY <2>1, <2>2, <2>3 DEF InStock, InStockStatuses, VoidRows
      <3> QED BY <1>1, <2>1, <2>2, <3>1, PostingIsDue DEF HoldInv
    <2>4. CASE bundleStatus[b] = "void" /\ to = "available"
      <3>1. ~InStock(b) /\ InStock(b)' /\ ledger' = PostAt(ledger, {b}, 1)
        BY <2>1, <2>2, <2>4 DEF InStock, InStockStatuses, RestoreRows
      <3> QED BY <1>1, <2>1, <2>2, <3>1, PostingIsDue DEF HoldInv
    <2> QED BY <1>1, <2>1, <2>3, <2>4 DEF TransitionAllowed
  <1>3. CASE ~TransitionLands(r)
    BY <1>3, DueKept DEF BatchTransition, InStock
  <1> QED BY <1>2, <1>3

LEMMA MoveIsDue ==
    ASSUME TypeOK, EveryBalanceIsDue, NEW r \in StockSlots, BatchMove(r)
    PROVE  EveryBalanceIsDue'
  <1> DEFINE to == request[r].to
             moved == {b \in request[r].bundles : Movable(b, to)}
  <1> SUFFICES ASSUME NEW b \in Bundles, NEW p \in Places
               PROVE  ledger'[b][p] = Due(b, p)'
    BY DEF EveryBalanceIsDue
  <1>1. Weight[b] \in Int /\ ledger[b] \in [Places -> Int] /\ ledger[b][p] = Due(b, p)
    BY StockAssumption DEF TypeOK, StockTypeOK, EveryBalanceIsDue
  <1>2. InStock(b)' = InStock(b) /\ onLedger' = onLedger
    BY DEF BatchMove, InStock
  <1>3. locationId'[b] = IF b \in moved THEN to ELSE locationId[b]
    BY DEF BatchMove
  <1>4. CASE b \in moved /\ b \in onLedger
    <2>1. to # locationId[b] /\ InStock(b)
      BY <1>4 DEF Movable
    <2>2. ledger'[b] = [ledger[b] EXCEPT ![locationId[b]] = @ - Weight[b], ![to] = @ + Weight[b]]
      BY <1>4 DEF BatchMove, MoveRows
    <2>3. /\ p = locationId[b] => ledger'[b][p] = ledger[b][p] - Weight[b]
          /\ p = to => ledger'[b][p] = ledger[b][p] + Weight[b]
          /\ p # locationId[b] /\ p # to => ledger'[b][p] = ledger[b][p]
      BY <1>1, <2>1, <2>2
    <2> QED BY <1>1, <1>2, <1>3, <1>4, <2>1, <2>3 DEF Due
  <1>5. CASE b \notin moved
    <2>1. ledger'[b] = ledger[b]
      BY <1>5 DEF BatchMove, MoveRows
    <2> QED BY <1>1, <1>2, <1>3, <1>5, <2>1 DEF Due
  <1>6. CASE b \notin onLedger
    <2>1. ledger'[b] = ledger[b]
      BY <1>6 DEF BatchMove, MoveRows
    <2> QED BY <1>1, <1>2, <1>6, <2>1 DEF Due
  <1> QED BY <1>4, <1>5, <1>6

LEMMA StockKeepsBalances ==
    ASSUME HoldInv, EveryBalanceIsDue, StockNext
    PROVE  EveryBalanceIsDue'
  <1>1. ASSUME NEW b \in Bundles, Import(b)
        PROVE  EveryBalanceIsDue'
    BY <1>1, EntryIsDue DEF Import, HoldInv, Places
  <1>2. ASSUME NEW r \in StockSlots, NEW b \in Bundles, BatchReceipt(r, b)
        PROVE  EveryBalanceIsDue'
    BY <1>2, EntryIsDue, StockRequestFields DEF BatchReceipt, HoldInv, TypeOK
  <1>3. ASSUME NEW r \in StockSlots,
               \/ Drop(r)
               \/ \E p \in Places : ReadReceipt(r, p)
               \/ AbortReceipt(r)
               \/ \E b \in Bundles, to \in BundleStatuses : ReadTransition(r, b, to)
               \/ \E bs \in SUBSET Bundles, to \in Locations : ReadMove(r, bs, to)
               \/ \E l \in Locations, patch \in Patches : ReadUpdate(r, l, patch)
               \/ BatchUpdate(r)
        PROVE  EveryBalanceIsDue'
    <2>1. UNCHANGED <<bundleStatus, ledger, onLedger, locationId>>
      BY <1>3 DEF Drop, ReadReceipt, AbortReceipt, ReadTransition, ReadMove, ReadUpdate, BatchUpdate,
                  Begin, bundleVars, ledgerVars
    <2> QED BY <2>1, DueKept DEF InStock
  <1> QED BY <1>1, <1>2, <1>3, OpeningIsDue, TransitionIsDue, MoveIsDue DEF StockNext, HoldInv

-----------------------------------------------------------------------------
(* Holding and releasing move a bundle between the two in-stock statuses. *)
LEMMA HoldKeepsStock ==
    ASSUME NEW bs \in SUBSET Bundles, NEW d,
           \/ Hold(bs, d) /\ \A b \in bs : bundleStatus[b] = "available"
           \/ Release(bs) /\ \A b \in bs : bundleStatus[b] = "reserved"
    PROVE  \A b \in Bundles : InStock(b)' = InStock(b)
  BY DEF Hold, Release, InStock, InStockStatuses

LEMMA CompleteKeepsBalances ==
    ASSUME HoldInv, EveryBalanceIsDue, NEW q \in DispatchSlots, BatchComplete(q)
    PROVE  EveryBalanceIsDue'
  <1> DEFINE d == pending[q].dispatch
             leaving == pending[q].bundles \cap HeldBy(d)
             late == HeldBy(d) \ leaving
  <1>1. leaving \in SUBSET Bundles /\ ledger' = PostAt(ledger, leaving, -1) /\ UNCHANGED <<onLedger, locationId>>
    BY DEF HeldBy, BatchComplete, DispatchRows
  <1>2. bundleStatus' = [b \in Bundles |->
            CASE b \in leaving -> "dispatched"
              [] b \in late -> "available"
              [] OTHER -> bundleStatus[b]]
    BY DEF BatchComplete
  <1>3. \A b \in leaving : InStock(b) /\ ~InStock(b)'
    BY <1>2 DEF HeldBy, InStock, InStockStatuses
  <1>4. ASSUME NEW b \in Bundles \ leaving
        PROVE  InStock(b)' = InStock(b)
    BY <1>2, <1>4 DEF HeldBy, InStock, InStockStatuses
  <1> QED BY <1>1, <1>3, <1>4, PostingIsDue DEF HoldInv

LEMMA DispatchKeepsBalances ==
    ASSUME HoldInv, EveryBalanceIsDue, DispatchNext
    PROVE  EveryBalanceIsDue'
  <1>1. ASSUME NEW d \in Dispatches, Create(d)
        PROVE  EveryBalanceIsDue'
    BY <1>1, DueKept DEF Create, stockVars, bundleVars, ledgerVars, InStock
  <1>2. ASSUME NEW q \in DispatchSlots, NEW d \in Dispatches,
               \/ \E bs \in SUBSET Bundles : ReadAdd(q, d, bs)
               \/ \E b \in Bundles : ReadRemove(q, d, b)
               \/ ReadReserve(q, d)
               \/ ReadUnreserve(q, d)
               \/ ReadCancel(q, d)
               \/ ReadComplete(q, d)
               \/ ReadDelete(q, d)
        PROVE  EveryBalanceIsDue'
    <2>1. UNCHANGED <<bundleStatus, ledger, onLedger, locationId>>
      BY <1>2 DEF ReadAdd, ReadRemove, ReadReserve, ReadUnreserve, ReadCancel, ReadComplete, ReadDelete,
                  Ask, Await, stockVars, bundleVars, ledgerVars
    <2> QED BY <2>1, DueKept DEF InStock
  <1>3. ASSUME NEW q \in DispatchSlots,
               Fail(q) \/ AbortAdd(q) \/ ReadPackingList(q) \/ AbortComplete(q) \/ BatchDelete(q)
        PROVE  EveryBalanceIsDue'
    <2>1. UNCHANGED <<bundleStatus, ledger, onLedger, locationId>>
      BY <1>3 DEF Fail, AbortAdd, ReadPackingList, AbortComplete, BatchDelete, Await, stockVars,
                  bundleVars, ledgerVars
    <2> QED BY <2>1, DueKept DEF InStock
  <1>4. ASSUME NEW q \in DispatchSlots, BatchAdd(q)
        PROVE  EveryBalanceIsDue'
    <2> DEFINE d == pending[q].dispatch
               bs == pending[q].bundles
               holding == IF pending[q].hold /\ DispatchIsHeld(d) THEN Available(bs) ELSE {}
    <2>1. Hold(holding, d) /\ UNCHANGED <<ledger, onLedger, locationId>>
      BY <1>4 DEF BatchAdd, ledgerVars
    <2>2. holding \in SUBSET Bundles /\ \A b \in holding : bundleStatus[b] = "available"
      BY <1>4, PendingFields DEF BatchAdd, Available, HoldInv
    <2> QED BY <2>1, <2>2, HoldKeepsStock, DueKept
  <1>5. ASSUME NEW q \in DispatchSlots, BatchRemove(q)
        PROVE  EveryBalanceIsDue'
    <2> DEFINE freed == IF pending[q].release THEN {pending[q].bundle} \cap HeldBy(pending[q].dispatch) ELSE {}
    <2>1. Release(freed) /\ UNCHANGED <<ledger, onLedger, locationId>>
      BY <1>5 DEF BatchRemove, ledgerVars
    <2>2. freed \in SUBSET Bundles /\ \A b \in freed : bundleStatus[b] = "reserved"
      BY DEF HeldBy
    <2> QED BY <2>1, <2>2, HoldKeepsStock, DueKept
  <1>6. ASSUME NEW q \in DispatchSlots, BatchReserve(q)
        PROVE  EveryBalanceIsDue'
    <2> DEFINE bs == Available(pending[q].bundles)
    <2>1. UNCHANGED <<ledger, onLedger, locationId>>
      BY <1>6 DEF BatchReserve, ledgerVars
    <2>2. bs \in SUBSET Bundles /\ \A b \in bs : bundleStatus[b] = "available"
      BY <1>6, PendingFields DEF BatchReserve, Available, HoldInv
    <2>3. Hold(bs, pending[q].dispatch) \/ bundleStatus' = bundleStatus
      BY <1>6 DEF BatchReserve
    <2>4. \A b \in Bundles : InStock(b)' = InStock(b)
      BY <2>2, <2>3, HoldKeepsStock DEF InStock
    <2> QED BY <2>1, <2>4, DueKept
  <1>7. ASSUME NEW q \in DispatchSlots, BatchUnreserve(q) \/ BatchCancel(q)
        PROVE  EveryBalanceIsDue'
    <2>1. Release(HeldBy(pending[q].dispatch)) /\ UNCHANGED <<ledger, onLedger, locationId>>
      BY <1>7 DEF BatchUnreserve, BatchCancel, ReleaseAllHolds, ToRelease, ledgerVars
    <2>2. /\ HeldBy(pending[q].dispatch) \in SUBSET Bundles
          /\ \A b \in HeldBy(pending[q].dispatch) : bundleStatus[b] = "reserved"
      BY DEF HeldBy
    <2> QED BY <2>1, <2>2, HoldKeepsStock, DueKept
  <1> QED BY <1>1, <1>2, <1>3, <1>4, <1>5, <1>6, <1>7, CompleteKeepsBalances DEF DispatchNext

(* However requests interleave, a bundle's balance on the ledger is its      *)
(* weight where its row says it lies, while it is in stock, and 0 elsewhere. *)
THEOREM LedgerIsTheProjection == Spec => []LedgerMatchesProjection
  <1>1. Init => EveryBalanceIsDue
    BY DEF Init, StockInit, EveryBalanceIsDue, Due
  <1>2. HoldInv /\ EveryBalanceIsDue /\ [Next]_vars => EveryBalanceIsDue'
    <2> SUFFICES ASSUME HoldInv, EveryBalanceIsDue, [Next]_vars
                 PROVE  EveryBalanceIsDue'
      OBVIOUS
    <2>1. CASE UNCHANGED vars
      BY <2>1, DueKept DEF vars, stockVars, bundleVars, ledgerVars, InStock
    <2> QED BY <2>1, StockKeepsBalances, DispatchKeepsBalances DEF Next
  <1>3. HoldInv /\ EveryBalanceIsDue => LedgerMatchesProjection
    BY LedgerIsDue DEF HoldInv
  <1> QED BY <1>1, <1>2, <1>3, HoldInvAlways, PTL DEF Spec
=============================================================================
