---------------------------- MODULE CountProofs -----------------------------
(***************************************************************************)
(* The stock count keeps its promises for any bundles, yards, counts and     *)
(* requests in flight, and for any order in which requests that have drawn    *)
(* their sequences are written.                                              *)
(***************************************************************************)
EXTENDS Count, TLAPS

(* Only a closed count has a report, a request about it, or a past since its  *)
(* close.                                                                     *)
OnlyClosedReport ==
    \A c \in Counts :
        countStatus[c] # "closed" =>
            /\ ~approval[c].pending
            /\ changed[c] = {}
            /\ \A b \in Bundles : line[c][b] = NoLine

(* What waits for a void is a phantom. *)
RequestedArePhantoms ==
    \A c \in Counts, b \in Bundles :
        line[c][b].resolution = "void_requested" => line[c][b].kind = "phantom"

(* What a request made after the close has posted shows in the sequence of    *)
(* the bundle's ledger rows, whatever older requests were written after it.    *)
ChangesShow ==
    \A c \in Counts, b \in Bundles : b \in changed[c] => ledgerSeq[b] > closeSeq[c]

CountInv ==
    /\ TypeOK
    /\ OnlyClosedReport
    /\ RequestedArePhantoms
    /\ ChangesShow
    /\ ReportMatchesScans
    /\ RequestsAreAwaited

-----------------------------------------------------------------------------
LEMMA RequestFields ==
    ASSUME TypeOK, NEW q \in Slots
    PROVE  /\ request[q].op = "start" =>
                request[q].places \in SUBSET Yards /\ request[q].unplaced \in BOOLEAN /\ request[q].seq \in Nat
           /\ request[q].op = "scan" =>
                /\ request[q].count \in Counts /\ request[q].bundle \in Bundles
                /\ request[q].at \in Yards /\ request[q].seq \in Nat
           /\ request[q].op = "close" => request[q].count \in Counts /\ request[q].seq \in Nat
           /\ request[q].op = "voidPhantom" =>
                request[q].count \in Counts /\ request[q].bundles \in SUBSET Bundles
           /\ request[q].op = "moveFound" =>
                request[q].count \in Counts /\ request[q].bundles \in SUBSET Bundles /\ request[q].seq \in Nat
           /\ request[q].op = "decide" =>
                request[q].count \in Counts /\ request[q].approval \in Nat /\ request[q].seq \in Nat
           /\ request[q].op = "pack" => request[q].at \in Yards /\ request[q].seq \in Nat
           /\ request[q].op = "move" =>
                request[q].bundle \in Bundles /\ request[q].to \in Yards /\ request[q].seq \in Nat
           /\ request[q].op = "transition" =>
                request[q].bundle \in Bundles /\ request[q].to \in BundleStatuses /\ request[q].seq \in Nat
  <1>1. request[q] \in Requests
    BY DEF TypeOK
  <1> QED BY <1>1 DEF Requests, Idle

LEMMA DoneTyped ==
    ASSUME TypeOK, NEW q \in Slots, Done(q)
    PROVE  request' \in [Slots -> Requests] /\ seq' = seq
  <1>1. Idle \in Requests
    BY DEF Requests
  <1> QED BY <1>1 DEF TypeOK, Done

LEMMA PostTyped ==
    ASSUME TypeOK, NEW bs \in SUBSET Bundles, NEW s \in Nat, Post(bs, s)
    PROVE  ledgerSeq' \in [Bundles -> Nat] /\ changed' \in [Counts -> SUBSET Bundles]
  BY DEF TypeOK, Post

(* A line of a report, and the same line with another resolution. *)
Lines == [kind : Kinds, system : Places, at : Places, resolution : Resolutions]

Resolved(l, r) == [l EXCEPT !.resolution = r]

LEMMA ResolvedFields ==
    ASSUME NEW l \in Lines, NEW r \in Resolutions
    PROVE  /\ Resolved(l, r) \in Lines
           /\ Resolved(l, r).kind = l.kind /\ Resolved(l, r).system = l.system
           /\ Resolved(l, r).at = l.at /\ Resolved(l, r).resolution = r
  BY DEF Lines, Resolved

LEMMA LinesTyped ==
    ASSUME TypeOK
    PROVE  /\ line \in [Counts -> [Bundles -> Lines]]
           /\ \A c \in Counts, b \in Bundles : line[c][b] \in Lines
  BY DEF TypeOK, Lines

LEMMA ResolveTyped ==
    ASSUME TypeOK, NEW c \in Counts, NEW bs \in SUBSET Bundles, NEW r \in Resolutions, Resolve(c, bs, r)
    PROVE  /\ line' \in [Counts -> [Bundles -> Lines]]
           /\ \A k \in Counts, b \in Bundles :
                line'[k][b] = IF k = c /\ b \in bs THEN Resolved(line[k][b], r) ELSE line[k][b]
  <1>1. line \in [Counts -> [Bundles -> Lines]]
    BY LinesTyped
  <1>2. \A b \in Bundles : Resolved(line[c][b], r) \in Lines
    BY <1>1, ResolvedFields
  <1>3. line' = [line EXCEPT ![c] = [b \in Bundles |->
                    IF b \in bs THEN Resolved(line[c][b], r) ELSE line[c][b]]]
    BY <1>1 DEF Resolve, Resolved
  <1> QED BY <1>1, <1>2, <1>3

-----------------------------------------------------------------------------
(* A request that is only read leaves everything but its slot and the sequence. *)
Reading(q) ==
    \/ \E ps \in SUBSET Yards, nowhere \in BOOLEAN : ReadStart(q, ps, nowhere)
    \/ \E c \in Counts :
        \/ ReadClose(q, c)
        \/ \E b \in Bundles, p \in Yards : ReadScan(q, c, b, p)
        \/ \E bs \in SUBSET Bundles : ReadVoidPhantom(q, c, bs) \/ ReadMoveFound(q, c, bs)
        \/ \E verdict \in {"approved", "rejected"} : ReadDecide(q, c, verdict)
    \/ \E p \in Yards : ReadPack(q, p)
    \/ \E b \in Bundles : \/ \E p \in Yards : ReadMove(q, b, p)
                          \/ \E to \in BundleStatuses : ReadTransition(q, b, to)

LEMMA ReadingTyped ==
    ASSUME TypeOK, NEW q \in Slots, Reading(q)
    PROVE  TypeOK' /\ UNCHANGED <<yardVars, sessionVars, seen, reportVars, changed>>
  <1>1. seq + 1 \in Nat
    BY DEF TypeOK
  <1>2. PICK req : /\ request' = [request EXCEPT ![q] = req]
                   /\ req \in Requests
                   /\ seq' \in {seq, seq + 1}
                   /\ UNCHANGED <<yardVars, sessionVars, seen, reportVars, changed>>
    <2>1. CASE \E ps \in SUBSET Yards, nowhere \in BOOLEAN : ReadStart(q, ps, nowhere)
      BY <1>1, <2>1 DEF ReadStart, Await, Requests
    <2>2. CASE \E c \in Counts : ReadClose(q, c)
      BY <1>1, <2>2 DEF ReadClose, Await, Requests
    <2>3. CASE \E c \in Counts, b \in Bundles, p \in Yards : ReadScan(q, c, b, p)
      BY <1>1, <2>3 DEF ReadScan, Await, Requests
    <2>4. CASE \E c \in Counts, bs \in SUBSET Bundles : ReadVoidPhantom(q, c, bs)
      BY <1>1, <2>4 DEF ReadVoidPhantom, Requests
    <2>5. CASE \E c \in Counts, bs \in SUBSET Bundles : ReadMoveFound(q, c, bs)
      BY <1>1, <2>5 DEF ReadMoveFound, Await, Requests
    <2>6. CASE \E c \in Counts, verdict \in {"approved", "rejected"} : ReadDecide(q, c, verdict)
      <3>1. PICK c \in Counts, verdict \in {"approved", "rejected"} : ReadDecide(q, c, verdict)
        BY <2>6
      <3>2. approval[c].made \in Nat
        BY DEF TypeOK
      <3> QED BY <1>1, <3>1, <3>2 DEF ReadDecide, Await, Requests
    <2>7. CASE \E p \in Yards : ReadPack(q, p)
      BY <1>1, <2>7 DEF ReadPack, Await, Requests
    <2>8. CASE \E b \in Bundles, p \in Yards : ReadMove(q, b, p)
      BY <1>1, <2>8 DEF ReadMove, Await, Requests
    <2>9. CASE \E b \in Bundles, to \in BundleStatuses : ReadTransition(q, b, to)
      <3>1. PICK b \in Bundles, to \in BundleStatuses : ReadTransition(q, b, to)
        BY <2>9
      <3>2. bundleStatus[b] \in BundleStatuses
        BY DEF TypeOK
      <3> QED BY <1>1, <3>1, <3>2 DEF ReadTransition, Await, Requests
    <2> QED BY <2>1, <2>2, <2>3, <2>4, <2>5, <2>6, <2>7, <2>8, <2>9 DEF Reading
  <1> QED BY <1>1, <1>2 DEF TypeOK, yardVars, sessionVars, reportVars
-----------------------------------------------------------------------------
LEMMA InitInv == Init => CountInv
  <1> SUFFICES ASSUME Init PROVE CountInv
    OBVIOUS
  <1>1. TypeOK
    <2>1. Idle \in Requests /\ NoPlace \in Places
      BY DEF Requests, Places
    <2> QED BY <2>1 DEF Init, TypeOK, Unseen, NoLine, BundleStatuses, CountStatuses, Kinds, Resolutions
  <1>2. \A c \in Counts, b \in Bundles : line[c][b] = NoLine /\ ~approval[c].pending /\ changed[c] = {}
    BY DEF Init
  <1>3. OnlyClosedReport /\ ChangesShow
    BY <1>2 DEF Init, OnlyClosedReport, ChangesShow
  <1>4. RequestedArePhantoms /\ ReportMatchesScans
    BY <1>2 DEF RequestedArePhantoms, ReportMatchesScans, NoLine
  <1>5. \A c \in Counts : ~approval[c].pending /\ Requested(c) = {}
    BY <1>2 DEF Init, Requested, NoLine
  <1> QED BY <1>1, <1>3, <1>4, <1>5 DEF CountInv, RequestsAreAwaited

(* What a step leaves alone that none of the invariant's parts but the type     *)
(* depends on.                                                                  *)
LEMMA ReportUntouched ==
    ASSUME CountInv, TypeOK', UNCHANGED <<countStatus, closeSeq, seen, reportVars>>,
           ChangesShow', OnlyClosedReport'
    PROVE  CountInv'
  BY DEF CountInv, reportVars, RequestedArePhantoms, ReportMatchesScans, RequestsAreAwaited, Requested, Seen

(* Posting shows itself in the sequence, and only to counts already closed.      *)
LEMMA PostShows ==
    ASSUME CountInv, NEW bs \in SUBSET Bundles, NEW s \in Nat, Post(bs, s),
           UNCHANGED <<countStatus, closeSeq>>
    PROVE  ChangesShow' /\ \A c \in Counts : countStatus'[c] # "closed" => changed'[c] = {}
  <1>1. /\ ledgerSeq \in [Bundles -> Nat] /\ closeSeq \in [Counts -> Nat]
        /\ changed \in [Counts -> SUBSET Bundles]
    BY DEF CountInv, TypeOK
  <1>2. ASSUME NEW c \in Counts, NEW b \in Bundles, b \in changed'[c]
        PROVE  ledgerSeq'[b] > closeSeq'[c]
    <2>1. CASE b \in changed[c]
      <3>1. ledgerSeq[b] > closeSeq[c]
        BY <2>1 DEF CountInv, ChangesShow
      <3>2. ledgerSeq'[b] >= ledgerSeq[b] /\ closeSeq'[c] = closeSeq[c]
        BY <1>1 DEF Post
      <3>3. ledgerSeq'[b] \in Nat
        BY <1>1 DEF Post
      <3> QED BY <1>1, <3>1, <3>2, <3>3
    <2>2. CASE b \notin changed[c]
      <3>1. b \in bs /\ s > closeSeq[c]
        BY <1>1, <1>2, <2>2 DEF Post
      <3>2. ledgerSeq'[b] >= s /\ ledgerSeq'[b] \in Nat
        BY <1>1, <3>1 DEF Post
      <3> QED BY <1>1, <3>1, <3>2
    <2> QED BY <2>1, <2>2
  <1>3. \A c \in Counts : countStatus'[c] # "closed" => changed'[c] = {}
    BY <1>1 DEF CountInv, OnlyClosedReport, Post
  <1> QED BY <1>2, <1>3 DEF ChangesShow

-----------------------------------------------------------------------------
(* Steps of the yard. *)
LEMMA YardKeeps ==
    ASSUME CountInv, NEW q,
           \/ \E b \in Bundles : Reserve(b)
           \/ /\ q \in Slots
              /\ \/ \E b \in Bundles : BatchPack(q, b)
                 \/ BatchMove(q)
                 \/ BatchTransition(q)
    PROVE  CountInv'
  <1> USE DEF sessionVars, reportVars
  <1>1. TypeOK
    BY DEF CountInv
  <1>2. CASE \E b \in Bundles : Reserve(b)
    <2>1. TypeOK'
      BY <1>1, <1>2 DEF Reserve, TypeOK, BundleStatuses
    <2>2. ChangesShow' /\ OnlyClosedReport'
      BY <1>2 DEF Reserve, CountInv, ChangesShow, OnlyClosedReport
    <2> QED BY <1>2, <2>1, <2>2, ReportUntouched DEF Reserve
  <1>3. ASSUME q \in Slots, NEW b \in Bundles, Done(q), request[q].seq \in Nat, Post({b}, request[q].seq),
               bundleStatus' \in [Bundles -> BundleStatuses], place' \in [Bundles -> Places],
               UNCHANGED <<sessionVars, seen, reportVars>>
        PROVE  CountInv'
    <2>1. TypeOK'
      BY <1>1, <1>3, DoneTyped, PostTyped DEF TypeOK
    <2>2. ChangesShow' /\ OnlyClosedReport'
      BY <1>3, PostShows DEF CountInv, OnlyClosedReport
    <2> QED BY <1>3, <2>1, <2>2, ReportUntouched
  <1>4. CASE q \in Slots /\ \E b \in Bundles : BatchPack(q, b)
    <2>1. PICK b \in Bundles : BatchPack(q, b)
      BY <1>4
    <2>2. request[q].seq \in Nat /\ request[q].at \in Yards
      BY <1>1, <1>4, <2>1, RequestFields DEF BatchPack
    <2>3. bundleStatus' \in [Bundles -> BundleStatuses] /\ place' \in [Bundles -> Places]
      BY <1>1, <2>1, <2>2 DEF BatchPack, TypeOK, BundleStatuses, Places
    <2> QED BY <1>3, <1>4, <2>1, <2>2, <2>3 DEF BatchPack
  <1>5. CASE q \in Slots /\ BatchMove(q)
    <2>2. request[q].seq \in Nat /\ request[q].to \in Yards /\ request[q].bundle \in Bundles
      BY <1>1, <1>5, RequestFields DEF BatchMove
    <2>3. bundleStatus' \in [Bundles -> BundleStatuses] /\ place' \in [Bundles -> Places]
      BY <1>1, <1>5, <2>2 DEF BatchMove, TypeOK, Places
    <2> QED BY <1>3, <1>5, <2>2, <2>3 DEF BatchMove
  <1>6. CASE q \in Slots /\ BatchTransition(q)
    <2>2. request[q].seq \in Nat /\ request[q].to \in BundleStatuses /\ request[q].bundle \in Bundles
      BY <1>1, <1>6, RequestFields DEF BatchTransition
    <2>3. bundleStatus' \in [Bundles -> BundleStatuses] /\ place' \in [Bundles -> Places]
      BY <1>1, <1>6, <2>2 DEF BatchTransition, TypeOK
    <2> QED BY <1>3, <1>6, <2>2, <2>3 DEF BatchTransition
  <1> QED BY <1>2, <1>4, <1>5, <1>6

(* Steps of a count while it is open, but the close. *)
LEMMA OpenCountKeeps ==
    ASSUME CountInv, NEW q, NEW c \in Counts,
           \/ CancelCount(c)
           \/ \E b \in Bundles : RemoveScan(c, b)
           \/ q \in Slots /\ (BatchStart(q, c) \/ BatchScan(q))
    PROVE  CountInv'
  <1> USE DEF reportVars, sessionVars, yardVars
  <1>1. TypeOK
    BY DEF CountInv
  <1>2. CASE (q \in Slots /\ BatchStart(q, c)) \/ CancelCount(c)
    <2>1. TypeOK'
      <3>1. CASE q \in Slots /\ BatchStart(q, c)
        BY <1>1, <3>1, DoneTyped, RequestFields DEF BatchStart, TypeOK, CountStatuses
      <3>2. CASE CancelCount(c)
        BY <1>1, <3>2 DEF CancelCount, TypeOK, CountStatuses
      <3> QED BY <1>2, <3>1, <3>2
    <2>2. /\ UNCHANGED <<closeSeq, seen, line, approval, changed, ledgerSeq>>
          /\ countStatus[c] # "closed" /\ countStatus'[c] # "closed"
          /\ \A k \in Counts \ {c} : countStatus'[k] = countStatus[k]
      BY <1>1, <1>2 DEF BatchStart, CancelCount, TypeOK
    <2>3. OnlyClosedReport' /\ ChangesShow'
      BY <2>2 DEF CountInv, OnlyClosedReport, ChangesShow
    <2> QED BY <2>1, <2>2, <2>3 DEF CountInv, RequestedArePhantoms, ReportMatchesScans,
                                    RequestsAreAwaited, Requested, Seen
  <1>3. ASSUME NEW k \in Counts, NEW b \in Bundles, NEW scan \in [at : Places, seq : Nat],
               countStatus[k] = "open", seen' = [seen EXCEPT ![k][b] = scan],
               UNCHANGED <<yardVars, sessionVars, reportVars, changed, seq>>,
               request' \in [Slots -> Requests]
        PROVE  CountInv'
    <2>1. TypeOK'
      BY <1>1, <1>3 DEF TypeOK
    <2>2. \A n \in Counts, x \in Bundles : line[n][x].kind # "none" => seen'[n][x] = seen[n][x]
      <3>1. \A x \in Bundles : line[k][x] = NoLine
        BY <1>3 DEF CountInv, OnlyClosedReport
      <3> QED BY <1>1, <1>3, <3>1 DEF NoLine, TypeOK
    <2>3. ReportMatchesScans'
      BY <1>3, <2>2 DEF CountInv, ReportMatchesScans, Seen
    <2> QED BY <1>3, <2>1, <2>3 DEF CountInv, OnlyClosedReport, ChangesShow, RequestedArePhantoms,
                                    RequestsAreAwaited, Requested
  <1>4. CASE \E b \in Bundles : RemoveScan(c, b)
    <2>1. Unseen \in [at : Places, seq : Nat]
      BY DEF Unseen, Places
    <2> QED BY <1>1, <1>3, <1>4, <2>1 DEF RemoveScan, TypeOK
  <1>5. CASE q \in Slots /\ BatchScan(q)
    <2>1. /\ request[q].count \in Counts /\ request[q].bundle \in Bundles
          /\ [at |-> request[q].at, seq |-> request[q].seq] \in [at : Places, seq : Nat]
      BY <1>1, <1>5, RequestFields DEF BatchScan, Places
    <2> QED BY <1>1, <1>3, <1>5, <2>1, DoneTyped DEF BatchScan, ScanLands
  <1> QED BY <1>2, <1>4, <1>5
(* The close writes every line of the report, from the scans that are there. *)
LEMMA CloseKeeps ==
    ASSUME CountInv, NEW q \in Slots, BatchClose(q)
    PROVE  CountInv'
  <1>1. TypeOK
    BY DEF CountInv
  <1>2. PICK c \in Counts : c = request[q].count /\ request[q].seq \in Nat /\ countStatus[c] = "open"
    BY <1>1, RequestFields DEF BatchClose, CloseLands
  <1> DEFINE Line == [kind : Kinds, system : Places, at : Places, resolution : Resolutions]
             fresh(b) == IF Kind(c, b) = "none" THEN NoLine
                         ELSE [kind |-> Kind(c, b), system |-> place[b], at |-> seen[c][b].at,
                               resolution |-> "open"]
  <1>3. ASSUME NEW b \in Bundles
        PROVE  /\ Kind(c, b) \in Kinds
               /\ Kind(c, b) = "phantom" => ~Seen(c, b)
               /\ Kind(c, b) \in {"found", "moved"} => Seen(c, b)
    BY DEF Kind, SeenKind, Kinds
  <1>4. \A b \in Bundles : fresh(b) \in Line
    <2>1. NoLine \in Line
      BY DEF NoLine, Kinds, Places, Resolutions
    <2>2. \A b \in Bundles : place[b] \in Places /\ seen[c][b].at \in Places
      BY <1>1, <1>2 DEF TypeOK
    <2> QED BY <1>3, <2>1, <2>2 DEF Resolutions
  <1>5. /\ line' = [line EXCEPT ![c] = [b \in Bundles |-> fresh(b)]]
        /\ closeSeq' = [closeSeq EXCEPT ![c] = request[q].seq]
        /\ countStatus' = [countStatus EXCEPT ![c] = "closed"]
        /\ changed' = [changed EXCEPT ![c] = {}]
        /\ UNCHANGED <<yardVars, covers, unplaced, startSeq, seen, approval>>
    BY <1>2 DEF BatchClose
  <1> HIDE DEF fresh
  <1>6. /\ \A b \in Bundles : line'[c][b] = fresh(b)
        /\ \A k \in Counts \ {c}, b \in Bundles : line'[k][b] = line[k][b]
        /\ line' \in [Counts -> [Bundles -> Line]]
    BY <1>1, <1>2, <1>4, <1>5 DEF TypeOK
  <1>7. TypeOK'
    <2>1. request' \in [Slots -> Requests] /\ seq' = seq
      BY <1>1, DoneTyped DEF BatchClose
    <2> QED BY <1>1, <1>2, <1>5, <1>6, <2>1 DEF TypeOK, CountStatuses, yardVars
  <1>8. OnlyClosedReport' /\ ChangesShow'
    <2>1. OnlyClosedReport'
      BY <1>1, <1>2, <1>5, <1>6 DEF CountInv, OnlyClosedReport, TypeOK
    <2>2. ChangesShow'
      BY <1>1, <1>2, <1>5 DEF CountInv, ChangesShow, TypeOK, yardVars
    <2> QED BY <2>1, <2>2
  <1>9. ASSUME NEW b \in Bundles
        PROVE  /\ line'[c][b].resolution = "open"
               /\ line'[c][b].kind = Kind(c, b)
               /\ Kind(c, b) # "none" => line'[c][b].at = seen[c][b].at
    <2>1. line'[c][b] = fresh(b)
      BY <1>6
    <2>2. CASE Kind(c, b) = "none"
      BY <2>1, <2>2 DEF fresh, NoLine
    <2>3. CASE Kind(c, b) # "none"
      BY <2>1, <2>3 DEF fresh
    <2> QED BY <2>2, <2>3
  <1>10. RequestedArePhantoms'
    BY SMTT(20), <1>6, <1>9 DEF CountInv, RequestedArePhantoms
  <1>11. ReportMatchesScans'
    <2>1. seen' = seen
      BY <1>5
    <2> QED BY SMTT(20), <1>3, <1>6, <1>9, <2>1 DEF CountInv, ReportMatchesScans, Seen
  <1>12. RequestsAreAwaited'
    <2>1. Requested(c)' = {} /\ ~approval'[c].pending
      BY <1>2, <1>5, <1>9 DEF Requested, CountInv, OnlyClosedReport
    <2>2. \A k \in Counts \ {c} : Requested(k)' = Requested(k) /\ approval'[k] = approval[k]
      BY <1>5, <1>6 DEF Requested
    <2> QED BY <2>1, <2>2 DEF CountInv, RequestsAreAwaited
  <1> QED BY <1>7, <1>8, <1>10, <1>11, <1>12 DEF CountInv

-----------------------------------------------------------------------------
(* Lines that get another resolution keep what the report says of the bundle.  *)
LEMMA ResolvedLines ==
    ASSUME CountInv, NEW c \in Counts, countStatus[c] = "closed", 
           line' \in [Counts -> [Bundles -> Lines]],
           \A k \in Counts, b \in Bundles :
                /\ line'[k][b].kind = line[k][b].kind /\ line'[k][b].at = line[k][b].at
                /\ k # c => line'[k][b] = line[k][b]
                /\ line'[k][b].resolution = "void_requested" => line[k][b].kind = "phantom",
           \A k \in Counts \ {c} : approval'[k] = approval[k],
           approval'[c].pending <=> Requested(c)' # {},
           UNCHANGED <<countStatus, seen>>
    PROVE  /\ RequestedArePhantoms' /\ ReportMatchesScans' /\ RequestsAreAwaited'
           /\ \A k \in Counts : countStatus'[k] # "closed" =>
                ~approval'[k].pending /\ \A b \in Bundles : line'[k][b] = NoLine
  <1>1. RequestedArePhantoms'
    BY DEF RequestedArePhantoms
  <1>2. ReportMatchesScans'
    BY DEF CountInv, ReportMatchesScans, Seen
  <1>3. \A k \in Counts \ {c} : Requested(k)' = Requested(k)
    BY DEF Requested
  <1>4. RequestsAreAwaited'
    BY <1>3 DEF CountInv, RequestsAreAwaited
  <1>5. ASSUME NEW k \in Counts, countStatus'[k] # "closed"
        PROVE  ~approval'[k].pending /\ \A b \in Bundles : line'[k][b] = NoLine
    <2>1. k # c /\ countStatus[k] # "closed"
      BY <1>5
    <2>2. ~approval[k].pending /\ \A b \in Bundles : line[k][b] = NoLine
      BY <2>1 DEF CountInv, OnlyClosedReport
    <2> QED BY <2>1, <2>2
  <1> QED BY <1>1, <1>2, <1>4, <1>5
(* Asking for voids, and having them refused. *)
LEMMA AskingKeeps ==
    ASSUME CountInv, NEW q \in Slots, BatchVoidPhantom(q) \/ BatchReject(q)
    PROVE  CountInv'
  <1>1. TypeOK
    BY DEF CountInv
  <1>2. PICK c \in Counts : c = request[q].count
    BY <1>1, RequestFields DEF BatchVoidPhantom, BatchReject
  <1>3. ASSUME NEW bs \in SUBSET Bundles, NEW r \in {"open", "void_requested"}, Resolve(c, bs, r),
               countStatus[c] = "closed", Done(q),
               r = "void_requested" => \A b \in bs : line[c][b].kind = "phantom",
               approval' \in [Counts -> [made : Nat, pending : BOOLEAN]],
               \A k \in Counts \ {c} : approval'[k] = approval[k],
               approval'[c].pending <=> Requested(c)' # {},
               UNCHANGED <<yardVars, sessionVars, seen, changed>>
        PROVE  CountInv'
    <2>1. r \in Resolutions
      BY DEF Resolutions
    <2>2. /\ line' \in [Counts -> [Bundles -> Lines]]
          /\ \A k \in Counts, b \in Bundles :
                line'[k][b] = IF k = c /\ b \in bs THEN Resolved(line[k][b], r) ELSE line[k][b]
      <3>1. Resolve(c, bs, r)
        BY <1>3
      <3> QED BY <1>1, <2>1, <3>1, ResolveTyped
    <2>3. TypeOK'
      <3>1. request' \in [Slots -> Requests] /\ seq' = seq
        BY <1>1, <1>3, DoneTyped
      <3>2. UNCHANGED <<bundleStatus, place, ledgerSeq, countStatus, covers, unplaced, startSeq,
                        closeSeq, seen, changed>>
        BY <1>3 DEF yardVars, sessionVars
      <3>3. approval' \in [Counts -> [made : Nat, pending : BOOLEAN]]
        BY <1>3
      <3> QED BY <1>1, <2>2, <3>1, <3>2, <3>3 DEF TypeOK, Lines
    <2>4. ASSUME NEW k \in Counts, NEW b \in Bundles
          PROVE  /\ line'[k][b].kind = line[k][b].kind /\ line'[k][b].at = line[k][b].at
                 /\ k # c => line'[k][b] = line[k][b]
                 /\ line'[k][b].resolution = "void_requested" => line[k][b].kind = "phantom"
      <3>1. line[k][b] \in Lines
        BY <1>1, LinesTyped
      <3>2. line[k][b].resolution = "void_requested" => line[k][b].kind = "phantom"
        BY DEF CountInv, RequestedArePhantoms
      <3>3. CASE k = c /\ b \in bs
        BY <1>3, <2>1, <2>2, <3>1, <3>2, <3>3, ResolvedFields
      <3>4. CASE ~(k = c /\ b \in bs)
        BY <2>2, <3>2, <3>4
      <3> QED BY <3>3, <3>4
    <2>5. UNCHANGED <<countStatus, seen>>
      BY <1>3 DEF sessionVars
    <2>6. /\ RequestedArePhantoms' /\ ReportMatchesScans' /\ RequestsAreAwaited'
          /\ \A k \in Counts : countStatus'[k] # "closed" =>
                ~approval'[k].pending /\ \A b \in Bundles : line'[k][b] = NoLine
      BY <1>3, <2>2, <2>4, <2>5, ResolvedLines
    <2>7. ChangesShow' /\ OnlyClosedReport'
      BY <1>3, <2>6 DEF CountInv, ChangesShow, OnlyClosedReport, yardVars, sessionVars
    <2> QED BY <2>3, <2>6, <2>7 DEF CountInv
  <1>4. CASE BatchVoidPhantom(q)
    <2>1. PICK bs \in SUBSET Bundles :
            /\ bs = {b \in request[q].bundles : OpenLine(c, b, {"phantom"})}
            /\ bs # {} /\ Resolve(c, bs, "void_requested")
      BY <1>1, <1>2, <1>4, RequestFields DEF BatchVoidPhantom
    <2>2. \A b \in bs : line[c][b].kind = "phantom"
      BY <2>1 DEF OpenLine
    <2>3. countStatus[c] = "closed"
      BY <2>1, <2>2 DEF CountInv, OnlyClosedReport, NoLine
    <2>4. approval' = [approval EXCEPT ![c] = [made |-> approval[c].made + 1, pending |-> TRUE]]
      BY <1>1, <1>2, <1>4 DEF BatchVoidPhantom, TypeOK
    <2>5. Requested(c)' # {}
      <3>1. PICK b \in bs : TRUE
        BY <2>1
      <3>2. line'[c][b] = Resolved(line[c][b], "void_requested")
        BY <1>1, <2>1, ResolveTyped DEF Resolutions
      <3>3. line[c][b] \in Lines
        BY <1>1, LinesTyped
      <3> QED BY <3>2, <3>3, ResolvedFields DEF Requested, Resolutions
    <2>6. /\ approval' \in [Counts -> [made : Nat, pending : BOOLEAN]]
          /\ \A k \in Counts \ {c} : approval'[k] = approval[k]
          /\ approval'[c].pending
      BY <1>1, <2>4 DEF TypeOK
    <2> QED BY <1>3, <1>4, <2>1, <2>2, <2>3, <2>5, <2>6 DEF BatchVoidPhantom
  <1>5. CASE BatchReject(q)
    <2>1. Resolve(c, Requested(c), "open") /\ Requested(c) \in SUBSET Bundles
      BY <1>2, <1>5 DEF BatchReject, Reopen, Requested
    <2>2. approval[c].pending /\ approval' = [approval EXCEPT ![c].pending = FALSE]
      BY <1>2, <1>5 DEF BatchReject
    <2>3. countStatus[c] = "closed"
      BY <2>2 DEF CountInv, OnlyClosedReport
    <2>4. Requested(c)' = {}
      <3>1. \A b \in Bundles : line'[c][b] =
                IF b \in Requested(c) THEN Resolved(line[c][b], "open") ELSE line[c][b]
        BY <1>1, <2>1, ResolveTyped DEF Resolutions
      <3>2. \A b \in Bundles :
                line[c][b] \in Lines
        BY <1>1, LinesTyped
      <3> QED BY <3>1, <3>2, ResolvedFields DEF Requested, Resolutions
    <2>5. /\ approval' \in [Counts -> [made : Nat, pending : BOOLEAN]]
          /\ \A k \in Counts \ {c} : approval'[k] = approval[k]
          /\ ~approval'[c].pending
      BY <1>1, <2>2 DEF TypeOK
    <2> QED BY <1>3, <1>5, <2>1, <2>3, <2>4, <2>5 DEF BatchReject
  <1> QED BY <1>4, <1>5

(* Voiding what is still missing. *)
LEMMA ApproveKeeps ==
    ASSUME CountInv, NEW q \in Slots, BatchApprove(q)
    PROVE  CountInv'
  <1>1. TypeOK /\ line \in [Counts -> [Bundles -> Lines]]
    BY LinesTyped DEF CountInv
  <1>2. PICK c \in Counts : c = request[q].count /\ request[q].seq \in Nat
    BY <1>1, RequestFields DEF BatchApprove
  <1>3. PICK gone \in SUBSET Bundles :
            /\ gone = {b \in Requested(c) : bundleStatus[b] = "available" /\ StillPhantom(c, b)}
            /\ bundleStatus' = [b \in Bundles |-> IF b \in gone THEN "void" ELSE bundleStatus[b]]
            /\ Post(gone, request[q].seq)
            /\ line' = [line EXCEPT ![c] = [b \in Bundles |->
                  IF b \in gone THEN Resolved(line[c][b], "voided")
                  ELSE IF b \in Requested(c) THEN Resolved(line[c][b], "cleared")
                  ELSE line[c][b]]]
    BY <1>1, <1>2 DEF BatchApprove, Requested, Resolved
  <1>4. /\ approval[c].pending /\ approval' = [approval EXCEPT ![c].pending = FALSE]
        /\ Done(q) /\ UNCHANGED <<place, sessionVars, seen>>
    <2>1. /\ approval[c] = [made |-> request[q].approval, pending |-> TRUE]
          /\ approval' = [approval EXCEPT ![c].pending = FALSE]
      BY <1>2 DEF BatchApprove
    <2>2. Done(q) /\ UNCHANGED <<place, sessionVars, seen>>
      BY DEF BatchApprove
    <2> QED BY <2>1, <2>2
  <1>5. countStatus[c] = "closed"
    BY <1>4 DEF CountInv, OnlyClosedReport
  <1>6. \A b \in Bundles : /\ line[c][b] \in Lines
                           /\ Resolved(line[c][b], "voided") \in Lines
                           /\ Resolved(line[c][b], "cleared") \in Lines
    BY <1>1, ResolvedFields DEF Resolutions
  <1>7. /\ line' \in [Counts -> [Bundles -> Lines]]
        /\ \A k \in Counts \ {c}, b \in Bundles : line'[k][b] = line[k][b]
        /\ \A b \in Bundles : line'[c][b] =
                IF b \in gone THEN Resolved(line[c][b], "voided")
                ELSE IF b \in Requested(c) THEN Resolved(line[c][b], "cleared")
                ELSE line[c][b]
    BY <1>1, <1>3, <1>6
  <1>8. TypeOK'
    <2>1. request' \in [Slots -> Requests] /\ seq' = seq
      BY <1>1, <1>4, DoneTyped
    <2>2. ledgerSeq' \in [Bundles -> Nat] /\ changed' \in [Counts -> SUBSET Bundles]
      BY <1>1, <1>2, <1>3, PostTyped
    <2>3. /\ bundleStatus' \in [Bundles -> BundleStatuses]
          /\ approval' \in [Counts -> [made : Nat, pending : BOOLEAN]]
      BY <1>1, <1>3, <1>4 DEF TypeOK, BundleStatuses
    <2>4. UNCHANGED <<place, countStatus, covers, unplaced, startSeq, closeSeq, seen>>
      BY <1>4 DEF sessionVars
    <2> QED BY <1>1, <1>7, <2>1, <2>2, <2>3, <2>4 DEF TypeOK, Lines
  <1>9. ASSUME NEW k \in Counts, NEW b \in Bundles
        PROVE  /\ line'[k][b].kind = line[k][b].kind /\ line'[k][b].at = line[k][b].at
               /\ k # c => line'[k][b] = line[k][b]
               /\ line'[k][b].resolution = "void_requested" => line[k][b].kind = "phantom"
    <2>1. line[k][b].resolution = "void_requested" => line[k][b].kind = "phantom"
      BY DEF CountInv, RequestedArePhantoms
    <2>2. CASE k = c
      BY <1>6, <1>7, <2>1, <2>2, ResolvedFields DEF Resolutions
    <2>3. CASE k # c
      BY <1>7, <2>1, <2>3
    <2> QED BY <2>2, <2>3
  <1>10. Requested(c)' = {}
    BY <1>6, <1>7, ResolvedFields DEF Requested, Resolutions
  <1>11. /\ \A k \in Counts \ {c} : approval'[k] = approval[k]
         /\ ~approval'[c].pending
    BY <1>1, <1>4 DEF TypeOK
  <1>12. UNCHANGED <<countStatus, closeSeq, seen>>
    BY <1>4 DEF sessionVars
  <1>13. /\ RequestedArePhantoms' /\ ReportMatchesScans' /\ RequestsAreAwaited'
         /\ \A k \in Counts : countStatus'[k] # "closed" =>
              ~approval'[k].pending /\ \A b \in Bundles : line'[k][b] = NoLine
    BY <1>5, <1>7, <1>9, <1>10, <1>11, <1>12, ResolvedLines
  <1>14. ChangesShow' /\ OnlyClosedReport'
    BY <1>2, <1>3, <1>12, <1>13, PostShows DEF OnlyClosedReport
  <1> QED BY <1>8, <1>13, <1>14 DEF CountInv

(* Moving what was found. *)
LEMMA MoveFoundKeeps ==
    ASSUME CountInv, NEW q \in Slots, BatchMoveFound(q)
    PROVE  CountInv'
  <1>1. TypeOK /\ line \in [Counts -> [Bundles -> Lines]]
    BY LinesTyped DEF CountInv
  <1>2. PICK c \in Counts : c = request[q].count /\ request[q].seq \in Nat
    BY <1>1, RequestFields DEF BatchMoveFound
  <1>3. PICK bs \in SUBSET Bundles :
            /\ bs = {b \in request[q].bundles :
                        InStock(b) /\ place[b] # line[c][b].at /\ StillAsCounted(c, b)}
            /\ place' = [b \in Bundles |-> IF b \in bs THEN line[c][b].at ELSE place[b]]
            /\ Post(bs, request[q].seq)
            /\ Resolve(c, bs, "moved")
    BY <1>1, <1>2, RequestFields DEF BatchMoveFound
  <1>4. Done(q) /\ UNCHANGED <<bundleStatus, sessionVars, seen, approval>>
    BY DEF BatchMoveFound
  <1>5. /\ line' \in [Counts -> [Bundles -> Lines]]
        /\ \A k \in Counts, b \in Bundles :
              line'[k][b] = IF k = c /\ b \in bs THEN Resolved(line[k][b], "moved")
                            ELSE line[k][b]
    <2>1. PICK r \in Resolutions : r = "moved" /\ Resolve(c, bs, r)
      BY <1>3 DEF Resolutions
    <2>2. TypeOK
      BY <1>1
    <2>3. /\ line' \in [Counts -> [Bundles -> Lines]]
          /\ \A k \in Counts, b \in Bundles :
                line'[k][b] = IF k = c /\ b \in bs THEN Resolved(line[k][b], r) ELSE line[k][b]
      BY <2>1, <2>2, ResolveTyped
    <2> QED BY <2>1, <2>3
  <1>6. TypeOK'
    <2>1. request' \in [Slots -> Requests] /\ seq' = seq
      BY <1>1, <1>4, DoneTyped
    <2>2. ledgerSeq' \in [Bundles -> Nat] /\ changed' \in [Counts -> SUBSET Bundles]
      BY <1>1, <1>2, <1>3, PostTyped
    <2>3. place' \in [Bundles -> Places]
      BY <1>1, <1>3 DEF TypeOK
    <2>4. UNCHANGED <<bundleStatus, countStatus, covers, unplaced, startSeq, closeSeq, seen, approval>>
      BY <1>4 DEF sessionVars
    <2> QED BY <1>1, <1>5, <2>1, <2>2, <2>3, <2>4 DEF TypeOK, Lines
  <1>7. ASSUME NEW k \in Counts, NEW b \in Bundles
        PROVE  /\ line'[k][b].kind = line[k][b].kind /\ line'[k][b].at = line[k][b].at
               /\ line'[k][b].resolution = "void_requested" <=> line[k][b].resolution = "void_requested"
               /\ ~(k = c /\ b \in bs) => line'[k][b] = line[k][b]
    <2>1. CASE k = c /\ b \in bs
      <3>1. line[c][b].resolution = "open" /\ line[c][b] \in Lines
        BY <1>1, <1>3, <2>1 DEF StillAsCounted, OpenLine
      <3> QED BY <1>5, <2>1, <3>1, ResolvedFields DEF Resolutions
    <2>2. CASE ~(k = c /\ b \in bs)
      BY <1>5, <2>2
    <2> QED BY <2>1, <2>2
  <1>8. UNCHANGED <<countStatus, closeSeq, seen, approval>>
    BY <1>4 DEF sessionVars
  <1>9. RequestedArePhantoms' /\ ReportMatchesScans'
    BY <1>7, <1>8 DEF CountInv, RequestedArePhantoms, ReportMatchesScans, Seen
  <1>10. RequestsAreAwaited'
    <2>1. \A k \in Counts : Requested(k)' = Requested(k)
      BY <1>7 DEF Requested
    <2> QED BY <1>8, <2>1 DEF CountInv, RequestsAreAwaited
  <1>11. \A b \in bs : countStatus[c] = "closed"
    <2>1. \A b \in bs : line[c][b].kind # "none"
      BY <1>3 DEF StillAsCounted, OpenLine
    <2> QED BY <2>1 DEF CountInv, OnlyClosedReport, NoLine
  <1>12. OnlyClosedReport' /\ ChangesShow'
    <2>1. ChangesShow' /\ \A k \in Counts : countStatus'[k] # "closed" => changed'[k] = {}
      BY <1>2, <1>3, <1>8, PostShows
    <2>2. ASSUME NEW k \in Counts, countStatus'[k] # "closed"
          PROVE  ~approval'[k].pending /\ \A b \in Bundles : line'[k][b] = NoLine
      <3>1. countStatus[k] # "closed"
        BY <1>8, <2>2
      <3>2. \A b \in Bundles : line'[k][b] = line[k][b]
        BY <1>7, <1>11, <3>1
      <3> QED BY <1>8, <3>1, <3>2 DEF CountInv, OnlyClosedReport
    <2> QED BY <2>1, <2>2 DEF OnlyClosedReport
  <1> QED BY <1>6, <1>9, <1>10, <1>12 DEF CountInv

-----------------------------------------------------------------------------
LEMMA NextKeeps == CountInv /\ [Next]_vars => CountInv'
  <1> SUFFICES ASSUME CountInv, [Next]_vars PROVE CountInv'
    OBVIOUS
  <1>1. CASE UNCHANGED vars
    <2>1. UNCHANGED <<seq, bundleStatus, place, ledgerSeq, countStatus, covers, unplaced, startSeq,
                      closeSeq, seen, line, approval, request, changed>>
      BY <1>1 DEF vars, yardVars, sessionVars, reportVars
    <2>2. TypeOK'
      BY <2>1 DEF CountInv, TypeOK
    <2>3. ChangesShow' /\ OnlyClosedReport'
      BY <2>1 DEF CountInv, ChangesShow, OnlyClosedReport
    <2> QED BY <2>1, <2>2, <2>3, ReportUntouched DEF reportVars
  <1>2. ASSUME NEW q \in Slots, Reading(q)
        PROVE  CountInv'
    <2>1. TypeOK' /\ UNCHANGED <<yardVars, sessionVars, seen, reportVars, changed>>
      BY <1>2, ReadingTyped DEF CountInv
    <2>2. UNCHANGED <<countStatus, closeSeq, seen, reportVars, line, approval, ledgerSeq, changed>>
      BY <2>1 DEF yardVars, sessionVars, reportVars
    <2>3. ChangesShow' /\ OnlyClosedReport'
      BY <2>2 DEF CountInv, ChangesShow, OnlyClosedReport
    <2> QED BY <2>1, <2>2, <2>3, ReportUntouched
  <1>3. CASE CountStep
    <2>1. PICK c \in Counts :
            \/ CancelCount(c)
            \/ \E b \in Bundles : RemoveScan(c, b)
            \/ \E q \in Slots : BatchStart(q, c)
            \/ \E q \in Slots : Reading(q)
      BY <1>3 DEF CountStep, Reading
    <2> QED BY <1>2, <2>1, OpenCountKeeps
  <1>4. CASE YardStep
    BY <1>2, <1>4, YardKeeps DEF YardStep, Reading
  <1>5. CASE SlotStep
    <2>1. PICK q \in Slots :
            \/ Reading(q)
            \/ BatchScan(q) \/ BatchClose(q)
            \/ BatchVoidPhantom(q) \/ BatchReject(q) \/ BatchApprove(q) \/ BatchMoveFound(q)
            \/ BatchMove(q) \/ BatchTransition(q)
      BY <1>5 DEF SlotStep, Reading
    <2>2. CASE BatchScan(q)
      <3>1. request[q].count \in Counts
        BY <2>2, RequestFields DEF CountInv, BatchScan
      <3> QED BY <2>2, <3>1, OpenCountKeeps
    <2>3. CASE BatchMove(q) \/ BatchTransition(q)
      BY <2>3, YardKeeps
    <2> QED BY <1>2, <2>1, <2>2, <2>3, CloseKeeps, AskingKeeps, ApproveKeeps, MoveFoundKeeps
  <1> QED BY <1>1, <1>3, <1>4, <1>5 DEF Next

LEMMA Invariant == Spec => []CountInv
  BY InitInv, NextKeeps, PTL DEF Spec

(* Every request, every line and every resolution stays one the code knows.   *)
THEOREM CountTypeCorrect == Spec => []TypeOK
  <1>1. CountInv => TypeOK
    BY DEF CountInv
  <1> QED BY <1>1, Invariant, PTL

(* The frozen report agrees with the scans, whatever landed around the close.  *)
THEOREM ReportAgrees == Spec => []ReportMatchesScans
  <1>1. CountInv => ReportMatchesScans
    BY DEF CountInv
  <1> QED BY <1>1, Invariant, PTL

(* Lines wait for a void exactly while a request for it can still be decided.  *)
THEOREM RequestsAwaited == Spec => []RequestsAreAwaited
  <1>1. CountInv => RequestsAreAwaited
    BY DEF CountInv
  <1> QED BY <1>1, Invariant, PTL

-----------------------------------------------------------------------------
(* How a step can touch a report: not at all; a count that is not closed; new   *)
(* resolutions for lines still to be decided; or an approval.                    *)
Untouched == UNCHANGED <<countStatus, closeSeq, line>>

NotYetClosed(c) ==
    /\ countStatus[c] # "closed"
    /\ \A b \in Bundles : line'[c][b].resolution = "open"
    /\ \A k \in Counts \ {c} :
        countStatus'[k] = countStatus[k] /\ closeSeq'[k] = closeSeq[k] /\ line'[k] = line[k]

Undecided == {"open", "void_requested"}

Decides(c, bs, r) ==
    /\ Resolve(c, bs, r)
    /\ \A b \in bs : line[c][b].resolution \in Undecided
    /\ UNCHANGED <<countStatus, closeSeq>>

LEMMA OpenCountTouches ==
    ASSUME CountInv, NEW q, NEW c \in Counts,
           \/ CancelCount(c)
           \/ q \in Slots /\ BatchStart(q, c)
           \/ q \in Slots /\ BatchClose(q) /\ c = request[q].count
    PROVE  NotYetClosed(c)
  <1>1. TypeOK /\ countStatus[c] # "closed"
    BY DEF CountInv, CancelCount, BatchStart, BatchClose, CloseLands
  <1>2. \A b \in Bundles : line[c][b].resolution = "open"
    BY <1>1 DEF CountInv, OnlyClosedReport, NoLine
  <1>3. CASE CancelCount(c) \/ BatchStart(q, c)
    <2>1. line' = line /\ closeSeq' = closeSeq
      BY <1>3 DEF CancelCount, BatchStart, reportVars
    <2>2. \A k \in Counts \ {c} : countStatus'[k] = countStatus[k]
      BY <1>1, <1>3 DEF CancelCount, BatchStart, TypeOK
    <2> QED BY <1>1, <1>2, <2>1, <2>2 DEF NotYetClosed
  <1>4. CASE BatchClose(q) /\ c = request[q].count
    <2>1. /\ countStatus' = [countStatus EXCEPT ![c] = "closed"]
          /\ closeSeq' = [closeSeq EXCEPT ![c] = request[q].seq]
          /\ line' = [line EXCEPT ![c] = [b \in Bundles |->
              IF Kind(c, b) = "none" THEN NoLine
              ELSE [kind |-> Kind(c, b), system |-> place[b], at |-> seen[c][b].at, resolution |-> "open"]]]
      BY <1>4 DEF BatchClose
    <2>2. \A b \in Bundles : line'[c][b].resolution = "open"
      BY <1>1, <2>1 DEF TypeOK, NoLine
    <2>3. \A k \in Counts \ {c} :
            countStatus'[k] = countStatus[k] /\ closeSeq'[k] = closeSeq[k] /\ line'[k] = line[k]
      BY <1>1, <2>1 DEF TypeOK
    <2> QED BY <1>1, <2>2, <2>3 DEF NotYetClosed
  <1> QED BY <1>3, <1>4

LEMMA AnswersTouch ==
    ASSUME CountInv, NEW q \in Slots,
           BatchVoidPhantom(q) \/ BatchReject(q) \/ BatchMoveFound(q)
    PROVE  \E c \in Counts, bs \in SUBSET Bundles, r \in Resolutions \ {"voided"} : Decides(c, bs, r)
  <1>1. PICK c \in Counts : c = request[q].count
    BY RequestFields DEF CountInv, BatchVoidPhantom, BatchReject, BatchMoveFound
  <1>2. request[q].op \in {"voidPhantom", "moveFound"} => request[q].bundles \in SUBSET Bundles
    BY RequestFields DEF CountInv
  <1>3. UNCHANGED <<countStatus, closeSeq>>
    BY DEF BatchVoidPhantom, BatchReject, BatchMoveFound, sessionVars
  <1>4. {"void_requested", "open", "moved"} \subseteq Resolutions \ {"voided"}
    BY DEF Resolutions
  <1>5. CASE BatchVoidPhantom(q)
    <2>1. PICK bs \in SUBSET Bundles :
            /\ bs = {b \in request[q].bundles : OpenLine(c, b, {"phantom"})}
            /\ Resolve(c, bs, "void_requested")
      BY <1>1, <1>2, <1>5 DEF BatchVoidPhantom
    <2>2. \A b \in bs : line[c][b].resolution \in Undecided
      BY <2>1 DEF OpenLine, Undecided
    <2> QED BY <1>3, <1>4, <2>1, <2>2 DEF Decides
  <1>6. CASE BatchReject(q)
    <2>1. Resolve(c, Requested(c), "open") /\ Requested(c) \in SUBSET Bundles
      BY <1>1, <1>6 DEF BatchReject, Reopen, Requested
    <2>2. \A b \in Requested(c) : line[c][b].resolution \in Undecided
      BY DEF Requested, Undecided
    <2> QED BY <1>3, <1>4, <2>1, <2>2 DEF Decides
  <1>7. CASE BatchMoveFound(q)
    <2>1. PICK bs \in SUBSET Bundles :
            /\ bs = {b \in request[q].bundles :
                        InStock(b) /\ place[b] # line[c][b].at /\ StillAsCounted(c, b)}
            /\ Resolve(c, bs, "moved")
      BY <1>1, <1>2, <1>7 DEF BatchMoveFound
    <2>2. \A b \in bs : line[c][b].resolution \in Undecided
      BY <2>1 DEF StillAsCounted, OpenLine, Undecided
    <2> QED BY <1>3, <1>4, <2>1, <2>2 DEF Decides
  <1> QED BY <1>5, <1>6, <1>7

LEMMA ReportTouched ==
    ASSUME CountInv, [Next]_vars
    PROVE  \/ Untouched
           \/ \E c \in Counts : NotYetClosed(c)
           \/ \E c \in Counts, bs \in SUBSET Bundles, r \in Resolutions \ {"voided"} : Decides(c, bs, r)
           \/ \E q \in Slots : BatchApprove(q)
  <1>1. CASE UNCHANGED vars
    BY <1>1 DEF vars, sessionVars, reportVars, Untouched
  <1>2. ASSUME NEW q \in Slots, Reading(q)
        PROVE  Untouched
    BY <1>2, ReadingTyped DEF CountInv, sessionVars, reportVars, Untouched
  <1>3. CASE CountStep
    <2>1. PICK c \in Counts :
            \/ CancelCount(c)
            \/ \E b \in Bundles : RemoveScan(c, b)
            \/ \E q \in Slots : BatchStart(q, c)
            \/ \E q \in Slots : Reading(q)
      BY <1>3 DEF CountStep, Reading
    <2>2. CASE \E b \in Bundles : RemoveScan(c, b)
      BY <2>2 DEF RemoveScan, sessionVars, reportVars, Untouched
    <2> QED BY <1>2, <2>1, <2>2, OpenCountTouches
  <1>4. CASE YardStep
    <2>1. CASE \E b \in Bundles : Reserve(b)
      BY <2>1 DEF Reserve, sessionVars, reportVars, Untouched
    <2>2. CASE \E b \in Bundles, q \in Slots : BatchPack(q, b)
      BY <2>2 DEF BatchPack, sessionVars, reportVars, Untouched
    <2> QED BY <1>2, <1>4, <2>1, <2>2 DEF YardStep, Reading
  <1>5. CASE SlotStep
    <2>1. PICK q \in Slots :
            \/ Reading(q)
            \/ BatchScan(q) \/ BatchClose(q)
            \/ BatchVoidPhantom(q) \/ BatchReject(q) \/ BatchApprove(q) \/ BatchMoveFound(q)
            \/ BatchMove(q) \/ BatchTransition(q)
      BY <1>5 DEF SlotStep, Reading
    <2>2. CASE BatchScan(q) \/ BatchMove(q) \/ BatchTransition(q)
      BY <2>2 DEF BatchScan, BatchMove, BatchTransition, sessionVars, reportVars, Untouched
    <2>3. CASE BatchClose(q)
      <3>1. request[q].count \in Counts
        BY <2>3, RequestFields DEF CountInv, BatchClose
      <3> QED BY <2>3, <3>1, OpenCountTouches
    <2> QED BY <1>2, <2>1, <2>2, <2>3, AnswersTouch
  <1> QED BY <1>1, <1>3, <1>4, <1>5 DEF Next

(* What an approval does to the lines of its count. *)
LEMMA Approves ==
    ASSUME CountInv, NEW q \in Slots, BatchApprove(q)
    PROVE  \E c \in Counts :
            /\ UNCHANGED <<countStatus, closeSeq>>
            /\ \A k \in Counts, b \in Bundles :
                \/ line'[k][b] = line[k][b]
                \/ /\ line[k][b].resolution = "void_requested" /\ k = c
                   /\ line'[k][b] = Resolved(line[k][b], "cleared")
                \/ /\ line[k][b].resolution = "void_requested" /\ k = c
                   /\ line'[k][b] = Resolved(line[k][b], "voided")
                   /\ StillPhantom(k, b)
  <1>1. PICK c \in Counts : c = request[q].count
    BY RequestFields DEF CountInv, BatchApprove
  <1>2. UNCHANGED <<countStatus, closeSeq>>
    BY DEF BatchApprove, sessionVars
  <1>3. line \in [Counts -> [Bundles -> Lines]]
    BY LinesTyped DEF CountInv
  <1>4. PICK gone \in SUBSET Bundles :
            /\ gone = {b \in Requested(c) : bundleStatus[b] = "available" /\ StillPhantom(c, b)}
            /\ line' = [line EXCEPT ![c] = [b \in Bundles |->
                  IF b \in gone THEN Resolved(line[c][b], "voided")
                  ELSE IF b \in Requested(c) THEN Resolved(line[c][b], "cleared")
                  ELSE line[c][b]]]
    BY <1>1, <1>3 DEF BatchApprove, Requested, Resolved
  <1>5. \A b \in Bundles : b \in Requested(c) <=> line[c][b].resolution = "void_requested"
    BY DEF Requested
  <1>6. ASSUME NEW k \in Counts, NEW b \in Bundles
        PROVE  \/ line'[k][b] = line[k][b]
               \/ /\ line[k][b].resolution = "void_requested" /\ k = c
                  /\ line'[k][b] = Resolved(line[k][b], "cleared")
               \/ /\ line[k][b].resolution = "void_requested" /\ k = c
                  /\ line'[k][b] = Resolved(line[k][b], "voided")
                  /\ StillPhantom(k, b)
    <2>1. CASE k # c
      BY <1>3, <1>4, <2>1
    <2>2. CASE k = c /\ b \in gone
      BY <1>3, <1>4, <1>5, <2>2
    <2>3. CASE k = c /\ b \notin gone
      BY <1>3, <1>4, <1>5, <2>3
    <2> QED BY <2>1, <2>2, <2>3
  <1> QED BY <1>2, <1>6

-----------------------------------------------------------------------------
Frozen(c, b) ==
    countStatus[c] = "closed" =>
        /\ countStatus'[c] = "closed"
        /\ closeSeq'[c] = closeSeq[c]
        /\ line'[c][b] = [line[c][b] EXCEPT !.resolution = line'[c][b].resolution]
        /\ line[c][b].resolution \in {"voided", "cleared", "moved"} => line'[c][b] = line[c][b]

LEMMA FreezesUnlessDecided ==
    ASSUME CountInv, NEW c \in Counts, NEW b \in Bundles,
           countStatus'[c] = countStatus[c], closeSeq'[c] = closeSeq[c],
           \/ line'[c][b] = line[c][b]
           \/ /\ line[c][b].resolution \in Undecided
              /\ \E r \in Resolutions : line'[c][b] = Resolved(line[c][b], r)
    PROVE  Frozen(c, b)
  <1>1. line[c][b] \in Lines
    BY LinesTyped DEF CountInv
  <1>2. line'[c][b] = [line[c][b] EXCEPT !.resolution = line'[c][b].resolution]
    <2>1. CASE line'[c][b] = line[c][b]
      BY <1>1, <2>1 DEF Lines
    <2>2. CASE \E r \in Resolutions : line'[c][b] = Resolved(line[c][b], r)
      BY <1>1, <2>2, ResolvedFields DEF Resolved
    <2> QED BY <2>1, <2>2
  <1> QED BY <1>2 DEF Frozen, Undecided

(* Two people close one count together and get one report: nothing rewrites it    *)
(* once the count is closed, and no line is decided a second time.                 *)
THEOREM FrozenReport == Spec => ReportIsFrozen
  <1>1. CountInv /\ [Next]_vars => \A c \in Counts, b \in Bundles : Frozen(c, b)
    <2> SUFFICES ASSUME CountInv, [Next]_vars, NEW c \in Counts, NEW b \in Bundles
                 PROVE  Frozen(c, b)
      OBVIOUS
    <2>1. CASE Untouched
      BY <2>1, FreezesUnlessDecided DEF Untouched
    <2>2. CASE \E k \in Counts : NotYetClosed(k)
      <3>1. PICK k \in Counts : NotYetClosed(k)
        BY <2>2
      <3>2. CASE c = k
        BY <3>1, <3>2 DEF NotYetClosed, Frozen
      <3>3. CASE c # k
        <4>1. countStatus'[c] = countStatus[c] /\ closeSeq'[c] = closeSeq[c] /\ line'[c] = line[c]
          BY <3>1, <3>3 DEF NotYetClosed
        <4> QED BY <4>1, FreezesUnlessDecided
      <3> QED BY <3>2, <3>3
    <2>3. CASE \E k \in Counts, bs \in SUBSET Bundles, r \in Resolutions \ {"voided"} : Decides(k, bs, r)
      <3>1. PICK k \in Counts, bs \in SUBSET Bundles, r \in Resolutions : Decides(k, bs, r)
        BY <2>3
      <3>2. Resolve(k, bs, r) /\ countStatus'[c] = countStatus[c] /\ closeSeq'[c] = closeSeq[c]
        BY <3>1 DEF Decides
      <3>3. TypeOK
        BY DEF CountInv
      <3>4. line'[c][b] = IF c = k /\ b \in bs THEN Resolved(line[c][b], r) ELSE line[c][b]
        BY <3>2, <3>3, ResolveTyped
      <3>5. c = k /\ b \in bs => line[c][b].resolution \in Undecided
        BY <3>1 DEF Decides
      <3> QED BY <3>2, <3>4, <3>5, FreezesUnlessDecided
    <2>4. CASE \E q \in Slots : BatchApprove(q)
      <3>1. /\ UNCHANGED <<countStatus, closeSeq>>
            /\ \/ line'[c][b] = line[c][b]
               \/ /\ line[c][b].resolution = "void_requested"
                  /\ line'[c][b] \in {Resolved(line[c][b], "cleared"), Resolved(line[c][b], "voided")}
        BY <2>4, Approves
      <3> QED BY <3>1, FreezesUnlessDecided DEF Undecided, Resolutions
    <2> QED BY <2>1, <2>2, <2>3, <2>4, ReportTouched
  <1> QED BY <1>1, Invariant, PTL DEF Spec, ReportIsFrozen, Frozen

(* A bundle voided as a phantom lies where the report has it, no request made      *)
(* since the close has posted it, and no count has seen it in a scan made after     *)
(* its own count began.                                                             *)
THEOREM VoidsOnlyTheMissing == Spec => VoidedWereMissing
  <1> DEFINE Missing(c, b) ==
        (line[c][b].resolution # "voided" /\ line'[c][b].resolution = "voided")
            => /\ place[b] = line[c][b].system
               /\ b \notin changed[c]
               /\ ~SeenInAnyCountAfter(b, startSeq[c])
  <1>1. CountInv /\ [Next]_vars => \A c \in Counts, b \in Bundles : Missing(c, b)
    <2> SUFFICES ASSUME CountInv, [Next]_vars, NEW c \in Counts, NEW b \in Bundles,
                        line[c][b].resolution # "voided", line'[c][b].resolution = "voided"
                 PROVE  /\ place[b] = line[c][b].system
                        /\ b \notin changed[c]
                        /\ ~SeenInAnyCountAfter(b, startSeq[c])
      OBVIOUS
    <2>1. TypeOK /\ line[c][b] \in Lines
      BY LinesTyped DEF CountInv
    <2>2. ~Untouched
      BY DEF Untouched
    <2>3. ASSUME NEW k \in Counts, NotYetClosed(k)
          PROVE  FALSE
      BY <2>3 DEF NotYetClosed
    <2>4. ASSUME NEW k \in Counts, NEW bs \in SUBSET Bundles, NEW r \in Resolutions \ {"voided"},
                 Decides(k, bs, r)
          PROVE  FALSE
      <3>1. Resolve(k, bs, r)
        BY <2>4 DEF Decides
      <3>2. line'[c][b] = IF c = k /\ b \in bs THEN Resolved(line[c][b], r) ELSE line[c][b]
        BY <2>1, <3>1, ResolveTyped
      <3>3. Resolved(line[c][b], r).resolution = r
        BY <2>1, ResolvedFields
      <3> QED BY <3>2, <3>3
    <2>5. PICK q \in Slots : BatchApprove(q)
      BY <2>2, <2>3, <2>4, ReportTouched
    <2>6. Resolved(line[c][b], "cleared").resolution = "cleared"
      BY <2>1, ResolvedFields DEF Resolutions
    <2>7. line[c][b].resolution = "void_requested" /\ StillPhantom(c, b)
      BY <2>5, <2>6, Approves
    <2>8. b \notin changed[c]
      BY <2>1, <2>7 DEF CountInv, ChangesShow, StillPhantom, ChangedAfter
    <2>9. ~SeenInAnyCountAfter(b, startSeq[c])
      <3>1. ~Seen(c, b)
        BY <2>7 DEF CountInv, RequestedArePhantoms, ReportMatchesScans
      <3>2. ASSUME NEW k \in Counts, seen[k][b].seq > startSeq[c]
            PROVE  FALSE
        <4>1. startSeq[c] \in Nat
          BY <2>1 DEF TypeOK
        <4>2. Seen(k, b)
          BY <3>2, <4>1 DEF Seen, Unseen
        <4>3. k # c
          BY <3>1, <4>2
        <4> QED BY <2>7, <3>2, <4>2, <4>3 DEF StillPhantom, SightingClears
      <3> QED BY <3>2 DEF SeenInAnyCountAfter
    <2> QED BY <2>7, <2>8, <2>9 DEF StillPhantom
  <1> QED BY <1>1, Invariant, PTL DEF Spec, VoidedWereMissing
=============================================================================
