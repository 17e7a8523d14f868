------------------------------- MODULE Count --------------------------------
(***************************************************************************)
(* The stock count: sessions over yards, the scans of the floor, the report *)
(* frozen at the close, and what is done about it: phantoms voided on an     *)
(* approval, found bundles moved to where they were seen.  Next to it, the   *)
(* rest of the yard as far as a count sees it: packing, moving, voiding,      *)
(* restoring, reserving and dispatching.                                      *)
(*                                                                          *)
(* What is newer is decided by company sequences.  A request draws its       *)
(* sequence before its batch, so rows are not written in their order.         *)
(***************************************************************************)
EXTENDS Integers, FiniteSets

CONSTANTS
    Bundles,        \* bundles, all on the ledger
    Yards,          \* the active yards
    NoPlace,        \* location_id is null
    Counts,         \* ids of count sessions
    Slots,          \* how many requests may be in flight, by name
    MaxSeq          \* bound: sequences drawn

ASSUME CountAssumption == NoPlace \notin Yards /\ MaxSeq \in Nat

VARIABLES
    seq,            \* the company's last sequence
    bundleStatus,   \* bundle.status; "absent" before the row exists
    place,          \* bundle.location_id
    ledgerSeq,      \* the highest server_seq of a bundle's ledger rows
    countStatus,    \* count_session.status; "absent" before the row exists
    covers,         \* count_location: the yards of a count
    unplaced,       \* count_session.include_unplaced
    startSeq,       \* count_session.start_seq
    closeSeq,       \* count_session.close_seq
    seen,           \* count_seen: place and server_seq of a bundle's scan
    line,           \* count_line: the frozen report
    approval,       \* phantom_void requests of a count: how many, and whether the last is pending
    request,        \* per slot: the request in flight
    changed         \* history: bundles that requests made after the close have posted

yardVars == <<bundleStatus, place, ledgerSeq>>
sessionVars == <<countStatus, covers, unplaced, startSeq, closeSeq>>
reportVars == <<line, approval>>
vars == <<seq, yardVars, sessionVars, seen, reportVars, request, changed>>

Places == Yards \cup {NoPlace}
Idle == [op |-> "idle"]
Unseen == [at |-> NoPlace, seq |-> 0]
NoLine == [kind |-> "none", system |-> NoPlace, at |-> NoPlace, resolution |-> "open"]

BundleStatuses == {"absent", "available", "reserved", "dispatched", "void"}
CountStatuses == {"absent", "open", "closed", "cancelled"}
Kinds == {"none", "phantom", "found", "moved"}
Resolutions == {"open", "void_requested", "voided", "cleared", "moved"}

Requests ==
    {Idle}
    \cup [op : {"start"}, places : SUBSET Yards, unplaced : BOOLEAN, seq : Nat]
    \cup [op : {"scan"}, count : Counts, bundle : Bundles, at : Yards, seq : Nat]
    \cup [op : {"close"}, count : Counts, seq : Nat]
    \cup [op : {"voidPhantom"}, count : Counts, bundles : SUBSET Bundles]
    \cup [op : {"moveFound"}, count : Counts, bundles : SUBSET Bundles, seq : Nat]
    \cup [op : {"decide"}, count : Counts, approval : Nat, verdict : {"approved", "rejected"}, seq : Nat]
    \cup [op : {"pack"}, at : Yards, seq : Nat]
    \cup [op : {"move"}, bundle : Bundles, to : Yards, seq : Nat]
    \cup [op : {"transition"}, bundle : Bundles, from : BundleStatuses, to : BundleStatuses, seq : Nat]

TypeOK ==
    /\ seq \in Nat
    /\ bundleStatus \in [Bundles -> BundleStatuses]
    /\ place \in [Bundles -> Places]
    /\ ledgerSeq \in [Bundles -> Nat]
    /\ countStatus \in [Counts -> CountStatuses]
    /\ covers \in [Counts -> SUBSET Yards]
    /\ unplaced \in [Counts -> BOOLEAN]
    /\ startSeq \in [Counts -> Nat]
    /\ closeSeq \in [Counts -> Nat]
    /\ seen \in [Counts -> [Bundles -> [at : Places, seq : Nat]]]
    /\ line \in [Counts -> [Bundles -> [kind : Kinds, system : Places, at : Places, resolution : Resolutions]]]
    /\ approval \in [Counts -> [made : Nat, pending : BOOLEAN]]
    /\ request \in [Slots -> Requests]
    /\ changed \in [Counts -> SUBSET Bundles]

(* Bundles not yet packed, or lying somewhere since before the first count. *)
Init ==
    /\ seq = 0
    /\ bundleStatus \in [Bundles -> {"absent", "available"}]
    /\ place \in {f \in [Bundles -> Places] : \A b \in Bundles : bundleStatus[b] = "absent" => f[b] = NoPlace}
    /\ ledgerSeq = [b \in Bundles |-> 0]
    /\ countStatus = [c \in Counts |-> "absent"]
    /\ covers = [c \in Counts |-> {}]
    /\ unplaced = [c \in Counts |-> FALSE]
    /\ startSeq = [c \in Counts |-> 0]
    /\ closeSeq = [c \in Counts |-> 0]
    /\ seen = [c \in Counts |-> [b \in Bundles |-> Unseen]]
    /\ line = [c \in Counts |-> [b \in Bundles |-> NoLine]]
    /\ approval = [c \in Counts |-> [made |-> 0, pending |-> FALSE]]
    /\ request = [q \in Slots |-> Idle]
    /\ changed = [c \in Counts |-> {}]

-----------------------------------------------------------------------------
(* The classification (lib/count.ts).                                        *)

InStock(b) == bundleStatus[b] \in {"available", "reserved"}

Seen(c, b) == seen[c][b] # Unseen

(* bundleChangedAfter, for a bundle on the ledger. *)
ChangedAfter(b, s) == ledgerSeq[b] > s

SeenInAnyCountAfter(b, s) == \E c \in Counts : seen[c][b].seq > s

AtCountedLocation(c, b) ==
    /\ InStock(b)
    /\ place[b] \in covers[c] \/ (unplaced[c] /\ place[b] = NoPlace)

Phantom(c, b) ==
    /\ AtCountedLocation(c, b)
    /\ ~Seen(c, b)
    /\ ~ChangedAfter(b, startSeq[c])
    /\ ~SeenInAnyCountAfter(b, startSeq[c])

(* seenKindCase: what a scan says against the system, "none" when they agree  *)
(* or the system knows something newer.                                        *)
SeenKind(c, b) ==
    IF ChangedAfter(b, seen[c][b].seq) THEN "none"
    ELSE IF ~InStock(b) THEN "found"
    ELSE IF place[b] = seen[c][b].at THEN "none"
    ELSE IF place[b] \in covers[c] THEN "moved" ELSE "found"

(* sightingPending: still to be acted on in its own count. *)
SightingPending(c, b) ==
    /\ Seen(c, b)
    /\ \/ countStatus[c] = "open"
       \/ line[c][b].kind \in {"found", "moved"} /\ line[c][b].resolution = "open"
    /\ ~ChangedAfter(b, seen[c][b].seq)

(* sightingClears: another count says the bundle is not missing from c. *)
SightingClears(c, b) ==
    \E other \in Counts \ {c} :
        (Seen(other, b) /\ seen[other][b].seq > startSeq[c]) \/ SightingPending(other, b)

(* Mutant of StillPhantom: judged by where the bundle lies alone. *)
StillInPlace(c, b) == place[b] = line[c][b].system /\ ~SightingClears(c, b)

(* stillPhantomOfLine *)
StillPhantom(c, b) ==
    /\ place[b] = line[c][b].system
    /\ ~ChangedAfter(b, closeSeq[c])
    /\ ~SightingClears(c, b)

-----------------------------------------------------------------------------
(* A request draws its sequence and waits in its slot for its batch.  One that  *)
(* the guards of its batch refuse, or whose worker dies, stays there: it has     *)
(* left nothing but a gap in the sequence, as if it had not been made.            *)
Await(q, req) ==
    /\ request[q] = Idle
    /\ seq < MaxSeq
    /\ seq' = seq + 1
    /\ request' = [request EXCEPT ![q] = req]
    /\ UNCHANGED <<yardVars, sessionVars, seen, reportVars, changed>>

Done(q) == request' = [request EXCEPT ![q] = Idle] /\ UNCHANGED seq

(* The ledger rows of these bundles: each posted at the request's sequence. *)
Post(bs, s) ==
    /\ ledgerSeq' = [b \in Bundles |-> IF b \in bs /\ s > ledgerSeq[b] THEN s ELSE ledgerSeq[b]]
    /\ changed' = [c \in Counts |->
            IF countStatus[c] = "closed" /\ s > closeSeq[c] THEN changed[c] \cup bs ELSE changed[c]]

-----------------------------------------------------------------------------
(* count.start: every yard free when it is read, and again when it lands (one  *)
(* open count per location).  Bundles with no place only when all yards are     *)
(* counted, and then unless the caller says otherwise.                          *)

Counted(ps) == \E c \in Counts : countStatus[c] = "open" /\ covers[c] \cap ps # {}

ReadStart(q, ps, nowhere) ==
    /\ ps # {}
    /\ ~Counted(ps)
    /\ nowhere => ps = Yards
    /\ Await(q, [op |-> "start", places |-> ps, unplaced |-> nowhere, seq |-> seq + 1])

BatchStart(q, c) ==
    /\ request[q].op = "start"
    /\ countStatus[c] = "absent"
    /\ ~Counted(request[q].places)
    /\ countStatus' = [countStatus EXCEPT ![c] = "open"]
    /\ covers' = [covers EXCEPT ![c] = request[q].places]
    /\ unplaced' = [unplaced EXCEPT ![c] = request[q].unplaced]
    /\ startSeq' = [startSeq EXCEPT ![c] = request[q].seq]
    /\ Done(q)
    /\ UNCHANGED <<yardVars, closeSeq, seen, reportVars, changed>>

(* count.scan of one bundle: the first scan of it wins. *)
ReadScan(q, c, b, p) ==
    /\ countStatus[c] = "open"
    /\ p \in covers[c]
    /\ bundleStatus[b] # "absent"
    /\ ~Seen(c, b)
    /\ Await(q, [op |-> "scan", count |-> c, bundle |-> b, at |-> p, seq |-> seq + 1])

(* Mutant of ScanLands: the status read before the sequence was drawn is trusted. *)
ScanLandsLate(c, b) == ~Seen(c, b)

ScanLands(c, b) == countStatus[c] = "open" /\ ~Seen(c, b)

BatchScan(q) ==
    LET c == request[q].count
        b == request[q].bundle
    IN  /\ request[q].op = "scan"
        /\ ScanLands(c, b)
        /\ seen' = [seen EXCEPT ![c][b] = [at |-> request[q].at, seq |-> request[q].seq]]
        /\ Done(q)
        /\ UNCHANGED <<yardVars, sessionVars, reportVars, changed>>

(* count.removeScans: its DELETE asks again whether the count is open. *)
RemoveScan(c, b) ==
    /\ countStatus[c] = "open"
    /\ Seen(c, b)
    /\ seen' = [seen EXCEPT ![c][b] = Unseen]
    /\ UNCHANGED <<seq, yardVars, sessionVars, reportVars, request, changed>>

ReadClose(q, c) ==
    /\ countStatus[c] = "open"
    /\ Await(q, [op |-> "close", count |-> c, seq |-> seq + 1])

(* Mutant of CloseLands: a second close writes its report over the first. *)
CloseLandsAgain(c) == countStatus[c] \in {"open", "closed"}

CloseLands(c) == countStatus[c] = "open"

Kind(c, b) ==
    IF Seen(c, b) THEN SeenKind(c, b) ELSE IF Phantom(c, b) THEN "phantom" ELSE "none"

(* closeStatements: the report is classified by the statement that writes it. *)
BatchClose(q) ==
    LET c == request[q].count
    IN  /\ request[q].op = "close"
        /\ CloseLands(c)
        /\ countStatus' = [countStatus EXCEPT ![c] = "closed"]
        /\ closeSeq' = [closeSeq EXCEPT ![c] = request[q].seq]
        /\ line' = [line EXCEPT ![c] = [b \in Bundles |->
              IF Kind(c, b) = "none" THEN NoLine
              ELSE [kind |-> Kind(c, b), system |-> place[b], at |-> seen[c][b].at, resolution |-> "open"]]]
        /\ changed' = [changed EXCEPT ![c] = {}]
        /\ Done(q)
        /\ UNCHANGED <<yardVars, covers, unplaced, startSeq, seen, approval>>

CancelCount(c) ==
    /\ countStatus[c] = "open"
    /\ countStatus' = [countStatus EXCEPT ![c] = "cancelled"]
    /\ UNCHANGED <<seq, yardVars, covers, unplaced, startSeq, closeSeq, seen, reportVars, request, changed>>

-----------------------------------------------------------------------------
(* count.resolve of a closed count.                                          *)

OpenLine(c, b, kinds) == line[c][b].kind \in kinds /\ line[c][b].resolution = "open"

(* void_phantom: asked only for bundles no other count has still to act on.    *)
(* The sequence it draws stamps rows that nobody compares, so none is drawn.    *)
ReadVoidPhantom(q, c, bs) ==
    /\ countStatus[c] = "closed"
    /\ bs # {}
    /\ \A b \in bs :
        /\ OpenLine(c, b, {"phantom"})
        /\ bundleStatus[b] = "available"
        /\ \A other \in Counts \ {c} : ~SightingPending(other, b)
    /\ request[q] = Idle
    /\ request' = [request EXCEPT ![q] = [op |-> "voidPhantom", count |-> c, bundles |-> bs]]
    /\ UNCHANGED <<seq, yardVars, sessionVars, seen, reportVars, changed>>

Resolve(c, bs, resolution) ==
    line' = [line EXCEPT ![c] =
        [b \in Bundles |-> IF b \in bs THEN [@[b] EXCEPT !.resolution = resolution] ELSE @[b]]]

(* One request pending per count: a second one fails its whole batch. *)
MayAskVoid(c) == ~approval[c].pending

BatchVoidPhantom(q) ==
    LET c == request[q].count
        bs == {b \in request[q].bundles : OpenLine(c, b, {"phantom"})}
    IN  /\ request[q].op = "voidPhantom"
        /\ bs # {}
        /\ MayAskVoid(c)
        /\ Resolve(c, bs, "void_requested")
        /\ approval' = [approval EXCEPT ![c] = [made |-> @.made + 1, pending |-> TRUE]]
        /\ Done(q)
        /\ UNCHANGED <<yardVars, sessionVars, seen, changed>>

(* approval.decide of a void request, with phantomVoidDecision. *)
ReadDecide(q, c, verdict) ==
    /\ approval[c].pending
    /\ Await(q, [op |-> "decide", count |-> c, approval |-> approval[c].made,
                 verdict |-> verdict, seq |-> seq + 1])

Requested(c) == {b \in Bundles : line[c][b].resolution = "void_requested"}

(* Mutant of Reopen: the lines wait on. *)
LeaveRequested(c) == UNCHANGED line

(* Mutant of Reopen: the decision is written where the resolution belongs. *)
RejectLines(c) == Resolve(c, Requested(c), "rejected")

Reopen(c) == Resolve(c, Requested(c), "open")

BatchReject(q) ==
    LET c == request[q].count
    IN  /\ request[q].op = "decide" /\ request[q].verdict = "rejected"
        /\ approval[c] = [made |-> request[q].approval, pending |-> TRUE]
        /\ approval' = [approval EXCEPT ![c].pending = FALSE]
        /\ Reopen(c)
        /\ Done(q)
        /\ UNCHANGED <<yardVars, sessionVars, seen, changed>>

(* What is still missing is voided; the other lines are cleared. *)
BatchApprove(q) ==
    LET c == request[q].count
        gone == {b \in Requested(c) : bundleStatus[b] = "available" /\ StillPhantom(c, b)}
    IN  /\ request[q].op = "decide" /\ request[q].verdict = "approved"
        /\ approval[c] = [made |-> request[q].approval, pending |-> TRUE]
        /\ approval' = [approval EXCEPT ![c].pending = FALSE]
        /\ bundleStatus' = [b \in Bundles |-> IF b \in gone THEN "void" ELSE bundleStatus[b]]
        /\ Post(gone, request[q].seq)
        /\ line' = [line EXCEPT ![c] = [b \in Bundles |->
              IF b \in gone THEN [@[b] EXCEPT !.resolution = "voided"]
              ELSE IF b \in Requested(c) THEN [@[b] EXCEPT !.resolution = "cleared"] ELSE @[b]]]
        /\ Done(q)
        /\ UNCHANGED <<place, sessionVars, seen>>

(* move_found: to where it was seen, if it still lies where the report says. *)
ReadMoveFound(q, c, bs) ==
    /\ countStatus[c] = "closed"
    /\ bs # {}
    /\ \A b \in bs : OpenLine(c, b, {"found", "moved"}) /\ InStock(b)
    /\ Await(q, [op |-> "moveFound", count |-> c, bundles |-> bs, seq |-> seq + 1])

StillAsCounted(c, b) == OpenLine(c, b, {"found", "moved"}) /\ place[b] = line[c][b].system

BatchMoveFound(q) ==
    LET c == request[q].count
        bs == {b \in request[q].bundles :
                  InStock(b) /\ place[b] # line[c][b].at /\ StillAsCounted(c, b)}
    IN  /\ request[q].op = "moveFound"
        /\ place' = [b \in Bundles |-> IF b \in bs THEN line[c][b].at ELSE place[b]]
        /\ Post(bs, request[q].seq)
        /\ Resolve(c, bs, "moved")
        /\ Done(q)
        /\ UNCHANGED <<bundleStatus, sessionVars, seen, approval>>

-----------------------------------------------------------------------------
(* The yard: what else moves bundles (bundle.createReceipt, stock.move,       *)
(* bundle.transitionStatus, dispatch.reserve, unreserve and complete).         *)

ReadPack(q, p) == Await(q, [op |-> "pack", at |-> p, seq |-> seq + 1])

BatchPack(q, b) ==
    /\ request[q].op = "pack"
    /\ bundleStatus[b] = "absent"
    /\ bundleStatus' = [bundleStatus EXCEPT ![b] = "available"]
    /\ place' = [place EXCEPT ![b] = request[q].at]
    /\ Post({b}, request[q].seq)
    /\ Done(q)
    /\ UNCHANGED <<sessionVars, seen, reportVars>>

ReadMove(q, b, p) ==
    /\ InStock(b)
    /\ place[b] # p
    /\ Await(q, [op |-> "move", bundle |-> b, to |-> p, seq |-> seq + 1])

BatchMove(q) ==
    LET b == request[q].bundle
    IN  /\ request[q].op = "move"
        /\ InStock(b)
        /\ place[b] # request[q].to
        /\ place' = [place EXCEPT ![b] = request[q].to]
        /\ Post({b}, request[q].seq)
        /\ Done(q)
        /\ UNCHANGED <<bundleStatus, sessionVars, seen, reportVars>>

(* Reserving a dispatch and taking it back post nothing. *)
Reserve(b) ==
    /\ bundleStatus' = [bundleStatus EXCEPT ![b] =
            IF bundleStatus[b] = "available" THEN "reserved" ELSE "available"]
    /\ InStock(b)
    /\ UNCHANGED <<seq, place, ledgerSeq, sessionVars, seen, reportVars, request, changed>>

(* Voided, restored, or left with its dispatch. *)
Posted == {<<"available", "void">>, <<"void", "available">>, <<"reserved", "dispatched">>}

ReadTransition(q, b, to) ==
    /\ <<bundleStatus[b], to>> \in Posted
    /\ Await(q, [op |-> "transition", bundle |-> b, from |-> bundleStatus[b], to |-> to, seq |-> seq + 1])

BatchTransition(q) ==
    LET b == request[q].bundle
    IN  /\ request[q].op = "transition"
        /\ bundleStatus[b] = request[q].from
        /\ bundleStatus' = [bundleStatus EXCEPT ![b] = request[q].to]
        /\ Post({b}, request[q].seq)
        /\ Done(q)
        /\ UNCHANGED <<place, sessionVars, seen, reportVars>>

-----------------------------------------------------------------------------
CountStep ==
    \E c \in Counts :
        \/ CancelCount(c)
        \/ \E b \in Bundles : RemoveScan(c, b)
        \/ \E q \in Slots :
            \/ BatchStart(q, c)
            \/ ReadClose(q, c)
            \/ \E b \in Bundles, p \in Yards : ReadScan(q, c, b, p)
            \/ \E bs \in SUBSET Bundles : ReadVoidPhantom(q, c, bs) \/ ReadMoveFound(q, c, bs)
            \/ \E verdict \in {"approved", "rejected"} : ReadDecide(q, c, verdict)

YardStep ==
    \E b \in Bundles :
        \/ Reserve(b)
        \/ \E q \in Slots :
            \/ BatchPack(q, b)
            \/ \E p \in Yards : ReadMove(q, b, p)
            \/ \E to \in BundleStatuses : ReadTransition(q, b, to)

SlotStep ==
    \E q \in Slots :
        \/ \E ps \in SUBSET Yards, nowhere \in BOOLEAN : ReadStart(q, ps, nowhere)
        \/ \E p \in Yards : ReadPack(q, p)
        \/ BatchScan(q)
        \/ BatchClose(q)
        \/ BatchVoidPhantom(q)
        \/ BatchReject(q)
        \/ BatchApprove(q)
        \/ BatchMoveFound(q)
        \/ BatchMove(q)
        \/ BatchTransition(q)

Next == CountStep \/ YardStep \/ SlotStep

Spec == Init /\ [][Next]_vars

-----------------------------------------------------------------------------
(* The frozen report agrees with the scans it was made of, though scans land,   *)
(* are taken back and land again until the close: no phantom was scanned in its *)
(* count, and what is found or moved was, at the place the line names.           *)
ReportMatchesScans ==
    \A c \in Counts, b \in Bundles :
        /\ line[c][b].kind = "phantom" => ~Seen(c, b)
        /\ line[c][b].kind \in {"found", "moved"} => Seen(c, b) /\ line[c][b].at = seen[c][b].at

(* No line waits for an approval that nobody can give any more, and no request   *)
(* for a void is without its lines.                                              *)
RequestsAreAwaited ==
    \A c \in Counts : approval[c].pending <=> Requested(c) # {}

(* Two people close at once and get one report (count.close): after the close no  *)
(* line is added, dropped or rewritten, and what was voided, cleared or moved is   *)
(* not decided a second time.                                                      *)
ReportIsFrozen ==
    [][\A c \in Counts, b \in Bundles :
        countStatus[c] = "closed" =>
            /\ countStatus'[c] = "closed"
            /\ closeSeq'[c] = closeSeq[c]
            /\ line'[c][b] = [line[c][b] EXCEPT !.resolution = line'[c][b].resolution]
            /\ line[c][b].resolution \in {"voided", "cleared", "moved"} => line'[c][b] = line[c][b]]_vars

(* Between the close and the approval days pass.  A bundle is only voided as a      *)
(* phantom if it lies where the report has it, nobody has moved, voided, restored    *)
(* or dispatched it in a request made since the close, though it may be back in its   *)
(* place, and no count, its own included, saw it in a scan that began after it did.    *)
VoidedWereMissing ==
    [][\A c \in Counts, b \in Bundles :
        (line[c][b].resolution # "voided" /\ line'[c][b].resolution = "voided")
            => /\ place[b] = line[c][b].system
               /\ b \notin changed[c]
               /\ ~SeenInAnyCountAfter(b, startSeq[c])]_vars
=============================================================================
