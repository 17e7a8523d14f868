---------------------------- MODULE EdgeCommands ----------------------------
(***************************************************************************)
(* The Edge V1 command queue: the server queues commands for one node, the  *)
(* node polls them under leases, stores its resolution durably and          *)
(* acknowledges it, and reports what became of its print jobs as events.    *)
(* The print log is what the users see of all this.                         *)
(*                                                                          *)
(* Requests and responses are lost at will and the server runs any number   *)
(* of requests of the node at a time: a slot is one request in flight, from *)
(* its first read to the response.  The node (not in this repository) is    *)
(* modelled from the contract the server's code and schemas rely on.        *)
(***************************************************************************)
EXTENDS Naturals, Sequences, FiniteSetsExt

CONSTANTS
    MaxCommands,    \* bound: commands ever queued
    MaxLabel,       \* bound: how often the bundle's label may change its content
    PollLimit,      \* commands one poll hands out at most
    Kinds,          \* the commands users queue: "print", "cancel", "device"
    MaxDeliveries,  \* bound: how often a command is handed out; the last time is not lost
    PrintSlots,     \* print requests in flight
    PollSlots,      \* polls in flight
    AckSlots,       \* acknowledgements in flight
    EventSlots      \* event batches in flight

ASSUME EdgeAssumption ==
    /\ MaxCommands \in Nat /\ MaxLabel \in Nat
    /\ PollLimit \in Nat \ {0} /\ MaxDeliveries \in Nat \ {0}

Ids == 1 .. MaxCommands
Attempts == 0 .. MaxCommands    \* attempt 0: a command that is no print attempt
Labels == 0 .. MaxLabel

(* Every claim draws a fresh lease id and counts the delivery up by one, in   *)
(* one UPDATE: the count names the lease, and 0 is lease_id IS NULL.          *)
Leases == 0 .. MaxDeliveries
NoLease == 0

VARIABLES
    made,           \* how many commands there are; ids are given in order
    edgeCommand,    \* edge_command rows
    printLog,       \* print_log row of each print command
    label,          \* what the bundle's label says by now
    stickerStale,   \* bundle.sticker_stale
    receipts,       \* edge_event_receipt
    printing, polls, acks, ingests,     \* requests in flight, per slot
    resolution,     \* node: the resolution it stored for each command
    job,            \* node: its job for each attempt (the job key)
    outbox,         \* node: events not yet acknowledged, in order
    held            \* node: the lease it last received each command under

serverVars == <<made, edgeCommand, printLog, label, stickerStale, receipts>>
slotVars == <<printing, polls, acks, ingests>>
nodeVars == <<resolution, job, outbox, held>>
vars == <<serverVars, slotVars, nodeVars>>

Idle == [phase |-> "idle"]
None == "none"

AcceptedResolutions == {"accepted", "already_accepted", "cancelled", "already_cancelled"}
RejectedResolutions == {"job_key_conflict", "job_not_found", "job_not_cancellable", "invalid_payload",
                        "transmission_started"}
Resolutions == AcceptedResolutions \cup RejectedResolutions
DeviceResult == "device_result"     \* the JSON a device_action_result event writes

Outcome(res) == IF res \in AcceptedResolutions THEN "accepted" ELSE "rejected"

JobStates == {"accepted", "sent", "failed_final", "outcome_unknown", "cancelled"}
FinalJobStates == JobStates \ {"accepted"}

PrintStatuses == {"queued", "accepted", "sent", "failed", "outcome_unknown", "cancelled"}

PRINT_STATUS_RANK ==
    [queued |-> 1, accepted |-> 2, sent |-> 3, failed |-> 3, outcome_unknown |-> 3, cancelled |-> 3]

mapAgentJobState ==
    [accepted |-> "accepted", sent |-> "sent", failed_final |-> "failed",
     outcome_unknown |-> "outcome_unknown", cancelled |-> "cancelled"]

canTransitionPrintStatus(current, next) ==
    /\ ~(PRINT_STATUS_RANK[current] >= 3 /\ PRINT_STATUS_RANK[next] < 3)
    /\ PRINT_STATUS_RANK[next] >= PRINT_STATUS_RANK[current]

Resolved(c) == edgeCommand[c].state \in {"accepted", "rejected"}

Logs == {c \in 1 .. made : edgeCommand[c].kind = "print"}

NoRow == [kind |-> None, attempt |-> 0, label |-> 0, of |-> 0, state |-> "absent",
          deliveryCount |-> NoLease, expired |-> FALSE, resolutionJson |-> None]
NoLog == [status |-> "absent", spoolJobId |-> FALSE]
NoJob == [state |-> "absent", label |-> 0, by |-> 0]

Rows ==
    [kind : {None, "print", "cancel", "device"}, attempt : Attempts, label : Labels,
     of : 0 .. MaxCommands, state : {"absent", "queued", "leased", "accepted", "rejected"},
     deliveryCount : Leases, expired : BOOLEAN,
     resolutionJson : Resolutions \cup {None, DeviceResult}]

Events ==
    [kind : {"job_state_changed"}, attempt : Attempts, state : JobStates]
    \cup [kind : {"device_action_result"}, command : Ids]

Handouts == [command : Ids, lease : Leases]

TypeOK ==
    /\ made \in 0 .. MaxCommands
    /\ edgeCommand \in [Ids -> Rows]
    /\ printLog \in [Ids -> [status : PrintStatuses \cup {"absent"}, spoolJobId : BOOLEAN]]
    /\ label \in Labels
    /\ stickerStale \in BOOLEAN
    /\ receipts \subseteq Events
    /\ printing \in [PrintSlots -> {Idle} \cup [phase : {"insert"}, attempt : Attempts, label : Labels]]
    /\ polls \in [PollSlots -> {Idle} \cup [phase : {"claim"}, todo : SUBSET Handouts, got : SUBSET Handouts]]
    /\ acks \in [AckSlots ->
            {Idle} \cup [phase : {"update", "answer"}, command : Ids, lease : Leases,
                         told : Resolutions \cup {DeviceResult}, known : BOOLEAN]]
    /\ ingests \in [EventSlots -> {Idle} \cup [phase : {"ingest"}, todo : Seq(Events), sent : SUBSET Events]]
    /\ resolution \in [Ids -> Resolutions \cup {None}]
    /\ job \in [Attempts -> [state : JobStates \cup {"absent"}, label : Labels, by : 0 .. MaxCommands]]
    /\ outbox \in Seq(Events)
    /\ held \in [Ids -> Leases]

Init ==
    /\ made = 0
    /\ edgeCommand = [c \in Ids |-> NoRow]
    /\ printLog = [c \in Ids |-> NoLog]
    /\ label = 0
    /\ stickerStale = FALSE
    /\ receipts = {}
    /\ printing = [p \in PrintSlots |-> Idle]
    /\ polls = [s \in PollSlots |-> Idle]
    /\ acks = [a \in AckSlots |-> Idle]
    /\ ingests = [e \in EventSlots |-> Idle]
    /\ resolution = [c \in Ids |-> None]
    /\ job = [k \in Attempts |-> NoJob]
    /\ outbox = <<>>
    /\ held = [c \in Ids |-> NoLease]

-----------------------------------------------------------------------------
(* Users queue commands.                                                     *)

Enqueue(kind, attempt, lab, of) ==
    /\ made < MaxCommands
    /\ made' = made + 1
    /\ edgeCommand' = [edgeCommand EXCEPT ![made + 1] =
            [NoRow EXCEPT !.kind = kind, !.attempt = attempt, !.label = lab, !.of = of, !.state = "queued"]]
    /\ UNCHANGED <<label, stickerStale, receipts, polls, acks, ingests, nodeVars>>

(* enqueueEdgePrintCommand: the command and its history row in one batch. *)
EnqueuePrint(attempt, lab) ==
    /\ Enqueue("print", attempt, lab, made + 1)
    /\ printLog' = [printLog EXCEPT ![made + 1].status = "queued"]

(* spool.printBundleLabel: a reprint of a label that went out, or one with    *)
(* another content, is the next attempt; anything else reuses the latest.     *)
Latest == Max({edgeCommand[c].attempt : c \in Logs})

NextAttempt(reprint) ==
    IF Logs = {} THEN 1
    ELSE LET rows == {c \in Logs : edgeCommand[c].attempt = Latest}
             went == \E c \in rows : printLog[c].spoolJobId
             changed == \E c \in rows : edgeCommand[c].label # label
         IN  IF (reprint /\ went) \/ changed THEN Latest + 1 ELSE Latest

PrintRead(p, reprint) ==
    /\ "print" \in Kinds
    /\ made < MaxCommands
    /\ printing[p] = Idle
    /\ printing' = [printing EXCEPT ![p] =
            [phase |-> "insert", attempt |-> NextAttempt(reprint), label |-> label]]
    /\ UNCHANGED <<serverVars, polls, acks, ingests, nodeVars>>

PrintBatch(p) ==
    /\ printing[p].phase = "insert"
    /\ EnqueuePrint(printing[p].attempt, printing[p].label)
    /\ printing' = [printing EXCEPT ![p] = Idle]

(* retryEdgePrintCommand: the next attempt of the row it retries. *)
Retry(c) ==
    /\ c \in Logs
    /\ EnqueuePrint(edgeCommand[c].attempt + 1, edgeCommand[c].label)
    /\ UNCHANGED printing

(* enqueueEdgeCancelCommand *)
Cancel(c) ==
    /\ "cancel" \in Kinds
    /\ c \in Logs
    /\ Enqueue("cancel", edgeCommand[c].attempt, 0, c)
    /\ UNCHANGED <<printLog, printing>>

(* enqueueEdgeDeviceActionCommand, and enqueueEdgeTestPrintCommand alike. *)
DeviceAction ==
    /\ "device" \in Kinds
    /\ Enqueue("device", 0, 0, 0)
    /\ UNCHANGED <<printLog, printing>>

(* reallocate.ts: the bundle is renumbered, its printed sticker out of date. *)
Renumber ==
    /\ label < MaxLabel
    /\ label' = label + 1
    /\ stickerStale' = TRUE
    /\ UNCHANGED <<made, edgeCommand, printLog, receipts, slotVars, nodeVars>>

-----------------------------------------------------------------------------
(* pollEdgeCommands: read the candidates, claim them one by one.             *)

(* Mutant of Candidates: an expired lease is not handed out again. *)
QueuedOnly == {c \in Ids : edgeCommand[c].state = "queued"}

(* Mutant of Candidates: the lease's expiry is not asked for. *)
AnyLeased == {c \in Ids : edgeCommand[c].state \in {"queued", "leased"}}

Candidates ==
    {c \in Ids : \/ edgeCommand[c].state = "queued"
                 \/ edgeCommand[c].state = "leased" /\ edgeCommand[c].expired}

FirstOf(cs) == {c \in cs : Cardinality({d \in cs : d < c}) < PollLimit}

PollRead(s) ==
    /\ polls[s] = Idle
    /\ Candidates # {}
    /\ polls' = [polls EXCEPT ![s] = [phase |-> "claim", got |-> {},
            todo |-> {[command |-> c, lease |-> edgeCommand[c].deliveryCount] : c \in FirstOf(Candidates)}]]
    /\ UNCHANGED <<serverVars, printing, acks, ingests, nodeVars>>

(* The lowest command of a set of handouts. *)
First(hs) == CHOOSE h \in hs : \A g \in hs : h.command <= g.command

(* Mutant of ClaimLands: the claim asks only for an unresolved command. *)
ClaimUnresolved(h) == ~Resolved(h.command)

(* The claim's WHERE: still queued, or leased under a lease that has expired, *)
(* with lease and delivery_count as they were read.                          *)
ClaimLands(h) ==
    /\ edgeCommand[h.command].deliveryCount = h.lease
    /\ h.command \in Candidates

PollOf(todo, got) ==
    IF todo = {} /\ got = {} THEN Idle ELSE [phase |-> "claim", todo |-> todo, got |-> got]

Claim(s) ==
    LET h == First(polls[s].todo)
        lease == edgeCommand[h.command].deliveryCount + 1
    IN  /\ polls[s] # Idle
        /\ polls[s].todo # {}
        /\ IF ClaimLands(h)
           THEN /\ edgeCommand' = [edgeCommand EXCEPT
                        ![h.command].state = "leased",
                        ![h.command].deliveryCount = lease,
                        ![h.command].expired = FALSE]
                /\ polls' = [polls EXCEPT ![s] = PollOf(polls[s].todo \ {h},
                        polls[s].got \cup {[command |-> h.command, lease |-> lease]})]
           ELSE /\ polls' = [polls EXCEPT ![s] = PollOf(polls[s].todo \ {h}, polls[s].got)]
                /\ UNCHANGED edgeCommand
        /\ UNCHANGED <<made, printLog, label, stickerStale, receipts, printing, acks, ingests, nodeVars>>

(* A lease lives EDGE_COMMAND_LEASE_TTL_MS. *)
Expire(c) ==
    /\ edgeCommand[c].state = "leased" /\ ~edgeCommand[c].expired
    /\ edgeCommand[c].deliveryCount < MaxDeliveries
    /\ edgeCommand' = [edgeCommand EXCEPT ![c].expired = TRUE]
    /\ UNCHANGED <<made, printLog, label, stickerStale, receipts, slotVars, nodeVars>>

-----------------------------------------------------------------------------
(* acknowledgeEdgeCommand.                                                   *)

(* The node repeats an acknowledgement until it has an answer.  One under a  *)
(* lease that is not the current one any more is answered without a write.   *)
AckRead(a, c) ==
    LET known == Resolved(c)
    IN  /\ acks[a] = Idle
        /\ held[c] # NoLease
        /\ known \/ edgeCommand[c].deliveryCount = held[c]
        /\ acks' = [acks EXCEPT ![a] =
                [phase |-> "update", command |-> c, lease |-> held[c], known |-> known,
                 told |-> IF known THEN edgeCommand[c].resolutionJson ELSE resolution[c]]]
        /\ UNCHANGED <<serverVars, printing, polls, ingests, nodeVars>>

ResolutionLands(a) ==
    LET c == acks[a].command
    IN  /\ ~acks[a].known
        /\ edgeCommand[c].deliveryCount = acks[a].lease
        /\ edgeCommand[c].state \in {"queued", "leased"}

(* Mutant of Matches: the projection placed before the UPDATE. *)
MatchesBefore(a) ==
    /\ Resolved(acks[a].command)
    /\ edgeCommand[acks[a].command].resolutionJson = acks[a].told

(* matchingResolution, evaluated after the UPDATE of the command. *)
Matches(a) ==
    \/ ResolutionLands(a)
    \/ /\ Resolved(acks[a].command)
       /\ edgeCommand[acks[a].command].resolutionJson = acks[a].told

(* Mutant of Projected: a cancel command closes its print whatever the node said. *)
ProjectedAlways(kind, told, status) ==
    CASE kind = "print" /\ Outcome(told) = "accepted" -> IF status = "queued" THEN "accepted" ELSE status
      [] kind = "print" /\ Outcome(told) = "rejected" /\ status \in {"queued", "accepted"} -> "failed"
      [] kind = "cancel" /\ status \in {"queued", "accepted"} -> "cancelled"
      [] OTHER -> status

(* ackProjectionStatements: what an acknowledgement makes of the history row. *)
Projected(kind, told, status) ==
    CASE kind = "print" /\ Outcome(told) = "accepted" -> IF status = "queued" THEN "accepted" ELSE status
      [] kind = "print" /\ Outcome(told) = "rejected" /\ status \in {"queued", "accepted"} -> "failed"
      [] kind = "cancel" /\ told \in {"cancelled", "already_cancelled"}
            /\ status \in {"queued", "accepted"} -> "cancelled"
      [] OTHER -> status

(* Mutant of ClearsSticker: any resolution of a print clears the flag. *)
AnyClears(kind, told) == kind = "print"

ClearsSticker(kind, told) == kind = "print" /\ Outcome(told) = "accepted"

AckUpdate(a) ==
    LET c == acks[a].command
        told == acks[a].told
        kind == edgeCommand[c].kind
        log == edgeCommand[c].of
    IN  /\ acks[a] # Idle /\ acks[a].phase = "update"
        /\ edgeCommand' = IF ResolutionLands(a)
                          THEN [edgeCommand EXCEPT ![c].state = Outcome(told), ![c].resolutionJson = told]
                          ELSE edgeCommand
        /\ printLog' = IF Matches(a) /\ log # 0
                       THEN [printLog EXCEPT
                                ![log].status = Projected(kind, told, @),
                                ![log].spoolJobId = @ \/ (kind = "print" /\ Outcome(told) = "accepted")]
                       ELSE printLog
        /\ stickerStale' = (stickerStale /\ ~(Matches(a) /\ ClearsSticker(kind, told)))
        /\ acks' = [acks EXCEPT ![a].phase = "answer"]
        /\ UNCHANGED <<made, label, receipts, printing, polls, ingests, nodeVars>>

(* The answer, read after the batch: the stored resolution, or failing that  *)
(* what was to be stored.                                                    *)
AckReply(a) ==
    IF Resolved(acks[a].command) THEN edgeCommand[acks[a].command].resolutionJson ELSE acks[a].told

(* The node acknowledges a delivery until it is answered. *)
AckAnswer(a) ==
    /\ acks[a] # Idle /\ acks[a].phase = "answer"
    /\ held' = [held EXCEPT ![acks[a].command] = IF @ = acks[a].lease THEN NoLease ELSE @]
    /\ acks' = [acks EXCEPT ![a] = Idle]
    /\ UNCHANGED <<serverVars, printing, polls, ingests, resolution, job, outbox>>

-----------------------------------------------------------------------------
(* The node.  It stores a command's resolution, with the job it creates or   *)
(* changes and the event of that, in one transaction, and never resolves a   *)
(* command twice.                                                            *)

JobEvent(k, st) == [kind |-> "job_state_changed", attempt |-> k, state |-> st]

ResolvePrint(c, res) ==
    LET k == edgeCommand[c].attempt
    IN  IF job[k].state = "absent"
        THEN \/ /\ res = "accepted"
                /\ job' = [job EXCEPT ![k] = [state |-> "accepted", label |-> edgeCommand[c].label, by |-> c]]
                /\ outbox' = Append(outbox, JobEvent(k, "accepted"))
             \/ res = "invalid_payload" /\ UNCHANGED <<job, outbox>>
        ELSE /\ res = IF job[k].label = edgeCommand[c].label THEN "already_accepted" ELSE "job_key_conflict"
             /\ UNCHANGED <<job, outbox>>

ResolveCancel(c, res) ==
    LET k == edgeCommand[c].attempt
    IN  IF job[k].state = "accepted"
        THEN \/ /\ res = "cancelled"
                /\ job' = [job EXCEPT ![k].state = "cancelled"]
                /\ outbox' = Append(outbox, JobEvent(k, "cancelled"))
             \/ res = "transmission_started" /\ UNCHANGED <<job, outbox>>
        ELSE /\ res = CASE job[k].state = "absent" -> "job_not_found"
                        [] job[k].state = "cancelled" -> "already_cancelled"
                        [] OTHER -> "job_not_cancellable"
             /\ UNCHANGED <<job, outbox>>

ResolveDevice(c, res) == res = "accepted" /\ UNCHANGED <<job, outbox>>

Resolve(c) ==
    \E res \in Resolutions :
        /\ resolution' = [resolution EXCEPT ![c] = res]
        /\ CASE edgeCommand[c].kind = "print" -> ResolvePrint(c, res)
             [] edgeCommand[c].kind = "cancel" -> ResolveCancel(c, res)
             [] edgeCommand[c].kind = "device" -> ResolveDevice(c, res)

(* The response of a poll reaches the node, command after command. *)
Receive(s) ==
    LET h == First(polls[s].got)
    IN  /\ polls[s] # Idle
        /\ polls[s].todo = {} /\ polls[s].got # {}
        /\ IF resolution[h.command] = None
           THEN Resolve(h.command)
           ELSE UNCHANGED <<resolution, job, outbox>>
        /\ held' = [held EXCEPT ![h.command] = h.lease]
        /\ polls' = [polls EXCEPT ![s] = PollOf({}, polls[s].got \ {h})]
        /\ UNCHANGED <<serverVars, printing, acks, ingests>>

(* A job's printer is done with it, one way or another. *)
JobEnds(k, st) ==
    /\ job[k].state = "accepted"
    /\ st \in FinalJobStates \ {"cancelled"}
    /\ job' = [job EXCEPT ![k].state = st]
    /\ outbox' = Append(outbox, JobEvent(k, st))
    /\ UNCHANGED <<serverVars, slotVars, resolution, held>>

DeviceActs(c) ==
    LET ev == [kind |-> "device_action_result", command |-> c]
    IN  /\ resolution[c] # None /\ edgeCommand[c].kind = "device"
        /\ ev \notin receipts /\ \A i \in 1 .. Len(outbox) : outbox[i] # ev
        /\ outbox' = Append(outbox, ev)
        /\ UNCHANGED <<serverVars, slotVars, resolution, job, held>>

-----------------------------------------------------------------------------
(* ingestEdgeEventBatch: event by event, each in a batch of its own with its *)
(* receipt.  An event that has a receipt is skipped, whether the receipt was *)
(* there when the request read them or breaks the unique index now.          *)

Sent(e) == ingests[e].sent

(* The events of a sequence that are not among others, in their order. *)
Without(events, others) ==
    LET kept[n \in 0 .. Len(events)] ==
            IF n = 0 THEN <<>>
            ELSE IF events[n] \in others THEN kept[n - 1]
            ELSE Append(kept[n - 1], events[n])
    IN  kept[Len(events)]

EventsSend(e) ==
    /\ ingests[e] = Idle
    /\ outbox # <<>>
    /\ ingests' = [ingests EXCEPT ![e] =
            [phase |-> "ingest", sent |-> {outbox[i] : i \in 1 .. Len(outbox)},
             todo |-> Without(outbox, receipts)]]
    /\ UNCHANGED <<serverVars, printing, polls, acks, nodeVars>>

(* Mutant of Concerns: a row is found only by its spool_job_id. *)
ConcernsById(ev, c) == c \in Logs /\ edgeCommand[c].attempt = ev.attempt /\ printLog[c].spoolJobId

(* The rows with the event's job key; those that carry its job id have it too. *)
Concerns(ev, c) == c \in Logs /\ edgeCommand[c].attempt = ev.attempt

(* Mutant of MayBecome: any event is applied, however late. *)
MayBecomeAny(current, next) == TRUE

MayBecome(current, next) == canTransitionPrintStatus(current, next)

ApplyJobState(ev) ==
    LET status == mapAgentJobState[ev.state]
    IN  /\ printLog' = [c \in Ids |->
                IF Concerns(ev, c) /\ MayBecome(printLog[c].status, status)
                THEN [status |-> status, spoolJobId |-> TRUE]
                ELSE printLog[c]]
        /\ UNCHANGED edgeCommand

ApplyDeviceResult(ev) ==
    /\ edgeCommand' = [edgeCommand EXCEPT ![ev.command].resolutionJson = DeviceResult]
    /\ UNCHANGED printLog

Ingest(e) ==
    LET ev == Head(ingests[e].todo)
    IN  /\ ingests[e] # Idle
        /\ ingests[e].todo # <<>>
        /\ IF ev \in receipts THEN UNCHANGED <<printLog, edgeCommand, receipts>>
           ELSE /\ receipts' = receipts \cup {ev}
                /\ CASE ev.kind = "job_state_changed" -> ApplyJobState(ev)
                     [] ev.kind = "device_action_result" -> ApplyDeviceResult(ev)
        /\ ingests' = [ingests EXCEPT ![e].todo = Tail(@)]
        /\ UNCHANGED <<made, label, stickerStale, printing, polls, acks, nodeVars>>

(* The answer reaches the node, which drops the events it had sent. *)
EventsAnswer(e) ==
    /\ ingests[e] # Idle
    /\ ingests[e].todo = <<>>
    /\ outbox' = Without(outbox, Sent(e))
    /\ ingests' = [ingests EXCEPT ![e] = Idle]
    /\ UNCHANGED <<serverVars, printing, polls, acks, resolution, job, held>>

-----------------------------------------------------------------------------
(* A request or its response is lost, its worker dies, or the node gives up  *)
(* waiting for it.                                                           *)
LosePrint(p) ==
    /\ printing[p] # Idle
    /\ printing' = [printing EXCEPT ![p] = Idle]
    /\ UNCHANGED <<serverVars, polls, acks, ingests, nodeVars>>

LosePoll(s) ==
    /\ polls[s] # Idle
    /\ \A h \in polls[s].got : h.lease < MaxDeliveries
    /\ polls' = [polls EXCEPT ![s] = Idle]
    /\ UNCHANGED <<serverVars, printing, acks, ingests, nodeVars>>

LoseAck(a) ==
    /\ acks[a] # Idle
    /\ acks' = [acks EXCEPT ![a] = Idle]
    /\ UNCHANGED <<serverVars, printing, polls, ingests, nodeVars>>

LoseEvents(e) ==
    /\ ingests[e] # Idle
    /\ ingests' = [ingests EXCEPT ![e] = Idle]
    /\ UNCHANGED <<serverVars, printing, polls, acks, nodeVars>>

Next ==
    \/ \E p \in PrintSlots :
        \/ \E reprint \in BOOLEAN : PrintRead(p, reprint)
        \/ PrintBatch(p)
        \/ LosePrint(p)
    \/ \E c \in Ids : Retry(c) \/ Cancel(c) \/ Expire(c) \/ DeviceActs(c)
    \/ DeviceAction
    \/ Renumber
    \/ \E s \in PollSlots : PollRead(s) \/ Claim(s) \/ Receive(s) \/ LosePoll(s)
    \/ \E a \in AckSlots :
        \/ \E c \in Ids : AckRead(a, c)
        \/ AckUpdate(a)
        \/ AckAnswer(a)
        \/ LoseAck(a)
    \/ \E k \in Attempts, st \in FinalJobStates : JobEnds(k, st)
    \/ \E e \in EventSlots : EventsSend(e) \/ Ingest(e) \/ EventsAnswer(e) \/ LoseEvents(e)

Spec == Init /\ [][Next]_vars

(* The node polls and sends its events for ever, leases run out, what is in   *)
(* flight goes on or is lost, and requests get through again and again: a     *)
(* claim, a delivery, an acknowledgement that arrives before its lease has    *)
(* run out (a lease lives 60 s, the node waits 10 s), an event.               *)
TimelyRead(a, c) == AckRead(a, c) /\ held[c] = edgeCommand[c].deliveryCount

TimelyUpdate(a, c) == AckUpdate(a) /\ acks[a].command = c /\ ResolutionLands(a)

Fairness ==
    /\ \A c \in Ids : WF_vars(Expire(c))
    /\ \A s \in PollSlots : WF_vars(PollRead(s)) /\ SF_vars(Claim(s)) /\ SF_vars(Receive(s))
    /\ \A a \in AckSlots :
        /\ WF_vars(AckUpdate(a) \/ AckAnswer(a))
        /\ \A c \in Ids : SF_vars(TimelyRead(a, c)) /\ SF_vars(TimelyUpdate(a, c))
    /\ \A e \in EventSlots :
        /\ WF_vars(EventsSend(e)) /\ SF_vars(Ingest(e)) /\ WF_vars(EventsAnswer(e))

FairSpec == Spec /\ Fairness

-----------------------------------------------------------------------------
(* A history row never moves back: "Enforces monotonic print_log status      *)
(* transitions" (ingestEdgeEventBatch), whatever order acknowledgements,     *)
(* events and their repetitions arrive in.                                   *)
HistoryNeverFallsBack ==
    [][\A c \in Logs :
        PRINT_STATUS_RANK[printLog'[c].status] >= PRINT_STATUS_RANK[printLog[c].status]]_vars

(* The history claims nothing the node has not done: a row says sent,        *)
(* cancelled or unknown only of a job in that state, accepted only of a job  *)
(* there is, and failed only of a failed job or a refused command.           *)
HistoryTellsTheTruth ==
    \A c \in Logs :
        LET st == job[edgeCommand[c].attempt].state
        IN  /\ printLog[c].status = "accepted" => st # "absent"
            /\ printLog[c].status = "sent" => st = "sent"
            /\ printLog[c].status = "outcome_unknown" => st = "outcome_unknown"
            /\ printLog[c].status = "cancelled" => st = "cancelled"
            /\ printLog[c].status = "failed" =>
                    st = "failed_final" \/ resolution[c] \in RejectedResolutions

(* A command is resolved together with its history: "Records durable command *)
(* acknowledgement and its product-history projection atomically".           *)
HistoryFollowsResolution ==
    \A c \in Ids : LET log == edgeCommand[c].of IN
        /\ edgeCommand[c].kind = "print" /\ edgeCommand[c].state = "accepted" =>
                printLog[log].status # "queued"
        /\ edgeCommand[c].kind = "print" /\ edgeCommand[c].state = "rejected" =>
                printLog[log].status \notin {"queued", "accepted"}
        /\ edgeCommand[c].resolutionJson \in {"cancelled", "already_cancelled"} =>
                printLog[log].status \notin {"queued", "accepted"}

(* No poll takes a command from another poll's running lease, though both    *)
(* may have read it as a candidate ("ORRN atomically leases each returned    *)
(* command").                                                                *)
LeasesDoNotOverlap ==
    [][\A c \in Ids :
        edgeCommand[c].state = "leased" /\ ~edgeCommand[c].expired
            => edgeCommand'[c].deliveryCount = edgeCommand[c].deliveryCount]_vars

(* The acknowledgement a is being recorded, and brings word of a label taken. *)
TakesLabel(a) ==
    LET c == acks[a].command
    IN  /\ acks[a] # Idle /\ acks'[a] # acks[a]
        /\ edgeCommand[c].kind = "print"
        /\ resolution[c] \in AcceptedResolutions /\ acks[a].told = resolution[c]
        /\ edgeCommand'[c].state = "accepted"

(* The "needs reprint" flag goes only with an acknowledgement of a label the  *)
(* node has taken, first or repeated, never for a refusal ("A conflict        *)
(* rejection ... leaves sticker_stale unchanged").                            *)
StickerClearsOnAcceptance ==
    [][stickerStale /\ ~stickerStale' => \E a \in AckSlots : TakesLabel(a)]_vars

(* Every command is resolved, however many deliveries and acknowledgements   *)
(* are lost.                                                                 *)
EveryCommandIsResolved ==
    \A c \in Ids : edgeCommand[c].state = "queued" ~> Resolved(c)

(* What became of a job reaches the history row it was printed for, also     *)
(* when its events arrive before the acknowledgement.                        *)
OutcomeReachesHistory ==
    \A k \in Attempts :
        job[k].state \in FinalJobStates
            ~> (job[k].by \in Ids /\ PRINT_STATUS_RANK[printLog[job[k].by].status] = 3)
=============================================================================
