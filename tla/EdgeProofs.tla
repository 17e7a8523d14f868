----------------------------- MODULE EdgeProofs -----------------------------
(***************************************************************************)
(* Proofs about EdgeCommands, for any number of commands, labels, leases,   *)
(* events and requests in flight.                                           *)
(*                                                                          *)
(* EdgeInv is inductive.  It says of every command that it is about what    *)
(* its kind asks for, that it is resolved as the node stored its            *)
(* resolution, and that what the node stored is true of its jobs; of what   *)
(* is in flight that it names commands there are; and of every event, in    *)
(* the node's outbox or on its way, that it happened.  What a step never    *)
(* takes back (Onward) keeps all this alive for rows and slots the step     *)
(* does not touch.                                                          *)
(*                                                                          *)
(* The two invariants of the history are inductive on top of it: they lean  *)
(* on EdgeInv before the step, and on history rows that only move forward.  *)
(***************************************************************************)
EXTENDS EdgeCommands, NaturalLemmas, SequenceTheorems

(* Nothing is known of a command before it is queued. *)
Unmade(c) ==
    /\ edgeCommand[c] = NoRow
    /\ printLog[c] = NoLog
    /\ resolution[c] = None /\ held[c] = NoLease

(* A queued command knows what it is about: a print has its own history row,  *)
(* a cancel that of the print whose attempt it names.                         *)
OfItsKind(c) ==
    LET row == edgeCommand[c]
    IN  /\ row.state # "absent"
        /\ row.kind \in {"print", "cancel", "device"}
        /\ row.attempt <= c
        /\ row.kind = "print" => row.of = c /\ printLog[c].status # "absent"
        /\ row.kind = "cancel" => row.of \in Logs /\ edgeCommand[row.of].attempt = row.attempt
        /\ row.kind = "device" => row.of = 0

(* Only an expired lease is counted on, and the last one does not expire. *)
LeaseCounted(c) ==
    LET row == edgeCommand[c]
    IN  /\ row.state = "queued" => row.deliveryCount = NoLease
        /\ row.state = "leased" /\ row.expired => row.deliveryCount < MaxDeliveries

(* What a command may carry as its resolution: what the node stored, over     *)
(* which the result of a device action may be written at any time.            *)
Carries(c, res) ==
    \/ edgeCommand[c].resolutionJson = res
    \/ edgeCommand[c].kind = "device" /\ edgeCommand[c].resolutionJson = DeviceResult

(* A command is resolved as the node resolved it. *)
ResolvedAsStored(c) ==
    /\ held[c] # NoLease => resolution[c] # None
    /\ IF Resolved(c)
       THEN /\ resolution[c] # None
            /\ Carries(c, resolution[c])
            /\ edgeCommand[c].state = Outcome(resolution[c])
       ELSE Carries(c, None)

(* What the node stored was so, and still is. *)
NodeToldTruth(c) ==
    LET st == job[edgeCommand[c].attempt].state
    IN  CASE edgeCommand[c].kind = "print" ->
                /\ resolution[c] \in {None, "accepted", "already_accepted", "job_key_conflict", "invalid_payload"}
                /\ resolution[c] \in {"accepted", "already_accepted"} => st # "absent"
          [] edgeCommand[c].kind = "cancel" ->
                /\ resolution[c] \notin {"accepted", "already_accepted"}
                /\ resolution[c] \in {"cancelled", "already_cancelled"} => st = "cancelled"
          [] OTHER -> resolution[c] \in {None, "accepted"}

RowsSound ==
    \A c \in Ids :
        IF c <= made THEN OfItsKind(c) /\ LeaseCounted(c) /\ ResolvedAsStored(c) /\ NodeToldTruth(c)
                     ELSE Unmade(c)

PrintsSound == \A p \in PrintSlots : printing[p] # Idle => printing[p].attempt <= made + 1

PollsSound == \A s \in PollSlots : polls[s] # Idle => \A h \in polls[s].todo \cup polls[s].got : h.command <= made

(* An acknowledgement tells what the node stored, unless it repeats an answer. *)
AcksSound ==
    \A a \in AckSlots : acks[a] # Idle =>
        LET c == acks[a].command
        IN  /\ c <= made
            /\ resolution[c] # None
            /\ \/ acks[a].told = resolution[c]
               \/ acks[a].known /\ edgeCommand[c].kind = "device" /\ acks[a].told = DeviceResult

(* What an event says was so when it was stored, and still is. *)
Happened(ev) ==
    CASE ev.kind = "job_state_changed" ->
            /\ job[ev.attempt].state # "absent"
            /\ ev.state \in FinalJobStates => job[ev.attempt].state = ev.state
      [] OTHER -> edgeCommand[ev.command].kind = "device"

Reports == {ev \in Events : Happened(ev)}

EventsSound ==
    /\ outbox \in Seq(Reports)
    /\ \A e \in EventSlots : ingests[e] # Idle => ingests[e].todo \in Seq(Reports)

EdgeInv == TypeOK /\ RowsSound /\ PrintsSound /\ PollsSound /\ AcksSound /\ EventsSound

(* The function by which Without keeps, event by event, what is not among others. *)
Keeps(kept, events, others) ==
    kept = [n \in 0 .. Len(events) |->
        IF n = 0 THEN <<>>
        ELSE IF events[n] \in others THEN kept[n - 1]
        ELSE Append(kept[n - 1], events[n])]

(* There is such a function, so Without is its last value. *)
LEMMA WithoutSteps ==
    ASSUME NEW E, NEW events \in Seq(E), NEW others
    PROVE  \E kept :
            /\ Without(events, others) = kept[Len(events)]
            /\ Keeps(kept, events, others)
  <1> DEFINE Step(g, n) ==
        IF n = 0 THEN <<>>
        ELSE IF events[n] \in others THEN g[n - 1] ELSE Append(g[n - 1], events[n])
  <1> DEFINE Bad == {m \in 0 .. Len(events) : ~ \E g : g = [n \in 0 .. m |-> Step(g, n)]}
  <1>0. Len(events) \in Nat
    OBVIOUS
  <1>1. Bad = {}
    <2> SUFFICES ASSUME Bad # {} PROVE FALSE
      OBVIOUS
    <2>1. Bad \in SUBSET Nat
      BY <1>0
    <2>2. PICK m \in Bad : \A k \in Bad : m <= k
      <3> HIDE DEF Bad
      <3> QED BY <2>1, LeastNatural
    <2>3. m # 0
      <3> DEFINE g == [n \in 0 .. 0 |-> <<>>]
      <3>1. g = [n \in 0 .. 0 |-> Step(g, n)]
        OBVIOUS
      <3> QED BY <3>1, <2>2
    <2>4. m \in Nat /\ m <= Len(events)
      BY <2>1, <2>2
    <2>5. m - 1 \in 0 .. Len(events) /\ m - 1 \notin Bad
      <3> HIDE DEF Bad
      <3> QED BY <2>2, <2>3, <2>4, <1>0
    <2>6. PICK g : g = [n \in 0 .. m - 1 |-> Step(g, n)]
      BY <2>5
    <2> DEFINE h == [n \in 0 .. m |-> Step(g, n)]
    <2>7. \A n \in 0 .. m - 1 : h[n] = g[n]
      <3>1. \A n \in 0 .. m - 1 : n \in 0 .. m
        BY <2>4
      <3> HIDE DEF Step
      <3>2. \A n \in 0 .. m - 1 : g[n] = Step(g, n)
        BY <2>6
      <3> QED BY <3>1, <3>2
    <2>8. \A n \in 0 .. m : n # 0 => n - 1 \in 0 .. m - 1
      BY <2>4
    <2>9. \A n \in 0 .. m : Step(h, n) = Step(g, n)
      <3> HIDE DEF h
      <3> QED BY <2>7, <2>8
    <2>10. h = [n \in 0 .. m |-> Step(h, n)]
      <3> HIDE DEF Step
      <3> QED BY <2>9
    <2> HIDE DEF h, Step
    <2> QED BY <2>10, <2>2
  <1>2. \E g : g = [n \in 0 .. Len(events) |-> Step(g, n)]
    <2>1. Len(events) \in 0 .. Len(events)
      BY <1>0
    <2> HIDE DEF Step
    <2> QED BY <2>1, <1>1
  <1> DEFINE kept == CHOOSE f : f = [n \in 0 .. Len(events) |-> Step(f, n)]
  <1>3. Without(events, others) = kept[Len(events)]
    BY DEF Without
  <1>4. kept = [n \in 0 .. Len(events) |-> Step(kept, n)]
    BY <1>2
  <1>5. Keeps(kept, events, others)
    BY <1>4 DEF Keeps
  <1> HIDE DEF kept
  <1> QED BY <1>3, <1>5

(* What is kept of a sequence is a sequence of what it had.  *)
LEMMA WithoutIsSeq ==
    ASSUME NEW E, NEW events \in Seq(E), NEW others
    PROVE  Without(events, others) \in Seq(E)
  <1>0. Len(events) \in Nat /\ \A n \in 1 .. Len(events) : events[n] \in E
    OBVIOUS
  <1>1. PICK kept :
            /\ Without(events, others) = kept[Len(events)]
            /\ Keeps(kept, events, others)
    BY WithoutSteps
  <1> DEFINE Bad == {m \in 0 .. Len(events) : kept[m] \notin Seq(E)}
  <1>2. Bad = {}
    <2> SUFFICES ASSUME Bad # {} PROVE FALSE
      OBVIOUS
    <2>1. Bad \in SUBSET Nat
      BY <1>0
    <2>2. PICK m \in Bad : \A k \in Bad : m <= k
      <3> HIDE DEF Bad
      <3> QED BY <2>1, LeastNatural
    <2>3. m # 0
      BY <1>1, <2>2, <1>0 DEF Keeps
    <2>4. m - 1 \in 0 .. Len(events) /\ m - 1 \notin Bad /\ events[m] \in E
      BY <2>1, <2>2, <2>3, <1>0
    <2>5. kept[m - 1] \in Seq(E)
      BY <2>4
    <2>6. kept[m] = kept[m - 1] \/ kept[m] = Append(kept[m - 1], events[m])
      BY <1>1, <2>2, <2>3 DEF Keeps
    <2>7. kept[m] \in Seq(E)
      <3>1. \A rest \in Seq(E), ev \in E : Append(rest, ev) \in Seq(E)
        OBVIOUS
      <3> HIDE DEF Bad
      <3> QED BY <2>4, <2>5, <2>6, <3>1
    <2> QED BY <2>2, <2>7
  <1>3. Len(events) \in 0 .. Len(events)
    BY <1>0
  <1> QED BY <1>1, <1>2, <1>3

-----------------------------------------------------------------------------
(* Choices the code makes among several.                                     *)

LEMMA FirstIsOneOf ==
    ASSUME NEW hs \in SUBSET Handouts, hs # {}
    PROVE  First(hs) \in hs
  <1> DEFINE commands == {h.command : h \in hs}
  <1>1. commands \in SUBSET Nat /\ commands # {}
    BY DEF Handouts, Ids
  <1>2. PICK m \in commands : \A k \in commands : m <= k
    <2> HIDE DEF commands
    <2> QED BY <1>1, LeastNatural
  <1>3. PICK h \in hs : h.command = m
    BY <1>2
  <1>4. \A g \in hs : h.command <= g.command
    BY <1>2, <1>3
  <1> QED BY <1>4 DEF First

LEMMA LatestIsAnAttempt ==
    ASSUME EdgeInv, Logs # {}
    PROVE  Latest \in 0 .. made
  <1> DEFINE attempts == {edgeCommand[c].attempt : c \in Logs}
  <1>1. made \in Nat /\ \A c \in Logs : edgeCommand[c].attempt \in 0 .. made
    <2>1. made \in Nat /\ edgeCommand \in [Ids -> Rows] /\ made <= MaxCommands /\ MaxCommands \in Nat
      BY EdgeAssumption DEF EdgeInv, TypeOK
    <2>2. \A c \in Logs : c \in Ids /\ c <= made
      BY <2>1 DEF Logs, Ids
    <2>3. \A c \in Logs : edgeCommand[c].attempt \in Nat
      BY <2>1, <2>2, EdgeAssumption DEF Rows, Attempts
    <2>4. \A c \in Logs : edgeCommand[c].attempt <= c
      BY <2>2 DEF EdgeInv, RowsSound, OfItsKind
    <2> QED BY <2>1, <2>2, <2>3, <2>4 DEF Ids
  <1>2. attempts \in SUBSET Nat /\ attempts # {} /\ \A k \in attempts : k <= made
    BY <1>1
  <1>3. Max(attempts) \in attempts
    <2> HIDE DEF attempts
    <2> QED BY <1>1, <1>2, MaxOfBounded
  <1> QED BY <1>1, <1>3 DEF Latest

-----------------------------------------------------------------------------
(* What a step never takes back: the command that is queued, what the node    *)
(* stored about it, a job there is, and the end of a job.                     *)
Onward ==
    /\ made <= made'
    /\ \A c \in Ids : c <= made =>
        /\ edgeCommand'[c].kind = edgeCommand[c].kind
        /\ edgeCommand'[c].attempt = edgeCommand[c].attempt
        /\ resolution[c] # None => resolution'[c] = resolution[c]
    /\ \A k \in Attempts :
        /\ job[k].state # "absent" => job'[k].state # "absent"
        /\ job[k].state \in FinalJobStates => job'[k].state = job[k].state

LEMMA StandsStill ==
    ASSUME EdgeInv, UNCHANGED <<made, edgeCommand, resolution, job>>
    PROVE  Onward
  BY EdgeAssumption DEF EdgeInv, TypeOK, Onward

(* A row nobody touches stays sound, whatever else goes on. *)
LEMMA RowStays ==
    ASSUME EdgeInv, Onward, made' \in Nat, NEW c \in Ids, c <= made,
           edgeCommand'[c] = edgeCommand[c], resolution'[c] = resolution[c],
           held'[c] = held[c] \/ held'[c] = NoLease,
           printLog[c].status # "absent" => printLog'[c].status # "absent"
    PROVE  OfItsKind(c)' /\ LeaseCounted(c)' /\ ResolvedAsStored(c)' /\ NodeToldTruth(c)'
  <1>1. OfItsKind(c) /\ LeaseCounted(c) /\ ResolvedAsStored(c) /\ NodeToldTruth(c)
    BY DEF EdgeInv, RowsSound
  <1>2. edgeCommand[c].attempt \in Attempts /\ made \in Nat
    BY EdgeAssumption DEF EdgeInv, TypeOK, Rows
  <1>3. OfItsKind(c)'
    <2>1. ASSUME edgeCommand[c].kind = "cancel"
          PROVE  edgeCommand[c].of \in Logs' /\ edgeCommand'[edgeCommand[c].of].attempt = edgeCommand[c].attempt
      <3>1. edgeCommand[c].of \in Logs /\ edgeCommand[edgeCommand[c].of].attempt = edgeCommand[c].attempt
        BY <1>1, <2>1 DEF OfItsKind
      <3>2. edgeCommand[c].of \in Ids /\ edgeCommand[c].of <= made
        BY <1>2, <3>1 , EdgeAssumption DEF Logs, Ids, EdgeInv, TypeOK
      <3> QED BY <1>2, <3>1, <3>2 DEF Onward, Logs, Ids
    <2> QED BY <1>1, <2>1 DEF OfItsKind
  <1>4. LeaseCounted(c)'
    BY <1>1 DEF LeaseCounted
  <1>5. ResolvedAsStored(c)'
    BY <1>1 DEF ResolvedAsStored, Resolved, Carries
  <1>6. NodeToldTruth(c)'
    <2>1. "cancelled" \in FinalJobStates
      BY DEF FinalJobStates, JobStates
    <2> QED BY <1>1, <1>2, <2>1 DEF NodeToldTruth, Onward
  <1> QED BY <1>3, <1>4, <1>5, <1>6

LEMMA UntouchedRows ==
    ASSUME EdgeInv, UNCHANGED <<made, edgeCommand, printLog, resolution, held, job>>
    PROVE  RowsSound'
  <1>1. Onward /\ made' \in Nat
    BY StandsStill, EdgeAssumption DEF EdgeInv, TypeOK
  <1> SUFFICES ASSUME NEW c \in Ids
               PROVE  IF c <= made' THEN OfItsKind(c)' /\ LeaseCounted(c)' /\ ResolvedAsStored(c)' /\ NodeToldTruth(c)'
                      ELSE Unmade(c)'
    BY DEF RowsSound
  <1>2. CASE c <= made
    BY <1>1, <1>2, RowStays
  <1>3. CASE ~(c <= made)
    BY <1>3 DEF EdgeInv, RowsSound, Unmade
  <1> QED BY <1>2, <1>3

(* One row changes, the others are left alone. *)
LEMMA OneRowChanges ==
    ASSUME EdgeInv, Onward, NEW r \in Ids, r <= made, made' = made,
           \A c \in Ids : c # r =>
                /\ edgeCommand'[c] = edgeCommand[c]
                /\ resolution'[c] = resolution[c]
                /\ held'[c] = held[c],
           \A c \in Ids : printLog[c].status # "absent" => printLog'[c].status # "absent",
           \A c \in Ids : c > made => printLog'[c] = printLog[c],
           OfItsKind(r)' /\ LeaseCounted(r)' /\ ResolvedAsStored(r)' /\ NodeToldTruth(r)'
    PROVE  RowsSound'
  <1>1. made' \in Nat
    BY EdgeAssumption DEF EdgeInv, TypeOK
  <1> SUFFICES ASSUME NEW c \in Ids
               PROVE  IF c <= made' THEN OfItsKind(c)' /\ LeaseCounted(c)' /\ ResolvedAsStored(c)' /\ NodeToldTruth(c)'
                      ELSE Unmade(c)'
    BY DEF RowsSound
  <1>2. CASE c = r
    BY <1>2
  <1>3. CASE c # r /\ c <= made
    BY <1>1, <1>3, RowStays
  <1>4. CASE c # r /\ ~(c <= made)
    <2>1. c > made
      BY <1>4, <1>1 DEF Ids
    <2> QED BY <1>4, <2>1 DEF EdgeInv, RowsSound, Unmade
  <1> QED BY <1>2, <1>3, <1>4

(* A row keeps its kind while its lease and resolution change. *)
LEMMA RowKeepsKind ==
    ASSUME EdgeInv, Onward, made' = made, NEW c \in Ids, c <= made,
           edgeCommand'[c].of = edgeCommand[c].of,
           edgeCommand'[c].state # "absent",
           printLog[c].status # "absent" => printLog'[c].status # "absent"
    PROVE  OfItsKind(c)'
  <1>1. OfItsKind(c)
    BY DEF EdgeInv, RowsSound
  <1>2. made \in Nat
    BY EdgeAssumption DEF EdgeInv, TypeOK
  <1>3. edgeCommand'[c].kind = edgeCommand[c].kind /\ edgeCommand'[c].attempt = edgeCommand[c].attempt
    BY DEF Onward
  <1>4. ASSUME edgeCommand[c].kind = "cancel"
        PROVE  edgeCommand[c].of \in Logs' /\ edgeCommand'[edgeCommand[c].of].attempt = edgeCommand[c].attempt
    <2>1. edgeCommand[c].of \in Logs /\ edgeCommand[edgeCommand[c].of].attempt = edgeCommand[c].attempt
      BY <1>1, <1>4 DEF OfItsKind
    <2>2. edgeCommand[c].of \in Ids /\ edgeCommand[c].of <= made
      BY <1>2, <2>1, EdgeAssumption DEF Logs, Ids, EdgeInv, TypeOK
    <2> QED BY <1>2, <2>1, <2>2 DEF Onward, Logs, Ids
  <1> QED BY <1>1, <1>3, <1>4 DEF OfItsKind

-----------------------------------------------------------------------------
(* Requests in flight that nobody touches, go on or are given up.             *)

LEMMA PrintsStay ==
    ASSUME EdgeInv, Onward, made' \in Nat, \A p \in PrintSlots : printing'[p] \in {printing[p], Idle}
    PROVE  PrintsSound'
  <1>1. made \in Nat /\ \A p \in PrintSlots : printing[p] # Idle => printing[p].attempt \in Nat
    BY EdgeAssumption DEF EdgeInv, TypeOK, Attempts
  <1>2. \A p \in PrintSlots : printing[p] # Idle => printing[p].attempt <= made + 1
    BY DEF EdgeInv, PrintsSound
  <1> QED BY <1>1, <1>2 DEF PrintsSound, Onward

LEMMA PollsStay ==
    ASSUME EdgeInv, Onward, made' \in Nat, \A s \in PollSlots : polls'[s] \in {polls[s], Idle}
    PROVE  PollsSound'
  <1>1. made \in Nat
    BY EdgeAssumption DEF EdgeInv, TypeOK
  <1>2. \A s \in PollSlots : polls[s] # Idle => \A h \in polls[s].todo \cup polls[s].got : h.command \in Nat
    BY DEF EdgeInv, TypeOK, Handouts, Ids
  <1> QED BY <1>1, <1>2 DEF EdgeInv, PollsSound, Onward

LEMMA AcksStay ==
    ASSUME EdgeInv, Onward, made' \in Nat,
           \A a \in AckSlots : acks'[a] \in {acks[a], Idle, [acks[a] EXCEPT !.phase = "answer"]},
           \A a \in AckSlots : acks[a] = Idle => acks'[a] = Idle
    PROVE  AcksSound'
  <1> SUFFICES ASSUME NEW a \in AckSlots, acks'[a] # Idle
               PROVE  LET c == acks'[a].command
                      IN  /\ c <= made'
                          /\ resolution'[c] # None
                          /\ \/ acks'[a].told = resolution'[c]
                             \/ acks'[a].known /\ edgeCommand'[c].kind = "device" /\ acks'[a].told = DeviceResult
    BY DEF AcksSound
  <1>1. acks[a] # Idle /\ made \in Nat /\ acks[a].command \in Ids
    BY EdgeAssumption DEF EdgeInv, TypeOK
  <1>2. acks[a] \in [phase : {"update", "answer"}, command : Ids, lease : Leases,
                     told : Resolutions \cup {DeviceResult}, known : BOOLEAN]
    BY <1>1 DEF EdgeInv, TypeOK
  <1>3. /\ acks'[a].command = acks[a].command
        /\ acks'[a].told = acks[a].told
        /\ acks'[a].known = acks[a].known
    BY <1>1, <1>2
  <1>4. LET c == acks[a].command
        IN  /\ c <= made
            /\ resolution[c] # None
            /\ \/ acks[a].told = resolution[c]
               \/ acks[a].known /\ edgeCommand[c].kind = "device" /\ acks[a].told = DeviceResult
    BY <1>1 DEF EdgeInv, AcksSound
  <1> QED BY <1>1, <1>3, <1>4 DEF Onward, Ids

LEMMA ReportsStand ==
    ASSUME EdgeInv, Onward
    PROVE  Reports \subseteq Reports'
  <1> SUFFICES ASSUME NEW ev \in Events, Happened(ev) PROVE Happened(ev)'
    BY DEF Reports
  <1>1. CASE ev.kind = "job_state_changed"
    <2>1. ev.attempt \in Attempts
      BY <1>1 DEF Events
    <2> QED BY <1>1, <2>1 DEF Happened, Onward
  <1>2. CASE ev.kind # "job_state_changed"
    <2>1. ev.command \in Ids /\ edgeCommand[ev.command].kind = "device"
      BY <1>2 DEF Events, Happened
    <2>2. ev.command <= made
      BY <2>1 DEF EdgeInv, RowsSound, Unmade, NoRow, None
    <2> QED BY <1>2, <2>1, <2>2 DEF Happened, Onward
  <1> QED BY <1>1, <1>2

LEMMA EventsStay ==
    ASSUME EdgeInv, Onward, outbox' = outbox, \A e \in EventSlots : ingests'[e] \in {ingests[e], Idle}
    PROVE  EventsSound'
  <1>1. \A q \in Seq(Reports) : q \in Seq(Reports')
    BY ReportsStand, SeqMonotonic
  <1> QED BY <1>1 DEF EdgeInv, EventsSound

LEMMA NewReport ==
    ASSUME EdgeInv, Onward, NEW ev \in Events, Happened(ev)', outbox' = Append(outbox, ev),
           \A e \in EventSlots : ingests'[e] \in {ingests[e], Idle}
    PROVE  EventsSound' /\ outbox' \in Seq(Events)
  <1>1. \A q \in Seq(Reports) : q \in Seq(Reports')
    BY ReportsStand, SeqMonotonic
  <1>2. ev \in Reports' /\ outbox \in Seq(Reports') /\ outbox \in Seq(Events)
    BY <1>1 DEF Reports, EdgeInv, EventsSound, TypeOK
  <1>3. \A E : \A q \in Seq(E), x \in E : Append(q, x) \in Seq(E)
    OBVIOUS
  <1>4. outbox' \in Seq(Reports') /\ outbox' \in Seq(Events)
    BY <1>2, <1>3
  <1> QED BY <1>1, <1>4 DEF EdgeInv, EventsSound

-----------------------------------------------------------------------------
(* Users queue commands.                                                     *)

QueuedRow(kind, attempt, lab, of) ==
    [NoRow EXCEPT !.kind = kind, !.attempt = attempt, !.label = lab, !.of = of, !.state = "queued"]

LEMMA QueuedFields ==
    ASSUME NEW kind, NEW attempt, NEW lab, NEW of
    PROVE  LET row == QueuedRow(kind, attempt, lab, of)
           IN  /\ row.kind = kind /\ row.attempt = attempt /\ row.of = of /\ row.state = "queued"
               /\ row.deliveryCount = NoLease /\ row.resolutionJson = None
  BY DEF QueuedRow, NoRow

(* A new row changes nothing for the commands before it. *)
LEMMA Queueing ==
    ASSUME EdgeInv,
           NEW kind \in {"print", "cancel", "device"}, NEW attempt \in 0 .. made + 1, NEW lab \in Labels,
           NEW of \in 0 .. made + 1, Enqueue(kind, attempt, lab, of)
    PROVE  /\ made' = made + 1 /\ made + 1 \in Ids /\ Onward
           /\ edgeCommand' \in [Ids -> Rows]
           /\ \A c \in Ids : edgeCommand'[c] =
                IF c = made + 1 THEN QueuedRow(kind, attempt, lab, of) ELSE edgeCommand[c]
  <1>1. made \in 0 .. MaxCommands /\ edgeCommand \in [Ids -> Rows] /\ MaxCommands \in Nat
    BY EdgeAssumption DEF EdgeInv, TypeOK
  <1>2. made' = made + 1 /\ made + 1 \in Ids
    BY <1>1 DEF Enqueue, Ids
  <1>3. QueuedRow(kind, attempt, lab, of) \in Rows
    <2>1. attempt \in Attempts /\ of \in 0 .. MaxCommands
      BY <1>1, <1>2 DEF Attempts, Ids
    <2>2. NoRow \in Rows
      BY EdgeAssumption DEF NoRow, Rows, Attempts, Labels, Leases, NoLease
    <2> QED BY <2>1, <2>2 DEF QueuedRow, Rows
  <1>4. edgeCommand' = [edgeCommand EXCEPT ![made + 1] = QueuedRow(kind, attempt, lab, of)]
    BY DEF Enqueue, QueuedRow
  <1>5. /\ edgeCommand' \in [Ids -> Rows]
        /\ \A c \in Ids : edgeCommand'[c] =
             IF c = made + 1 THEN QueuedRow(kind, attempt, lab, of) ELSE edgeCommand[c]
    BY <1>1, <1>2, <1>3, <1>4
  <1>6. UNCHANGED <<resolution, job>>
    BY DEF Enqueue, nodeVars
  <1>7. Onward
    BY <1>1, <1>2, <1>5, <1>6 DEF Onward
  <1> QED BY <1>2, <1>5, <1>7

(* The new row is sound, if it is what its kind asks for. *)
LEMMA QueuedIsSound ==
    ASSUME EdgeInv,
           NEW kind \in {"print", "cancel", "device"}, NEW attempt \in 0 .. made + 1, NEW lab \in Labels,
           NEW of \in 0 .. made + 1, Enqueue(kind, attempt, lab, of),
           \A p \in PrintSlots : printing'[p] \in {printing[p], Idle},
           printing' \in [PrintSlots -> {Idle} \cup [phase : {"insert"}, attempt : Attempts, label : Labels]],
           printLog' \in [Ids -> [status : PrintStatuses \cup {"absent"}, spoolJobId : BOOLEAN]],
           \A c \in Ids : c # made + 1 => printLog'[c] = printLog[c],
           kind = "print" => of = made + 1 /\ printLog'[made + 1].status # "absent",
           kind = "cancel" => of \in Logs /\ edgeCommand[of].attempt = attempt,
           kind = "device" => of = 0
    PROVE  EdgeInv'
  <1> DEFINE new == made + 1
  <1>1. /\ made' = new /\ new \in Ids /\ Onward
        /\ edgeCommand' \in [Ids -> Rows]
        /\ \A c \in Ids : edgeCommand'[c] =
             IF c = new THEN QueuedRow(kind, attempt, lab, of) ELSE edgeCommand[c]
    BY Queueing
  <1>2. made \in Nat /\ made' \in Nat /\ made < new
    BY <1>1, EdgeAssumption DEF EdgeInv, TypeOK
  <1>3. UNCHANGED <<label, stickerStale, receipts, polls, acks, ingests, resolution, job, outbox, held>>
    BY DEF Enqueue, nodeVars
  <1>4. TypeOK'
    <2>1. made' \in 0 .. MaxCommands
      BY <1>1, <1>2 DEF Ids
    <2> QED BY <2>1, <1>1, <1>3 DEF EdgeInv, TypeOK
  <1>5. RowsSound'
    <2> SUFFICES ASSUME NEW c \in Ids
                 PROVE  IF c <= made' THEN OfItsKind(c)' /\ LeaseCounted(c)' /\ ResolvedAsStored(c)' /\ NodeToldTruth(c)'
                        ELSE Unmade(c)'
      BY DEF RowsSound
    <2>1. CASE c = new
      <3>1. Unmade(c)
        BY <2>1, <1>2 DEF EdgeInv, RowsSound
      <3>2. edgeCommand'[c] = QueuedRow(kind, attempt, lab, of)
        BY <1>1, <2>1
      <3> DEFINE row == edgeCommand'[c]
      <3>0. /\ row.kind = kind /\ row.attempt = attempt /\ row.of = of /\ row.state = "queued"
            /\ row.deliveryCount = NoLease /\ row.resolutionJson = None
        BY <3>2, QueuedFields
      <3>3. OfItsKind(c)'
        <4>1. ASSUME kind = "cancel"
              PROVE  of \in Logs' /\ edgeCommand'[of].attempt = attempt
          <5>1. of \in Ids /\ of <= made /\ edgeCommand[of].kind = "print" /\ edgeCommand[of].attempt = attempt
            BY <4>1, <1>2, EdgeAssumption DEF Logs, Ids, EdgeInv, TypeOK
          <5>2. of \in 1 .. made' /\ edgeCommand'[of] = edgeCommand[of]
            BY <5>1, <1>1, <1>2 DEF Ids
          <5> QED BY <5>1, <5>2 DEF Logs
        <4> QED BY <2>1, <3>0, <4>1, <1>2 DEF OfItsKind
      <3>4. LeaseCounted(c)'
        BY <3>0 DEF LeaseCounted
      <3>5. ResolvedAsStored(c)' /\ resolution'[c] = None
        BY <3>1, <3>0, <1>3 DEF ResolvedAsStored, Carries, Resolved, Unmade
      <3>6. NodeToldTruth(c)'
        BY <3>5 DEF NodeToldTruth, None
      <3>7. c <= made'
        BY <1>1, <1>2, <2>1
      <3> QED BY <3>3, <3>4, <3>5, <3>6, <3>7
    <2>2. CASE c # new /\ c <= made
      <3>1. edgeCommand'[c] = edgeCommand[c] /\ printLog'[c] = printLog[c] /\ c <= made'
        BY <2>2, <1>1, <1>2 DEF Ids
      <3> QED BY <2>2, <3>1, <1>1, <1>2, <1>3, RowStays
    <2>3. CASE c # new /\ ~(c <= made)
      <3>1. ~(c <= made')
        BY <2>3, <1>1, <1>2 DEF Ids
      <3> QED BY <2>3, <3>1, <1>1, <1>3 DEF EdgeInv, RowsSound, Unmade
    <2>4. c <= made => c <= made'
      BY <1>1, <1>2 DEF Ids
    <2> QED BY <2>1, <2>2, <2>3, <2>4
  <1>6. PrintsSound'
    BY <1>1, <1>2, PrintsStay
  <1>7. PollsSound' /\ AcksSound' /\ EventsSound'
    BY <1>1, <1>2, <1>3, PollsStay, AcksStay, EventsStay
  <1> QED BY <1>4, <1>5, <1>6, <1>7 DEF EdgeInv

(* The history row of a new print. *)
LEMMA NewLog ==
    ASSUME EdgeInv, NEW attempt, NEW lab, EnqueuePrint(attempt, lab)
    PROVE  /\ printLog' \in [Ids -> [status : PrintStatuses \cup {"absent"}, spoolJobId : BOOLEAN]]
           /\ \A c \in Ids : c # made + 1 => printLog'[c] = printLog[c]
           /\ printLog'[made + 1].status = "queued"
  <1>1. made \in 0 .. MaxCommands /\ MaxCommands \in Nat /\ made < MaxCommands
    BY EdgeAssumption DEF EdgeInv, TypeOK, EnqueuePrint, Enqueue
  <1>2. made + 1 \in Ids
    BY <1>1 DEF Ids
  <1>3. printLog \in [Ids -> [status : PrintStatuses \cup {"absent"}, spoolJobId : BOOLEAN]]
    BY DEF EdgeInv, TypeOK
  <1>4. printLog' = [printLog EXCEPT ![made + 1].status = "queued"]
    BY DEF EnqueuePrint
  <1>5. "queued" \in PrintStatuses
    BY DEF PrintStatuses
  <1> QED BY <1>2, <1>3, <1>4, <1>5

LEMMA PrintBatchKeeps ==
    ASSUME EdgeInv, NEW p \in PrintSlots, PrintBatch(p)
    PROVE  EdgeInv'
  <1>1. /\ printing[p].phase = "insert"
        /\ EnqueuePrint(printing[p].attempt, printing[p].label)
        /\ printing' = [printing EXCEPT ![p] = Idle]
    BY DEF PrintBatch
  <1>2. printing \in [PrintSlots -> {Idle} \cup [phase : {"insert"}, attempt : Attempts, label : Labels]]
    BY DEF EdgeInv, TypeOK
  <1>3. printing[p] # Idle
    BY <1>1 DEF Idle
  <1>4. made \in Nat /\ printing[p].label \in Labels /\ printing[p].attempt \in Nat
    BY <1>2, <1>3, EdgeAssumption DEF EdgeInv, TypeOK, Attempts
  <1>5. printing[p].attempt \in 0 .. made + 1
    BY <1>3, <1>4 DEF EdgeInv, PrintsSound
  <1>6. Enqueue("print", printing[p].attempt, printing[p].label, made + 1)
    BY <1>1 DEF EnqueuePrint
  <1>7. /\ \A q \in PrintSlots : printing'[q] \in {printing[q], Idle}
        /\ printing' \in [PrintSlots -> {Idle} \cup [phase : {"insert"}, attempt : Attempts, label : Labels]]
    BY <1>1, <1>2
  <1>8. made + 1 \in 0 .. made + 1
    BY <1>4
  <1> QED BY <1>1, <1>4, <1>5, <1>6, <1>7, <1>8, NewLog, QueuedIsSound

LEMMA RetryKeeps ==
    ASSUME EdgeInv, NEW c \in Ids, Retry(c)
    PROVE  EdgeInv'
  <1> DEFINE next == edgeCommand[c].attempt + 1
             lab == edgeCommand[c].label
  <1>1. c \in Logs /\ EnqueuePrint(next, lab) /\ UNCHANGED printing
    BY DEF Retry
  <1>2. made \in Nat /\ c <= made /\ edgeCommand[c] \in Rows
    BY <1>1, EdgeAssumption DEF EdgeInv, TypeOK, Logs
  <1>3. edgeCommand[c].attempt \in Nat /\ lab \in Labels
    BY <1>2, EdgeAssumption DEF Rows, Attempts
  <1>4. edgeCommand[c].attempt <= c
    BY <1>2 DEF EdgeInv, RowsSound, OfItsKind
  <1>5. next \in 0 .. made + 1 /\ made + 1 \in 0 .. made + 1
    BY <1>2, <1>3, <1>4 DEF Ids
  <1>6. Enqueue("print", next, lab, made + 1)
    BY <1>1 DEF EnqueuePrint
  <1>7. /\ \A q \in PrintSlots : printing'[q] \in {printing[q], Idle}
        /\ printing' \in [PrintSlots -> {Idle} \cup [phase : {"insert"}, attempt : Attempts, label : Labels]]
    BY <1>1 DEF EdgeInv, TypeOK
  <1> HIDE DEF next, lab
  <1> QED BY <1>1, <1>3, <1>5, <1>6, <1>7, NewLog, QueuedIsSound

LEMMA CancelKeeps ==
    ASSUME EdgeInv, NEW c \in Ids, Cancel(c)
    PROVE  EdgeInv'
  <1>1. c \in Logs /\ Enqueue("cancel", edgeCommand[c].attempt, 0, c) /\ UNCHANGED <<printLog, printing>>
    BY DEF Cancel
  <1>2. made \in Nat /\ c <= made /\ edgeCommand[c] \in Rows /\ 0 \in Labels
    BY <1>1, EdgeAssumption DEF EdgeInv, TypeOK, Logs, Labels
  <1>3. edgeCommand[c].attempt \in Nat /\ edgeCommand[c].attempt <= c
    BY <1>2, EdgeAssumption DEF Rows, Attempts, EdgeInv, RowsSound, OfItsKind
  <1>4. edgeCommand[c].attempt \in 0 .. made + 1 /\ c \in 0 .. made + 1
    BY <1>2, <1>3 DEF Ids
  <1>5. /\ printing' \in [PrintSlots -> {Idle} \cup [phase : {"insert"}, attempt : Attempts, label : Labels]]
        /\ printLog' \in [Ids -> [status : PrintStatuses \cup {"absent"}, spoolJobId : BOOLEAN]]
    BY <1>1 DEF EdgeInv, TypeOK
  <1> QED BY <1>1, <1>2, <1>4, <1>5, QueuedIsSound

LEMMA DeviceActionKeeps ==
    ASSUME EdgeInv, DeviceAction
    PROVE  EdgeInv'
  <1>1. Enqueue("device", 0, 0, 0) /\ UNCHANGED <<printLog, printing>>
    BY DEF DeviceAction
  <1>2. 0 \in 0 .. made + 1 /\ 0 \in Labels
    BY EdgeAssumption DEF EdgeInv, TypeOK, Labels
  <1>3. /\ printing' \in [PrintSlots -> {Idle} \cup [phase : {"insert"}, attempt : Attempts, label : Labels]]
        /\ printLog' \in [Ids -> [status : PrintStatuses \cup {"absent"}, spoolJobId : BOOLEAN]]
    BY <1>1 DEF EdgeInv, TypeOK
  <1> QED BY <1>1, <1>2, <1>3, QueuedIsSound

-----------------------------------------------------------------------------
(* Reads and losses: a slot changes, and nothing that is stored.              *)

LEMMA NothingStored ==
    ASSUME EdgeInv, UNCHANGED <<made, edgeCommand, printLog, resolution, job, held, outbox>>,
           TypeOK', PrintsSound' \/ UNCHANGED printing, PollsSound' \/ UNCHANGED polls,
           AcksSound' \/ UNCHANGED acks, EventsSound' \/ UNCHANGED ingests
    PROVE  EdgeInv'
  <1>1. Onward /\ made' \in Nat
    BY StandsStill, EdgeAssumption DEF EdgeInv, TypeOK
  <1>2. RowsSound'
    BY UntouchedRows
  <1>3. PrintsSound' /\ PollsSound' /\ AcksSound' /\ EventsSound'
    BY <1>1, PrintsStay, PollsStay, AcksStay, EventsStay
  <1> QED BY <1>2, <1>3 DEF EdgeInv

LEMMA PrintReadKeeps ==
    ASSUME EdgeInv, NEW p \in PrintSlots, NEW reprint \in BOOLEAN, PrintRead(p, reprint)
    PROVE  EdgeInv'
  <1> DEFINE next == NextAttempt(reprint)
  <1>1. /\ made < MaxCommands
        /\ printing' = [printing EXCEPT ![p] = [phase |-> "insert", attempt |-> next, label |-> label]]
        /\ UNCHANGED <<serverVars, polls, acks, ingests, nodeVars>>
    BY DEF PrintRead
  <1>2. made \in Nat /\ MaxCommands \in Nat
    BY EdgeAssumption DEF EdgeInv, TypeOK
  <1>3. next \in 0 .. made + 1
    <2>1. CASE Logs = {}
      BY <2>1, <1>2 DEF NextAttempt
    <2>2. CASE Logs # {}
      <3>1. Latest \in 0 .. made
        BY <2>2, LatestIsAnAttempt
      <3>2. next = Latest \/ next = Latest + 1
        BY <2>2 DEF NextAttempt
      <3> HIDE DEF next
      <3> QED BY <3>1, <3>2, <1>2
    <2> QED BY <2>1, <2>2
  <1> HIDE DEF next
  <1>4. next \in Attempts
    BY <1>1, <1>2, <1>3 DEF Attempts
  <1>5. TypeOK'
    <2>1. printing' \in [PrintSlots -> {Idle} \cup [phase : {"insert"}, attempt : Attempts, label : Labels]]
      BY <1>1, <1>4 DEF EdgeInv, TypeOK
    <2> QED BY <1>1, <2>1 DEF EdgeInv, TypeOK, serverVars, nodeVars
  <1>6. PrintsSound'
    <2>1. \A q \in PrintSlots : q # p => printing'[q] = printing[q]
      BY <1>1 DEF EdgeInv, TypeOK
    <2>2. printing'[p].attempt = next
      BY <1>1 DEF EdgeInv, TypeOK
    <2>3. made' = made
      BY <1>1 DEF serverVars
    <2> QED BY <2>1, <2>2, <2>3, <1>2, <1>3 DEF EdgeInv, PrintsSound
  <1> QED BY <1>1, <1>5, <1>6, NothingStored DEF serverVars, nodeVars

LEMMA RenumberKeeps ==
    ASSUME EdgeInv, Renumber
    PROVE  EdgeInv'
  <1>1. UNCHANGED <<made, edgeCommand, printLog, receipts, slotVars, nodeVars>>
    BY DEF Renumber
  <1>2. TypeOK'
    <2>1. label' \in Labels /\ stickerStale' \in BOOLEAN
      BY EdgeAssumption DEF Renumber, EdgeInv, TypeOK, Labels
    <2> QED BY <1>1, <2>1 DEF EdgeInv, TypeOK, slotVars, nodeVars
  <1> QED BY <1>1, <1>2, NothingStored DEF slotVars, nodeVars

LEMMA LossesKeep ==
    ASSUME EdgeInv,
           \/ \E p \in PrintSlots : LosePrint(p)
           \/ \E s \in PollSlots : LosePoll(s)
           \/ \E a \in AckSlots : LoseAck(a)
           \/ \E e \in EventSlots : LoseEvents(e)
    PROVE  EdgeInv'
  <1>1. /\ UNCHANGED <<serverVars, nodeVars>>
        /\ \/ UNCHANGED printing
           \/ \E p \in PrintSlots : printing' = [printing EXCEPT ![p] = Idle]
        /\ \/ UNCHANGED polls
           \/ \E s \in PollSlots : polls' = [polls EXCEPT ![s] = Idle]
        /\ \/ UNCHANGED acks
           \/ \E a \in AckSlots : acks' = [acks EXCEPT ![a] = Idle]
        /\ \/ UNCHANGED ingests
           \/ \E e \in EventSlots : ingests' = [ingests EXCEPT ![e] = Idle]
    BY DEF LosePrint, LosePoll, LoseAck, LoseEvents
  <1>2. /\ printing' \in [PrintSlots -> {Idle} \cup [phase : {"insert"}, attempt : Attempts, label : Labels]]
        /\ \A p \in PrintSlots : printing'[p] \in {printing[p], Idle}
    BY <1>1 DEF EdgeInv, TypeOK
  <1>3. /\ polls' \in [PollSlots -> {Idle} \cup [phase : {"claim"}, todo : SUBSET Handouts, got : SUBSET Handouts]]
        /\ \A s \in PollSlots : polls'[s] \in {polls[s], Idle}
    BY <1>1 DEF EdgeInv, TypeOK
  <1>4. /\ acks' \in [AckSlots ->
                {Idle} \cup [phase : {"update", "answer"}, command : Ids, lease : Leases,
                             told : Resolutions \cup {DeviceResult}, known : BOOLEAN]]
        /\ \A a \in AckSlots : acks'[a] \in {acks[a], Idle} /\ (acks[a] = Idle => acks'[a] = Idle)
    BY <1>1 DEF EdgeInv, TypeOK
  <1>5. /\ ingests' \in [EventSlots -> {Idle} \cup [phase : {"ingest"}, todo : Seq(Events), sent : SUBSET Events]]
        /\ \A e \in EventSlots : ingests'[e] \in {ingests[e], Idle}
    BY <1>1 DEF EdgeInv, TypeOK
  <1>6. TypeOK'
    BY <1>1, <1>2, <1>3, <1>4, <1>5 DEF EdgeInv, TypeOK, serverVars, nodeVars
  <1>7. Onward /\ made' \in Nat
    BY <1>1, StandsStill, EdgeAssumption DEF EdgeInv, TypeOK, serverVars, nodeVars
  <1>8. PrintsSound' /\ PollsSound' /\ AcksSound' /\ EventsSound'
    BY <1>1, <1>2, <1>3, <1>4, <1>5, <1>7, PrintsStay, PollsStay, AcksStay, EventsStay DEF nodeVars
  <1> QED BY <1>1, <1>6, <1>8, NothingStored DEF serverVars, nodeVars

LEMMA EventsSendKeeps ==
    ASSUME EdgeInv, NEW e \in EventSlots, EventsSend(e)
    PROVE  EdgeInv'
  <1> DEFINE todo == Without(outbox, receipts)
             sent == {outbox[i] : i \in 1 .. Len(outbox)}
  <1>1. /\ ingests' = [ingests EXCEPT ![e] = [phase |-> "ingest", sent |-> sent, todo |-> todo]]
        /\ UNCHANGED <<serverVars, printing, polls, acks, nodeVars>>
    BY DEF EventsSend
  <1>2. outbox \in Seq(Events) /\ outbox \in Seq(Reports)
    BY DEF EdgeInv, TypeOK, EventsSound
  <1>3. todo \in Seq(Events) /\ todo \in Seq(Reports) /\ sent \subseteq Events
    BY <1>2, WithoutIsSeq
  <1> HIDE DEF todo, sent
  <1>4. TypeOK'
    <2>1. ingests' \in [EventSlots -> {Idle} \cup [phase : {"ingest"}, todo : Seq(Events), sent : SUBSET Events]]
      BY <1>1, <1>3 DEF EdgeInv, TypeOK
    <2> QED BY <1>1, <2>1 DEF EdgeInv, TypeOK, serverVars, nodeVars
  <1>5. Reports' = Reports
    BY <1>1 DEF Reports, Happened, nodeVars, serverVars
  <1>6. EventsSound'
    <2>1. ingests'[e].todo = todo /\ \A f \in EventSlots : f # e => ingests'[f] = ingests[f]
      BY <1>1 DEF EdgeInv, TypeOK
    <2>2. outbox' = outbox
      BY <1>1 DEF nodeVars
    <2> QED BY <1>2, <1>3, <1>5, <2>1, <2>2 DEF EventsSound, EdgeInv
  <1> QED BY <1>1, <1>4, <1>6, NothingStored DEF serverVars, nodeVars

LEMMA PollReadKeeps ==
    ASSUME EdgeInv, NEW s \in PollSlots, PollRead(s)
    PROVE  EdgeInv'
  <1> DEFINE todo == {[command |-> c, lease |-> edgeCommand[c].deliveryCount] : c \in FirstOf(Candidates)}
  <1>1. /\ polls' = [polls EXCEPT ![s] = [phase |-> "claim", got |-> {}, todo |-> todo]]
        /\ UNCHANGED <<serverVars, printing, acks, ingests, nodeVars>>
    BY DEF PollRead
  <1>2. \A c \in FirstOf(Candidates) : c \in Ids /\ c <= made /\ edgeCommand[c].deliveryCount \in Leases
    <2> TAKE c \in FirstOf(Candidates)
    <2>1. c \in Ids /\ edgeCommand[c].state \in {"queued", "leased"}
      BY DEF FirstOf, Candidates
    <2>2. c <= made
      BY <2>1 DEF EdgeInv, RowsSound, Unmade, NoRow
    <2>3. edgeCommand[c].deliveryCount \in Leases
      BY <2>1 DEF EdgeInv, TypeOK, Rows
    <2> QED BY <2>1, <2>2, <2>3
  <1>3. todo \in SUBSET Handouts /\ \A h \in todo : h.command <= made
    BY <1>2 DEF Handouts
  <1> HIDE DEF todo
  <1>4. TypeOK'
    <2>1. polls' \in [PollSlots -> {Idle} \cup [phase : {"claim"}, todo : SUBSET Handouts, got : SUBSET Handouts]]
      BY <1>1, <1>3 DEF EdgeInv, TypeOK
    <2> QED BY <1>1, <2>1 DEF EdgeInv, TypeOK, serverVars, nodeVars
  <1>5. PollsSound'
    <2>1. /\ polls'[s].todo = todo /\ polls'[s].got = {}
          /\ \A r \in PollSlots : r # s => polls'[r] = polls[r]
          /\ made' = made
      BY <1>1 DEF EdgeInv, TypeOK, serverVars
    <2> QED BY <1>3, <2>1 DEF EdgeInv, PollsSound
  <1> QED BY <1>1, <1>4, <1>5, NothingStored DEF serverVars, nodeVars

LEMMA AckReadKeeps ==
    ASSUME EdgeInv, NEW a \in AckSlots, NEW c \in Ids, AckRead(a, c)
    PROVE  EdgeInv'
  <1> DEFINE known == Resolved(c)
             told == IF known THEN edgeCommand[c].resolutionJson ELSE resolution[c]
             ack == [phase |-> "update", command |-> c, lease |-> held[c], known |-> known, told |-> told]
  <1>1. /\ held[c] # NoLease
        /\ acks' = [acks EXCEPT ![a] = ack]
        /\ UNCHANGED <<serverVars, printing, polls, ingests, nodeVars>>
    BY DEF AckRead
  <1>2. c <= made
    BY <1>1 DEF EdgeInv, RowsSound, Unmade
  <1>3. ResolvedAsStored(c)
    BY <1>2 DEF EdgeInv, RowsSound
  <1>4. resolution[c] # None /\ resolution[c] \in Resolutions /\ held[c] \in Leases
    BY <1>1, <1>3 DEF ResolvedAsStored, EdgeInv, TypeOK
  <1>5. \/ told = resolution[c]
        \/ known /\ edgeCommand[c].kind = "device" /\ told = DeviceResult
    BY <1>3 DEF ResolvedAsStored, Carries
  <1>6. ack \in [phase : {"update", "answer"}, command : Ids, lease : Leases,
                 told : Resolutions \cup {DeviceResult}, known : BOOLEAN]
    <2>1. known \in BOOLEAN
      BY DEF Resolved
    <2> HIDE DEF told, known
    <2> QED BY <1>4, <1>5, <2>1
  <1>7. TypeOK'
    <2>1. acks' \in [AckSlots ->
            {Idle} \cup [phase : {"update", "answer"}, command : Ids, lease : Leases,
                         told : Resolutions \cup {DeviceResult}, known : BOOLEAN]]
      <3> HIDE DEF ack
      <3> QED BY <1>1, <1>6 DEF EdgeInv, TypeOK
    <2> QED BY <1>1, <2>1 DEF EdgeInv, TypeOK, serverVars, nodeVars
  <1>8. AcksSound'
    <2>1. acks'[a] = ack /\ \A b \in AckSlots : b # a => acks'[b] = acks[b]
      <3> HIDE DEF ack
      <3> QED BY <1>1 DEF EdgeInv, TypeOK
    <2>2. acks'[a].command = c /\ acks'[a].told = told /\ acks'[a].known = known
      BY <2>1
    <2>3. UNCHANGED <<made, edgeCommand, resolution>>
      BY <1>1 DEF serverVars, nodeVars
    <2> HIDE DEF told, known, ack
    <2> QED BY <1>2, <1>4, <1>5, <2>1, <2>2, <2>3 DEF EdgeInv, AcksSound
  <1> QED BY <1>1, <1>7, <1>8, NothingStored DEF serverVars, nodeVars

-----------------------------------------------------------------------------
(* Leases come and go.                                                       *)

LEMMA ExpireKeeps ==
    ASSUME EdgeInv, NEW c \in Ids, Expire(c)
    PROVE  EdgeInv'
  <1>1. /\ edgeCommand[c].state = "leased" /\ edgeCommand[c].deliveryCount < MaxDeliveries
        /\ edgeCommand' = [edgeCommand EXCEPT ![c].expired = TRUE]
        /\ UNCHANGED <<made, printLog, label, stickerStale, receipts, slotVars, nodeVars>>
    BY DEF Expire
  <1>2. edgeCommand \in [Ids -> Rows] /\ c <= made
    BY <1>1 DEF EdgeInv, TypeOK, RowsSound, Unmade, NoRow
  <1>3. /\ edgeCommand' \in [Ids -> Rows]
        /\ \A d \in Ids : d # c => edgeCommand'[d] = edgeCommand[d]
    BY <1>1, <1>2 DEF Rows
  <1>4. /\ edgeCommand'[c].kind = edgeCommand[c].kind
        /\ edgeCommand'[c].attempt = edgeCommand[c].attempt
        /\ edgeCommand'[c].of = edgeCommand[c].of
        /\ edgeCommand'[c].state = edgeCommand[c].state
        /\ edgeCommand'[c].deliveryCount = edgeCommand[c].deliveryCount
        /\ edgeCommand'[c].resolutionJson = edgeCommand[c].resolutionJson
    BY <1>1, <1>2 DEF Rows
  <1>5. Onward /\ made' \in Nat
    BY <1>1, <1>3, <1>4, EdgeAssumption DEF EdgeInv, TypeOK, Onward, nodeVars
  <1>6. OfItsKind(c)' /\ LeaseCounted(c)' /\ ResolvedAsStored(c)' /\ NodeToldTruth(c)'
    <2>1. OfItsKind(c) /\ ResolvedAsStored(c) /\ NodeToldTruth(c)
      BY <1>2 DEF EdgeInv, RowsSound
    <2>2. OfItsKind(c)'
      <3>1. edgeCommand'[c].kind = "cancel" =>
              edgeCommand'[c].of \in Logs' /\ edgeCommand'[edgeCommand'[c].of].attempt = edgeCommand'[c].attempt
        BY <2>1, <1>1, <1>3, <1>4, EdgeAssumption DEF OfItsKind, Logs, Ids, EdgeInv, TypeOK
      <3> QED BY <2>1, <3>1, <1>1, <1>4 DEF OfItsKind
    <2>3. LeaseCounted(c)'
      BY <1>1, <1>4 DEF LeaseCounted
    <2>4. ResolvedAsStored(c)'
      BY <2>1, <1>1, <1>4 DEF ResolvedAsStored, Resolved, Carries, nodeVars
    <2>5. NodeToldTruth(c)'
      BY <2>1, <1>1, <1>4 DEF NodeToldTruth, nodeVars
    <2> QED BY <2>2, <2>3, <2>4, <2>5
  <1>7. RowsSound'
    BY <1>1, <1>2, <1>3, <1>5, <1>6, OneRowChanges DEF nodeVars
  <1>8. TypeOK'
    BY <1>1, <1>3 DEF EdgeInv, TypeOK, slotVars, nodeVars
  <1>9. PrintsSound' /\ PollsSound' /\ AcksSound' /\ EventsSound'
    BY <1>1, <1>5, PrintsStay, PollsStay, AcksStay, EventsStay DEF slotVars, nodeVars
  <1> QED BY <1>7, <1>8, <1>9 DEF EdgeInv

LEMMA ClaimKeeps ==
    ASSUME EdgeInv, NEW s \in PollSlots, Claim(s)
    PROVE  EdgeInv'
  <1>1. polls[s] # Idle /\ polls[s].todo # {}
    BY DEF Claim
  <1>2. polls[s].todo \in SUBSET Handouts /\ polls[s].got \in SUBSET Handouts
    BY <1>1 DEF EdgeInv, TypeOK
  <1>3. PICK h \in polls[s].todo : h = First(polls[s].todo)
    BY <1>1, <1>2, FirstIsOneOf
  <1> DEFINE c == h.command
             lease == edgeCommand[c].deliveryCount + 1
             got == polls[s].got
             rest == polls[s].todo \ {h}
  <1>4. /\ IF ClaimLands(h)
           THEN /\ edgeCommand' = [edgeCommand EXCEPT
                        ![c].state = "leased", ![c].deliveryCount = lease, ![c].expired = FALSE]
                /\ polls' = [polls EXCEPT ![s] = PollOf(rest, got \cup {[command |-> c, lease |-> lease]})]
           ELSE /\ polls' = [polls EXCEPT ![s] = PollOf(rest, got)]
                /\ UNCHANGED edgeCommand
        /\ UNCHANGED <<made, printLog, label, stickerStale, receipts, printing, acks, ingests, nodeVars>>
    BY <1>3 DEF Claim
  <1>5. c \in Ids /\ c <= made /\ \A g \in rest \cup got : g.command <= made
    BY <1>1, <1>2, <1>3 DEF EdgeInv, PollsSound, Handouts
  <1>6. ASSUME NEW more \in SUBSET Handouts, \A g \in more : g.command <= made,
               polls' = [polls EXCEPT ![s] = PollOf(rest, got \cup more)]
        PROVE  /\ polls' \in [PollSlots ->
                      {Idle} \cup [phase : {"claim"}, todo : SUBSET Handouts, got : SUBSET Handouts]]
               /\ PollsSound'
    <2>1. rest \in SUBSET Handouts /\ got \cup more \in SUBSET Handouts
      BY <1>2, <1>6
    <2>2. polls'[s] = PollOf(rest, got \cup more) /\ \A r \in PollSlots : r # s => polls'[r] = polls[r]
      BY <1>6 DEF EdgeInv, TypeOK
    <2>3. \/ polls'[s] = Idle
          \/ polls'[s] = [phase |-> "claim", todo |-> rest, got |-> got \cup more]
      BY <2>2 DEF PollOf
    <2> HIDE DEF rest, got
    <2>4. polls' \in [PollSlots ->
                {Idle} \cup [phase : {"claim"}, todo : SUBSET Handouts, got : SUBSET Handouts]]
      <3>1. polls'[s] \in {Idle} \cup [phase : {"claim"}, todo : SUBSET Handouts, got : SUBSET Handouts]
        BY <2>1, <2>3
      <3> QED BY <1>6, <2>2, <3>1 DEF EdgeInv, TypeOK
    <2>5. polls'[s] # Idle => \A g \in polls'[s].todo \cup polls'[s].got : g.command <= made
      BY <1>5, <1>6, <2>3
    <2> QED BY <1>4, <2>2, <2>4, <2>5 DEF EdgeInv, PollsSound
  <1>7. CASE ~ClaimLands(h)
    <2>1. polls' = [polls EXCEPT ![s] = PollOf(rest, got \cup {})] /\ UNCHANGED edgeCommand
      BY <1>4, <1>7
    <2>2. /\ polls' \in [PollSlots ->
                {Idle} \cup [phase : {"claim"}, todo : SUBSET Handouts, got : SUBSET Handouts]]
          /\ PollsSound'
      <3>1. {} \in SUBSET Handouts /\ \A g \in {} : g.command <= made
        OBVIOUS
      <3> HIDE DEF c, rest, got
      <3> QED BY <1>6, <2>1, <3>1
    <2>3. TypeOK'
      BY <1>4, <2>1, <2>2 DEF EdgeInv, TypeOK, nodeVars
    <2> QED BY <1>4, <2>1, <2>2, <2>3, NothingStored DEF nodeVars
  <1>8. CASE ClaimLands(h)
    <2>1. /\ edgeCommand' = [edgeCommand EXCEPT
                 ![c].state = "leased", ![c].deliveryCount = lease, ![c].expired = FALSE]
          /\ polls' = [polls EXCEPT ![s] = PollOf(rest, got \cup {[command |-> c, lease |-> lease]})]
      BY <1>4, <1>8
    <2>2. \/ edgeCommand[c].state = "queued"
          \/ edgeCommand[c].state = "leased" /\ edgeCommand[c].expired
      BY <1>8 DEF ClaimLands, Candidates
    <2>3. edgeCommand \in [Ids -> Rows] /\ edgeCommand[c].deliveryCount \in Leases
      BY <1>5 DEF EdgeInv, TypeOK, Rows
    <2>4. LeaseCounted(c)
      BY <1>5 DEF EdgeInv, RowsSound
    <2>5. lease \in Leases
      <3>1. edgeCommand[c].deliveryCount < MaxDeliveries
        BY <2>2, <2>4, EdgeAssumption DEF LeaseCounted, NoLease
      <3> QED BY <2>3, <3>1, EdgeAssumption DEF Leases
    <2>6. /\ edgeCommand' \in [Ids -> Rows]
          /\ \A d \in Ids : d # c => edgeCommand'[d] = edgeCommand[d]
      <3> HIDE DEF lease
      <3> QED BY <1>5, <2>1, <2>3, <2>5 DEF Rows
    <2>7. /\ edgeCommand'[c].kind = edgeCommand[c].kind
          /\ edgeCommand'[c].attempt = edgeCommand[c].attempt
          /\ edgeCommand'[c].of = edgeCommand[c].of
          /\ edgeCommand'[c].state = "leased"
          /\ ~edgeCommand'[c].expired
          /\ edgeCommand'[c].resolutionJson = edgeCommand[c].resolutionJson
      <3> HIDE DEF lease
      <3> QED BY <1>5, <2>1, <2>3 DEF Rows
    <2>8. Onward /\ made' \in Nat
      <3> QED BY <1>4, <2>6, <2>7, EdgeAssumption DEF EdgeInv, TypeOK, Onward, nodeVars
    <2>9. OfItsKind(c)' /\ LeaseCounted(c)' /\ ResolvedAsStored(c)' /\ NodeToldTruth(c)'
      <3>1. ResolvedAsStored(c) /\ NodeToldTruth(c)
        BY <1>5 DEF EdgeInv, RowsSound
      <3>2. OfItsKind(c)'
        BY <1>4, <1>5, <2>7, <2>8, RowKeepsKind
      <3>3. LeaseCounted(c)'
        BY <2>7 DEF LeaseCounted
      <3>4. ResolvedAsStored(c)'
        BY <3>1, <1>4, <2>2, <2>7 DEF ResolvedAsStored, Resolved, Carries, nodeVars
      <3>5. NodeToldTruth(c)'
        BY <3>1, <1>4, <2>7 DEF NodeToldTruth, nodeVars
      <3> QED BY <3>2, <3>3, <3>4, <3>5
    <2>10. RowsSound'
      <3> QED BY <1>4, <1>5, <2>6, <2>8, <2>9, OneRowChanges DEF nodeVars
    <2>11. /\ polls' \in [PollSlots ->
                 {Idle} \cup [phase : {"claim"}, todo : SUBSET Handouts, got : SUBSET Handouts]]
           /\ PollsSound'
      <3>1. {[command |-> c, lease |-> lease]} \in SUBSET Handouts
        BY <1>5, <2>5 DEF Handouts
      <3>2. \A g \in {[command |-> c, lease |-> lease]} : g.command <= made
        BY <1>5
      <3> HIDE DEF lease, rest, got
      <3> QED BY <1>6, <2>1, <3>1, <3>2
    <2>12. TypeOK'
      BY <1>4, <2>6, <2>11 DEF EdgeInv, TypeOK, nodeVars
    <2>13. PrintsSound' /\ AcksSound' /\ EventsSound'
      BY <1>4, <2>8, PrintsStay, AcksStay, EventsStay DEF nodeVars
    <2> QED BY <2>10, <2>11, <2>12, <2>13 DEF EdgeInv
  <1> QED BY <1>7, <1>8

-----------------------------------------------------------------------------
(* Acknowledgements.                                                         *)

LEMMA ProjectedStatus ==
    ASSUME NEW kind, NEW told, NEW status \in PrintStatuses \cup {"absent"}
    PROVE  /\ Projected(kind, told, status) \in PrintStatuses \cup {"absent"}
           /\ status # "absent" => Projected(kind, told, status) # "absent"
  BY DEF Projected, PrintStatuses

(* What an acknowledgement in flight is about. *)
LEMMA AckFields ==
    ASSUME EdgeInv, NEW a \in AckSlots, acks[a] # Idle
    PROVE  /\ acks[a] \in [phase : {"update", "answer"}, command : Ids, lease : Leases,
                           told : Resolutions \cup {DeviceResult}, known : BOOLEAN]
           /\ acks[a].command \in Ids /\ acks[a].command <= made
           /\ resolution[acks[a].command] # None
           /\ \/ acks[a].told = resolution[acks[a].command]
              \/ /\ acks[a].known /\ acks[a].told = DeviceResult
                 /\ edgeCommand[acks[a].command].kind = "device"
  <1>1. acks[a] \in [phase : {"update", "answer"}, command : Ids, lease : Leases,
                     told : Resolutions \cup {DeviceResult}, known : BOOLEAN]
    BY DEF EdgeInv, TypeOK
  <1> QED BY <1>1 DEF EdgeInv, AcksSound

(* What the update does to the row of its command. *)
LEMMA AckRow ==
    ASSUME EdgeInv, NEW a \in AckSlots, AckUpdate(a), NEW c \in Ids, c = acks[a].command
    PROVE  /\ edgeCommand' \in [Ids -> Rows]
           /\ \A d \in Ids : d # c => edgeCommand'[d] = edgeCommand[d]
           /\ edgeCommand'[c].kind = edgeCommand[c].kind
           /\ edgeCommand'[c].attempt = edgeCommand[c].attempt
           /\ edgeCommand'[c].of = edgeCommand[c].of
           /\ edgeCommand'[c].deliveryCount = edgeCommand[c].deliveryCount
           /\ IF ResolutionLands(a)
              THEN /\ edgeCommand'[c].state = Outcome(acks[a].told)
                   /\ edgeCommand'[c].resolutionJson = acks[a].told
                   /\ acks[a].told = resolution[c]
                   /\ ~Resolved(c)
              ELSE edgeCommand' = edgeCommand
  <1> DEFINE told == acks[a].told
  <1>1. acks[a] # Idle
    BY DEF AckUpdate
  <1>2. told \in Resolutions \cup {DeviceResult} /\ (told = resolution[c] \/ acks[a].known)
    BY <1>1, AckFields
  <1>3. edgeCommand \in [Ids -> Rows]
    BY DEF EdgeInv, TypeOK
  <1>4. edgeCommand' = IF ResolutionLands(a)
                       THEN [edgeCommand EXCEPT ![c].state = Outcome(told), ![c].resolutionJson = told]
                       ELSE edgeCommand
    BY DEF AckUpdate
  <1>5. Outcome(told) \in {"accepted", "rejected"}
    BY DEF Outcome
  <1>6. CASE ResolutionLands(a)
    <2>1. edgeCommand' = [edgeCommand EXCEPT ![c].state = Outcome(told), ![c].resolutionJson = told]
      BY <1>4, <1>6
    <2>2. told = resolution[c] /\ ~Resolved(c)
      BY <1>2, <1>6 DEF ResolutionLands, Resolved
    <2>3. ASSUME NEW res \in Resolutions \cup {DeviceResult}, NEW st \in {"accepted", "rejected"},
                 edgeCommand' = [edgeCommand EXCEPT ![c].state = st, ![c].resolutionJson = res]
          PROVE  /\ edgeCommand' \in [Ids -> Rows]
                 /\ \A d \in Ids : d # c => edgeCommand'[d] = edgeCommand[d]
                 /\ edgeCommand'[c].kind = edgeCommand[c].kind
                 /\ edgeCommand'[c].attempt = edgeCommand[c].attempt
                 /\ edgeCommand'[c].of = edgeCommand[c].of
                 /\ edgeCommand'[c].deliveryCount = edgeCommand[c].deliveryCount
                 /\ edgeCommand'[c].state = st
                 /\ edgeCommand'[c].resolutionJson = res
      BY <1>3, <2>3 DEF Rows
    <2> HIDE DEF told
    <2>4. /\ edgeCommand' \in [Ids -> Rows]
          /\ \A d \in Ids : d # c => edgeCommand'[d] = edgeCommand[d]
          /\ edgeCommand'[c].kind = edgeCommand[c].kind
          /\ edgeCommand'[c].attempt = edgeCommand[c].attempt
          /\ edgeCommand'[c].of = edgeCommand[c].of
          /\ edgeCommand'[c].deliveryCount = edgeCommand[c].deliveryCount
          /\ edgeCommand'[c].state = Outcome(told)
          /\ edgeCommand'[c].resolutionJson = told
      BY <1>2, <1>5, <2>1, <2>3
    <2> QED BY <1>6, <2>2, <2>4 DEF told
  <1>7. CASE ~ResolutionLands(a)
    BY <1>3, <1>4, <1>7
  <1> QED BY <1>6, <1>7

(* What it does to the history. *)
LEMMA AckLog ==
    ASSUME EdgeInv, NEW a \in AckSlots, AckUpdate(a), NEW c \in Ids, c = acks[a].command
    PROVE  /\ printLog' \in [Ids -> [status : PrintStatuses \cup {"absent"}, spoolJobId : BOOLEAN]]
           /\ \A d \in Ids : printLog'[d].status =
                IF Matches(a) /\ d = edgeCommand[c].of
                THEN Projected(edgeCommand[c].kind, acks[a].told, printLog[d].status)
                ELSE printLog[d].status
           /\ \A d \in Ids : d # edgeCommand[c].of => printLog'[d] = printLog[d]
  <1> DEFINE told == acks[a].told
             kind == edgeCommand[c].kind
             log == edgeCommand[c].of
  <1>1. log \in 0 .. MaxCommands /\ MaxCommands \in Nat
    BY EdgeAssumption DEF EdgeInv, TypeOK, Rows
  <1>2. printLog \in [Ids -> [status : PrintStatuses \cup {"absent"}, spoolJobId : BOOLEAN]]
    BY DEF EdgeInv, TypeOK
  <1>3. CASE Matches(a) /\ log # 0
    <2>1. printLog' = [printLog EXCEPT
                ![log].status = Projected(kind, told, @),
                ![log].spoolJobId = @ \/ (kind = "print" /\ Outcome(told) = "accepted")]
      BY <1>3 DEF AckUpdate
    <2>2. log \in Ids
      BY <1>1, <1>3 DEF Ids
    <2>3. ASSUME NEW st \in PrintStatuses \cup {"absent"}, NEW id \in BOOLEAN,
                 printLog' = [printLog EXCEPT ![log].status = st, ![log].spoolJobId = id]
          PROVE  /\ printLog' \in [Ids -> [status : PrintStatuses \cup {"absent"}, spoolJobId : BOOLEAN]]
                 /\ printLog'[log].status = st
                 /\ \A d \in Ids : d # log => printLog'[d] = printLog[d]
      BY <1>2, <2>2, <2>3
    <2>4. Projected(kind, told, printLog[log].status) \in PrintStatuses \cup {"absent"}
      BY <1>2, <2>2, ProjectedStatus
    <2> DEFINE st == Projected(kind, told, printLog[log].status)
               id == printLog[log].spoolJobId \/ (kind = "print" /\ Outcome(told) = "accepted")
    <2>5. printLog' = [printLog EXCEPT ![log].status = st, ![log].spoolJobId = id]
      <3> HIDE DEF told, kind
      <3> QED BY <2>1, <2>2, <1>2
    <2>6. id \in BOOLEAN
      BY <1>2, <2>2
    <2>7. /\ printLog' \in [Ids -> [status : PrintStatuses \cup {"absent"}, spoolJobId : BOOLEAN]]
          /\ printLog'[log].status = st
          /\ \A d \in Ids : d # log => printLog'[d] = printLog[d]
      <3> HIDE DEF st, id, log
      <3> QED BY <2>3, <2>4, <2>5, <2>6 DEF st
    <2> QED BY <1>3, <2>7
  <1>4. CASE ~(Matches(a) /\ log # 0)
    <2>1. printLog' = printLog
      BY <1>4 DEF AckUpdate
    <2>2. \A d \in Ids : ~(Matches(a) /\ d = log)
      BY <1>1, <1>4 DEF Ids
    <2> QED BY <1>2, <2>1, <2>2
  <1> QED BY <1>3, <1>4

LEMMA AckUpdateKeeps ==
    ASSUME EdgeInv, NEW a \in AckSlots, AckUpdate(a)
    PROVE  EdgeInv'
  <1>1. acks[a] # Idle /\ acks' = [acks EXCEPT ![a].phase = "answer"]
        /\ UNCHANGED <<made, label, receipts, printing, polls, ingests, nodeVars>>
        /\ stickerStale' \in BOOLEAN
    BY DEF AckUpdate, EdgeInv, TypeOK
  <1>2. PICK c \in Ids : c = acks[a].command
    BY <1>1, AckFields
  <1>3. /\ c <= made /\ resolution[c] # None
        /\ acks[a] \in [phase : {"update", "answer"}, command : Ids, lease : Leases,
                        told : Resolutions \cup {DeviceResult}, known : BOOLEAN]
    BY <1>1, <1>2, AckFields
  <1>4. /\ edgeCommand' \in [Ids -> Rows]
        /\ \A d \in Ids : d # c => edgeCommand'[d] = edgeCommand[d]
        /\ edgeCommand'[c].kind = edgeCommand[c].kind
        /\ edgeCommand'[c].attempt = edgeCommand[c].attempt
        /\ edgeCommand'[c].of = edgeCommand[c].of
        /\ edgeCommand'[c].deliveryCount = edgeCommand[c].deliveryCount
        /\ IF ResolutionLands(a)
           THEN /\ edgeCommand'[c].state = Outcome(acks[a].told)
                /\ edgeCommand'[c].resolutionJson = acks[a].told
                /\ acks[a].told = resolution[c]
                /\ ~Resolved(c)
           ELSE edgeCommand' = edgeCommand
    BY <1>2, AckRow
  <1>5. /\ printLog' \in [Ids -> [status : PrintStatuses \cup {"absent"}, spoolJobId : BOOLEAN]]
        /\ \A d \in Ids : printLog[d].status # "absent" => printLog'[d].status # "absent"
        /\ \A d \in Ids : d # edgeCommand[c].of => printLog'[d] = printLog[d]
    <2>1. /\ printLog' \in [Ids -> [status : PrintStatuses \cup {"absent"}, spoolJobId : BOOLEAN]]
          /\ \A d \in Ids : printLog'[d].status =
                IF Matches(a) /\ d = edgeCommand[c].of
                THEN Projected(edgeCommand[c].kind, acks[a].told, printLog[d].status)
                ELSE printLog[d].status
          /\ \A d \in Ids : d # edgeCommand[c].of => printLog'[d] = printLog[d]
      BY <1>2, AckLog
    <2>2. \A d \in Ids : printLog[d].status \in PrintStatuses \cup {"absent"}
      BY DEF EdgeInv, TypeOK
    <2> QED BY <2>1, <2>2, ProjectedStatus
  <1>6. Outcome(acks[a].told) \in {"accepted", "rejected"}
    BY DEF Outcome
  <1>7. Onward /\ made' \in Nat
    <2>1. \A d \in Ids : edgeCommand'[d].kind = edgeCommand[d].kind /\ edgeCommand'[d].attempt = edgeCommand[d].attempt
      BY <1>4
    <2>2. UNCHANGED <<made, resolution, job>>
      BY <1>1 DEF nodeVars
    <2> QED BY <2>1, <2>2, EdgeAssumption DEF EdgeInv, TypeOK, Onward
  <1>8. OfItsKind(c) /\ LeaseCounted(c) /\ ResolvedAsStored(c) /\ NodeToldTruth(c)
    BY <1>3 DEF EdgeInv, RowsSound
  <1>9. OfItsKind(c)' /\ LeaseCounted(c)' /\ ResolvedAsStored(c)' /\ NodeToldTruth(c)'
    <2>1. OfItsKind(c)'
      <3>1. edgeCommand'[c].state # "absent"
        BY <1>4, <1>6, <1>8 DEF OfItsKind
      <3> QED BY <1>1, <1>3, <1>4, <1>5, <1>7, <3>1, RowKeepsKind
    <2>2. LeaseCounted(c)'
      BY <1>4, <1>6, <1>8 DEF LeaseCounted
    <2>3. ResolvedAsStored(c)'
      <3>1. CASE ResolutionLands(a)
        <4>1. Resolved(c)' /\ edgeCommand'[c].resolutionJson = resolution[c]
              /\ edgeCommand'[c].state = Outcome(resolution[c])
          BY <1>4, <1>6, <3>1 DEF Resolved
        <4> QED BY <4>1, <1>1, <1>3 DEF ResolvedAsStored, Carries, nodeVars
      <3>2. CASE ~ResolutionLands(a)
        BY <3>2, <1>1, <1>4, <1>8 DEF ResolvedAsStored, Resolved, Carries, nodeVars
      <3> QED BY <3>1, <3>2
    <2>4. NodeToldTruth(c)'
      BY <1>1, <1>4, <1>8 DEF NodeToldTruth, nodeVars
    <2> QED BY <2>1, <2>2, <2>3, <2>4
  <1>10. \A d \in Ids : d > made => d # edgeCommand[c].of
    <2>1. edgeCommand[c].of \in {0, c} \cup Logs
      BY <1>8 DEF OfItsKind
    <2>2. made \in Nat
      BY EdgeAssumption DEF EdgeInv, TypeOK
    <2> QED BY <2>1, <2>2, <1>3 DEF Logs, Ids
  <1>11. RowsSound'
    BY <1>1, <1>3, <1>4, <1>5, <1>7, <1>9, <1>10, OneRowChanges DEF nodeVars
  <1>12. /\ acks' \in [AckSlots ->
              {Idle} \cup [phase : {"update", "answer"}, command : Ids, lease : Leases,
                           told : Resolutions \cup {DeviceResult}, known : BOOLEAN]]
         /\ \A b \in AckSlots : acks'[b] \in {acks[b], Idle, [acks[b] EXCEPT !.phase = "answer"]}
         /\ \A b \in AckSlots : acks[b] = Idle => acks'[b] = Idle
    <2>1. acks'[a] = [acks[a] EXCEPT !.phase = "answer"] /\ \A b \in AckSlots : b # a => acks'[b] = acks[b]
      BY <1>1 DEF EdgeInv, TypeOK
    <2>2. [acks[a] EXCEPT !.phase = "answer"] \in
              [phase : {"update", "answer"}, command : Ids, lease : Leases,
               told : Resolutions \cup {DeviceResult}, known : BOOLEAN]
      BY <1>3
    <2>3. \A b \in AckSlots : acks[b] \in
              {Idle} \cup [phase : {"update", "answer"}, command : Ids, lease : Leases,
                           told : Resolutions \cup {DeviceResult}, known : BOOLEAN]
      BY DEF EdgeInv, TypeOK
    <2>4. acks' = [b \in AckSlots |-> acks'[b]]
      BY <1>1 DEF EdgeInv, TypeOK
    <2>5. \A b \in AckSlots : acks'[b] \in
              {Idle} \cup [phase : {"update", "answer"}, command : Ids, lease : Leases,
                           told : Resolutions \cup {DeviceResult}, known : BOOLEAN]
      BY <2>1, <2>2, <2>3
    <2> QED BY <1>1, <2>1, <2>4, <2>5
  <1>13. AcksSound'
    BY <1>7, <1>12, AcksStay
  <1>14. TypeOK'
    BY <1>1, <1>4, <1>5, <1>12 DEF EdgeInv, TypeOK, nodeVars
  <1>15. PrintsSound' /\ PollsSound' /\ EventsSound'
    BY <1>1, <1>7, PrintsStay, PollsStay, EventsStay DEF nodeVars
  <1> QED BY <1>11, <1>13, <1>14, <1>15 DEF EdgeInv

LEMMA AckAnswerKeeps ==
    ASSUME EdgeInv, NEW a \in AckSlots, AckAnswer(a)
    PROVE  EdgeInv'
  <1>1. /\ acks[a] # Idle
        /\ held' = [held EXCEPT ![acks[a].command] = IF @ = acks[a].lease THEN NoLease ELSE @]
        /\ acks' = [acks EXCEPT ![a] = Idle]
        /\ UNCHANGED <<serverVars, printing, polls, ingests, resolution, job, outbox>>
    BY DEF AckAnswer
  <1>2. /\ held' \in [Ids -> Leases]
        /\ \A c \in Ids : held'[c] \in {held[c], NoLease}
    BY <1>1, EdgeAssumption DEF EdgeInv, TypeOK, NoLease, Leases
  <1>3. /\ acks' \in [AckSlots ->
              {Idle} \cup [phase : {"update", "answer"}, command : Ids, lease : Leases,
                           told : Resolutions \cup {DeviceResult}, known : BOOLEAN]]
        /\ \A b \in AckSlots : acks'[b] \in {acks[b], Idle} /\ (acks[b] = Idle => acks'[b] = Idle)
    BY <1>1 DEF EdgeInv, TypeOK
  <1>4. Onward /\ made' = made /\ made' \in Nat
    BY <1>1, StandsStill, EdgeAssumption DEF EdgeInv, TypeOK, serverVars
  <1>5. RowsSound'
    <2> SUFFICES ASSUME NEW c \in Ids
                 PROVE  IF c <= made' THEN OfItsKind(c)' /\ LeaseCounted(c)' /\ ResolvedAsStored(c)' /\ NodeToldTruth(c)'
                        ELSE Unmade(c)'
      BY DEF RowsSound
    <2>1. CASE c <= made
      BY <1>1, <1>2, <1>4, <2>1, RowStays DEF serverVars
    <2>2. CASE ~(c <= made)
      BY <1>1, <1>2, <1>4, <2>2 DEF EdgeInv, RowsSound, Unmade, serverVars
    <2> QED BY <1>4, <2>1, <2>2
  <1>6. TypeOK'
    BY <1>1, <1>2, <1>3 DEF EdgeInv, TypeOK, serverVars
  <1>7. PrintsSound' /\ PollsSound' /\ AcksSound' /\ EventsSound'
    BY <1>1, <1>3, <1>4, PrintsStay, PollsStay, AcksStay, EventsStay DEF serverVars
  <1> QED BY <1>5, <1>6, <1>7 DEF EdgeInv

-----------------------------------------------------------------------------
(* The node.                                                                 *)

Jobs == [state : JobStates \cup {"absent"}, label : Labels, by : 0 .. MaxCommands]

(* Jobs come about and end; the node reports what it does to them as it does it. *)
JobsGoOn ==
    /\ job' \in [Attempts -> Jobs]
    /\ \A k \in Attempts :
        /\ job[k].state # "absent" => job'[k].state # "absent"
        /\ job[k].state \in FinalJobStates => job'[k].state = job[k].state
    /\ \/ outbox' = outbox
       \/ \E k \in Attempts, st \in JobStates : outbox' = Append(outbox, JobEvent(k, st)) /\ job'[k].state = st

(* A job that is not over takes a new state. *)
LEMMA JobMoves ==
    ASSUME EdgeInv, NEW k \in Attempts, NEW j \in Jobs, job[k].state \in {"absent", "accepted"},
           j.state \in JobStates, job' = [job EXCEPT ![k] = j], outbox' = Append(outbox, JobEvent(k, j.state))
    PROVE  JobsGoOn /\ job'[k].state = j.state
  <1>1. job \in [Attempts -> Jobs]
    BY DEF EdgeInv, TypeOK, Jobs
  <1>2. job' \in [Attempts -> Jobs] /\ job'[k] = j /\ \A i \in Attempts : i # k => job'[i] = job[i]
    BY <1>1
  <1>3. j.state # "absent" /\ job[k].state \notin FinalJobStates
    BY DEF JobStates, FinalJobStates
  <1> QED BY <1>2, <1>3 DEF JobsGoOn

LEMMA NoJobMoves ==
    ASSUME EdgeInv, UNCHANGED <<job, outbox>>
    PROVE  JobsGoOn
  BY DEF EdgeInv, TypeOK, JobsGoOn, Jobs

(* The node resolves a command that is there, and tells the truth. *)
LEMMA ResolveIsTrue ==
    ASSUME EdgeInv, NEW c \in Ids, c <= made, resolution[c] = None, Resolve(c), UNCHANGED edgeCommand
    PROVE  /\ \E res \in Resolutions : resolution' = [resolution EXCEPT ![c] = res]
           /\ JobsGoOn /\ NodeToldTruth(c)'
  <1> DEFINE k == edgeCommand[c].attempt
             kind == edgeCommand[c].kind
  <1>1. PICK res \in Resolutions :
            /\ resolution' = [resolution EXCEPT ![c] = res]
            /\ CASE kind = "print" -> ResolvePrint(c, res)
                 [] kind = "cancel" -> ResolveCancel(c, res)
                 [] kind = "device" -> ResolveDevice(c, res)
    BY DEF Resolve
  <1>2. resolution'[c] = res
    BY <1>1 DEF EdgeInv, TypeOK
  <1>3. k \in Attempts /\ edgeCommand[c].label \in Labels /\ job \in [Attempts -> Jobs] /\ c \in 0 .. MaxCommands
    BY EdgeAssumption DEF EdgeInv, TypeOK, Rows, Jobs, Ids
  <1>4. kind \in {"print", "cancel", "device"}
    BY DEF EdgeInv, RowsSound, OfItsKind
  <1>5. CASE kind = "print"
    <2>1. ResolvePrint(c, res)
      BY <1>1, <1>5
    <2>2. CASE job[k].state = "absent" /\ res = "accepted"
      <3> DEFINE j == [state |-> "accepted", label |-> edgeCommand[c].label, by |-> c]
      <3>1. job' = [job EXCEPT ![k] = j] /\ outbox' = Append(outbox, JobEvent(k, "accepted"))
        BY <2>1, <2>2 DEF ResolvePrint
      <3>2. j \in Jobs /\ j.state = "accepted" /\ "accepted" \in JobStates
        BY <1>3 DEF Jobs, JobStates
      <3>3. JobsGoOn /\ job'[k].state = "accepted"
        <4> HIDE DEF j, k
        <4> QED BY <1>3, <2>2, <3>1, <3>2, JobMoves
      <3> QED BY <1>1, <1>2, <1>5, <2>2, <3>3 DEF NodeToldTruth
    <2>3. CASE ~(job[k].state = "absent" /\ res = "accepted")
      <3>1. UNCHANGED <<job, outbox>> /\ res \in {"already_accepted", "job_key_conflict", "invalid_payload"}
            /\ (res = "already_accepted" => job[k].state # "absent")
        BY <2>1, <2>3 DEF ResolvePrint
      <3>2. JobsGoOn
        BY <3>1, NoJobMoves
      <3> QED BY <1>1, <1>2, <1>5, <3>1, <3>2 DEF NodeToldTruth
    <2> QED BY <2>2, <2>3
  <1>6. CASE kind = "cancel"
    <2>1. ResolveCancel(c, res)
      BY <1>1, <1>6
    <2>2. CASE job[k].state = "accepted" /\ res = "cancelled"
      <3>1. job' = [job EXCEPT ![k].state = "cancelled"] /\ outbox' = Append(outbox, JobEvent(k, "cancelled"))
        BY <2>1, <2>2 DEF ResolveCancel
      <3> DEFINE j == [job[k] EXCEPT !.state = "cancelled"]
      <3>2. j \in Jobs /\ j.state = "cancelled" /\ "cancelled" \in JobStates /\ job' = [job EXCEPT ![k] = j]
        BY <1>3, <3>1 DEF Jobs, JobStates
      <3>3. JobsGoOn /\ job'[k].state = "cancelled"
        <4> HIDE DEF j, k
        <4> QED BY <1>3, <2>2, <3>1, <3>2, JobMoves
      <3> QED BY <1>1, <1>2, <1>6, <2>2, <3>3 DEF NodeToldTruth
    <2>3. CASE ~(job[k].state = "accepted" /\ res = "cancelled")
      <3>1. /\ UNCHANGED <<job, outbox>>
            /\ res \notin {"accepted", "already_accepted", "cancelled"}
            /\ res = "already_cancelled" => job[k].state = "cancelled"
        BY <2>1, <2>3 DEF ResolveCancel
      <3>2. JobsGoOn
        BY <3>1, NoJobMoves
      <3> QED BY <1>1, <1>2, <1>6, <3>1, <3>2 DEF NodeToldTruth
    <2> QED BY <2>2, <2>3
  <1>7. CASE kind = "device"
    <2>1. res = "accepted" /\ UNCHANGED <<job, outbox>>
      BY <1>1, <1>7 DEF ResolveDevice
    <2>2. JobsGoOn
      BY <2>1, NoJobMoves
    <2> QED BY <1>1, <1>2, <1>7, <2>1, <2>2 DEF NodeToldTruth
  <1> QED BY <1>4, <1>5, <1>6, <1>7

(* What the node reports of its jobs is so. *)
LEMMA JobsReported ==
    ASSUME EdgeInv, Onward, JobsGoOn, UNCHANGED ingests
    PROVE  EventsSound' /\ outbox' \in Seq(Events)
  <1>1. CASE outbox' = outbox
    BY <1>1, EventsStay DEF EdgeInv, TypeOK
  <1>2. ASSUME NEW k \in Attempts, NEW st \in JobStates,
               outbox' = Append(outbox, JobEvent(k, st)), job'[k].state = st
        PROVE  EventsSound' /\ outbox' \in Seq(Events)
    <2> DEFINE ev == JobEvent(k, st)
    <2>1. ev \in Events /\ ev.kind = "job_state_changed" /\ ev.attempt = k /\ ev.state = st
      BY DEF JobEvent, Events
    <2> HIDE DEF ev
    <2>2. Happened(ev)'
      <3>1. st # "absent"
        BY DEF JobStates
      <3> QED BY <1>2, <2>1, <3>1 DEF Happened
    <2>3. outbox' = Append(outbox, ev)
      BY <1>2 DEF ev
    <2> QED BY <2>1, <2>2, <2>3, NewReport
  <1> QED BY <1>1, <1>2 DEF JobsGoOn

LEMMA ReceiveKeeps ==
    ASSUME EdgeInv, NEW s \in PollSlots, Receive(s)
    PROVE  EdgeInv'
  <1>1. polls[s] # Idle /\ polls[s].got # {} /\ polls[s].todo = {}
        /\ UNCHANGED <<serverVars, printing, acks, ingests>>
    BY DEF Receive
  <1>2. polls[s].got \in SUBSET Handouts
    BY <1>1 DEF EdgeInv, TypeOK
  <1>3. PICK h \in polls[s].got : h = First(polls[s].got)
    BY <1>1, <1>2, FirstIsOneOf
  <1>4. PICK c \in Ids : c = h.command
    BY <1>2, <1>3 DEF Handouts
  <1>5. c <= made /\ h.lease \in Leases
    BY <1>1, <1>2, <1>3, <1>4 DEF EdgeInv, PollsSound, Handouts
  <1>6. /\ IF resolution[c] = None THEN Resolve(c) ELSE UNCHANGED <<resolution, job, outbox>>
        /\ held' = [held EXCEPT ![c] = h.lease]
        /\ polls' = [polls EXCEPT ![s] = PollOf({}, polls[s].got \ {h})]
    BY <1>3, <1>4 DEF Receive
  <1>7. OfItsKind(c) /\ LeaseCounted(c) /\ ResolvedAsStored(c) /\ NodeToldTruth(c)
    BY <1>5 DEF EdgeInv, RowsSound
  <1>8. /\ resolution' \in [Ids -> Resolutions \cup {None}]
        /\ \A d \in Ids : d # c \/ resolution[d] # None => resolution'[d] = resolution[d]
        /\ resolution'[c] # None
        /\ JobsGoOn /\ NodeToldTruth(c)'
    <2>1. resolution \in [Ids -> Resolutions \cup {None}] /\ None \notin Resolutions
      BY DEF EdgeInv, TypeOK, None, Resolutions, AcceptedResolutions, RejectedResolutions
    <2>2. CASE resolution[c] = None
      <3>1. PICK res \in Resolutions : resolution' = [resolution EXCEPT ![c] = res]
        BY <1>1, <1>5, <1>6, <2>2, ResolveIsTrue DEF serverVars
      <3>2. JobsGoOn /\ NodeToldTruth(c)'
        BY <1>1, <1>5, <1>6, <2>2, ResolveIsTrue DEF serverVars
      <3> QED BY <2>1, <2>2, <3>1, <3>2
    <2>3. CASE resolution[c] # None
      <3>1. UNCHANGED <<resolution, job, outbox>>
        BY <1>6, <2>3
      <3>2. JobsGoOn
        BY <3>1, NoJobMoves
      <3>3. NodeToldTruth(c)'
        BY <1>1, <1>7, <3>1 DEF NodeToldTruth, serverVars
      <3> QED BY <2>1, <2>3, <3>1, <3>2, <3>3
    <2> QED BY <2>2, <2>3
  <1>9. Onward /\ made' = made /\ made' \in Nat
    BY <1>1, <1>8, EdgeAssumption DEF Onward, JobsGoOn, serverVars, EdgeInv, TypeOK
  <1>10. held' \in [Ids -> Leases] /\ \A d \in Ids : d # c => held'[d] = held[d]
    BY <1>5, <1>6 DEF EdgeInv, TypeOK
  <1>11. RowsSound'
    <2>1. OfItsKind(c)'
      BY <1>1, <1>5, <1>7, <1>9, RowKeepsKind DEF serverVars, OfItsKind
    <2>2. LeaseCounted(c)'
      BY <1>1, <1>7 DEF LeaseCounted, serverVars
    <2>3. ResolvedAsStored(c)'
      BY <1>1, <1>7, <1>8 DEF ResolvedAsStored, Resolved, Carries, serverVars
    <2> QED BY <1>1, <1>5, <1>8, <1>9, <1>10, <2>1, <2>2, <2>3, OneRowChanges DEF serverVars
  <1>12. /\ polls' \in [PollSlots ->
               {Idle} \cup [phase : {"claim"}, todo : SUBSET Handouts, got : SUBSET Handouts]]
         /\ PollsSound'
    <2> DEFINE rest == polls[s].got \ {h}
    <2>1. rest \in SUBSET Handouts /\ \A g \in rest : g.command <= made
      BY <1>1, <1>2 DEF EdgeInv, PollsSound
    <2>2. polls'[s] = PollOf({}, rest) /\ \A r \in PollSlots : r # s => polls'[r] = polls[r]
      BY <1>6 DEF EdgeInv, TypeOK
    <2> HIDE DEF rest
    <2>3. polls'[s] = Idle \/ polls'[s] = [phase |-> "claim", todo |-> {}, got |-> rest]
      BY <2>2 DEF PollOf
    <2>4. polls'[s] \in {Idle} \cup [phase : {"claim"}, todo : SUBSET Handouts, got : SUBSET Handouts]
      BY <2>1, <2>3
    <2>5. polls'[s] # Idle => \A g \in polls'[s].todo \cup polls'[s].got : g.command <= made
      BY <2>1, <2>3
    <2>6. polls' = [r \in PollSlots |-> polls'[r]]
      BY <1>6 DEF EdgeInv, TypeOK
    <2>7. \A r \in PollSlots : polls'[r] \in
              {Idle} \cup [phase : {"claim"}, todo : SUBSET Handouts, got : SUBSET Handouts]
      BY <2>2, <2>4 DEF EdgeInv, TypeOK
    <2> QED BY <1>9, <2>2, <2>5, <2>6, <2>7 DEF EdgeInv, PollsSound
  <1>13. EventsSound' /\ outbox' \in Seq(Events)
    BY <1>1, <1>8, <1>9, JobsReported
  <1>14. TypeOK'
    BY <1>1, <1>8, <1>10, <1>12, <1>13 DEF EdgeInv, TypeOK, serverVars, JobsGoOn, Jobs
  <1>15. PrintsSound' /\ AcksSound'
    BY <1>1, <1>9, PrintsStay, AcksStay
  <1> QED BY <1>11, <1>12, <1>13, <1>14, <1>15 DEF EdgeInv

LEMMA JobEndsKeeps ==
    ASSUME EdgeInv, NEW k \in Attempts, NEW st \in FinalJobStates, JobEnds(k, st)
    PROVE  EdgeInv'
  <1>1. /\ job[k].state = "accepted"
        /\ job' = [job EXCEPT ![k].state = st]
        /\ outbox' = Append(outbox, JobEvent(k, st))
        /\ UNCHANGED <<serverVars, slotVars, resolution, held>>
    BY DEF JobEnds
  <1>2. JobsGoOn
    <2> DEFINE j == [job[k] EXCEPT !.state = st]
    <2>1. job \in [Attempts -> Jobs] /\ st \in JobStates
      BY DEF EdgeInv, TypeOK, Jobs, FinalJobStates
    <2>2. j \in Jobs /\ j.state = st /\ job' = [job EXCEPT ![k] = j]
      BY <1>1, <2>1 DEF Jobs
    <2> HIDE DEF j
    <2> QED BY <1>1, <2>1, <2>2, JobMoves
  <1>3. Onward /\ made' = made /\ made' \in Nat
    BY <1>1, <1>2, EdgeAssumption DEF Onward, JobsGoOn, serverVars, EdgeInv, TypeOK
  <1>4. EventsSound' /\ outbox' \in Seq(Events)
    BY <1>1, <1>2, <1>3, JobsReported DEF slotVars
  <1>5. RowsSound'
    <2> SUFFICES ASSUME NEW c \in Ids
                 PROVE  IF c <= made' THEN OfItsKind(c)' /\ LeaseCounted(c)' /\ ResolvedAsStored(c)' /\ NodeToldTruth(c)'
                        ELSE Unmade(c)'
      BY DEF RowsSound
    <2>1. CASE c <= made
      BY <1>1, <1>3, <2>1, RowStays DEF serverVars
    <2>2. CASE ~(c <= made)
      BY <1>1, <1>3, <2>2 DEF EdgeInv, RowsSound, Unmade, serverVars
    <2> QED BY <1>3, <2>1, <2>2
  <1>6. TypeOK'
    BY <1>1, <1>2, <1>4 DEF EdgeInv, TypeOK, serverVars, slotVars, JobsGoOn, Jobs
  <1>7. PrintsSound' /\ PollsSound' /\ AcksSound'
    BY <1>1, <1>3, PrintsStay, PollsStay, AcksStay DEF slotVars
  <1> QED BY <1>4, <1>5, <1>6, <1>7 DEF EdgeInv

LEMMA DeviceActsKeeps ==
    ASSUME EdgeInv, NEW c \in Ids, DeviceActs(c)
    PROVE  EdgeInv'
  <1> DEFINE ev == [kind |-> "device_action_result", command |-> c]
  <1>1. /\ edgeCommand[c].kind = "device"
        /\ outbox' = Append(outbox, ev)
        /\ UNCHANGED <<serverVars, slotVars, resolution, job, held>>
    BY DEF DeviceActs
  <1>2. Onward /\ made' \in Nat
    BY <1>1, StandsStill, EdgeAssumption DEF serverVars, EdgeInv, TypeOK
  <1>3. ev \in Events /\ ev.kind # "job_state_changed" /\ ev.command = c
    BY DEF Events
  <1> HIDE DEF ev
  <1>4. Happened(ev)'
    BY <1>1, <1>3 DEF Happened, serverVars
  <1>5. EventsSound' /\ outbox' \in Seq(Events)
    BY <1>1, <1>2, <1>3, <1>4, NewReport DEF slotVars
  <1>6. RowsSound'
    BY <1>1, UntouchedRows DEF serverVars
  <1>7. TypeOK'
    BY <1>1, <1>5 DEF EdgeInv, TypeOK, serverVars, slotVars
  <1>8. PrintsSound' /\ PollsSound' /\ AcksSound'
    BY <1>1, <1>2, PrintsStay, PollsStay, AcksStay DEF slotVars
  <1> QED BY <1>5, <1>6, <1>7, <1>8 DEF EdgeInv

-----------------------------------------------------------------------------
(* Events.                                                                   *)

(* What an event does to the history: only rows there are change, and none is *)
(* lost.                                                                      *)
LEMMA JobStateWrites ==
    ASSUME EdgeInv, NEW ev \in Events, ev.kind = "job_state_changed", ApplyJobState(ev)
    PROVE  /\ printLog' \in [Ids -> [status : PrintStatuses \cup {"absent"}, spoolJobId : BOOLEAN]]
           /\ \A c \in Ids : printLog[c].status # "absent" => printLog'[c].status # "absent"
           /\ \A c \in Ids : c > made => printLog'[c] = printLog[c]
  <1>1. printLog \in [Ids -> [status : PrintStatuses \cup {"absent"}, spoolJobId : BOOLEAN]]
    BY DEF EdgeInv, TypeOK
  <1>2. ev.state \in JobStates
    BY DEF Events
  <1> DEFINE status == mapAgentJobState[ev.state]
  <1>3. status \in PrintStatuses /\ "absent" \notin PrintStatuses
    BY <1>2 DEF mapAgentJobState, PrintStatuses, JobStates
  <1>4. printLog' = [c \in Ids |->
            IF Concerns(ev, c) /\ MayBecome(printLog[c].status, status)
            THEN [status |-> status, spoolJobId |-> TRUE]
            ELSE printLog[c]]
    BY DEF ApplyJobState
  <1> HIDE DEF status
  <1>5. \A c \in Ids : c > made => ~Concerns(ev, c)
    BY EdgeAssumption DEF Concerns, Logs, EdgeInv, TypeOK
  <1> QED BY <1>1, <1>3, <1>4, <1>5

(* The event a batch is at was so when it was stored, and still is. *)
LEMMA FirstReport ==
    ASSUME EdgeInv, NEW e \in EventSlots, Ingest(e)
    PROVE  /\ Head(ingests[e].todo) \in Reports
           /\ Tail(ingests[e].todo) \in Seq(Reports) /\ Tail(ingests[e].todo) \in Seq(Events)
  <1>1. ingests[e] # Idle /\ ingests[e].todo # <<>>
    BY DEF Ingest
  <1>2. ingests[e].todo \in Seq(Events) /\ ingests[e].todo \in Seq(Reports)
    BY <1>1 DEF EdgeInv, TypeOK, EventsSound
  <1>3. \A E : \A q \in Seq(E) : q # <<>> => Head(q) \in E /\ Tail(q) \in Seq(E)
    OBVIOUS
  <1> QED BY <1>1, <1>2, <1>3

LEMMA IngestKeeps ==
    ASSUME EdgeInv, NEW e \in EventSlots, Ingest(e)
    PROVE  EdgeInv'
  <1>1. /\ ingests[e] # Idle /\ ingests[e].todo # <<>>
        /\ ingests' = [ingests EXCEPT ![e].todo = Tail(@)]
        /\ UNCHANGED <<made, label, stickerStale, printing, polls, acks, nodeVars>>
    BY DEF Ingest
  <1>3. /\ Head(ingests[e].todo) \in Reports
        /\ Tail(ingests[e].todo) \in Seq(Reports) /\ Tail(ingests[e].todo) \in Seq(Events)
    BY FirstReport
  <1>4. PICK ev \in Reports : ev = Head(ingests[e].todo)
    BY <1>3
  <1>5. ev \in Events /\ Happened(ev)
    BY DEF Reports
  <1>6. IF ev \in receipts THEN UNCHANGED <<printLog, edgeCommand, receipts>>
        ELSE /\ receipts' = receipts \cup {ev}
             /\ CASE ev.kind = "job_state_changed" -> ApplyJobState(ev)
                  [] ev.kind = "device_action_result" -> ApplyDeviceResult(ev)
    BY <1>4 DEF Ingest
  <1>7. receipts' \subseteq Events
    <2>1. receipts' = receipts \/ receipts' = receipts \cup {ev}
      BY <1>6
    <2> QED BY <1>5, <2>1 DEF EdgeInv, TypeOK
  <1>8. made \in Nat
    BY EdgeAssumption DEF EdgeInv, TypeOK
  <1>9. /\ Onward /\ RowsSound'
        /\ edgeCommand' \in [Ids -> Rows]
        /\ printLog' \in [Ids -> [status : PrintStatuses \cup {"absent"}, spoolJobId : BOOLEAN]]
    <2>1. CASE ev \in receipts
      BY <1>1, <1>6, <2>1, StandsStill, UntouchedRows DEF EdgeInv, TypeOK, nodeVars
    <2>2. CASE ev \notin receipts /\ ev.kind = "job_state_changed"
      <3>1. ApplyJobState(ev)
        BY <1>6, <2>2
      <3>2. edgeCommand' = edgeCommand
        BY <3>1 DEF ApplyJobState
      <3>3. /\ printLog' \in [Ids -> [status : PrintStatuses \cup {"absent"}, spoolJobId : BOOLEAN]]
            /\ \A c \in Ids : printLog[c].status # "absent" => printLog'[c].status # "absent"
            /\ \A c \in Ids : c > made => printLog'[c] = printLog[c]
        BY <1>5, <2>2, <3>1, JobStateWrites
      <3>4. Onward
        BY <1>1, <3>2, StandsStill DEF nodeVars
      <3>5. RowsSound'
        <4> SUFFICES ASSUME NEW c \in Ids
                     PROVE  IF c <= made' THEN OfItsKind(c)' /\ LeaseCounted(c)' /\ ResolvedAsStored(c)' /\ NodeToldTruth(c)'
                            ELSE Unmade(c)'
          BY DEF RowsSound
        <4>1. CASE c <= made
          BY <1>1, <1>8, <3>2, <3>3, <3>4, <4>1, RowStays DEF nodeVars
        <4>2. CASE ~(c <= made)
          <5>1. c > made
            BY <4>2, <1>8 DEF Ids
          <5> QED BY <1>1, <3>2, <3>3, <4>2, <5>1 DEF EdgeInv, RowsSound, Unmade, nodeVars
        <4> QED BY <1>1, <4>1, <4>2
      <3> QED BY <3>2, <3>3, <3>4, <3>5 DEF EdgeInv, TypeOK
    <2>3. CASE ev \notin receipts /\ ev.kind # "job_state_changed"
      <3>1. ev.kind = "device_action_result" /\ ev.command \in Ids
        BY <1>5, <2>3 DEF Events
      <3>2. PICK c \in Ids : c = ev.command
        BY <3>1
      <3>3. edgeCommand[c].kind = "device"
        BY <1>5, <2>3, <3>2 DEF Happened
      <3>4. edgeCommand' = [edgeCommand EXCEPT ![c].resolutionJson = DeviceResult] /\ printLog' = printLog
        BY <1>6, <2>3, <3>1, <3>2 DEF ApplyDeviceResult
      <3>5. c <= made
        BY <3>3 DEF EdgeInv, RowsSound, Unmade, NoRow, None
      <3>6. edgeCommand \in [Ids -> Rows]
        BY DEF EdgeInv, TypeOK
      <3>7. /\ edgeCommand' \in [Ids -> Rows]
            /\ \A d \in Ids : d # c => edgeCommand'[d] = edgeCommand[d]
        BY <3>4, <3>6 DEF Rows
      <3>8. /\ edgeCommand'[c].kind = edgeCommand[c].kind
            /\ edgeCommand'[c].attempt = edgeCommand[c].attempt
            /\ edgeCommand'[c].of = edgeCommand[c].of
            /\ edgeCommand'[c].state = edgeCommand[c].state
            /\ edgeCommand'[c].deliveryCount = edgeCommand[c].deliveryCount
            /\ edgeCommand'[c].expired = edgeCommand[c].expired
            /\ edgeCommand'[c].resolutionJson = DeviceResult
        BY <3>4, <3>6 DEF Rows
      <3>9. Onward
        <4>1. \A d \in Ids : edgeCommand'[d].kind = edgeCommand[d].kind /\ edgeCommand'[d].attempt = edgeCommand[d].attempt
          BY <3>7, <3>8
        <4> QED BY <4>1, <1>1, <1>8 DEF Onward, nodeVars
      <3>10. OfItsKind(c) /\ LeaseCounted(c) /\ ResolvedAsStored(c) /\ NodeToldTruth(c)
        BY <3>5 DEF EdgeInv, RowsSound
      <3>11. OfItsKind(c)' /\ LeaseCounted(c)' /\ ResolvedAsStored(c)' /\ NodeToldTruth(c)'
        <4>1. OfItsKind(c)'
          BY <1>1, <3>4, <3>5, <3>8, <3>9, <3>10, RowKeepsKind DEF OfItsKind
        <4>2. LeaseCounted(c)'
          BY <3>8, <3>10 DEF LeaseCounted
        <4>3. ResolvedAsStored(c)'
          BY <1>1, <3>3, <3>8, <3>10 DEF ResolvedAsStored, Resolved, Carries, nodeVars
        <4>4. NodeToldTruth(c)'
          BY <1>1, <3>8, <3>10 DEF NodeToldTruth, nodeVars
        <4> QED BY <4>1, <4>2, <4>3, <4>4
      <3>12. RowsSound'
        BY <1>1, <3>4, <3>5, <3>7, <3>9, <3>11, OneRowChanges DEF nodeVars
      <3> QED BY <3>4, <3>7, <3>9, <3>12 DEF EdgeInv, TypeOK
    <2> QED BY <2>1, <2>2, <2>3
  <1>10. /\ ingests' \in [EventSlots ->
               {Idle} \cup [phase : {"ingest"}, todo : Seq(Events), sent : SUBSET Events]]
         /\ ingests'[e].todo = Tail(ingests[e].todo)
         /\ \A f \in EventSlots : f # e => ingests'[f] = ingests[f]
    <2> DEFINE rest == Tail(ingests[e].todo)
    <2>1. ingests[e] \in [phase : {"ingest"}, todo : Seq(Events), sent : SUBSET Events]
      BY <1>1 DEF EdgeInv, TypeOK
    <2>2. rest \in Seq(Events)
      BY <1>3
    <2>3. ingests' = [ingests EXCEPT ![e].todo = rest]
      BY <1>1
    <2> HIDE DEF rest
    <2>4. /\ ingests' \in [EventSlots ->
               {Idle} \cup [phase : {"ingest"}, todo : Seq(Events), sent : SUBSET Events]]
          /\ ingests'[e].todo = rest
          /\ \A f \in EventSlots : f # e => ingests'[f] = ingests[f]
      BY <2>1, <2>2, <2>3 DEF EdgeInv, TypeOK
    <2> QED BY <2>4 DEF rest
  <1>11. EventsSound'
    <2>1. \A q \in Seq(Reports) : q \in Seq(Reports')
      BY <1>9, ReportsStand, SeqMonotonic
    <2>2. outbox \in Seq(Reports) /\ outbox' = outbox
      BY <1>1 DEF EdgeInv, EventsSound, nodeVars
    <2>3. ingests'[e].todo \in Seq(Reports')
      BY <1>3, <1>10, <2>1
    <2>4. \A f \in EventSlots : f # e /\ ingests'[f] # Idle => ingests'[f].todo \in Seq(Reports')
      BY <1>10, <2>1 DEF EdgeInv, EventsSound
    <2> QED BY <2>1, <2>2, <2>3, <2>4 DEF EventsSound
  <1>12. TypeOK'
    BY <1>1, <1>7, <1>9, <1>10 DEF EdgeInv, TypeOK, nodeVars
  <1>13. PrintsSound' /\ PollsSound' /\ AcksSound'
    BY <1>1, <1>8, <1>9, PrintsStay, PollsStay, AcksStay
  <1> QED BY <1>9, <1>11, <1>12, <1>13 DEF EdgeInv

LEMMA EventsAnswerKeeps ==
    ASSUME EdgeInv, NEW e \in EventSlots, EventsAnswer(e)
    PROVE  EdgeInv'
  <1>1. /\ outbox' = Without(outbox, Sent(e))
        /\ ingests' = [ingests EXCEPT ![e] = Idle]
        /\ UNCHANGED <<serverVars, printing, polls, acks, resolution, job, held>>
    BY DEF EventsAnswer
  <1>2. outbox' \in Seq(Events) /\ outbox' \in Seq(Reports)
    BY <1>1, WithoutIsSeq DEF EdgeInv, TypeOK, EventsSound
  <1>3. /\ ingests' \in [EventSlots -> {Idle} \cup [phase : {"ingest"}, todo : Seq(Events), sent : SUBSET Events]]
        /\ \A f \in EventSlots : ingests'[f] \in {ingests[f], Idle}
    BY <1>1 DEF EdgeInv, TypeOK
  <1>4. Reports' = Reports
    BY <1>1 DEF Reports, Happened, serverVars
  <1>5. EventsSound'
    BY <1>2, <1>3, <1>4 DEF EdgeInv, EventsSound
  <1>6. Onward /\ made' \in Nat
    BY <1>1, StandsStill, EdgeAssumption DEF serverVars, EdgeInv, TypeOK
  <1>7. RowsSound'
    BY <1>1, UntouchedRows DEF serverVars
  <1>8. TypeOK'
    BY <1>1, <1>2, <1>3 DEF EdgeInv, TypeOK, serverVars
  <1>9. PrintsSound' /\ PollsSound' /\ AcksSound'
    BY <1>1, <1>6, PrintsStay, PollsStay, AcksStay
  <1> QED BY <1>5, <1>7, <1>8, <1>9 DEF EdgeInv

-----------------------------------------------------------------------------
LEMMA EdgeInvInit ==
    ASSUME Init
    PROVE  EdgeInv
  <1>1. made = 0 /\ MaxCommands \in Nat /\ 0 \in Labels /\ 0 \in Leases /\ 0 \in Attempts
    BY EdgeAssumption DEF Init, Labels, Leases, Attempts
  <1>2. NoRow \in Rows
    BY <1>1 DEF NoRow, Rows, NoLease
  <1>3. NoJob \in [state : JobStates \cup {"absent"}, label : Labels, by : 0 .. MaxCommands]
    BY <1>1 DEF NoJob
  <1>4. TypeOK
    <2>1. outbox \in Seq(Events) /\ held \in [Ids -> Leases] /\ label \in Labels /\ made \in 0 .. MaxCommands
      BY <1>1 DEF Init, NoLease
    <2>2. edgeCommand \in [Ids -> Rows]
      BY <1>2 DEF Init
    <2>3. job \in [Attempts -> [state : JobStates \cup {"absent"}, label : Labels, by : 0 .. MaxCommands]]
      BY <1>3 DEF Init
    <2> QED BY <2>1, <2>2, <2>3 DEF Init, TypeOK, NoLog
  <1>5. RowsSound
    <2> SUFFICES ASSUME NEW c \in Ids PROVE ~(c <= made) /\ Unmade(c)
      BY DEF RowsSound
    <2> QED BY <1>1 DEF Ids, Init, Unmade
  <1>6. PrintsSound /\ PollsSound /\ AcksSound
    BY DEF Init, PrintsSound, PollsSound, AcksSound
  <1>7. EventsSound
    <2>1. outbox = <<>> /\ \A E : <<>> \in Seq(E)
      BY DEF Init
    <2> QED BY <2>1 DEF Init, EventsSound
  <1> QED BY <1>4, <1>5, <1>6, <1>7 DEF EdgeInv

LEMMA EdgeInvStep ==
    ASSUME EdgeInv, [Next]_vars
    PROVE  EdgeInv'
  <1>1. CASE \E p \in PrintSlots :
                \/ \E reprint \in BOOLEAN : PrintRead(p, reprint)
                \/ PrintBatch(p)
                \/ LosePrint(p)
    BY <1>1, PrintReadKeeps, PrintBatchKeeps, LossesKeep
  <1>2. CASE \E c \in Ids : Retry(c) \/ Cancel(c) \/ Expire(c) \/ DeviceActs(c)
    BY <1>2, RetryKeeps, CancelKeeps, ExpireKeeps, DeviceActsKeeps
  <1>3. CASE DeviceAction
    BY <1>3, DeviceActionKeeps
  <1>4. CASE Renumber
    BY <1>4, RenumberKeeps
  <1>5. CASE \E s \in PollSlots : PollRead(s) \/ Claim(s) \/ Receive(s) \/ LosePoll(s)
    BY <1>5, PollReadKeeps, ClaimKeeps, ReceiveKeeps, LossesKeep
  <1>6. CASE \E a \in AckSlots :
                \/ \E c \in Ids : AckRead(a, c)
                \/ AckUpdate(a)
                \/ AckAnswer(a)
                \/ LoseAck(a)
    BY <1>6, AckReadKeeps, AckUpdateKeeps, AckAnswerKeeps, LossesKeep
  <1>7. CASE \E k \in Attempts, st \in FinalJobStates : JobEnds(k, st)
    BY <1>7, JobEndsKeeps
  <1>8. CASE \E e \in EventSlots : EventsSend(e) \/ Ingest(e) \/ EventsAnswer(e) \/ LoseEvents(e)
    BY <1>8, EventsSendKeeps, IngestKeeps, EventsAnswerKeeps, LossesKeep
  <1>9. CASE UNCHANGED vars
    <2>1. UNCHANGED <<serverVars, slotVars, nodeVars>>
      BY <1>9 DEF vars
    <2>2. TypeOK'
      BY <2>1 DEF EdgeInv, TypeOK, serverVars, slotVars, nodeVars
    <2> QED BY <2>1, <2>2, NothingStored DEF serverVars, slotVars, nodeVars
  <1> QED BY <1>1, <1>2, <1>3, <1>4, <1>5, <1>6, <1>7, <1>8, <1>9 DEF Next

(* Commands, jobs, events and what is in flight stay in accord, whatever      *)
(* requests cross and whatever is lost.                                       *)
THEOREM EdgeInvariant == Spec => []EdgeInv
  <1>1. Init => EdgeInv
    BY EdgeInvInit
  <1>2. EdgeInv /\ [Next]_vars => EdgeInv'
    BY EdgeInvStep
  <1> QED BY <1>1, <1>2, PTL DEF Spec

(* Every variable keeps its type: no lease is counted past the last delivery  *)
(* (pollEdgeCommands), no attempt past the commands there are                 *)
(* (printBundleLabel), and what is left of the outbox is a sequence of events. *)
THEOREM TypeCorrect == Spec => []TypeOK
  <1>1. EdgeInv => TypeOK
    BY DEF EdgeInv
  <1> QED BY <1>1, EdgeInvariant, PTL

-----------------------------------------------------------------------------
(* What a step makes of a command and of a history row that are there.       *)

Quiet ==
    /\ \A c \in Ids : c <= made => edgeCommand'[c] = edgeCommand[c] /\ printLog'[c] = printLog[c]
    /\ stickerStale => stickerStale'

LEMMA FewStepsTouchRows ==
    ASSUME EdgeInv, [Next]_vars
    PROVE  \/ Quiet
           \/ \E s \in PollSlots : Claim(s)
           \/ \E c \in Ids : Expire(c)
           \/ \E a \in AckSlots : AckUpdate(a)
           \/ \E e \in EventSlots : Ingest(e)
  <1>1. ASSUME UNCHANGED serverVars PROVE Quiet
    BY <1>1 DEF serverVars, Quiet
  <1>2. ASSUME NEW kind, NEW attempt, NEW lab, NEW of, Enqueue(kind, attempt, lab, of)
        PROVE  /\ \A c \in Ids : c <= made => edgeCommand'[c] = edgeCommand[c]
               /\ stickerStale' = stickerStale
    BY <1>2, EdgeAssumption DEF Enqueue, EdgeInv, TypeOK, Ids
  <1>3. ASSUME NEW attempt, NEW lab, EnqueuePrint(attempt, lab) PROVE Quiet
    <2>1. \A c \in Ids : c # made + 1 => printLog'[c] = printLog[c]
      BY <1>3, NewLog
    <2>2. Enqueue("print", attempt, lab, made + 1)
      BY <1>3 DEF EnqueuePrint
    <2>3. \A c \in Ids : c <= made => c # made + 1
      BY EdgeAssumption DEF Ids, EdgeInv, TypeOK
    <2> QED BY <1>2, <2>1, <2>2, <2>3 DEF Quiet
  <1>4. ASSUME NEW kind, NEW attempt, NEW lab, NEW of, Enqueue(kind, attempt, lab, of), UNCHANGED printLog
        PROVE  Quiet
    BY <1>2, <1>4 DEF Quiet
  <1>5. CASE \E p \in PrintSlots :
                \/ \E reprint \in BOOLEAN : PrintRead(p, reprint)
                \/ PrintBatch(p)
                \/ LosePrint(p)
    BY <1>1, <1>3, <1>5 DEF PrintRead, PrintBatch, LosePrint
  <1>6. CASE \E c \in Ids : Retry(c) \/ Cancel(c) \/ DeviceActs(c)
    BY <1>1, <1>3, <1>4, <1>6 DEF Retry, Cancel, DeviceActs
  <1>7. CASE DeviceAction
    BY <1>4, <1>7 DEF DeviceAction
  <1>8. CASE Renumber
    BY <1>8 DEF Renumber, Quiet
  <1>9. CASE \E s \in PollSlots : PollRead(s) \/ Receive(s) \/ LosePoll(s)
    BY <1>1, <1>9 DEF PollRead, Receive, LosePoll
  <1>10. CASE \E a \in AckSlots : (\E c \in Ids : AckRead(a, c)) \/ AckAnswer(a) \/ LoseAck(a)
    BY <1>1, <1>10 DEF AckRead, AckAnswer, LoseAck
  <1>11. CASE \E k \in Attempts, st \in FinalJobStates : JobEnds(k, st)
    BY <1>1, <1>11 DEF JobEnds
  <1>12. CASE \E e \in EventSlots : EventsSend(e) \/ EventsAnswer(e) \/ LoseEvents(e)
    BY <1>1, <1>12 DEF EventsSend, EventsAnswer, LoseEvents
  <1>13. CASE UNCHANGED vars
    BY <1>1, <1>13 DEF vars
  <1> QED BY <1>5, <1>6, <1>7, <1>8, <1>9, <1>10, <1>11, <1>12, <1>13 DEF Next

(* A claim takes a candidate, and leaves every other command alone. *)
LEMMA ClaimTakes ==
    ASSUME EdgeInv, NEW s \in PollSlots, Claim(s), NEW c \in Ids
    PROVE  \/ edgeCommand'[c] = edgeCommand[c]
           \/ /\ c \in Candidates
              /\ edgeCommand'[c].state = "leased"
              /\ edgeCommand'[c].kind = edgeCommand[c].kind
              /\ edgeCommand'[c].attempt = edgeCommand[c].attempt
              /\ edgeCommand'[c].of = edgeCommand[c].of
              /\ edgeCommand'[c].resolutionJson = edgeCommand[c].resolutionJson
  <1>1. polls[s] # Idle /\ polls[s].todo # {}
    BY DEF Claim
  <1>2. polls[s].todo \in SUBSET Handouts
    BY <1>1 DEF EdgeInv, TypeOK
  <1>3. PICK h \in polls[s].todo : h = First(polls[s].todo)
    BY <1>1, <1>2, FirstIsOneOf
  <1> DEFINE lease == edgeCommand[h.command].deliveryCount + 1
  <1>4. IF ClaimLands(h)
        THEN edgeCommand' = [edgeCommand EXCEPT
                ![h.command].state = "leased", ![h.command].deliveryCount = lease, ![h.command].expired = FALSE]
        ELSE UNCHANGED edgeCommand
    BY <1>3 DEF Claim
  <1>5. edgeCommand \in [Ids -> Rows]
    BY DEF EdgeInv, TypeOK
  <1>6. ClaimLands(h) => h.command \in Candidates
    BY DEF ClaimLands
  <1> HIDE DEF lease
  <1> QED BY <1>4, <1>5, <1>6 DEF Rows

(* What a step makes of a command that is there. *)
LEMMA RowMoves ==
    ASSUME EdgeInv, [Next]_vars, NEW c \in Ids, c <= made
    PROVE  /\ edgeCommand'[c].kind = edgeCommand[c].kind
           /\ edgeCommand'[c].attempt = edgeCommand[c].attempt
           /\ edgeCommand'[c].of = edgeCommand[c].of
           /\ c \in Candidates \/ edgeCommand'[c].deliveryCount = edgeCommand[c].deliveryCount
           /\ \/ /\ edgeCommand'[c].state \in {edgeCommand[c].state, "leased"}
                 /\ edgeCommand'[c].resolutionJson = edgeCommand[c].resolutionJson
              \/ edgeCommand[c].kind = "device"
              \/ \E a \in AckSlots : AckUpdate(a) /\ ResolutionLands(a) /\ acks[a].command = c
  <1>1. edgeCommand \in [Ids -> Rows]
    BY DEF EdgeInv, TypeOK
  <1>2. CASE edgeCommand'[c] = edgeCommand[c]
    BY <1>2
  <1>3. CASE \E s \in PollSlots : Claim(s)
    BY <1>2, <1>3, ClaimTakes
  <1>4. CASE \E d \in Ids : Expire(d)
    <2>1. PICK d \in Ids : edgeCommand' = [edgeCommand EXCEPT ![d].expired = TRUE]
      BY <1>4 DEF Expire
    <2> QED BY <1>1, <2>1 DEF Rows
  <1>5. ASSUME NEW a \in AckSlots, AckUpdate(a) PROVE
             /\ edgeCommand'[c].kind = edgeCommand[c].kind
             /\ edgeCommand'[c].attempt = edgeCommand[c].attempt
             /\ edgeCommand'[c].of = edgeCommand[c].of
             /\ edgeCommand'[c].deliveryCount = edgeCommand[c].deliveryCount
             /\ edgeCommand'[c] = edgeCommand[c] \/ (AckUpdate(a) /\ ResolutionLands(a) /\ acks[a].command = c)
    <2>1. PICK d \in Ids : d = acks[a].command
      BY <1>5, AckFields DEF AckUpdate
    <2>2. CASE d # c
      BY <1>5, <2>1, <2>2, AckRow
    <2>3. CASE d = c
      <3>1. edgeCommand'[d].kind = edgeCommand[d].kind /\ edgeCommand'[d].attempt = edgeCommand[d].attempt
            /\ edgeCommand'[d].of = edgeCommand[d].of
            /\ edgeCommand'[d].deliveryCount = edgeCommand[d].deliveryCount
            /\ (ResolutionLands(a) \/ edgeCommand' = edgeCommand)
        BY <1>5, <2>1, AckRow
      <3> QED BY <1>5, <2>1, <2>3, <3>1
    <2> QED BY <2>2, <2>3
  <1>6. ASSUME NEW e \in EventSlots, Ingest(e) PROVE
             \/ edgeCommand'[c] = edgeCommand[c]
             \/ /\ edgeCommand'[c].kind = edgeCommand[c].kind
                /\ edgeCommand'[c].attempt = edgeCommand[c].attempt
                /\ edgeCommand'[c].of = edgeCommand[c].of
                /\ edgeCommand'[c].deliveryCount = edgeCommand[c].deliveryCount
                /\ edgeCommand[c].kind = "device"
    <2>1. PICK ev \in Reports : ev = Head(ingests[e].todo)
      BY <1>6, FirstReport
    <2>2. CASE ev \in receipts \/ ev.kind = "job_state_changed"
      BY <1>6, <2>1, <2>2 DEF Ingest, ApplyJobState
    <2>3. CASE ev \notin receipts /\ ev.kind # "job_state_changed"
      <3>1. ev.kind = "device_action_result" /\ ev.command \in Ids /\ edgeCommand[ev.command].kind = "device"
        BY <2>3 DEF Reports, Events, Happened
      <3>2. edgeCommand' = [edgeCommand EXCEPT ![ev.command].resolutionJson = DeviceResult]
        BY <1>6, <2>1, <2>3, <3>1 DEF Ingest, ApplyDeviceResult
      <3> QED BY <1>1, <3>1, <3>2 DEF Rows
    <2> QED BY <2>2, <2>3
  <1> QED BY <1>2, <1>3, <1>4, <1>5, <1>6, FewStepsTouchRows DEF Quiet

(* What a step makes of a history row that is there. *)
LEMMA HistoryMoves ==
    ASSUME EdgeInv, [Next]_vars, NEW c \in Logs
    PROVE  \/ printLog'[c].status = printLog[c].status
           \/ \E a \in AckSlots :
                /\ AckUpdate(a) /\ Matches(a) /\ c = edgeCommand[acks[a].command].of
                /\ printLog'[c].status =
                        Projected(edgeCommand[acks[a].command].kind, acks[a].told, printLog[c].status)
           \/ \E ev \in Reports :
                /\ UNCHANGED <<made, job>>
                /\ ev.kind = "job_state_changed" /\ ev.attempt = edgeCommand[c].attempt
                /\ canTransitionPrintStatus(printLog[c].status, mapAgentJobState[ev.state])
                /\ printLog'[c].status = mapAgentJobState[ev.state]
  <1>1. c \in Ids /\ c <= made
    BY EdgeAssumption DEF Logs, Ids, EdgeInv, TypeOK
  <1>2. CASE printLog'[c] = printLog[c]
    BY <1>2
  <1>3. CASE \E s \in PollSlots : Claim(s)
    BY <1>2, <1>3 DEF Claim
  <1>4. CASE \E d \in Ids : Expire(d)
    BY <1>2, <1>4 DEF Expire
  <1>5. CASE \E a \in AckSlots : AckUpdate(a)
    <2>1. PICK a \in AckSlots : AckUpdate(a)
      BY <1>5
    <2>2. PICK d \in Ids : d = acks[a].command
      BY <2>1, AckFields DEF AckUpdate
    <2>3. printLog'[c].status =
                IF Matches(a) /\ c = edgeCommand[d].of
                THEN Projected(edgeCommand[d].kind, acks[a].told, printLog[c].status)
                ELSE printLog[c].status
      BY <1>1, <2>1, <2>2, AckLog
    <2> QED BY <2>1, <2>2, <2>3
  <1>6. CASE \E e \in EventSlots : Ingest(e)
    <2>1. PICK e \in EventSlots : Ingest(e)
      BY <1>6
    <2>2. PICK ev \in Reports : ev = Head(ingests[e].todo)
      BY <2>1, FirstReport
    <2>3. UNCHANGED <<made, job>>
      BY <2>1 DEF Ingest, nodeVars
    <2>4. CASE ev \in receipts \/ ev.kind # "job_state_changed"
      BY <1>2, <2>1, <2>2, <2>4 DEF Ingest, ApplyDeviceResult, Reports, Events
    <2>5. CASE ev \notin receipts /\ ev.kind = "job_state_changed"
      <3>1. ApplyJobState(ev)
        BY <2>1, <2>2, <2>5 DEF Ingest
      <3>2. \/ printLog'[c] = printLog[c]
            \/ /\ Concerns(ev, c) /\ MayBecome(printLog[c].status, mapAgentJobState[ev.state])
               /\ printLog'[c].status = mapAgentJobState[ev.state]
        BY <1>1, <3>1 DEF ApplyJobState
      <3>3. Concerns(ev, c) => ev.attempt = edgeCommand[c].attempt
        BY DEF Concerns
      <3> QED BY <2>3, <2>5, <3>2, <3>3 DEF MayBecome
    <2> QED BY <2>4, <2>5
  <1> QED BY <1>1, <1>2, <1>3, <1>4, <1>5, <1>6, FewStepsTouchRows DEF Quiet

(* A history row has a status, and a higher rank after an acknowledgement. *)
LEMMA Forward ==
    ASSUME EdgeInv, [Next]_vars, NEW c \in Logs
    PROVE  /\ printLog[c].status \in PrintStatuses /\ printLog'[c].status \in PrintStatuses
           /\ PRINT_STATUS_RANK[printLog'[c].status] >= PRINT_STATUS_RANK[printLog[c].status]
  <1>1. c \in Ids /\ c <= made
    BY EdgeAssumption DEF Logs, Ids, EdgeInv, TypeOK
  <1>2. printLog[c].status \in PrintStatuses
    <2>1. printLog[c].status # "absent"
      BY <1>1 DEF EdgeInv, RowsSound, OfItsKind, Logs
    <2> QED BY <1>1, <2>1 DEF EdgeInv, TypeOK
  <1>3. \A st \in PrintStatuses : PRINT_STATUS_RANK[st] \in Nat
    BY DEF PrintStatuses, PRINT_STATUS_RANK
  <1>4. CASE printLog'[c].status = printLog[c].status
    BY <1>2, <1>3, <1>4
  <1>5. ASSUME NEW kind, NEW told, printLog'[c].status = Projected(kind, told, printLog[c].status)
        PROVE  /\ printLog'[c].status \in PrintStatuses
               /\ PRINT_STATUS_RANK[printLog'[c].status] >= PRINT_STATUS_RANK[printLog[c].status]
    <2>1. \/ printLog'[c].status = printLog[c].status
          \/ printLog[c].status = "queued" /\ printLog'[c].status = "accepted"
          \/ printLog[c].status \in {"queued", "accepted"} /\ printLog'[c].status \in {"failed", "cancelled"}
      BY <1>5 DEF Projected
    <2> QED BY <1>2, <1>3, <2>1 DEF PrintStatuses, PRINT_STATUS_RANK
  <1>6. ASSUME NEW ev \in Reports, ev.kind = "job_state_changed",
               canTransitionPrintStatus(printLog[c].status, mapAgentJobState[ev.state]),
               printLog'[c].status = mapAgentJobState[ev.state]
        PROVE  /\ printLog'[c].status \in PrintStatuses
               /\ PRINT_STATUS_RANK[printLog'[c].status] >= PRINT_STATUS_RANK[printLog[c].status]
    <2>1. ev.state \in JobStates
      BY <1>6 DEF Reports, Events
    <2>2. mapAgentJobState[ev.state] \in PrintStatuses
      BY <2>1 DEF mapAgentJobState, JobStates, PrintStatuses
    <2> QED BY <1>6, <2>2 DEF canTransitionPrintStatus
  <1> QED BY <1>2, <1>4, <1>5, <1>6, HistoryMoves

(* No acknowledgement and no event ever moves a print_log row back            *)
(* (ackProjectionStatements, ingestEdgeEventBatch).                           *)
THEOREM HistoryMovesOn == Spec => HistoryNeverFallsBack
  <1>1. EdgeInv /\ [Next]_vars =>
            [\A c \in Logs :
                PRINT_STATUS_RANK[printLog'[c].status] >= PRINT_STATUS_RANK[printLog[c].status]]_vars
    BY Forward
  <1> QED BY <1>1, EdgeInvariant, PTL DEF Spec, HistoryNeverFallsBack

(* A command under a lease that runs is not handed out again, whatever polls  *)
(* have read it as a candidate (pollEdgeCommands).                            *)
THEOREM LeasesExclude == Spec => LeasesDoNotOverlap
  <1>1. ASSUME EdgeInv, [Next]_vars, NEW c \in Ids, edgeCommand[c].state = "leased", ~edgeCommand[c].expired
        PROVE  edgeCommand'[c].deliveryCount = edgeCommand[c].deliveryCount
    <2>1. c <= made
      BY <1>1 DEF EdgeInv, RowsSound, Unmade, NoRow
    <2>2. c \notin Candidates
      BY <1>1 DEF Candidates
    <2> QED BY <1>1, <2>1, <2>2, RowMoves
  <1>2. EdgeInv /\ [Next]_vars =>
            [\A c \in Ids : edgeCommand[c].state = "leased" /\ ~edgeCommand[c].expired
                => edgeCommand'[c].deliveryCount = edgeCommand[c].deliveryCount]_vars
    BY <1>1
  <1> QED BY <1>2, EdgeInvariant, PTL DEF Spec, LeasesDoNotOverlap

(* What an acknowledgement under way says of a print or a cancel is what the  *)
(* node stored, and if it matches the row has it, before or after.            *)
LEMMA MatchedAsStored ==
    ASSUME EdgeInv, NEW a \in AckSlots, AckUpdate(a), Matches(a),
           NEW c \in Ids, c = acks[a].command, edgeCommand[c].kind # "device"
    PROVE  /\ c <= made /\ acks[a].told = resolution[c] /\ resolution[c] # None
           /\ edgeCommand'[c].state = Outcome(acks[a].told)
  <1>1. acks[a] # Idle
    BY DEF AckUpdate
  <1>2. c <= made /\ acks[a].told = resolution[c] /\ resolution[c] # None
    BY <1>1, AckFields
  <1>3. CASE ResolutionLands(a)
    BY <1>2, <1>3, AckRow
  <1>4. CASE ~ResolutionLands(a)
    <2>1. Resolved(c)
      BY <1>4 DEF Matches
    <2>2. edgeCommand[c].state = Outcome(resolution[c])
      BY <1>2, <2>1 DEF EdgeInv, RowsSound, ResolvedAsStored
    <2>3. edgeCommand' = edgeCommand
      BY <1>4, AckRow
    <2> QED BY <1>2, <2>2, <2>3
  <1> QED BY <1>3, <1>4

(* sticker_stale is cleared only with an acknowledgement of a print the node  *)
(* has accepted (acknowledgeEdgeCommand), whatever else is repeated or late.   *)
THEOREM StickerStaysUntilTaken == Spec => StickerClearsOnAcceptance
  <1>1. ASSUME EdgeInv, [Next]_vars, stickerStale, ~stickerStale'
        PROVE  \E a \in AckSlots : TakesLabel(a)
    <2>1. PICK a \in AckSlots : AckUpdate(a)
      BY <1>1, FewStepsTouchRows DEF Quiet, Claim, Expire, Ingest
    <2>2. Matches(a) /\ ClearsSticker(edgeCommand[acks[a].command].kind, acks[a].told)
      BY <1>1, <2>1 DEF AckUpdate
    <2>3. PICK c \in Ids : c = acks[a].command
      BY <1>1, <2>1, AckFields DEF AckUpdate
    <2>4. edgeCommand[c].kind = "print" /\ Outcome(acks[a].told) = "accepted"
      BY <2>2, <2>3 DEF ClearsSticker
    <2>5. acks[a].told = resolution[c] /\ edgeCommand'[c].state = Outcome(acks[a].told)
      BY <1>1, <2>1, <2>2, <2>3, <2>4, MatchedAsStored
    <2>6. resolution[c] \in AcceptedResolutions
      BY <2>4, <2>5 DEF Outcome
    <2>7. acks[a] # Idle /\ acks'[a] # acks[a]
      <3>1. acks[a] # Idle /\ acks[a].phase = "update" /\ acks' = [acks EXCEPT ![a].phase = "answer"]
        BY <2>1 DEF AckUpdate
      <3>2. acks'[a].phase = "answer"
        BY <1>1, <3>1, AckFields DEF EdgeInv, TypeOK
      <3> QED BY <3>1, <3>2
    <2> QED BY <2>3, <2>4, <2>5, <2>6, <2>7 DEF TakesLabel
  <1>2. EdgeInv /\ [Next]_vars =>
            [stickerStale /\ ~stickerStale' => \E a \in AckSlots : TakesLabel(a)]_vars
    BY <1>1
  <1> QED BY <1>2, EdgeInvariant, PTL DEF Spec, StickerClearsOnAcceptance

-----------------------------------------------------------------------------
(* The history and the resolutions of commands.                              *)

(* A print or a cancel that is there knows its history row. *)
LEMMA HasHistory ==
    ASSUME EdgeInv, NEW c \in Ids, c <= made, edgeCommand[c].kind # "device"
    PROVE  edgeCommand[c].of \in Logs
  <1>1. OfItsKind(c)
    BY DEF EdgeInv, RowsSound
  <1>2. c \in Logs \/ edgeCommand[c].kind # "print"
    BY EdgeAssumption DEF Logs, Ids, EdgeInv, TypeOK
  <1> QED BY <1>1, <1>2 DEF OfItsKind

(* Only a cancel is ever answered that something is cancelled. *)
LEMMA CancelledByCancel ==
    ASSUME EdgeInv, NEW c \in Ids, edgeCommand[c].resolutionJson \in {"cancelled", "already_cancelled"}
    PROVE  c <= made /\ edgeCommand[c].kind = "cancel"
  <1>1. c <= made
    BY DEF EdgeInv, RowsSound, Unmade, NoRow, None
  <1>2. OfItsKind(c) /\ ResolvedAsStored(c) /\ NodeToldTruth(c)
    BY <1>1 DEF EdgeInv, RowsSound
  <1>3. resolution[c] \in {"cancelled", "already_cancelled"}
    BY <1>2 DEF ResolvedAsStored, Carries, None, DeviceResult
  <1> QED BY <1>1, <1>2, <1>3 DEF OfItsKind, NodeToldTruth, None

(* A command that is not there yet is not resolved by the step that queues it. *)
LEMMA NewAreUnresolved ==
    ASSUME EdgeInv, [Next]_vars, NEW c \in Ids, ~(c <= made)
    PROVE  resolution'[c] = None
  <1>1. resolution[c] = None
    BY DEF EdgeInv, RowsSound, Unmade
  <1>2. CASE \E s \in PollSlots : Receive(s)
    <2>1. PICK s \in PollSlots : Receive(s)
      BY <1>2
    <2>2. polls[s] # Idle /\ polls[s].got # {}
      BY <2>1 DEF Receive
    <2>3. polls[s].got \in SUBSET Handouts
      BY <2>2 DEF EdgeInv, TypeOK
    <2>4. PICK h \in polls[s].got : h = First(polls[s].got)
      BY <2>2, <2>3, FirstIsOneOf
    <2>5. h.command <= made
      BY <2>2 DEF EdgeInv, PollsSound
    <2>6. UNCHANGED resolution \/ \E res : resolution' = [resolution EXCEPT ![h.command] = res]
      BY <2>1, <2>4 DEF Receive, Resolve
    <2> QED BY <1>1, <2>5, <2>6 DEF EdgeInv, TypeOK
  <1>3. CASE ~ \E s \in PollSlots : Receive(s)
    <2>1. UNCHANGED resolution
      BY <1>3 DEF Next, vars, nodeVars, PrintRead, PrintBatch, LosePrint, Retry, Cancel, Expire, DeviceActs,
            DeviceAction, Renumber, PollRead, Claim, LosePoll, AckRead, AckUpdate, AckAnswer, LoseAck, JobEnds,
            EventsSend, Ingest, EventsAnswer, LoseEvents, EnqueuePrint, Enqueue
    <2> QED BY <1>1, <2>1
  <1> QED BY <1>2, <1>3

(* Commands are never fewer. *)
LEMMA MadeGrows ==
    ASSUME EdgeInv, [Next]_vars
    PROVE  made' >= made /\ made \in Nat /\ made' \in Nat
  <1>1. made \in Nat
    BY EdgeAssumption DEF EdgeInv, TypeOK
  <1>2. made' = made \/ made' = made + 1
    BY DEF Next, vars, serverVars, PrintRead, PrintBatch, LosePrint, Retry, Cancel, Expire, DeviceActs,
           DeviceAction, Renumber, PollRead, Claim, Receive, LosePoll, AckRead, AckUpdate, AckAnswer, LoseAck,
           JobEnds, EventsSend, Ingest, EventsAnswer, LoseEvents, EnqueuePrint, Enqueue
  <1> QED BY <1>1, <1>2

(* What the resolution of one command asks of its history row. *)
Follows(c) ==
    LET status == printLog[edgeCommand[c].of].status
    IN  /\ edgeCommand[c].kind = "print" /\ edgeCommand[c].state = "accepted" => status # "queued"
        /\ edgeCommand[c].kind = "print" /\ edgeCommand[c].state = "rejected" => status \notin {"queued", "accepted"}
        /\ edgeCommand[c].resolutionJson \in {"cancelled", "already_cancelled"} =>
                status \notin {"queued", "accepted"}

LEMMA FollowsOn ==
    ASSUME EdgeInv, EdgeInv', [Next]_vars, NEW c \in Ids, Follows(c)
    PROVE  Follows(c)'
  <1>1. CASE ~(c <= made)
    <2>1. resolution'[c] = None
      BY <1>1, NewAreUnresolved
    <2>2. CASE c <= made'
      <3>1. ResolvedAsStored(c)'
        BY <2>2 DEF EdgeInv, RowsSound
      <3> QED BY <2>1, <3>1 DEF ResolvedAsStored, Resolved, Carries, Follows, None, DeviceResult
    <2>3. CASE ~(c <= made')
      BY <2>3 DEF EdgeInv, RowsSound, Unmade, NoRow, None, Follows
    <2> QED BY <2>2, <2>3
  <1>2. CASE c <= made /\ edgeCommand[c].kind = "device"
    <2>1. c <= made' /\ edgeCommand'[c].kind = "device"
      <3>1. made' >= made /\ made \in Nat /\ made' \in Nat
        BY MadeGrows
      <3> QED BY <1>2, <3>1, RowMoves DEF Ids
    <2>2. ResolvedAsStored(c)' /\ NodeToldTruth(c)'
      BY <2>1 DEF EdgeInv, RowsSound
    <2>3. edgeCommand'[c].resolutionJson \notin {"cancelled", "already_cancelled"}
      BY <2>1, <2>2 DEF ResolvedAsStored, Carries, NodeToldTruth, None, DeviceResult
    <2> QED BY <2>1, <2>3 DEF Follows
  <1>3. CASE c <= made /\ edgeCommand[c].kind # "device"
    <2> DEFINE log == edgeCommand[c].of
    <2>1. log \in Logs
      BY <1>3, HasHistory
    <2>2. edgeCommand'[c].kind = edgeCommand[c].kind /\ edgeCommand'[c].of = log
      BY <1>3, RowMoves
    <2>3. /\ printLog[log].status # "queued" => printLog'[log].status # "queued"
          /\ printLog[log].status \notin {"queued", "accepted"} => printLog'[log].status \notin {"queued", "accepted"}
      <3>1. /\ printLog[log].status \in PrintStatuses /\ printLog'[log].status \in PrintStatuses
            /\ PRINT_STATUS_RANK[printLog'[log].status] >= PRINT_STATUS_RANK[printLog[log].status]
        BY <2>1, Forward
      <3> QED BY <3>1 DEF PrintStatuses, PRINT_STATUS_RANK
    <2>4. CASE /\ edgeCommand'[c].state \in {edgeCommand[c].state, "leased"}
               /\ edgeCommand'[c].resolutionJson = edgeCommand[c].resolutionJson
      BY <2>2, <2>3, <2>4 DEF Follows
    <2>5. CASE \E a \in AckSlots : AckUpdate(a) /\ ResolutionLands(a) /\ acks[a].command = c
      <3>1. PICK a \in AckSlots : AckUpdate(a) /\ ResolutionLands(a) /\ acks[a].command = c
        BY <2>5
      <3>2. Matches(a)
        BY <3>1 DEF Matches
      <3>3. edgeCommand'[c].state = Outcome(acks[a].told) /\ edgeCommand'[c].resolutionJson = acks[a].told
        BY <3>1, AckRow
      <3>4. log \in Ids
        BY <2>1, EdgeAssumption DEF Logs, Ids, EdgeInv, TypeOK
      <3>5. printLog'[log].status = Projected(edgeCommand[c].kind, acks[a].told, printLog[log].status)
        BY <3>1, <3>2, <3>4, AckLog
      <3>6. acks[a].told \in {"cancelled", "already_cancelled"} => edgeCommand[c].kind = "cancel"
        <4>1. OfItsKind(c) /\ NodeToldTruth(c) /\ acks[a].told = resolution[c]
          BY <1>3, <3>1, <3>2, MatchedAsStored DEF EdgeInv, RowsSound
        <4> QED BY <1>3, <4>1 DEF OfItsKind, NodeToldTruth, None
      <3> HIDE DEF log
      <3> QED BY <2>2, <3>3, <3>5, <3>6 DEF Follows, Projected
    <2> QED BY <1>3, <2>4, <2>5, RowMoves
  <1> QED BY <1>1, <1>2, <1>3

(* An accepted print is not "queued" in the history, nor a refused one        *)
(* "queued" or "accepted", nor a cancelled one (acknowledgeEdgeCommand writes *)
(* both in one batch).                                                        *)
THEOREM HistoryFollows == Spec => []HistoryFollowsResolution
  <1> DEFINE Inv == EdgeInv /\ \A c \in Ids : Follows(c)
  <1>1. Init => Inv
    <2> SUFFICES ASSUME Init PROVE \A c \in Ids : Follows(c)
      BY EdgeInvInit
    <2> QED BY DEF Init, Follows, NoRow, None
  <1>2. Inv /\ [Next]_vars => Inv'
    <2> SUFFICES ASSUME Inv, [Next]_vars PROVE EdgeInv' /\ \A c \in Ids : Follows(c)'
      OBVIOUS
    <2>1. EdgeInv'
      BY EdgeInvStep
    <2> QED BY <2>1, FollowsOn
  <1>3. Inv => HistoryFollowsResolution
    BY DEF Follows, HistoryFollowsResolution
  <1> QED BY <1>1, <1>2, <1>3, PTL DEF Spec

(* What the node stored stays stored, a job there is stays, and so does its end. *)
LEMMA NodeMoves ==
    ASSUME EdgeInv, [Next]_vars
    PROVE  /\ \A c \in Ids : resolution[c] # None => resolution'[c] = resolution[c]
           /\ \A k \in Attempts :
                /\ job[k].state # "absent" => job'[k].state # "absent"
                /\ job[k].state \in FinalJobStates => job'[k].state = job[k].state
  <1>1. CASE \E s \in PollSlots : Receive(s)
    <2>1. PICK s \in PollSlots : Receive(s)
      BY <1>1
    <2>2. polls[s] # Idle /\ polls[s].got # {} /\ UNCHANGED edgeCommand
      BY <2>1 DEF Receive, serverVars
    <2>3. polls[s].got \in SUBSET Handouts
      BY <2>2 DEF EdgeInv, TypeOK
    <2>4. PICK h \in polls[s].got : h = First(polls[s].got)
      BY <2>2, <2>3, FirstIsOneOf
    <2>5. PICK c \in Ids : c = h.command
      BY <2>3, <2>4 DEF Handouts
    <2>6. c <= made
      BY <2>2, <2>5 DEF EdgeInv, PollsSound
    <2>7. CASE resolution[c] = None
      <3>1. Resolve(c)
        BY <2>1, <2>4, <2>5, <2>7 DEF Receive
      <3>2. JobsGoOn /\ \E res \in Resolutions : resolution' = [resolution EXCEPT ![c] = res]
        BY <2>2, <2>6, <2>7, <3>1, ResolveIsTrue
      <3> QED BY <2>7, <3>2 DEF JobsGoOn, EdgeInv, TypeOK
    <2>8. CASE resolution[c] # None
      BY <2>1, <2>4, <2>5, <2>8 DEF Receive
    <2> QED BY <2>7, <2>8
  <1>2. CASE \E k \in Attempts, st \in FinalJobStates : JobEnds(k, st)
    <2>1. PICK k \in Attempts, st \in FinalJobStates : JobEnds(k, st)
      BY <1>2
    <2>2. /\ job[k].state = "accepted" /\ job' = [job EXCEPT ![k].state = st] /\ UNCHANGED resolution
      BY <2>1 DEF JobEnds
    <2>3. st # "absent" /\ "accepted" \notin FinalJobStates
      BY DEF FinalJobStates, JobStates
    <2> QED BY <2>2, <2>3 DEF EdgeInv, TypeOK
  <1>3. CASE /\ ~ \E s \in PollSlots : Receive(s)
             /\ ~ \E k \in Attempts, st \in FinalJobStates : JobEnds(k, st)
    <2>1. UNCHANGED <<resolution, job>>
      BY <1>3 DEF Next, vars, nodeVars, PrintRead, PrintBatch, LosePrint, Retry, Cancel, Expire, DeviceActs,
            DeviceAction, Renumber, PollRead, Claim, LosePoll, AckRead, AckUpdate, AckAnswer, LoseAck,
            EventsSend, Ingest, EventsAnswer, LoseEvents, EnqueuePrint, Enqueue
    <2> QED BY <2>1
  <1> QED BY <1>1, <1>2, <1>3

(* The history row of a command that is not there yet says nothing. *)
LEMMA NewRowsSayNothing ==
    ASSUME EdgeInv, [Next]_vars, NEW c \in Ids, ~(c <= made)
    PROVE  printLog'[c].status \in {"absent", "queued"}
  <1>1. printLog[c].status = "absent" /\ made \in Nat /\ c > made
    BY EdgeAssumption DEF EdgeInv, TypeOK, RowsSound, Unmade, NoLog, Ids
  <1>2. CASE UNCHANGED printLog
    BY <1>1, <1>2
  <1>3. ASSUME NEW attempt, NEW lab, EnqueuePrint(attempt, lab) PROVE printLog'[c].status \in {"absent", "queued"}
    BY <1>1, <1>3, NewLog
  <1>4. CASE \E a \in AckSlots : AckUpdate(a)
    <2>1. PICK a \in AckSlots : AckUpdate(a)
      BY <1>4
    <2>2. PICK d \in Ids : d = acks[a].command
      BY <2>1, AckFields DEF AckUpdate
    <2>3. d <= made
      BY <2>1, <2>2, AckFields DEF AckUpdate
    <2>4. edgeCommand[d].of \in Logs \/ edgeCommand[d].of = 0
      BY <2>3, HasHistory DEF EdgeInv, RowsSound, OfItsKind
    <2>5. c # edgeCommand[d].of
      BY <1>1, <2>4 DEF Logs, Ids
    <2> QED BY <1>1, <2>1, <2>2, <2>5, AckLog
  <1>5. CASE \E e \in EventSlots : Ingest(e)
    <2>1. PICK e \in EventSlots : Ingest(e)
      BY <1>5
    <2>2. PICK ev \in Reports : ev = Head(ingests[e].todo)
      BY <2>1, FirstReport
    <2>3. UNCHANGED printLog \/ (ev.kind = "job_state_changed" /\ ApplyJobState(ev))
      BY <2>1, <2>2 DEF Ingest, ApplyDeviceResult, Reports, Events
    <2> QED BY <1>1, <1>2, <2>3, JobStateWrites DEF Reports
  <1>6. CASE /\ ~ \E a \in AckSlots : AckUpdate(a)
             /\ ~ \E e \in EventSlots : Ingest(e)
             /\ ~ \E p \in PrintSlots : PrintBatch(p)
             /\ ~ \E d \in Ids : Retry(d)
    <2>1. UNCHANGED printLog
      BY <1>6 DEF Next, vars, serverVars, PrintRead, LosePrint, Cancel, Expire, DeviceActs,
            DeviceAction, Renumber, PollRead, Claim, Receive, LosePoll, AckRead, AckAnswer, LoseAck, JobEnds,
            EventsSend, EventsAnswer, LoseEvents
    <2> QED BY <1>2, <2>1
  <1>7. CASE (\E p \in PrintSlots : PrintBatch(p)) \/ (\E d \in Ids : Retry(d))
    BY <1>3, <1>7 DEF PrintBatch, Retry
  <1> QED BY <1>4, <1>5, <1>6, <1>7

(* What one history row says, and what must be so for it. *)
Truth(c) ==
    LET st == job[edgeCommand[c].attempt].state
        status == printLog[c].status
    IN  /\ status = "accepted" => st # "absent"
        /\ status = "sent" => st = "sent"
        /\ status = "outcome_unknown" => st = "outcome_unknown"
        /\ status = "cancelled" => st = "cancelled"
        /\ status = "failed" => st = "failed_final" \/ resolution[c] \in RejectedResolutions

LEMMA TruthStands ==
    ASSUME EdgeInv, [Next]_vars, NEW c \in Logs, Truth(c)
    PROVE  Truth(c)'
  <1>1. c \in Ids /\ c <= made /\ edgeCommand[c].kind = "print"
    BY EdgeAssumption DEF Logs, Ids, EdgeInv, TypeOK
  <1> DEFINE k == edgeCommand[c].attempt
  <1>2. k \in Attempts /\ edgeCommand'[c].attempt = k
    BY <1>1, RowMoves DEF EdgeInv, TypeOK, Rows
  <1>3. /\ job[k].state # "absent" => job'[k].state # "absent"
        /\ job[k].state \in {"sent", "outcome_unknown", "cancelled", "failed_final"} => job'[k].state = job[k].state
        /\ resolution[c] \in RejectedResolutions => resolution'[c] \in RejectedResolutions
    BY <1>1, <1>2, NodeMoves DEF FinalJobStates, JobStates, RejectedResolutions, None
  <1> HIDE DEF k
  <1>4. CASE printLog'[c].status = printLog[c].status
    BY <1>2, <1>3, <1>4 DEF Truth, k
  <1>5. ASSUME NEW a \in AckSlots, AckUpdate(a), Matches(a), c = edgeCommand[acks[a].command].of,
               printLog'[c].status =
                    Projected(edgeCommand[acks[a].command].kind, acks[a].told, printLog[c].status)
        PROVE  Truth(c)'
    <2>1. PICK d \in Ids : d = acks[a].command
      BY <1>5, AckFields DEF AckUpdate
    <2>2. d <= made
      BY <1>5, <2>1, AckFields DEF AckUpdate
    <2>3. OfItsKind(d) /\ NodeToldTruth(d)
      BY <2>2 DEF EdgeInv, RowsSound
    <2>4. UNCHANGED <<job, resolution>> /\ edgeCommand[d].of = c
      BY <1>5, <2>1 DEF AckUpdate, nodeVars
    <2>5. edgeCommand[d].kind # "device"
      BY <1>1, <2>3, <2>4 DEF OfItsKind, Ids
    <2>6. acks[a].told = resolution[d] /\ resolution[d] # None /\ resolution[d] \in Resolutions
      BY <1>5, <2>1, <2>5, MatchedAsStored DEF EdgeInv, TypeOK
    <2>7. CASE edgeCommand[d].kind = "print"
      <3>1. d = c
        BY <2>3, <2>4, <2>7 DEF OfItsKind
      <3>2. \/ printLog'[c].status = printLog[c].status
            \/ printLog'[c].status = "accepted" /\ Outcome(resolution[c]) = "accepted"
            \/ printLog'[c].status = "failed" /\ Outcome(resolution[c]) = "rejected"
        BY <1>5, <2>1, <2>6, <2>7, <3>1 DEF Projected
      <3>3. Outcome(resolution[c]) = "accepted" => job[k].state # "absent"
        BY <2>3, <2>7, <3>1 DEF Outcome, NodeToldTruth, AcceptedResolutions, k, None
      <3>4. Outcome(resolution[c]) = "rejected" => resolution[c] \in RejectedResolutions
        BY <2>6, <3>1 DEF Outcome, Resolutions
      <3> QED BY <1>2, <1>4, <2>4, <3>2, <3>3, <3>4 DEF Truth
    <2>8. CASE edgeCommand[d].kind # "print"
      <3>1. edgeCommand[d].kind = "cancel" /\ edgeCommand[d].attempt = k
        BY <2>3, <2>4, <2>5, <2>8 DEF OfItsKind, k
      <3>2. \/ printLog'[c].status = printLog[c].status
            \/ printLog'[c].status = "cancelled" /\ resolution[d] \in {"cancelled", "already_cancelled"}
        BY <1>5, <2>1, <2>6, <3>1 DEF Projected
      <3>3. resolution[d] \in {"cancelled", "already_cancelled"} => job[k].state = "cancelled"
        BY <2>3, <3>1 DEF NodeToldTruth
      <3> QED BY <1>2, <1>4, <2>4, <3>2, <3>3 DEF Truth
    <2> QED BY <2>7, <2>8
  <1>6. ASSUME NEW ev \in Reports, UNCHANGED job, ev.kind = "job_state_changed", ev.attempt = edgeCommand[c].attempt,
               printLog'[c].status = mapAgentJobState[ev.state]
        PROVE  Truth(c)'
    <2>1. ev.state \in JobStates /\ ev.attempt = k
      BY <1>6 DEF Reports, Events, k
    <2>2. job[k].state # "absent" /\ (ev.state \in FinalJobStates => job[k].state = ev.state)
      BY <1>6, <2>1 DEF Reports, Happened
    <2> QED BY <1>2, <1>6, <2>1, <2>2 DEF Truth, mapAgentJobState, FinalJobStates, JobStates
  <1> QED BY <1>4, <1>5, <1>6, HistoryMoves

(* Whatever print_log says of a job, the node's job is in that state, or the  *)
(* node refused the command: acknowledgements and events, late, repeated or   *)
(* in any order, never write what was not so (ackProjectionStatements,        *)
(* ingestEdgeEventBatch).                                                     *)
THEOREM HistoryIsTrue == Spec => []HistoryTellsTheTruth
  <1> DEFINE Inv == EdgeInv /\ \A c \in Logs : Truth(c)
  <1>1. Init => Inv
    <2> SUFFICES ASSUME Init PROVE Logs = {}
      BY EdgeInvInit
    <2> QED BY DEF Init, Logs
  <1>2. Inv /\ [Next]_vars => Inv'
    <2> SUFFICES ASSUME Inv, [Next]_vars PROVE EdgeInv' /\ \A c \in Logs' : Truth(c)'
      OBVIOUS
    <2>1. EdgeInv'
      BY EdgeInvStep
    <2>2. ASSUME NEW c \in Logs' PROVE Truth(c)'
      <3>1. c \in Ids /\ edgeCommand'[c].kind = "print" /\ made \in Nat
        BY <2>1, EdgeAssumption DEF Logs, Ids, EdgeInv, TypeOK
      <3>2. CASE c <= made
        <4>1. c \in Logs
          BY <3>1, <3>2, RowMoves DEF Logs, Ids
        <4> QED BY <4>1, TruthStands
      <3>3. CASE ~(c <= made)
        BY <3>1, <3>3, NewRowsSayNothing DEF Truth
      <3> QED BY <3>2, <3>3
    <2> QED BY <2>1, <2>2
  <1>3. Inv => HistoryTellsTheTruth
    BY DEF Truth, HistoryTellsTheTruth
  <1> QED BY <1>1, <1>2, <1>3, PTL DEF Spec

=============================================================================
