# orrn: a verification project

TLA+ models of the parts of orrn where a plant's stock and its labels can go
wrong because several people and machines act at once: dispatching bundles over
the yard and its ledger, shipping against sales orders, counting the yard, the
Edge V1 queue that sends print jobs to a plant's node, and that node's
enrolment, credentials and configuration. TLC checks the models on small
instances; TLAPS proves the most important results for every number of bundles,
dispatches, orders, counts, locations, installations and requests.

## The system

orrn is a multi-tenant program for aluminium extrusion plants: tRPC routers over
SQLite/D1 (`src/packages/server/src/routers`, with helpers in `lib`), a web and a
native client, and an edge agent at each plant (not in this repository). The
server keeps no state between requests; what lives is in the tables. A handler
reads with any number of queries and then writes with one `atomicBatch` (D1 runs
the statements of a batch one after the other, all or none, and batches one
after the other). Between its reads and its batch anything may happen. Whatever
a batch relies on must therefore be in its own `WHERE` clauses; the rows a
batch has written are recognised by the `server_seq` it stamped on them.

| component | state | operations | hard behaviour | what makes it correct |
|---|---|---|---|---|
| stock ledger, `lib/ledger.ts` | `stock_ledger` rows, signed, per bundle and place | pack, void, restore, move, dispatch and opening postings | postings of racing requests; bundles from before the ledger | the balance of every place is what the bundle rows say |
| bundles, `routers/bundle.ts` | `bundle.status`, `location_id`, `current_dispatch_id`, `sticker_stale` | createReceipt, bulkImport, transitionStatus | status changed between read and batch | statuses move by the tables; no stray holds |
| stock, `routers/stock.ts` | `location.active`, `kind`; `bundle.location_id` | move, locations.update, openingBalance | a yard retired under a move | bundles only go to active yards; retired places are empty |
| dispatch, `routers/dispatch.ts` | `dispatch.status`, `deleted_at`, `dispatch_item` | create, add, remove, reserve, unreserve, complete, cancel, softDelete | two dispatches after one bundle; adds and removals that land late | a reserved bundle belongs to one live reserved dispatch; closed dispatches gain nothing |
| packing list, `routers/packingList.ts` | `packing_list`, `packing_list_line` | issued by complete; revised, combined by hand | completion reads the items twice | the list and the load agree |
| edge command queue, `lib/edge-v1.ts`, `routers/spool.ts` | `edge_command`, `print_log`, `edge_event_receipt` | print, retry, cancel, device action; poll, acknowledge, ingest events | lost, repeated and overtaking requests; leases | history tells what the node did; every command is resolved |
| edge nodes and credentials, `lib/edge-v1.ts`, `routers/platform/spool.ts` | `spool_deployment` | enrol, rotate, confirm, revoke | lost answers; requests on either side of a revocation | a node is never stranded; a revoked node stays revoked |
| sales orders, holds, reallocation, `routers/salesOrder.ts`, `routers/orderFlow.ts`, `lib/orderHold.ts`, `lib/reallocate.ts` | `sales_order`, its lines, `dispatch_item.sales_order_line_id`, `bundle.held_for_line_id` | create, confirm, update, close, cancel, hold, release, reallocate | customers change while links are made; two loads complete against one line | nothing leaves beyond kg and tolerance unapproved; links and holds are the right customer's and for open orders |
| stock count, `routers/count.ts`, `lib/count.ts` | `count_session`, `count_seen`, `count_line` | start, scan, removeScans, close, cancel, resolve | stock moves while it is counted and between the report and what is done about it | the report is frozen and agrees with its scans; only what is missing is voided |
| approvals, `routers/approval.ts`, `lib/approvalApply.ts` | `approval_request` | ask, decide | an approval applied to what changed since | a request is applied once, to what it was made for |
| purchase, store, document numbers, replay | lots, store items, `doc_series`, audit rows | receive, issue, number, repeat | two draws on one balance; a retry racing its first try | balances stay positive; numbers are unique; a repeat writes nothing |
| ageing, press, foundry, dies | loads, runs, melts, die instances | start, load, finish, draw | collectors that report late | one run per machine; no metal drawn twice |
| sign-in, permissions, backup, reports, portal, clients, shared packages, schema | mostly none of their own | reads, rendering, I/O | little that interleaves | |

Components interact through the tables and through rows other routers guard on:
a completion draws on order lines and frees holds, an approval voids bundles as
`transitionStatus` does, a reallocation renumbers bundles and so makes printed
labels stale, an acknowledged print clears that.

## The modules

| module | what it is |
|---|---|
| `Stock` | bundles, locations, the ledger: receipts, imports, void and restore, moves, location changes, opening balances |
| `Dispatch` | `EXTENDS Stock` with dispatches, their items and packing lists, and the composition of both kinds of request |
| `HoldBook` | the abstract specification `Dispatch` implements: every bundle is in one place at a time |
| `EdgeCommands` | one node's command queue, with the print history and the node's side of the contract |
| `EdgeNode` | one node's row: enrolment, staged rotation, desired configuration, polls, revocation, with the agents that hold its tokens |
| `OrderDraws` | sales orders and what draws on them: linked dispatch items, packed and held bundles, reallocations, overdraw requests |
| `Count` | the stock count: sessions, scans, the frozen report, phantom voids and moves of found bundles, with the yard as far as a count sees it |
| `MCDispatch`, `MCEdgeCommands`, `MCEdgeNode`, `MCOrderDraws`, `MCCount` | instances for TLC |
| `DispatchProofs`, `BookProofs` | theorems about `Dispatch` and their proofs |
| `NodeProofs`, `AppliedProofs` | theorems about `EdgeNode` and their proofs |
| `EdgeProofs` | theorems about `EdgeCommands` and their proofs |
| `CountProofs`, `OrderProofs` | theorems about `Count` and `OrderDraws` and their proofs |
| `NaturalLemmas` | least and greatest naturals, least sets, sums over finite sets: what stands in for induction |

`Dispatch`, `OrderDraws` and `Count` all know bundles and dispatches, each with the detail its own
hazards need. What one of them keeps as single steps (the reservation of a dispatch in
`OrderDraws`, its completion in `Count`) is interleaved in the other.

### Stock and Dispatch

A request in flight is a slot: `request[r]` for the yard's procedures,
`pending[q]` for the dispatch router's. `Read...` is everything a handler reads,
with its early returns as guards; it stores what the handler will use later.
`Batch...` is the atomic batch, and it has only the guards the statements have:
`StillMoves` is `dispatchInStatus`, `DispatchIsHeld` is `dispatchIsHeld`,
`TransitionLands` is the status predicate of `transitionStatus`, `Movable` the
conditions of `moveRows`. Where a handler reads twice (`complete` reads the items
again for the packing list) there are two read steps. `Fail` and `Drop` end a
request without a write: a rule outside the model refused it (ageing, holds,
capacity, overdraw), or its worker died. Operators shared by handlers have the
names of the code (`releaseAllHolds` is `ReleaseAllHolds`).

The ledger is modelled by what it adds up to: `balance[b][p]` is the sum of the
postings of bundle `b` at place `p` (a location, or none), in grams, so every
`...Rows` operator of `ledger.ts` is the change it makes. `Projection` is the other side
of the invariant: what the bundle row says the balance should be. `Legacy` are
bundles that exist before the ledger: they have a row and no postings.

Not in these two modules: labels and their layout, `setItemGroupLabel`; the customer of a
dispatch, `linkItem` and order lines (they are in `OrderDraws`); truck rules, `locations.create` (locations exist from the start), packing
lists other than the one `complete` issues. The voids an approved request makes
(`approvalApply.ts`) have the effect of `BatchTransition`. A retry
after an abort on a duplicate item is a new read.

### EdgeCommands

The server's rows: `edgeCommand` (`edge_command`), `printLog`, `receipts`
(`edge_event_receipt`), and of the bundle the one flag `stickerStale`. The model
has one node, one bundle and one version of the label template, so the job key
(`bundle:<serial>:label:v<n>:attempt:<k>`) is the attempt number; the content of
the label is a generation, `label`, that `Renumber` increases. Every request is a
slot again: `printing`, `polls`, `acks`, `ingests`. A poll reads its candidates and then
claims them one UPDATE at a time; an acknowledgement reads the command, writes one
batch, and is answered from a second read; an event batch is applied one event per
atomic batch. `LosePoll`, `LoseAck`, `LoseEvents`, `LosePrint` drop a request at any
point, before or after what it wrote.

Every successful claim draws a new lease id and counts `delivery_count` up by one
in the same UPDATE, so the model names the lease by the count.

The node is modelled from the contract that the server's code, its schemas
(`src/packages/edge-runtime`) and the design (`src/docs/superpowers/specs/2026-10-26-orrn-edge-agent-design.md`,
sections 6.3, 6.4, 7.3 and 8) rely on: it stores the resolution of a command with the job and
its event in one transaction, never resolves a command twice, acknowledges a delivery
until it is answered, and sends its outbox in order until it is acknowledged.
These definitions are marked external in the map.

Abstractions: the reads of one print request are one step; an event's rows are
looked up in the step of its batch (a history row inserted between the two was
not there when the event was applied, as if it had been inserted after); an acknowledgement under a stale
lease and an empty poll write nothing and are left out; `device_open`, `transmitting` and
`failed_retryable` are one job state with `accepted`, since the history maps all four to
`accepted`; `test_print` behaves like a device action without a result event;
`success`, a status no edge job reports, is left out. Not modelled: `offline_reprint`, `config_applied` and
`printer_endpoint_verified` events, the node's row that a poll updates, `createJob`'s own
keys, printing counters.

### EdgeNode

`deployment` is the node's row of `spool_deployment`; a credential is its version
with its secret (the row's hash and wrapped form together), and a secret, a token
and a printer list are the number of their drawing. `agent[i]` is what
installation `i` keeps in its store: active and staged credential, the applied
configuration version and its printers. The slots are requests again: `enrols`,
`confirms`, `polls`, `stages`, each with a phase per database access, so that
between an authentication and the update it allows, or between a read and its
compare-and-set, anything may happen. A poll's slot goes on to the fetch of the
configuration that its answer announces.

A request is `awaited` until its agent gives up (a timeout, a restart, a lost
answer); from then on the server still carries it out, at any later time, and
nobody reads the answer. So late polls report old versions, and a confirmation
may be carried out after the agent has sent another.

An administrator's request reads the row, refuses a revoked node and writes by id
alone. Every node was once not revoked, so the read of a request that was slow
enough has always been in time: those writes are single steps that may come at
any moment. A rotation is two steps, because its write compares with what it
read. `ConfigApplied` is the event that repeats what a poll reports.

Abstractions: the two parts of one step are never interleaved where the second
only reads (a poll's answer and the decision to fetch). An `EnrolSlots` slot carries one request ever, and
tokens are issued only before a node is set up; both bound the instance. Not
modelled: the merge of one printer's settings into the list
(`routers/spool.ts:217`; the list is one value), the push of a label template
(it only raises the version), the replay cache, the secrets of nodes before V1,
the company's status.

### OrderDraws

Requests in flight are slots with a `Read...` step and a `Batch...` step, as in `Dispatch`. Completion has
six: `ReadComplete`, `Suggest` (what `relinkOpen` reads and picks; without a pick it writes nothing and
goes on), `Relink` (its statements, a batch of their own), `Measure`
(`dispatchOverdraw` and the holds it will end), then `BatchComplete`, or
`AbortComplete` where `Landing` does not hold; a refused one ends in `BatchRefuse`
(`refuseOverdraw`). `Landing` is the guards of the completing UPDATE and nothing else:
the status, `OverdrawGuard`, `UnlinkedWithOpenLine`, pending reallocations, and holds for other customers.

Confirming, closing and cancelling an order, hold and release, `linkItem`, and the decisions of approvals are
single steps, because their batches repeat every condition they read;
`reserve`, `unreserve` and `cancel` of a dispatch are single steps because their races are
`Dispatch`'s subject.

Abstractions: one section of profile and one line per order; one tolerance for
all customers, in basis points as in the code, with the integer division of `lineLimitG`; which of several
open lines `suggestLines` picks (by age and balance) is left open; so is whether taking a bundle
from plant stock needs an approval (it depends on who made it). `Based` are the orders whose line has a quantity
basis, whose kg may not be set below what has left; an edit that gives a line its first basis, and is asked the
same, counts as an edit of a line without, so the model allows more there than the code. `MaxAsks` bounds the overdraw requests of a dispatch,
`MaxVersion` the versions of an order that are edited (later ones are not told apart), and `Asked` the optional operations an
instance includes. Left out: soft deletion, truck capacity, ageing, the
renumbering of a party's bundles, press plans, repricing.

### Count

What is newer is decided by numbers: a request draws the company's next sequence and stamps
its rows with it, later, in its batch. So every operation that is compared has a
`Read...` step that reads and draws and a `Batch...` step that writes, and rows are
written in another order than their sequences. A request whose batch is refused
stays in its slot: all it leaves is a gap, as a request whose worker died does, so it
needs no step of its own. What draws no sequence that is ever compared
(`CancelCount`, `RemoveScan`, the request for a void) draws none here.

`Post` is what a batch leaves in the ledger as far as counts see it: the highest
sequence per bundle. `changed[c]` is a history variable: the bundles that requests drawn after the close of
`c` have posted.

Abstractions: one code per scan, and codes that name no bundle or several are left
out (they write rows nobody compares); all bundles are on the ledger; all yards
are active; the running tally and the totals of the report are left out, as are
the caller's confirmation of unscanned bundles and repeated requests
(`clientRequestId`). `Reserve` and the transition to dispatched are the dispatch
router as a count sees it. `MaxSeq` bounds the sequences drawn.

## The checks

Every run's bounds are small because the interesting cases need few actors: two
requests are enough for one to land between the reads and the batch of the other,
and two bundles (or commands, dispatches, orders, counts) for one to be treated differently from the other.
Systems of requests may stop (users need not ask for anything), so deadlock is not
checked.

| run | bounds | shows |
|---|---|---|
| `dispatch_races` | 2 bundles, 2 dispatches, 2 dispatch requests | `TypeOK`, `NoStrayHold`, `StatusMovesFollowTheTables`, `ClosedDispatchGainsNoStock`, `KeepsTheBook` |
| `dispatch_and_yard` | 1 bundle (legacy), 2 locations, 2 yard requests, 1 dispatch, 1 dispatch request | `LedgerMatchesProjection`, `BundlesGoToActiveYards`, `StatusMovesFollowTheTables`, `KeepsTheBook` across both routers |
| `order_links` | 1 bundle, 2 orders, 2 customers, 1 dispatch, 2 requests; everything that changes a link, a hold or a customer | `TypeOK`, `LinksAreTheCustomers`, `HoldsAreForOpenOrders` |
| `order_kg` | 2 bundles of 1 kg, 1 order of 1 kg, 2 dispatches, 2 requests, 1 overdraw request per dispatch; linking and cancelling | `KgLeavesWithinLimit`, `LeftCountsUntilTakenOff`, `KgMeetsTheOrder`, `AsksStand` |
| `stock_count` | 1 bundle, 2 yards, 2 counts, 2 requests, 5 sequences | `TypeOK`, `ReportMatchesScans`, `RequestsAreAwaited`, `ReportIsFrozen`, `VoidedWereMissing` |
| `edge_history` | 2 commands (print, retry, cancel), one request of each kind in flight | `TypeOK`, `HistoryTellsTheTruth`, `HistoryFollowsResolution`, `HistoryNeverFallsBack` |
| `edge_redelivery` | 1 print or device command, 3 deliveries, a renumbering, 2 polls and 2 acknowledgements in flight | `LeasesDoNotOverlap`, `HistoryFollowsResolution`, `StickerClearsOnAcceptance` |
| `edge_delivery` | 1 print, 3 deliveries, 2 acknowledgements in flight, fair | `EveryCommandIsResolved`, `OutcomeReachesHistory` |
| `edge_node` | 2 installations, 2 tokens, 2 requests to enrol, 2 rotations and 2 confirmations in flight, 1 poll, 2 secrets, 1 change of the printers | `TypeOK`, `NeverStranded`, `OneInstallation`, `AppliedMeansApplied`, `StagedSecretStands` |

The one bundle of `dispatch_and_yard` is a legacy bundle, so it is not packed there: that a receipt
lands in an active yard only is `OnlyActiveYardsGain`. In `order_kg` either bundle alone fills the order, so the second completion always
overdraws it: it has to be refused, approved, or shipped without the link. Two bundles and
two dispatches are the least for that, and `order_links` needs only one
bundle because links and holds of different bundles do not meet. In `order_kg` nothing is removed and
no order closes, so the premise of `KgLeavesWithinLimit`, that all that has left against the line is still counted at an item
(`Uncounted`), always holds; the theorem covers removals and closings too. With one overdraw request per
dispatch and no edits of kg, the replacement of a pending request by one of other figures (`BatchRefuse`) and kg that change after
the measuring, with the refusal to go below what has left (`Based`), stay outside the runs: adding
either to two dispatches and two requests takes TLC past what a run can afford, and the theorems `AsksAlwaysStand` and
`KgStaysWithinLimit` hold with both. The five sequences of
`stock_count` cover a start, a scan or a move, a close, something that happens
after it, and a decision; what a longer history brings is covered by the proofs.
In `edge_node` one rotation is enough for a confirmation to be lost, repeated
or to meet the write of a second administrator; confirmations that outlive a whole further
rotation need three secrets, and are covered by the proofs.
`MaxDeliveries` bounds how often a command is handed out: the last lease does not run
out and the response that carries it is not lost. A third delivery adds nothing to
two but another stale lease. `MaxCommands` and `MaxLabel` bound what users do.

Fairness (`edge_delivery` only): the node polls every 5 seconds and sends its
events for ever (weak fairness of `PollRead` and `EventsSend`), leases run out (weak fairness of
`Expire`), and requests get through again and again though any of them may be lost
(strong fairness of claims, deliveries, ingestion). The last one is about time: a lease lives 60 seconds and the node
gives a request 10, so again and again an acknowledgement is read and stored
before its lease has gone (`TimelyRead`, `TimelyUpdate`). Dispatch has no liveness property: its
requests are made by people, and no handler retries by itself.

### What the code does not keep

Three runs state what a comment or a message of the code says and end in a counterexample.

| run | said | done |
|---|---|---|
| `late_bundle_listed` | bundles added after our read are not on the packing list | the list reads the items again, later |
| `restore_to_retired` | a retired location is empty | a void bundle is restored into it |
| `overdraw_slips_past` | a race cannot slip past the overdraw guard (`dispatch.ts:2456`) | the guard adds up items, and a removal read earlier takes the item of a bundle that has left |

Deviations without a run, each met in the same models:

* Bundles "can only be removed in draft or reserved" (`dispatch.ts:2231`), but the DELETE of
  `removeBundle` carries no condition on the dispatch, so a removal read earlier takes an item off a completed one.
* The items of a completed dispatch and its packing list can therefore differ
  (`lib/dispatchFigures.ts` says they are equal).
* `locations.update` retires a location without the emptiness check if it read the location as
  retired and someone brought it back into use in between (`stock.ts:165`).
* A print refused as `job_key_conflict` is marked failed, and the events of the
  other job with that key then overwrite the row (`edge-v1.ts:1527`).
* The result of a device action replaces the stored resolution, so a repeated
  acknowledgement is answered without one (`edge-v1.ts:1590`).
* An acknowledgement whose lease was renewed between its read and its batch stores nothing
  and is answered as if it had (`edge-v1.ts:1306`); the command is delivered and
  acknowledged again, so nothing is lost.
* A poll that was authenticated before its node was revoked sets the row's status back to
  `active`; its update has no condition on the status (`edge-v1.ts:949`).
* An administrator "may cancel the pending rotation" (design, section 5.3); no operation does,
  and rotating again returns the secret already staged.
* A removal read on a draft whose DELETE lands between the two reads of a
  completion ships the bundle without an item and without a line on the list.
* A retry counts the attempt on from the row it retries (`edge-v1.ts:778`) while a print counts on
  from the latest (`edge-v1.ts:753`): two retries of one row, or two prints that read the same latest
  attempt (`spool.ts:681`), share attempt and job key.
* A bundle's label is stale until it is printed again (`reallocate.ts:329`), but the acceptance of any of
  its labels clears the flag, one frozen before the renumbering included (`edge-v1.ts:1170`).
* Order lines "can only be changed before the dispatch completes" (`dispatch.ts:1850`), but the second half of `relinkOpen`'s batch
  (`dropStaleSuggestions`, `dispatch.ts:747`) does not look at the dispatch: of two completions of one dispatch that picked a line for the same item, the
  second, read before the first landed, drops the link of what has left if the order has been closed since.
* The completing UPDATE judges holds by the customer that was read (`dispatch.ts:2536`): if the dispatch is
  unreserved, given to another customer and reserved again meanwhile, a bundle held for a
  third party leaves.
* A hold placed after the completion has read which holds it will end stays on the dispatched bundle.
* A reallocation within a customer checks that the other order is open when it reads; its batch only looks at
  the bundle (`orderFlow.ts:1065`). So an order cancelled in between, which only an order nothing is packed for
  can be (`orderHasWork`), is given a bundle after all. Nor does the batch ask whether the bundle was
  put on a draft since, or whether the other order is still the same customer's.
* `salesOrder.update` looks at what has left only of lines with a quantity basis (`salesOrder.ts:645`) and only when
  it reads, so the kg of such a line can be lowered below that by a completion that lands in between, and the kg of
  any other line at once.
* A scan lands whether or not a reallocation of the bundle was asked for since its read.
* An overdraw request can be made for a dispatch that has been cancelled between the measuring and the request;
  it stays pending until somebody decides it.
* A scan and a move draw their sequences in one order and may write in the other: the report then takes the
  older sighting for the newer fact (`count.ts:288` of `lib`), and a bundle moved into a counted yard by
  a request older than the start is reported missing.
* `move_found` leaves alone what changed since the count by comparing the place
  (`count.ts:957`): a bundle moved away and back is moved again.
* A phantom whose two moves, away and back, were both under way when the count closed is voided on approval.

## The proofs

Checked by TLAPS for every value of the constants; first, under `StockAssumption` and
`DispatchAssumption` (the null values are no ids, weights are naturals):

* `DispatchProofs!TypeCorrect`: `Spec => []TypeOK`, one lemma per kind of step. The reads
  need that what a slot holds is well typed (`PendingFields`, `StockRequestFields`).
* `DispatchProofs!HoldsAreSound`: `Spec => []NoStrayHold`. The statuses and holders of bundles
  are not enough by themselves: a void or restore in flight may carry any pair of
  statuses it read, so the inductive invariant `HoldInv` adds that every such
  request is a transition of the table (`TransitionsAreAllowed`), none of which touches
  a reserved or dispatched bundle.
* `DispatchProofs!ClosedDispatchesGainNothing`: the action property, from the same
  invariant and the guard each batch carries.
* `DispatchProofs!StatusesFollowTheTables`: the action property, from `HoldInv` with `DeletedExist` (only rows
  are deleted, so a dispatch being created is none of them).
* `DispatchProofs!OnlyActiveYardsGain`: the action property; an imported bundle
  has no place, and receipts and moves read the yard again in their batch.
* `BookProofs!DispatchImplementsTheBook`: `Spec => KeepsTheBook`, the refinement of `HoldBook`
  under the mapping `where`/`stage` given in `Dispatch`: each batch is one operation of the book or a stutter.
* `BookProofs!LedgerIsTheProjection`: `Spec => []LedgerMatchesProjection`, from the inductive
  invariant that every balance is what is due (`Due`), proved posting by posting.

And under `EdgeNodeAssumption` (the null installation is none; the bounds are numbers), for
any sets of installations and slots and any bounds, so also for any number of rotations:

* `NodeProofs!TypeCorrect`. Applied and fetched versions range over the versions there have
  been, so this also says that none is newer than the row's; it rests on the
  version never falling (`VersionsStay`).
* `NodeProofs!NobodyStranded` and `OnlyOneInstallation`, from the inductive invariant `NodeInv`. That
  an agent keeps an accepted credential is not inductive by itself: a promotion
  might promote what the agent has dropped, an answer might replace what it
  needs. `NodeInv` adds that everything agents and requests hold is `Known` (older than
  the active credential, or the active one, or the staged one), that what an
  agent signs with was active, that a confirmation that can still promote is of a secret its
  agent keeps, that a fetched configuration has no older secret than its agent,
  and that an installation about to be answered is the row's, not yet enrolled
  and so cannot be overtaken by a promotion.
* `NodeProofs!StagedStands`: the action property, from the two compare-and-sets.
* `AppliedProofs!AppliedIsApplied`, from `AppliedInv` on top of `NodeInv`: reports never exceed
  what the agent has, fetches never fall behind it, and whatever is at the current version is `Fresh`.

Under `CountAssumption` (the null place is no yard), for any bundles, yards, counts and requests in
flight, from the inductive invariant `CountInv`: `TypeOK`, `ReportMatchesScans` and `RequestsAreAwaited`
with `OnlyClosedReport` (only a closed count has lines, requests and a past),
`RequestedArePhantoms` (what waits for a void is a phantom, so a move never takes
a line away from a request) and `ChangesShow` (a posting by a request drawn after the close
shows in the ledger for good, however late older ones are written):

* `CountProofs!CountTypeCorrect`, `ReportAgrees` and `RequestsAwaited` are parts of it.
* `CountProofs!FrozenReport` and `VoidsOnlyTheMissing`, action properties: the lemmas `ReportTouched`, `Decides` and
  `Approves` say which steps touch a closed report at all, and `ChangesShow` makes
  `StillPhantom` of the approving batch mean that nothing was posted since.

Under `OrderAssumption`, from `OrderInv`: what the slots carry, and

* `OrderProofs!LinksStayTheCustomers`: `LinksAreTheCustomers` is inductive with `LinksAreOfItems` (a link
  is of a listed item and an order that exists) and `RowsHaveCustomers`; a change of customer is
  only possible where `HasLinks` or `NoLinks` leaves nothing to break, judged again in its batch.
* `OrderProofs!HoldsStayForOpenOrders`: with `HoldsStandBack` (nothing is held before it is packed,
  and what waits for a reallocation is held for its new line at most).
* `OrderProofs!KgAlwaysMeetsTheOrder`: the action property, from the first and `OnlyLandingCompletes`.

`OrderInv` types only what these need, and depends on no weight. `FullInv` adds the types of everything
else and that every dispatch there is has a customer; `LeavingInv` adds that what has left is held by a completed
dispatch. On them:

* `OrderProofs!OrderTypeCorrect`: `TypeOK`. The figures of a refusal are sums over the items of several dispatches;
  that they are naturals is `KgIsNatural`.
* `OrderProofs!AsksAlwaysStand`: the action property, one lemma for all steps (`OverdrawsMove`: the requests of a dispatch
  are appended to, or a pending one changes its status).
* `OrderProofs!LeftAlwaysCounts`: what is dispatched stays with its line and holder (`DepartedStay`), and the items of a completed
  dispatch keep their links until they are taken off, unless their order is no longer open (`CompletedStay`, from
  `RelinkOutcome`: what the batch of a late `relinkOpen` may still change, see the deviations above).
* `OrderProofs!KgStaysWithinLimit`: what will have left when a completion lands is among the items that `OverdrawGuard` adds up
  in the same batch (`LandingLeaves`, `LandingStaysWithinTotal`), so it is at most the `Total` the guard allows. The premise
  `Uncounted(o)' = {}` is needed: `overdraw_slips_past` shows a line overdrawn after an item of a completed dispatch was removed.
  `LeftAlwaysCounts` says how a bundle can come to be uncounted: its item is taken off, or its order has closed.

Under `EdgeAssumption` (the bounds are numbers), for any number of commands, labels, deliveries, events and requests in flight,
from `EdgeInv`: types; every command is about what its kind asks for and is resolved as the node stored it (`RowsSound`); what
requests in flight name exists, and what an acknowledgement tells was stored (`PrintsSound`, `PollsSound`, `AcksSound`); every event, in the
outbox or on its way, happened (`EventsSound`). `Onward` collects what no step takes back (a resolution, the
kind of a command, the end of a job), which keeps the rest alive for the rows a step does not touch:

* `EdgeProofs!TypeCorrect` and `LeasesExclude`, an action property: the claim repeats its condition, so a poll that read a command as a
  candidate takes nothing that has been leased since.
* `EdgeProofs!HistoryMovesOn`: from the guards of every statement that writes the history.
* `EdgeProofs!HistoryFollows` (`HistoryFollowsResolution`) and `HistoryIsTrue` (`HistoryTellsTheTruth`): inductive on top of `EdgeInv`, command by
  command (`Follows`, `Truth`). They need more than the guards: that a cancel names the print whose attempt it
  carries, that the node ends a job once, and that an event that arrives late is about a job that is still as it says.
* `EdgeProofs!StickerStaysUntilTaken`: only the recording of an acceptance, first or repeated, clears the flag.

The provers have no induction over data, but least counterexamples do as well: `NaturalLemmas!LeastNatural` follows from the well-founded
order on the naturals, and gives the least index of a sequence or, by cardinality, a least set (`LeastSet`) at which a statement about
recursively defined sums or sequences fails. In this way the sums of kg (the library's `MapThenSumSet`) are shown to be natural, independent of
the order in which items are added, and monotone (`AddsNaturals`, `AddsAny`, `AddsMonotone`), and the node's outbox to
keep the order of what it has not yet been answered (`Without`).

Only model-checked: the liveness properties `EveryCommandIsResolved` and `OutcomeReachesHistory`, since liveness under fairness
is beyond the prover. Every other property of a passing run is a theorem.

## The plan

Done: `Stock`, `Dispatch`, `HoldBook`, `EdgeCommands`, `EdgeNode`, `OrderDraws` and `Count`, each with the proofs of its
safety properties. Next, in this order:

1. `OrderDraws`: an abstract account of kg per line that it implements (what has left only grows, and only within the limit or an approval),
   in place of the premise of `KgLeavesWithinLimit`.
2. `EdgeNode`: liveness of enrolment and rotation (a staged secret is confirmed in the end if the agent keeps polling),
   enrolment again after the agent lost its store, the merge of printer settings with their profiles.
3. `LedgerTime`: posting times, the lock date and balances as of an instant.
4. `Replay`: a retried floor write and its first try (`lib/requestReplay.ts`), as part of the dispatch requests.
5. `OrderDraws`: requests for several bundles, orders with several lines.
6. Ageing, press runs, foundry draws, die instances, purchase lots, store.

## Not modelled

Planned above: ageing, press, foundry, dies, purchase lots, store, request
replay. They are state machines of their own over other tables, and each is as large as
what is modelled here.

Left out for good, with the reasons in `PROJECT.json`: clients, reports, backups,
cryptography and packaging, sign-in and permissions.
