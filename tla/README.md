# HSNT WMS: a formal model of the warehouse backend

This directory is a verification development of the WMS backend in
`src/backend/src` (NestJS services over Prisma and PostgreSQL). It holds TLA+
modules translated from the services, TLC configurations that check them on small
instances, and theorems about them that TLAPS proves for every instance.
`PROJECT.json` maps each definition to the source lines it stands for.

## 1. Inventory

The system is a web backend with one database. Users act through HTTP handlers; a
handler reads some rows, checks them, and writes in one interactive transaction at
READ COMMITTED. There is no queue, no event bus and no background worker that
moves stock, so the *actors* are concurrent handlers, and the *shared state* is the
database. The transactions protect themselves in three ways:

- **guarded updates**: `updateMany({where: {id, status: {in: from}}})` and a count
  check (`transitionStock`, `claimTaskStatus`, the "claim" in every decision). The second
  of two racing handlers matches no row and throws;
- **row locks**: `SELECT ... FOR UPDATE`, with `SKIP LOCKED` when stock is reserved;
- **unique keys**: one open task per request (a partial index), one shipment per
  task, one usage row per request and unit.

What is hard in such a program is what these three do *not* cover: values read
before the transaction and used inside it, checks made against one row while another
is written, writes without a guard, aggregates computed from rows that a concurrent
transaction is changing, and claims on a shared pool that do not say for whom.

| Part (`src/backend/src/...`) | State it keeps | Operations | Hard behaviour | What makes it correct |
|---|---|---|---|---|
| Stock rows: `common/stock-state`, `inventory/inventory-orchestration` | `StockItem` status, quantity | transition, split, reserve, release, issue | splits and releases inside larger transactions | quantity conserved; a row is committed to one task |
| Requests: `requests` | `WithdrawalRequest` status, item link, `quantityIssued` | submit, approve (legacy: reserve), reject, cancel, recoverStalled | cancel racing allocation and dispatch; re-opened requests; the shared approval pool | nothing stays reserved for a closed request; nothing issued is undone |
| Fulfillment: `fulfillment` | `FulfillmentTask`, its items, `Shipment`, `PackingSession` | allocate, pick, pack, ship, deliver, hand over, exception, release and cancel | every pair of handlers on one task; re-allocation after a cancel; short and zero picks | only picked goods leave, once, in the picked quantity |
| Stock administration: `inventory`, `adjustment`, `transfer` | `StockItem`, documents | manual status, repair of stuck reservations, adjust, relocate | repair decides outside its transaction | no live reservation is touched |
| Cycle count: `cycle-count`, `common/count-lock` | sessions, lines, a lock derived from them | create, count, submit, approve, recount, cancel | stale session status; movements that pass the lock; conflict recovery racing closure | what is reviewed was counted; an approved count leaves the books right |
| Approval engine: `approval` | rules, instances, steps | start, ensure one chain, decide | concurrent starts; a decision whose document step fails | at most one live chain; SoD; no approval without the last step |
| Returns: `rma`, `unused`, `putaway`, `common/issued-units`, `common/shipped-unit-resolver` | `IssuedUnitUsage` rows | confirm usage, process returns, put away | completion computed from rows that change beside it; units issued again | every issued unit is settled once and its request completes |
| Cases: `rtv`, `doa`, `scrap`, `warranty` | RTV and scrap cases | open/advance/close cases, replace, dispose | nearly any status may follow any other; checks before the transaction | one open case per unit; one replacement per case; scrap takes what was approved |
| Receiving: `receiving`, `putaway`, `common/serial-guard` | receipts, lines, discrepancies | create, inspect, verify, reverse, put away | reversal racing cases over the same units; serial re-use | a serial is active once; a reversed receipt leaves nothing |
| Scanning: `scan` | `ScanEvent` | resolve, workflow scans, offline batch | replay: check before, record after the effect | an effect happens once per client scan; a device gets one answer |
| Planning: `planning` | projects, scenarios, runs, templates | edit, calculate, submit, decide, reopen, archive; save, confirm, retire, remove | long computations; guarded and unguarded writes on one row | what is approved is what was checked and calculated |
| Planning engines: `planning/engine`, `mrp`, `sla`, `dashboard`, `reports` | none | computations over queried data | - | arithmetic against a definition |
| Live updates: `realtime`, `rbac/permission-cache`, `auth/strategies`, and in `src/frontend` `use-realtime`, `floor-plan` | connections, rooms, cached permissions, timers, requests | connect, re-check, emit, debounce, poll, refresh | lost events, stale caches, answers that overtake each other | a page becomes current; a revoked user is disconnected |
| Master data and security: `products`, `company`, `warehouse*`, `master-data`, `auth`, `roles`, `users`, `audit`, `settings` | reference data, sessions, permissions | CRUD, login, guards, retention | mostly validation and lookups | checked by tests |
| Interfaces: `dataio`, `documents`, `labels`, `notifications`, `prisma`, `config` | files | import/export, printing | I/O | out of a model's reach |

Cycle counts, transfers, adjustments and direct edits of stock (manual status, repair of stuck reservations) are
*retired*: their write endpoints answer 410 unless `ENABLE_STEP5_LEGACY=true` (`common/retired.ts`), and so are COUNT,
TRANSFER and ADJUST scans. `CycleCount`, and what `Outbound` models of such edits (`SetStatus`, `BeginRepair`, `ReadLinks`,
`CheckTask`, `WriteRepair`), therefore need that flag; `ManualHolds = {}` with `Repair = {}` is the deployment without it.

The web and mobile clients (`src/frontend`, `src/mobile`) hold no state that two actors share, apart from pages that
keep themselves current. The SQL seeds and the earlier Python prototype (`src/app`, `src/Requirement`) hold none.

How the parts meet: outbound, returns, receiving, cases and counts change the same `StockItem` rows, always through the
guarded `transitionStock`, which names the statuses it starts from. Those statuses are what one part promises the other:
outbound takes only `AVAILABLE`, put-away makes it, receiving and returns end where put-away begins, and cases take what
is on hand and uncommitted. `Returns` is composed with the whole of `Outbound`; `Receiving`, `CycleCount` and `Scanning`
see the others through the few steps these statuses allow (`Issue`, `Consume`, `ComeBack`, `Defective`, `Split`; `ReleaseRow`,
`Ship`, `ReturnRow`; `ComesBack`).

## 2. Modules

| Module | What it is |
|---|---|
| `StockRows` | The stock table: `stat` and `qty` per row, and the writes handlers chain (`Transition`, `Release`, the split operators). |
| `Outbound` | Requests, reservation, tasks, shipments, repairs. One action per handler. |
| `StockLedger` | Abstract: units are free, held for one request, or issued to it, once. |
| `OutboundLedger` | `Outbound` under a refinement mapping to `StockLedger`. |
| `MCOutbound` | Instances for TLC. |
| `OutboundProofs` | Theorems and proofs about `Outbound`. |
| `ApprovalChain` | Abstract: what the approval engine promises of the chains of one document. |
| `Approval` | One request and the handlers that approve it through the engine, query by query. Extends `ApprovalChain`, whose variable `chain` it shares, so the refinement mapping is the identity. |
| `Returns` | Usage and returns of issued units, and put-away. Extends `Outbound`: its next-state relation is that of `Outbound` or one of the new actions. |
| `MCReturns`, `ReturnsProofs` | Its instances for TLC, and its theorems and proofs, on top of `OutboundProofs`. |
| `MCApproval`, `ApprovalProofs` | Instances of `Approval` for TLC, and its theorems and proofs. |
| `Receiving`, `MCReceiving`, `ReceivingProofs` | Receipts, inspection, reversal, put-away, and the vendor, DOA and scrap cases over the same units. |
| `CycleCount`, `MCCycleCount`, `CycleCountProofs` | Count sessions, the lock derived from them, and the movements that consult it. |
| `Scanning`, `MCScanning`, `ScanningProofs` | One scan over its four steps, sent again and again. |
| `Planning`, `Templates`, `MCPlanning`, `PlanningProofs` | The review of a project's plan, and the company templates. They share no table: `MCPlanning` runs the one or the other. |
| `Realtime`, `MCRealtime`, `RealtimeProofs` | A live page, its connection and what the server thinks its user may see, with fairness. |

### How `Outbound` corresponds to the code

| Variable | Column |
|---|---|
| `stat[s]`, `qty[s]` | `StockItem.status`, `quantity`; `ABSENT` for an id a later split may use |
| `req[r]`, `link[r]`, `issued[r]` | `WithdrawalRequest.status`; `stockItemId` and `quantityIssued` of its line |
| `task[t]`, `owner[t]`, `ship[t]` | `FulfillmentTask.status`, `requestId`; its shipment (none, created, shipped) |
| `line[t][u]` | the task's item for unit `u`: quantity wanted, quantity picked, `pickedAt` set. `line[t][NoUnit]` is the shortage line without a unit |
| `repair` | what `releaseStuckReservation` has read so far; `crossed` is history, for the properties only: a repair has written over a unit of a live task, or closed a request that has a task |

| Action | Handler |
|---|---|
| `Submit`, `Defer`, `Reject`, `ApproveOnly`, `ApproveAndReserve`, `Cancel`, `RecoverStalled` | `RequestsService` submit, approve, bulkApprove, cancel, recoverStalled |
| `Allocate` | `AllocationService.allocate` |
| `Pick`, `PickRemaining`, `StartPacking`, `CompletePacking` | `PickingService`, `PackingService`; a PICK scan also ends here |
| `Advance`, `SetException` | the task board: `FulfillmentService.advance`, `setException` |
| `CreateShipment`, `Dispatch`, `ConfirmDelivery`, `IssueToRma`, `ReleaseAndCancel` | `DispatchService`, `HandoverService`; a SHIP scan also ends here |
| `SetStatus` | `InventoryService.updateStatus` |
| `BeginRepair`, `ReadLinks`, `CheckTask`, `WriteRepair` | `InventoryService.releaseStuckReservation`: the unit (`inventory.service.ts:201`), the request lines linked to it with their requests (208), the task of each (220), the transaction |

**Atomicity.** A handler whose transaction takes the row locks it depends on, and
re-checks under them, is one action: whatever its pre-checks read outside is checked
again by the guarded write. Two places are not, and the model splits them.
`releaseStuckReservation` makes every check before its transaction, one query after the other, so each query is an action
with anything in between: a task is compared with the status its request had some queries ago. One repair runs at a time, over
the rows of `Repair`. `syncTaskProgress` computes "all lines picked" from what its
transaction sees, so `Pick` may miss a pick that commits beside it and leave the task at
`PICKING`.

**Abstraction.** One product in one warehouse; a request has one line. Rows are
locked with `SKIP LOCKED`, so a reservation may take *any* available rows and may
run short: `Chosen` allows every choice the locks can produce, without an order of rows.
Left out: users, roles and scopes; notes, audit rows, notifications; packing sessions and
cartons beyond the task status they guard; courier data; progress percentages.

**Modes.** `Unified` is `ENABLE_UNIFIED_RESERVATION`. Off (legacy), approval reserves
rows, links the first of them to the request, and allocation later takes "its" rows back from the
pool of all reserved rows no task holds. On, approval reserves nothing.

### How `Approval` corresponds to the code

`Outbound` sees an approval as one guarded update (`Defer`, `Reject`, `ApproveOnly`, `ApproveAndReserve`). With
`ENABLE_APPROVAL_ENGINE` what leads to that update is a sequence of separate queries, without a transaction around
them, and `Approval` models exactly that sequence.

| Variable | Column or value |
|---|---|
| `chain[i]` | the `ApprovalInstance` with the i-th `createdAt` of the document, and its steps; `NONE` before its row is visible |
| `req` | `WithdrawalRequest.status` |
| `made` | creation times taken so far |
| `call[c]` | a running handler: its next query (`at`), the approver and decision, and what it has read: the chain, its step, the duplicates, the outcome |

| Action | Query |
|---|---|
| `Submit`, `Approve` | the handler begins: `submit` (which leaves `ensurePendingInstance` running in the background), `approve` |
| `Look`, `Relook` | `ensurePendingInstance` reads the open instances, oldest first, before and after starting one |
| `Start`, `Insert` | `startApproval`: `createdAt` is taken, then the row becomes visible |
| `Drop` | the extras still pending are cancelled |
| `Check`, `Claim` | `decide`: reads and checks; then the transaction that claims the step and the instance, or rolls back |
| `ReadOutcome` | `getByEntity` after the decision |
| `Apply`, `ApplyFails` | `approve` writes the request if it is still reviewable; legacy approval throws when stock is short |
| `Cancel`, `Restart` | another user cancels the request; the process dies and all handlers with it |

A rule is the list, for each step, of the users whose roles decide it; each chain starts with any of `Rules`, because
rules may be edited between two chains while "in-flight approvals keep the steps they started with". The default step
of a document without a rule is one step open to every user. `Check` is one action although
it runs two queries: the second loads the approver's roles, which the model does not change.

### How `Returns` corresponds to the code

| Variable | Column or value |
|---|---|
| `usage[r][s]` | the `IssuedUnitUsage` row of request and unit, `usage` and `returnStatus` in one: `NONE`, `USED`, `DOA` (for `DEFECTIVE`, too), `PENDING` (`UNUSED` or `WRONG_ITEM`, to come back), `RECEIVED`, `RETURNED_DOA` |
| `call[c]` | a running handler: the request's issued units and usage rows as it read them before its transaction |

| Action | Handler |
|---|---|
| `BeginUsage`, `ConfirmUsage` | `RmaService.confirmUsage`: `loadForUsage` and `issuedUnitsOf`; then the transaction |
| `BeginReturn`, `ProcessUnits` | `UnusedService.returnToStock`, `markDoa`: the reads of `process` and `processUnits`; then the transaction |
| `Throw` | either handler throws and writes nothing |
| `Putaway` | `PutawayService.confirm` |
| `OutboundNext` | any handler of `Outbound`, the handover of a task with nothing picked included |

Both transactions compute the request's new status from usage rows they read under READ COMMITTED. `Views` says what
they may see besides their own writes: the rows that were there when the handler began, because every other transaction
committed after the read, or all that is committed. What they *write* is guarded: the unique key on request and unit (`Unrecorded`),
the claim of pending rows, and the statuses `transitionStock` accepts. `confirmUsage` writes the request's status
without a guard. `Fallback` is what `issuedUnitsOf` returns when nothing was picked: it names units by the lines of the task
or by the link, whoever holds them by now.

Left out: requests confirmed as a whole by older releases (`processLegacy`) and line summaries. The RTV cases that a defective
unit opens are in `Receiving` (`Defective`).

### How `Receiving` corresponds to the code

| Variable | Column or value |
|---|---|
| `stat[u]`, `qty[u]`, `serial[u]` | `StockItem.status`, `quantity`, `serialNumber`: a serial, the text `'N/A'` (`NotAvailable`), which no check takes for one but a disposal and a reservation do, or nothing (`NoSerial`) |
| `receipt[u]` | the receipt whose line made the row; a line makes one row, so the row stands for both |
| `gr[g]`, `source[g]` | `GoodsReceiving.statusEnum`; `sourceRef`: the case that the receipt brings a replacement for |
| `rtv[c]`, `scrap[c]` | `RTVCase` and `ScrapCase`: status (as far as later steps tell), unit, replacement, quantity |
| `call[h]` | a `ScrapService.create` between its checks and its transaction |
| `back`, `reopened` | history: rows that were issued and came back; units of a case that the reversal of its replacement re-opened |

| Action | Handler |
|---|---|
| `Create`, `Inspect`, `Verify`, `Reverse` | `ReceivingService` create, inspect, verify, reverse |
| `Putaway`, `Declare`, `SetStatus` | `PutawayService.confirm`, `DoaService.declare`, `InventoryService.updateStatus` |
| `OpenRtvCase`, `UpdateRtv`, `ReceiveReplacement` | `RtvService` |
| `AskScrap`, `CreateScrap`, `RefuseScrap`, `ApproveScrap`, `RejectScrap`, `Dispose` | `ScrapService` create (two steps) and updateStatus |
| `Issue`, `Consume`, `ComeBack`, `Split` | what outbound and returns do to a unit in between |
| `Defective` | a usage (`rma.service.ts:146`) or a return (`unused.service.ts:155`) of a defective unit: the row waits for the vendor, in stock again with its serial, and a vendor case is opened, neither with a check |

Nothing is assumed of the order in which users set the statuses of a vendor case (`updateStatus` lets nearly any follow any),
nor of the texts they give for a serial: an inspector may correct the serial of a line of several units, and a receipt may
say `'N/A'` for one. Left out: a receipt's discrepancy report, condition notes, locations, the documents; the statuses
in which an inspected receipt may be, which no later step tells apart; the stock status `DAMAGED`, which only a manual change writes.

### How `CycleCount` corresponds to the code

| Variable | Column or value |
|---|---|
| `place[r]`, `book[r]` | `StockItem.status` (available, elsewhere in the building, out) and `quantity` |
| `shelf[r]` | what is really there: what somebody who counts will find |
| `session[s]`, `line[s][r]` | `CycleCountSession.status`; the line: expected, counted, whether a variance is stored (`varies`), counted by, conflict, excluded, recounted (`again`) |
| `how`, of a line or a count | history: the row was on its shelf when it was counted (`"there"`), it was gone (`"away"`), or what was counted is `"stale"` |
| `call[h]` | a handler of `CycleCountService` between its reads and its write, and what it has read: `approve` applies the lines it read, not the lines as they are |
| `mover` | a movement, disposal or adjustment of stock between its look at the lock and its guarded update |

`CreateSession` and `Cancel` are atomic (a lock, a guarded update); `BeginX`/`X` are the two halves of `countLine`,
`submitForReview`, `approve` and `recountConflicts`; `RefuseApproval`/`FlagConflicts` are the end of an approval that finds
conflicts, whose marks are written in another transaction. `Elsewhere` collects the moves that consult no lock, and
`ReturnRow` is goods that come back. One movement is between its look and its update at a time.

Only `submitForReview`, `approve` and `cancel` look at the session's status again when they write. A count may arrive after the
submission or the approval, and a recount opens a session again that was closed since it looked, next to a newer one: all of
this is in the model. A closed session is forgotten as soon as no handler is left that will use it, so there is no bound
on how many counts a warehouse sees. A count is stale in two cases, which `CountCorrects` excepts: the books of the row came to the
quantity the line expects only after it was counted, and a recount gave the line a new expected quantity while the count was
on its way to be written there.

### How `Scanning` corresponds to the code

`event[c]` is the `ScanEvent` with client id `c`, `handler[h]` a running `scan` by its next step (resolve, apply, log,
record), `awaits[w]` whether the unit, line or shipment still waits for the work, `answers[c]` what the device was told.
`Begin`/`Replay`, `Resolve`, `Apply`, `Log`/`LogFails`, `Record` are the steps of `ScanService.scan`; `Crash` stops the
process. That an event exists, that the effect was taken and that the device knows are three facts, and nothing
makes them one: the properties say what still follows.

### How `Planning` and `Templates` correspond to the code

| Variable | Column or value |
|---|---|
| `plan`, `approved`, `submitter`, `reviewer` | `PlanningProject.planStatus`, `approvedRunId`, `submittedById`, `reviewedById` |
| `exists`, `baseline` | the scenarios, and those with `isBaseline` |
| `runs[n]` | `PlanningRun` by number: scenario, usable, older than its scenario's last update, calculated from the inputs as they are |
| `call[h]` | a handler between its reads and its write, and whether project and scenario are still as it read them |
| `template[t]`, `handler[h]` | `PlanningTemplate`: status, author, what it replaces; a running `create` or `remove` |

The version columns are not numbers here: a guarded write goes through exactly if nobody wrote the row since it was read,
and `sameProject` and `sameScenario` say just that. `old` is what the code compares (`updatedAt` of the scenario against
`createdAt` of the run) and `current` what it means by it: that the run was calculated from what scenario and project still say.
A change of the project's dates, currency or warehouse makes runs not current and leaves them not old; only the violated
claim `ApprovedIsCurrent` reads it.

### How `Realtime` corresponds to the code

| Variable | Value |
|---|---|
| `perm` | by the database: may the user read stock, and is the token still good |
| `cache`, `refill` | the role in `PermissionCacheService`; a lookup between its query and its store |
| `socket`, `room`, `verdict` | the connection, its membership in the room, a check between `validate` and what follows from it |
| `events` | emitted and not yet delivered; lost with the connection |
| `wait`, `pollIn` | ticks until the debounced callback and the next poll |
| `request[q]`, `fresh` | requests of the page, answered from the current stock or from an older one; what the page shows |

## 3. Runs

| Run | Shows |
|---|---|
| `unified` | Unified mode, all handlers except the unlocked repair. Type invariant; held rows are committed; live tasks have a request; nothing is orphaned; quantities are conserved; only picked goods leave; and the whole flow implements `StockLedger`. |
| `legacy` | Approvals that reserve from, and allocations that claim from, the shared pool, with `releaseStuckReservation` query by query and a request that older data may have stranded at `PICKING`. Until a repair writes over a task that came to life after its reads (`crossed`), a row is on one live task and the issue ledger balances; whatever repairs do, no other handler undoes an issue. |
| `approval` | Two handlers at a time over up to two chains, a rule of two steps that either approver may decide and the default step; restarts, failing approvals, cancels. Chains are consistent and implement `ApprovalChain`, an approved request has a fully approved chain, a request in approval has a decided step, late handlers change nothing. |
| `engine_rejects` | Violation: approving a step rejects the request. |
| `returns` | Two confirmations or returns at a time, manual holds, and the whole outbound flow, tasks handed over with nothing picked included. Until there is such a request a row is out exactly as long as one request owes it, and held rows stay committed; always, a request on which goods were issued is completed only when it is settled, and for good. |
| `receiving` | Two receipts, two rows of up to two units, a serial and `'N/A'`, two vendor and two scrap cases, statuses of vendor cases in any order. A serial is active twice only after a return; a reversed receipt leaves nothing but the case that its reversal re-opened; a unit has one open case of each kind, unless a case of it was re-opened; a case is completed by one replacement; scrap takes what was approved from every row that is one unit or has no text for its serial. |
| `planning` | Two handlers on a project with two scenarios and two runs, and two on three templates. A plan is reviewed by somebody else, and decided by a handler that checked the run in review; a replaced template is retired. |
| `counts` | Two sessions, two handlers, a movement; sessions revived, counts that arrive late, goods that come back. What is under review is counted or was to be recounted; an approved count leaves the books right for every row that was counted on its shelf and not counted stale. |
| `count_comes_back` | Violation: an approved count books zero for a unit that is on its shelf. |
| `realtime` | Liveness: a page becomes current once changes end; a revoked user's connection closes; rooms follow permissions. |
| `scanning` | Three requests at a time for two scans of any kind, two faults: one answer per scan, a recorded success took effect, an effect is taken once and matches its record unless requests overlapped or failed between effect and event. |
| `scan_replay` | Violation: a device is told that a scan failed which took effect. |

### Bounds

*Outbound.* Two requests (for two units and for one), two task ids, and three row ids: a bulk row of
two units, a single unit, and one spare id for the row that a split creates. That is the smallest
instance with every case: a request served by one row, by two rows or short; a row
split by approval, allocation or dispatch; two requests competing; a request allocated again
after its first task was cancelled. Task ids are interchangeable (symmetry). With a third task id, a unit that a repair took from
a live task gets onto a second one, which two ids cannot show: that is why `HeldOnce`, `LiveTaskHasRequest` and `IssueLedger` end
with the first such repair, in the run as in the theorems. One row to repair, the single unit, is enough: repairs run one at a time.

*Returns.* A request for two units and one for a single unit over two single rows, so that the
second request can only be served with what the first left or gave back, after put-away. Two handlers are
enough: each computes its verdict from its own view, and a third would only add another unit recorded in between.
With two task ids a request may be handed over empty while the other one's task holds the unit its fallback names; what follows is
among the divergences below, and `ShippedIsOwed` and `HeldUnitsKept` say what holds until then.

*Approval.* The requester, two approvers and two handlers are the smallest instance in which duplicates, their
cancellation, self-approval and double approval can all happen; the handlers are interchangeable. The violation
runs without restarts and failures, so only concurrency is behind it.

*Receiving.* Two rows and one serial are enough for a serial to be released by one row and taken by another, with `'N/A'` for the
text that is none; rows of up to two units for a part; two receipts for a unit and the replacement that is reversed;
two cases of each kind for a second case over one unit. `TwoAtATime` keeps vendor cases (the completed ones included), open
scrap cases and scrap requests under way to two together, which leaves every pair of them. A case that has ended without
a replacement is forgotten, so there is no bound on how many cases a unit sees in its life.

*Cycle count.* One row, for nothing relates rows but the approval, which treats them alike; two sessions for a
count after or beside another; two handlers for a stale write; quantities to two, for a part disposed of. `OneAtATime` lets
only one handler or movement be at work while there are two sessions, which suffices for the second to be revived beside the first;
with one session, two handlers and a movement interleave freely. The theorems need neither bound.

*Planning.* Two handlers, two scenarios, two runs kept at a time (the oldest runs go only with their scenario), the
project's author and one other person. Templates: three, so that two drafts replace the same one.

*Scanning.* Three requests at once so that two of one scan and one of the other overlap; two faults, two comebacks; `MaxApplied`
stops a scan after three effects.

*Realtime.* The debounce is shorter than the poll, as 1.2 s is than 30 s; two requests so that answers may
overtake each other; one event on its way, for the effect of a second one is that of the first.

All runs but `realtime` and `scanning` set `CHECK_DEADLOCK FALSE`: when everything is closed the system really stops.

### Fairness

`Realtime` is the only specification that states any, because only there something acts by itself. Weak fairness of `Tick`
and `Poll`: time passes, and `setInterval` and `setTimeout` go off (`use-realtime.ts:50-80`). Of `Forget`: a cache entry
expires after a minute (`permission-cache.service.ts`). Of `Refill`, `Connect`, `Revalidate`: a handler that has read
goes on. Of `BeginRevalidate`: the gateway's own interval (`realtime.gateway.ts:100`). Of `CallBack` and `Answer`: a due
timer fires, an answer that was sent arrives. Strong fairness of `Serve`: a server asked again and again answers some
time; `Fail` may happen any number of times in between. Nothing is fair about users, the network (`Drop`, `DeliverEvent`)
or reconnecting (`Handshake`): the page becomes current even if no event ever arrives. `EventuallyFresh` supposes that
changes end, the page is looked at and the user may read; while events keep coming closer together than the debounce,
the callback is put off each time and nothing is promised.

Every step of the other specifications is a user's, and no code obliges a user to act: nothing schedules or retries, so a
liveness property would rest on fairness that the program does not provide.

### What the violations say

- **The engine rejects** (`approval.service.ts:367`). `ensurePendingInstance` keeps the *oldest* open instance and
  cancels the others; `decide` answers with the *newest* in any status. Once a duplicate was started, by
  two approvers or by an approver overtaking the background call of `submit`, the newest is `CANCELLED`
  for good, and `approve` treats whatever is neither `PENDING` nor `APPROVED` as a rejection.
- **A count comes back** (`cycle-count.service.ts:190`). `findConflicts` compares a row at approval with the row at the
  start of the count. One that left before the lock was seen, was counted as missing and has come back since looks
  untouched, and its quantity is overwritten (`MovesAreCaught`). `CountCorrects`, which `counts` checks, is the same of the
  rows that were on their shelf when they were counted: nothing else gets past the comparison.
- **Scan replay** (`scan.service.ts:181`). Of two requests with one `clientScanId` the one that lost the guarded update may
  record its `ERROR` first; the record of the one that took effect then fails on the unique key. A crash
  after the effect ends the same way. The device sees, for good, that the scan failed.

### Known divergences

These were found while modelling; each has a configuration that shows it, run by hand with
`tlc -config X.cfg M`, and the passing runs state what holds beside it.

| Configuration, module | What it shows |
|---|---|
| `PoolTheft.cfg`, `MCOutbound` | `AllocationSparesOthers` fails (`inventory-orchestration.service.ts:57`). The pool is counted in *rows*, and the exclusion of other requests works through the *linked* row only. A request served by one bulk row claims `ceil(quantity)` rows, so it also takes the second, unlinked row of another approved request, and frees it as surplus. The comment in `allocation.service.ts:88-89` rules this out. |
| `ReopenedCancel.cfg`, `MCOutbound` | `ReopenedClaimsNothing` fails (`requests.service.ts:589`). Cancelling only a task sends its request back to `APPROVED` and frees its units; its link stays. Cancelling the request then releases rows from the pool as if its own reservation was still there. `allocate` has the check (`allocation.service.ts:51-61`); `cancel` lacks it. |
| `RepairLive.cfg`, `MCOutbound` | `RepairSparesLiveTasks` fails (`inventory.service.ts:208`). The repair finds "the" request through `WithdrawalRequestItem.stockItemId`. Allocation links units to *task* lines, so for such a unit there is no request to check and the unit is released under the task, although "Everything still in play is refused here" (`:198`). |
| `RepairLate.cfg`, `MCOutbound` | `RepairUndoesNoIssue` fails (`inventory.service.ts:259`). The repair reads the request at `PICKING` (208), its task is cancelled, so none is found (220); the request is allocated again, picked and handed over, and the repair's transaction, which asks nothing again, writes `CANCELLED` over the issued request. |
| `EmptyHandedOver.cfg`, `MCReturns` | `OnlyIssuedMoves` fails (`issued-units.ts:72`). Every line of a task may be picked with quantity zero; the task is then packed and handed over, its units are released, and its request is `ISSUED_TO_RMA`. `issuedUnitsOf` finds no picked line and falls back to the units on the lines, which by now may be reserved for another task; `confirmUsage` and `processUnits` accept `RESERVED` and `PICKED`. |
| `LateUsage.cfg`, `MCReturns` | `SettledIsCompleted` fails (`rma.service.ts:174`). `processUnits` completes a request when all is recorded and nothing is awaited, `confirmUsage` only when all is *used*. If the last thing to happen is a usage, after a return, neither completes it. With `Call = {c1, c2}` the counterexample is shorter: two confirmations of `USED` that commit together each miss the other's row. |
| `ApprovalAlone.cfg`, `MCApproval` | Passes: with one handler at a time the request has the verdict of its newest chain (`FollowsNewestChain`), which is what `engine_rejects` takes away. |
| `TwoCases.cfg`, `MCReceiving` | `OneVendorCase` fails (`rtv.service.ts:131`). A case can be set to wait for a replacement without the unit having been shipped; the replacement completes it, the unit stays in `RTV_PENDING` and may have another case opened, and the reversal of the replacement re-opens the first. |
| `ReversedCase.cfg`, `MCReceiving` | `NoCaseOverReversed` fails (`receiving.service.ts:129`). As before, but instead of a second case the unit's own receipt is reversed, for no case over it is open; then the replacement's, which re-opens the case over a cancelled unit. |
| `ReplacedEarly.cfg`, `MCReceiving` | `ReplacedHasLeft` fails (`rtv.service.ts:131`). "A replacement can be received once the vendor has the unit", says `receiveReplacement`, but it asks only for the case's status, which may be set while the unit is here. |
| `ScrappedWhole.cfg`, `MCReceiving` | `TakesWhatWasApproved` fails (`scrap.service.ts:135`). A receipt may give the serial `'N/A'` for a line of several units (`receiving.service.ts:204`), and an inspector even a real one (`:325`). `!stock.serialNumber` takes the row for one with a serial, and a disposal approved for a part closes all of it. |
| - | Two handlers that make different scenarios the baseline each clear the baselines they saw, and both stay (`planning.service.ts:611`). A scenario whose first run is stored after `deleteScenario` saw none goes with its run (`:661`). `remove` deletes a template that was confirmed after it looked (`planning-templates.service.ts:332`). All three are behaviours of `Planning` and `Templates`. |
| - | A template code is the number of rows plus an attempt, four attempts (`planning-templates.service.ts:205`): with codes 5 to 8 taken and four rows left after removals, no template can be saved, although the message says to try again. Codes are not in `Templates`. |
| `TwoCounts.cfg`, `MCCycleCount` | `OneActiveCount` fails (`cycle-count.service.ts:306`). A recount that has looked at the session's status (279) sets `IN_PROGRESS` without looking again. If the session was cancelled and another one created meanwhile, the warehouse has two active counts, against "One active count per warehouse" (`:18`). |
| `UncountedReview.cfg`, `MCCycleCount` | `ReviewIsComplete` fails (`cycle-count.service.ts:171`). `submitForReview` checks that every line is counted (167) before the update that claims the session. A recount in between clears a line and leaves the session open, so the claim succeeds and the line is under review uncounted. |
| - | Only the last counter of a line is stored, and a recount clears it, so somebody who counted a line before may approve the session (`cycle-count.service.ts:208`). |
| `OutdatedRun.cfg`, `MCPlanning` | `ApprovedIsCurrent` fails (`planning.service.ts:1061`). A run is calculated from the project's dates, currency and warehouse, too, but only the scenario's update is compared with it ("The scenario changed after this run"), so a plan may be submitted and approved after such a change. An edit that commits beside a calculation or a submission, after it has read the scenario, has the same effect. |

## 4. Proofs

`OutboundProofs` proves, for any sets of requests, tasks and rows, any quantities, and both modes:

| Theorem | Assumes | Says |
|---|---|---|
| `TypeCorrect` | - | `TypeOK` |
| `HeldOnceAlways` | - | a row is on the lines of at most one live task, until a repair writes over a task |
| `HeldUnitsCommittedAlways` | no repair | the rows of live tasks are RESERVED until picked, then PICKED |
| `LiveTaskHasRequestAlways` | - | a task that holds stock works for a request in PICKING, until a repair writes over a task that came to life after its reads |
| `OnlyPickedLeavesAlways` | no repair | a row ships only from the live task holding it, picked, in the picked quantity |
| `IssuedIsNeverUndoneAlways` | - | nothing but the write of a repair cancels or re-opens a request with issued goods, not even after such a write |
| `NoOrphanReservationAlways` | no repair | with unified reservation, a row that is reserved or picked is on a live task, or stranded by older data |
| `StockConservedAlways` | - | no split creates or loses a unit, repairs included |
| `IssueLedgerAlways` | - | until a repair writes over a task, what is shipped is what dispatched tasks picked, and no request gets more than it asked for |
| `ImplementsLedgerAlways` | no repair, unified reservation, no older data | the outbound flow implements `StockLedger` |
| `LedgerBalancesAlways` | the same | at every moment a unit is free, held for one request or issued |

"No repair" is `Repair = {}`, and it is needed where it is assumed: in `RepairLive.cfg` a repair makes a unit `AVAILABLE` that a
live task holds. "A repair writes over a task" is `crossed`: it released a unit of a live task, or closed a request that has
a task; `RepairLate.cfg` shows that it may.

**The inductive invariant.** `IInv` has two halves that TLC checked on the `unified` and `legacy`
instances before the proof. The *stock half*, `StockInv`, is `OneTaskHolds` (what `HeldOnce` says until a repair crosses a live task) and `HeldUnitsCommitted` with
two facts they need: a line that is not picked has picked nothing (`UnpickedIsZero`), and a
line fits its row (`LinesFit`), without which a dispatch could find a row too small. It is preserved because
whatever a step writes is disjoint from what live tasks hold: free stock is `AVAILABLE`,
the pool excludes held rows (`PoolIsUnheld`), and a split only touches the row
itself and an absent id (`Splits`). The *request half*, `RequestInv`, says that a request has one
uncancelled task (`OneTaskEach`), that ids in use have an owner (`TasksOwned`), that live
tasks have a request in picking or one that a repair closed (`LiveTaskKept`), and that a shipped task is in an issued status while
its request is in picking, issued, completed or closed by a repair (`ShippedIsIssued`; `Returns` completes requests). It needs nothing of
the stock half, so each is proved by itself.

**Beside repairs.** A repair writes what it decided before its transaction, whatever happened in between: its checks
are of different moments, and none is repeated. So no invariant says that what it is about to write is still right, and `RequestInv` allows
for it: it holds whatever is repaired. The stock half is lost once a unit of a live task was released, and `StockUnlessCrossed`
claims it up to that write; a repair that crosses no task does not disturb it. `LiveTaskHasRequest` adds to `LiveTaskKept` that only such a
write closes a request under its live task (`LiveNext`). `IssuedIsNeverUndoneAlways` needs no such proviso: after a repair, too,
`ShippedIsIssued` keeps tasks that shipped in statuses from which no handler but a repair takes their request back.

`NoOrphanReservation` is inductive on top of `IInv`: each step either leaves the holders of a row alone (`OrphansNext`), or
ends its task, and then what the task held is freed by a cancel (`CancelFrees`) or shipped and split by a goods issue (`IssueFrees`).

**Quantities.** The last four are about sums over the tables, so they assume that rows and requests are finite sets
(`FiniteAssumption`): they are rows of database tables. A sum is a fold, defined by recursion over the set. The
section *Sums over finite sets* proves what is needed of it (`SumInsert`, `SumSplit`, `SumPart`,
`SumRenamed`, `SumChanged`...) without an induction theorem that takes an operator as a parameter: a family of subsets that has the empty set and is closed under adding an element
has every finite subset (`FamilyInduction`), because a smallest one that is missing, in the well-founded order of strict
inclusion, would be one element away from one that is there.

- `StockConserved` is inductive with `AbsentIsEmpty` (an id not in use has no quantity). `SplitConserves` carries
  it: what the rows kept lose is, row by row, what the new ids get.
- `IssueLedger` needs `LedgerInv`: a line without a unit picks nothing (`NothingWithoutUnit`), no line picks more than it
  wants (`PickedIsWanted`), the lines of a task want no more than its request (`WantedFits`), and the books balance so far
  (`Balanced`). Every step but a goods issue leaves both sides alone (`Indoors`); a goods issue adds to both what one task
  picked, because its lines are on different rows and each row it ships keeps exactly what was picked on it.
- `ImplementsLedger` follows from these and `NoOrphanReservation`: without orphans and older data there is no pool, free units are
  all that is neither on a live task nor shipped (`FreeIsRest`), and at most one task per request holds any (`OneHolder`). Each step is
  `Quiet`, or changes what one task holds (`StepKinds`), and then it is a `Take`, a `GiveBack` or an `Issue` of the
  ledger. A repair may free a unit that a live task holds, and stock that older data stranded would be
  neither free nor held: that is why both are excluded, as in the run.
- `LedgerBalances` is proved of the ledger alone (`SoundInit`, `SoundNext`) and carried over by the refinement.

### `ApprovalProofs`

For any users, rules (non-empty lists of steps), numbers of chains and of concurrent handlers, with or without
restarts and failures:

| Theorem | Says |
|---|---|
| `TypeCorrect` | `TypeOK` |
| `ChainConsistentAlways` | a chain's status is what its steps say; an approved one has approvals of different entitled people |
| `ApprovedByTheChainAlways` | an approved request has a fully approved chain |
| `PendingAfterADecisionAlways` | a request in approval has a decided step |
| `ImplementsChainAlways` | `Approval` implements `ApprovalChain` |
| `DecidedOnceAlways` | cancelled is final; approved and rejected can only become cancelled |

The argument has two levels. `ChainInv` (with `SoundSteps`: even in an unfinished chain every approval is by a
different entitled person) is preserved by every step of the abstract `ChainNext`. For `Approval`,
`CallFacts` says what remains true of what a handler has read until it uses it. Its core is
`ChecksHold`: if the step can still be claimed, then the checks made before the transaction
still hold, because another decision on the chain would have taken that very step. `OwnChains` and `Numbered`
make inserted chains new; `DroppedForOlder` (every cancelled chain has an older one that is not) shows that a handler
that finds no open chain can say `PENDING` only after a decision. TLC checked the whole `IInv` on the instance of
`approval` before it was proved.

### `ReturnsProofs`

For any requests, tasks, rows, quantities and numbers of concurrent handlers:

| Theorem | Assumes | Says |
|---|---|---|
| `ReturnsTypeCorrect` | - | `ReturnsTypeOK` |
| `CompletedIsSettledAlways` | no repair | a completed request on which goods were issued has a usage for every unit, and none awaited |
| `CompletedIsFinalAlways` | no repair | such a request is never opened again |
| `ShippedIsOwedAlways` | no repair | a row is out exactly as long as one request has to account for it, until a task is handed over empty |
| `CommittedUnderReturns` | no repair | the rows of live tasks stay committed beside usages, returns and put-aways, until a task is handed over empty |

A handler computes its verdict from usage rows it may have read too early, so the invariant `RInv` has to say what stays
true of them. `CallFacts`: the issued units a handler has read, if its request has any, are still those of its request, and a row
that was `USED`, defective or back when it was read still is. Its first half rests on the outbound flow: `DoneIsHandedOver` says
that the tasks of a request in `ISSUED_TO_RMA` or `COMPLETED` are finished, and
`FinishedTasks`, that no outbound handler touches a finished task. With `RecordedIsIssued` (where units were issued, only they have usage
rows), a verdict that was right of the stale rows is right of the real ones. Requests handed over empty run beside all this: what their
handlers record is from the fallback, but it is recorded under their own request, so it does not touch the verdict of another.
`RequestInv` of `OutboundProofs` and its preservation by outbound steps are used as they are. TLC checked `RInv` on the instance
of `returns` before it was proved.

The last two end with the first empty handover (`NoneEmpty`; `EmptyStays` says that it is never undone), because from there the fallback may
consume a row that a live task holds, as `EmptyHandedOver.cfg` shows. They come from `OutInv`: to `OwedByOne` it adds the stock half
of `Outbound`, and that only a goods issue brings a
task into the states after it (`IssuedIsShipped`) and never issues more than a line asks for (`PickedIsWanted`, of `OutboundProofs`). Every step of
`Outbound` is either `Indoors`, and takes no row out and changes no shipped task, or it is the goods issue of one task
(`InOrOut`). A unit that a usage or a return moves is issued on a finished request and not settled, hence `SHIPPED`
(`IssuedIsOut`), and a live task holds no such row: that is why returns never disturb the stock half.

### `ReceivingProofs`

For any rows, serials, receipts, cases, handlers and quantities:

| Theorem | Says |
|---|---|
| `TypeCorrect` | `TypeOK` |
| `SerialActiveOnceAlways` | a serial is on one active row, apart from rows that were issued and came back, as returned or as defective |
| `ReversedIsGoneAlways` | the rows of a reversed receipt, and no others, are cancelled, and no open case is about one unless a reversal re-opened a case of it |
| `OneOpenCaseAlways` | a unit has one open scrap case and, unless a reversal re-opened a case of it, one open vendor case |
| `ReplacedOnceAlways` | a case is completed by one replacement: every replacement receipt that stands is the one its case is linked to |
| `DisposedAtMostAlways` | a disposal takes at most what was approved, apart from rows of several units with a text for their serial, and nothing else takes goods on hand |

None has an assumption: the statuses of vendor cases come in any order. `RowsInv` ties a row to its receipt; with it serials stay unique
through receipts, corrections and reversals. `CaseInv` says where a unit is while a case is open over it, unless a case of it was re-opened: it
waits for the vendor, is with him, or is gone for good (`Cased`). From these statuses nothing opens another case:
`OpenRtvCase` looks for one, and a usage or a return of a defective unit, which does not look, starts from `SHIPPED`. No receipt of such a unit is
reversed, because the reversal looks for open cases. What a reversal re-opens is the one step that breaks this, so its units are remembered
(`reopened`), and the theorems except them. `LinkInv` says that a completed case and the receipt of its replacement point to each other. For scrap,
`ScrapInv` is one open case per unit, made under the row lock, and `PartInv`, that nobody asks to scrap nothing: the whole row
may be closed because it is not more than was approved.

### `CycleCountProofs`

For any rows, sessions, users, handlers and quantities:

| Theorem | Says |
|---|---|
| `TypeCorrect` | `TypeOK` |
| `AllCountedAlways` | every line of a session under review is counted, or was flagged for recount |
| `CountCorrectsAlways` | an approved count leaves in the books what is on the shelves, for every row that was counted on its shelf and not stale |

None has an assumption: sessions are revived, counts arrive late, goods leave past the lock and come back. For `CountCorrects` the invariant has
to say what a count is still worth while the row moves. `Fit` says it of a line: while the books are what the line expects, what is
on the shelf is what was counted there, and a variance is stored exactly if the two differ. The same holds of the copies
that an approval has read (`CopiesFit`) and of a count on its way to its line (`CountsFit`). Quantities and shelves change together or only in
the books; so either the books leave what is expected, and `findConflicts` sees it, or they come to it, and then what was counted is marked stale.
A count of a row that was away says nothing of its shelf, and `CountComesBack.cfg` shows what becomes of it. `AllCounted` needs that a submission at work has seen a
full session, or one whose lines were recounted since (`SubmitsFilled`), and that a session under review is still one (`ReviewsFilled`): only a
recount takes a count away, and it leaves its mark.

### `PlanningProofs`

For any users, scenarios, runs, templates and handlers:

| Theorem | Assumes | Says |
|---|---|---|
| `TypeCorrect`, `TemplatesTypeCorrect` | - | `TypeOK`, `TemplatesTypeOK` |
| `ReviewedByAnotherAlways` | - | a reviewed plan was decided by neither its submitter nor its author |
| `DecidesWhatWasCheckedAlways` | - | a plan leaves review only by a handler that checked the run in review |
| `ReplacedIsRetiredAlways` | - | a template and the one that replaced it are never offered together |

`ReviewInv` says what remains of the checks of a decision: while nobody has written the project since they were made, they hold.
`ReplacedInv` adds that what is replaced was confirmed and is never a draft again.

### `ScanningProofs`

For any scans, requests at a time, faults and effects:

| Theorem | Says |
|---|---|
| `TypeCorrect` | `TypeOK` |
| `AnswersAgreeAlways` | a device is never told two results of one scan |
| `SuccessWasAppliedAlways` | a scan on record as a success took effect |
| `EffectMatchesRecordAlways` | unless requests of the scan overlapped, or one failed between effect and event: at most one effect, and none if it was refused |

`HandlersAreSound` and `ToldWhatIsRecorded` are about a handler alone, `SuccessIsEarned` ties its result to the effect. The core is
`OneAtATime`: as long as a scan is not torn, one request works on it, and before that request records anything the scan has taken
effect only if it did so itself.

### `RealtimeProofs`

For any number of requests, any debounce and any longer poll:

| Theorem | Says |
|---|---|
| `TypeCorrect` | `TypeOK` |
| `FreshStays` | a page that shows the current stock, with no older answer on its way, stays so until the stock changes |
| `RoomsStay` | once caches and checks have forgotten another permission, a connection on the right side of the room stays there while the permission does |
| `GoneStays` | a revoked user without a connection never gets one again |

These are the safe half of `EventuallyFresh`, `RoomsFollow` and `RevokedDisconnects`: that the good state, once reached, is kept.
A cache or a check may be late, so the state that is kept is stronger than the one a user sees (`CaughtUp`, `InForGood`,
`OutForGood`), and a handshake carries its verdict (`VerdictInv`).

The type invariants of the modules from `Receiving`
to `Realtime` are proved rather than run, except that TLC evaluated each before its proof.

### Only model-checked

- `EventuallyFresh`, `RoomsFollow` and `RevokedDisconnects` of `Realtime`: that the good state is reached rests on fairness
  and `ENABLED`, which are out of the prover's reach.
- The runs that show a property violated need no proof: a counterexample is one.

Every invariant and every action property of a passing run, and both refinements, are stated by a theorem. What a property
excepts is part of its formula, so run and theorem except the same. Where a theorem assumes something of the constants (no
repair, unified reservation, no older data), the run gives them such values.

## 5. Plan

Done: the stock table, the outbound flow, its ledger and the proofs of both, quantities and refinement included; the approval engine and its proofs; usage and returns,
receiving and cases, cycle counts, the replay of scans, the review of plans and templates, each with the proofs of what its
run checks; live pages. What would add most next:

1. `Receiving` composed with `Outbound`, in place of `Issue`, `Split`, `Consume`, `ComeBack` and `Defective`.
2. Row locks: the order in which handlers take them, and which can wait for each other.
3. Requests with several lines, and several warehouses.

## 6. Not modelled, and why

- **Most of the repository's lines.** Two thirds of them are the web and mobile clients: pages, tables, dialogs and
  drawings, whose state belongs to one user and is gone with the page. Of the backend, what remains beside the parts above is
  controllers and DTOs, listings and reports, validation of input, imports and exports, printing, and reference data that is
  created and edited row by row. None of it has a protocol between two actors or a state that a long sequence of steps
  could corrupt, so a module would restate it line by line.
- **The computations** of `planning/engine`, `mrp`, `sla` and the reports: functions of one snapshot of the data, kept
  right by tables of examples in the tests. Their arithmetic is in decimals and dates.
- **Warehouses and products beyond one.** Reservation filters by both, so different ones do not
  interact, except that pool rows of *another* warehouse are dropped at allocation without being
  released, which is listed as a hazard.
- **Row locks as such**: a transaction is atomic here, so two handlers that wait for each other show up as neither acting.
- **Retired workflows** of scans, transfers between locations, and warranty rules and dates, which touch no stock.
