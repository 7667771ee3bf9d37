------------------------------- MODULE Outbound -------------------------------
(***************************************************************************)
(* Withdrawal requests, the stock reserved for them and the fulfillment    *)
(* tasks that pick, pack and ship it: RequestsService, AllocationService,  *)
(* PickingService, PackingService, DispatchService, HandoverService, the   *)
(* task board of FulfillmentService, and the two repair endpoints          *)
(* (recoverStalled, releaseStuckReservation).                              *)
(*                                                                         *)
(* Every handler runs in one READ COMMITTED transaction whose writes are   *)
(* guarded updates, so it is one action here, with two exceptions:         *)
(* releaseStuckReservation reads what it decides on query by query before  *)
(* its transaction starts, each query a step of its own, and a pick may    *)
(* not see a pick that commits beside it.                                  *)
(* A request has one line; its quantity is Want.                           *)
(***************************************************************************)
EXTENDS StockRows

CONSTANTS
    Req,         \* withdrawal requests
    Task,        \* ids of fulfillment tasks (bounds the re-allocations)
    NoUnit,      \* a null stockItemId
    NoReq,       \* the owner of a task id not in use
    Want,        \* quantityRequested of each request
    Unified,     \* ENABLE_UNIFIED_RESERVATION: approval reserves nothing
    Repair,      \* the rows releaseStuckReservation is called for
    Exceptions,  \* the hold-type exceptions the board uses
    ManualHolds, \* the holds an operator sets by hand on free stock
    Stranded     \* requests an older release may have left at PICKING without a task

HoldStatuses == {"SHORT_PICK", "DAMAGED", "HOLD"}

ASSUME OutboundAssumption ==
    /\ NoUnit \notin Row
    /\ NoReq \notin Req
    /\ Want \in [Req -> Nat \ {0}]
    /\ Unified \in BOOLEAN
    /\ Repair \subseteq Row
    /\ Exceptions \subseteq HoldStatuses
    /\ ManualHolds \subseteq ManualStatuses
    /\ Stranded \subseteq Req

\* The tables are finite, so quantities can be summed over them.
ASSUME FiniteAssumption == IsFiniteSet(Row) /\ IsFiniteSet(Req)

VARIABLES
    req,     \* WithdrawalRequest.status
    link,    \* WithdrawalRequestItem.stockItemId
    issued,  \* WithdrawalRequestItem.quantityIssued
    task,    \* FulfillmentTask.status; "NONE" for an id not in use
    owner,   \* FulfillmentTask.requestId
    line,    \* FulfillmentTaskItem, by task and stock row
    ship,    \* the task's Shipment: not created, created, dispatched
    repair   \* what releaseStuckReservation has read and not yet written

vars == <<stat, qty, req, link, issued, task, owner, line, ship, repair>>

Unit == Row \union {NoUnit}

RequestStatus ==
    {"DRAFT", "SUBMITTED", "PENDING_APPROVAL", "APPROVED", "REJECTED",
     "PICKING", "ISSUED_TO_RMA", "COMPLETED", "CANCELLED"}
Reviewable == {"SUBMITTED", "PENDING_APPROVAL"}
LiveRequestStatuses == {"DRAFT", "SUBMITTED", "PENDING_APPROVAL", "APPROVED"}
TerminalRequestStatuses == {"CANCELLED", "REJECTED", "COMPLETED", "ISSUED_TO_RMA"}

\* Task states that still hold stock, and those whose goods are gone.
CancellableStatuses ==
    {"ALLOCATED", "PICKING", "PICKED", "PACKING", "PACKED", "READY_TO_SHIP"}
        \union HoldStatuses
IssuedTaskStatuses == {"SHIPPED", "DELIVERED", "CLOSED", "RETURNED"}
TaskStatus ==
    {"NONE", "CANCELLED"} \union CancellableStatuses \union IssuedTaskStatuses
Pickable == {"ALLOCATED", "PICKING"}

\* want: qtyRequested; got: qtyPicked; picked: pickedAt is set.
LineRecord == [want : Nat, got : Nat, picked : BOOLEAN]
NoLine == [want |-> 0, got |-> 0, picked |-> FALSE]
\* at: the next query.  links: the requests linked to the unit; closing: those
\* to close, by the status that was read; todo: those whose task is not yet
\* read, and live: those of them in a live status when it was read.
\* crossed, for the properties only: a repair has released the unit of a live
\* task or closed a request that has a task.
RepairRecord ==
    [at : {"idle", "links", "tasks"}, unit : Unit, links : SUBSET Req, live : SUBSET Req,
     closing : SUBSET Req, todo : SUBSET Req, crossed : BOOLEAN]
NoRepair == [at |-> "idle", unit |-> NoUnit, links |-> {}, live |-> {}, closing |-> {},
             todo |-> {}, crossed |-> FALSE]

TypeOK ==
    /\ StockTypeOK
    /\ req \in [Req -> RequestStatus]
    /\ link \in [Req -> Unit]
    /\ DOMAIN issued = Req  \* its values: IssueLedger
    /\ task \in [Task -> TaskStatus]
    /\ owner \in [Task -> Req \union {NoReq}]
    /\ line \in [Task -> [Unit -> LineRecord]]
    /\ ship \in [Task -> {"none", "created", "shipped"}]
    /\ repair \in RepairRecord

\* A stranded request may still hold the row its approval linked to it.
Init ==
    /\ qty = InitialQty
    /\ \E P \in SUBSET Stranded : \E H \in SUBSET P :
       \E held \in Injection(H, {s \in Row : InitialQty[s] > 0}) :
         /\ link = [r \in Req |-> IF r \in H THEN held[r] ELSE NoUnit]
         /\ stat = [s \in Row |-> IF InitialQty[s] = 0 THEN "ABSENT"
                                  ELSE IF s \in Range(held) THEN "RESERVED"
                                  ELSE "AVAILABLE"]
         /\ req = [r \in Req |-> IF r \in P THEN "PICKING" ELSE "DRAFT"]
    /\ issued = [r \in Req |-> 0]
    /\ task = [t \in Task |-> "NONE"]
    /\ owner = [t \in Task |-> NoReq]
    /\ line = [t \in Task |-> [u \in Unit |-> NoLine]]
    /\ ship = [t \in Task |-> "none"]
    /\ repair = NoRepair

-----------------------------------------------------------------------------
TasksOf(r) == {t \in Task : owner[t] = r}
\* Mutants of UncancelledTasks: issued tasks, or tasks on hold, overlooked.
UnissuedTasks(r) == {t \in TasksOf(r) : task[t] \in CancellableStatuses}
UnheldTasks(r) == {t \in TasksOf(r) : task[t] \notin {"CANCELLED"} \union HoldStatuses}

UncancelledTasks(r) == {t \in TasksOf(r) : task[t] # "CANCELLED"}
HadCancelledTask(r) == \E t \in TasksOf(r) : task[t] = "CANCELLED"

LinesOf(t) == {u \in Unit : line[t][u].want > 0}
UnitsOf(t) == LinesOf(t) \ {NoUnit}

\* A live task that holds the row.
Holds(t, s) == task[t] \in CancellableStatuses /\ s \in UnitsOf(t)

\* Mutant of ApprovalPool: the tasks' rows are not excluded.
PoolWithTaskRows(r) ==
    {s \in RowsIn({"RESERVED"}) :
        ~ \E q \in Req \ {r} : link[q] = s /\ req[q] = "APPROVED"}

\* lockApprovalPool: reserved rows no live task has claimed and no other
\* approved request is linked to.  The query takes at most n ROWS, the
\* request's own linked row first; SKIP LOCKED may make it take fewer.
ApprovalPool(r) ==
    {s \in RowsIn({"RESERVED"}) :
        /\ ~ \E t \in Task : Holds(t, s)
        /\ ~ \E q \in Req \ {r} : link[q] = s /\ req[q] = "APPROVED"}

PoolRows(r, n) ==
    {P \in SUBSET ApprovalPool(r) :
        /\ Cardinality(P) <= n
        /\ n > 0 /\ link[r] \in ApprovalPool(r) => link[r] \in P}

AllPicked(t) == \A u \in LinesOf(t) : line[t][u].picked
AllStockLinesPicked(t) == \A s \in UnitsOf(t) : line[t][s].picked

TaskGoes(t, from, to) ==
    /\ task[t] \in from
    /\ task' = [task EXCEPT ![t] = to]

RequestGoes(r, from, to) ==
    /\ req[r] \in from
    /\ req' = [req EXCEPT ![r] = to]

stockVars == <<stat, qty>>
requestVars == <<req, link, issued>>
taskVars == <<task, owner, line, ship>>

-----------------------------------------------------------------------------
(* RequestsService *)

Submit(r) ==
    /\ RequestGoes(r, {"DRAFT"}, "SUBMITTED")
    /\ UNCHANGED <<stockVars, taskVars, link, issued, repair>>

\* The approval engine is not finished with the request.
Defer(r) ==
    /\ RequestGoes(r, Reviewable, "PENDING_APPROVAL")
    /\ UNCHANGED <<stockVars, taskVars, link, issued, repair>>

Reject(r) ==
    /\ RequestGoes(r, Reviewable, "REJECTED")
    /\ UNCHANGED <<stockVars, taskVars, link, issued, repair>>

\* Unified reservation: approval is governance only.
ApproveOnly(r) ==
    /\ Unified
    /\ RequestGoes(r, Reviewable, "APPROVED")
    /\ UNCHANGED <<stockVars, taskVars, link, issued, repair>>

\* Legacy: available rows are reserved until the quantity is covered, and the
\* first of them is linked.  Without enough stock the transaction throws.
ApproveAndReserve(r) ==
    /\ ~Unified
    /\ RequestGoes(r, Reviewable, "APPROVED")
    /\ \E S \in SUBSET RowsIn({"AVAILABLE"}) : \E take \in [S -> 1..Want[r]] :
         /\ Fills(take, Want[r])
         /\ SumFunction(take) = Want[r]
         /\ \E first \in S :
              /\ S # {first} => take[first] = qty[first]
              /\ link' = [link EXCEPT ![r] = first]
         /\ \E fresh \in FreshIds(take) :
              /\ stat' = SplitStat(Transition(stat, S, "RESERVED"), fresh)
              /\ qty' = SplitQty(take, fresh)
    /\ UNCHANGED <<taskVars, issued, repair>>

\* cancelInTx: the task gives back every unit it holds.
CancelTask(t) ==
    /\ ship[t] # "shipped"
    /\ TaskGoes(t, CancellableStatuses, "CANCELLED")
    /\ stat' = Release(stat, UnitsOf(t))

Cancel(r) ==
    /\ RequestGoes(r, RequestStatus \ {"CANCELLED", "COMPLETED", "ISSUED_TO_RMA"},
                   "CANCELLED")
    /\ \/ \E t \in UncancelledTasks(r) : CancelTask(t)
       \/ /\ UncancelledTasks(r) = {}
          /\ req[r] = "APPROVED" /\ link[r] # NoUnit
          /\ \E P \in PoolRows(r, Want[r]) : stat' = Release(stat, P)
          /\ UNCHANGED task
       \/ /\ UncancelledTasks(r) = {}
          /\ req[r] # "APPROVED" \/ link[r] = NoUnit
          /\ UNCHANGED <<stat, task>>
    /\ UNCHANGED <<qty, link, issued, owner, line, ship, repair>>

\* Mutant of NothingIssued: a finished task is taken for one without goods issue.
TaskIsOver(t) == task[t] \in {"CLOSED", "CANCELLED", "RETURNED"}

NothingIssued(t) == ship[t] = "none" /\ \A u \in Unit : line[t][u].got = 0

\* Closes a request left in PICKING by data no current handler produces.
RecoverStalled(r) ==
    /\ RequestGoes(r, {"PICKING"}, "CANCELLED")
    /\ \A t \in TasksOf(r) :
         /\ task[t] \in {"CLOSED", "CANCELLED", "RETURNED"}
         /\ NothingIssued(t)
    /\ \A s \in RowsIn(OutboundStatuses) :
         link[r] # s /\ \A t \in TasksOf(r) : s \notin UnitsOf(t)
    /\ UNCHANGED <<stockVars, taskVars, link, issued, repair>>

-----------------------------------------------------------------------------
(* AllocationService *)

\* What approval reserved for this request, counted in ROWS by the code.
OwnedRows(r) ==
    IF ~Unified /\ ~HadCancelledTask(r) /\ req[r] = "APPROVED" /\ link[r] # NoUnit
    THEN Want[r] ELSE 0

\* The rows of one allocation: `mine` from the pool, `top` from free stock
\* (rows locked by a concurrent transaction are skipped, so any of them and
\* possibly too few).  Pool rows not needed are surplus.
Chosen(r, pool, mine, top, take) ==
    /\ mine \subseteq pool
    /\ link[r] \in pool => link[r] \in mine
    /\ Fills(Restrict(take, mine), Want[r])
    /\ Fills(take, Want[r])
    /\ mine # pool => SumFunctionOnSet(take, mine) = Want[r]
    /\ top # {} => mine = pool

\* What free stock could not cover; it becomes a line without a unit.
Shortfall(take, need) ==
    IF SumFunction(take) < need THEN need - SumFunction(take) ELSE 0

NewLines(take, short) ==
    [u \in Unit |-> [want |-> IF u \in DOMAIN take THEN take[u]
                              ELSE IF u = NoUnit THEN short ELSE 0,
                     got |-> 0, picked |-> FALSE]]

Allocate(r, t) ==
    /\ RequestGoes(r, {"APPROVED", "PICKING"}, "PICKING")
    /\ UncancelledTasks(r) = {}
    /\ req[r] = "PICKING" => HadCancelledTask(r)
    /\ TaskGoes(t, {"NONE"}, "ALLOCATED")
    /\ owner' = [owner EXCEPT ![t] = r]
    /\ \E pool \in PoolRows(r, OwnedRows(r)), top \in SUBSET RowsIn({"AVAILABLE"}) :
         \E mine \in SUBSET pool : \E take \in [mine \union top -> 1..Want[r]] :
           /\ Chosen(r, pool, mine, top, take)
           /\ \E fresh \in FreshIds(take) :
                /\ stat' = SplitStat(Release(Transition(stat, top, "RESERVED"),
                                             pool \ mine), fresh)
                /\ qty' = SplitQty(take, fresh)
           /\ \E short \in 0..Want[r] :
                /\ short = Shortfall(take, Want[r])
                /\ line' = [line EXCEPT ![t] = NewLines(take, short)]
    /\ UNCHANGED <<link, issued, ship, repair>>

-----------------------------------------------------------------------------
(* PickingService, PackingService *)

\* Mutant of PickStat: a zero pick takes its unit, too.
PickAnyStat(u, n) == Transition(stat, {u}, "PICKED")

\* What a pick of n writes to the unit of its line.
PickStat(u, n) == Transition(stat, IF n > 0 THEN {u} ELSE {}, "PICKED")

\* confirmPick of n units on one line.  A line without a unit picks nothing; a
\* zero pick leaves its unit reserved.  The progress is computed from the
\* lines this transaction sees: a pick committing beside it may be missing,
\* and then the task stays PICKING although every line is picked.
Pick(t, u, n) ==
    /\ task[t] \in Pickable
    /\ u \in LinesOf(t) /\ ~line[t][u].picked
    /\ n <= line[t][u].want
    /\ u = NoUnit => n = 0
    /\ n > 0 => stat[u] \in {"RESERVED", "PICKING"}
    /\ line' = [line EXCEPT ![t][u] = [want |-> @.want, got |-> n, picked |-> TRUE]]
    /\ stat' = PickStat(u, n)
    /\ \/ AllPicked(t)' /\ TaskGoes(t, Pickable, "PICKED")
       \/ /\ ~AllPicked(t)' \/ LinesOf(t) # {u}
          /\ TaskGoes(t, Pickable, "PICKING")
    /\ UNCHANGED <<qty, requestVars, owner, ship, repair>>

\* confirmAllRemaining: the board's "Next" at PICKING.
PickRemaining(t) ==
    LET open == {u \in LinesOf(t) : ~line[t][u].picked}
    IN  /\ TaskGoes(t, {"PICKING"}, "PICKED")
        /\ open # {}
        /\ \A s \in open \ {NoUnit} : stat[s] \in {"RESERVED", "PICKING"}
        /\ line' = [line EXCEPT ![t] = [u \in Unit |->
                      IF u \in open
                      THEN [want |-> line[t][u].want, picked |-> TRUE,
                            got |-> IF u = NoUnit THEN 0 ELSE line[t][u].want]
                      ELSE line[t][u]]]
        /\ stat' = Transition(stat, open \ {NoUnit}, "PICKED")
        /\ UNCHANGED <<qty, requestVars, owner, ship, repair>>

\* Steps of the board with no stock effect.
Advance(t) ==
    /\ \/ TaskGoes(t, {"ALLOCATED"}, "PICKING")
       \/ TaskGoes(t, {"DELIVERED"}, "CLOSED")
    /\ UNCHANGED <<stockVars, requestVars, owner, line, ship, repair>>

StartPacking(t) ==
    /\ TaskGoes(t, {"PICKED"}, "PACKING")
    /\ UNCHANGED <<stockVars, requestVars, owner, line, ship, repair>>

CompletePacking(t) ==
    /\ AllStockLinesPicked(t)
    /\ TaskGoes(t, {"PACKING"}, "PACKED")
    /\ UNCHANGED <<stockVars, requestVars, owner, line, ship, repair>>

-----------------------------------------------------------------------------
(* DispatchService, HandoverService *)

CreateShipment(t) ==
    /\ ship[t] = "none"
    /\ TaskGoes(t, {"PACKED", "READY_TO_SHIP"}, "READY_TO_SHIP")
    /\ ship' = [ship EXCEPT ![t] = "created"]
    /\ UNCHANGED <<stockVars, requestVars, owner, line, repair>>

\* Mutant of OutRows: every unit of the task ships.
AllRows(t) == UnitsOf(t)

\* The units a dispatch ships.
OutRows(t) == {s \in UnitsOf(t) : line[t][s].got > 0}

\* dispatchInTx: what was picked leaves, rows holding more are split, lines
\* with a zero pick give their unit back.
GoodsIssue(t) ==
    LET out  == OutRows(t)
        keep == [s \in out |-> line[t][s].got]
    IN  /\ task[t] = "READY_TO_SHIP" /\ ship[t] # "shipped"
        /\ AllStockLinesPicked(t)
        /\ out \subseteq RowsIn({"PICKED", "RESERVED"})
        /\ \E fresh \in FreshIds(keep) :
             /\ stat' = SplitStat(Transition(Release(stat, UnitsOf(t) \ out),
                                             out, "SHIPPED"), fresh)
             /\ qty' = SplitQty(keep, fresh)
        /\ issued' = [issued EXCEPT ![owner[t]] =
                        IF @ > 0 THEN @ ELSE SumFunction(keep)]
        /\ ship' = [ship EXCEPT ![t] = "shipped"]

Dispatch(t) ==
    /\ ship[t] = "created"
    /\ GoodsIssue(t)
    /\ TaskGoes(t, {"READY_TO_SHIP"}, "SHIPPED")
    /\ UNCHANGED <<req, link, owner, line, repair>>

ConfirmDelivery(t) ==
    /\ ship[t] = "shipped"
    /\ TaskGoes(t, {"SHIPPED"}, "DELIVERED")
    /\ UNCHANGED <<stockVars, requestVars, owner, line, ship, repair>>

\* The handover dispatches a ready task itself before it closes it.
IssueToRma(t) ==
    /\ \/ GoodsIssue(t) /\ TaskGoes(t, {"READY_TO_SHIP"}, "CLOSED")
       \/ /\ TaskGoes(t, {"SHIPPED", "DELIVERED"}, "CLOSED")
          /\ UNCHANGED <<stockVars, issued, ship>>
    /\ req' = [req EXCEPT ![owner[t]] =
                 IF @ \in {"CANCELLED", "COMPLETED"} THEN @ ELSE "ISSUED_TO_RMA"]
    /\ UNCHANGED <<link, owner, line, repair>>

\* Cancelling only the task sends its request back to APPROVED.
ReleaseAndCancel(t) ==
    /\ CancelTask(t)
    /\ req' = [req EXCEPT ![owner[t]] = IF @ = "PICKING" THEN "APPROVED" ELSE @]
    /\ UNCHANGED <<qty, link, issued, owner, line, ship, repair>>

SetException(t) ==
    /\ \/ /\ ship[t] # "shipped"
          /\ \E x \in Exceptions : TaskGoes(t, CancellableStatuses, x)
       \/ TaskGoes(t, {"SHIPPED", "DELIVERED"}, "RETURNED")
    /\ UNCHANGED <<stockVars, requestVars, owner, line, ship, repair>>

-----------------------------------------------------------------------------
(* InventoryService *)

SetStatus(s, to) ==
    /\ stat[s] \in ManualStatuses /\ to \in ManualHolds
    /\ stat' = Transition(stat, {s}, to)
    /\ UNCHANGED <<qty, requestVars, taskVars, repair>>

EndRepair == repair' = [NoRepair EXCEPT !.crossed = repair.crossed]

\* releaseStuckReservation reads the unit, then the request lines linked to it
\* with their requests, then the task of one request after the other.
BeginRepair(s) ==
    /\ s \in Repair /\ repair.at = "idle"
    /\ stat[s] = "RESERVED"
    /\ repair' = [repair EXCEPT !.at = "links", !.unit = s]
    /\ UNCHANGED <<stockVars, requestVars, taskVars>>

ReadLinks ==
    LET links == {r \in Req : link[r] = repair.unit}
    IN  /\ repair.at = "links"
        /\ \/ /\ \A r \in links : issued[r] = 0
              /\ repair' = [repair EXCEPT !.at = "tasks", !.links = links, !.todo = links,
                              !.live = {r \in links : req[r] \in LiveRequestStatuses},
                              !.closing = {r \in links : req[r] \notin TerminalRequestStatuses}]
           \/ /\ \E r \in links : issued[r] # 0
              /\ EndRepair
        /\ UNCHANGED <<stockVars, requestVars, taskVars>>

\* The tasks as they are now, the request's status as it was read before.
Unstuck(r, s) ==
    /\ \A t \in UncancelledTasks(r) :
         /\ ship[t] # "shipped" /\ line[t][s].got = 0
         /\ task[t] \notin CancellableStatuses
    /\ UncancelledTasks(r) = {} => r \notin repair.live

CheckTask(r) ==
    /\ r \in repair.todo
    /\ \/ /\ Unstuck(r, repair.unit)
          /\ repair' = [repair EXCEPT !.todo = @ \ {r}, !.live = @ \ {r}]
       \/ ~Unstuck(r, repair.unit) /\ EndRepair
    /\ UNCHANGED <<stockVars, requestVars, taskVars>>

RepairReads ==
    \/ \E s \in Row : BeginRepair(s)
    \/ ReadLinks
    \/ \E r \in Req : CheckTask(r)

\* A unit held by a live task, or a request with a task that is not cancelled.
CrossesTask ==
    \/ \E t \in Task : Holds(t, repair.unit)
    \/ \E r \in repair.closing : UncancelledTasks(r) # {}

\* The transaction that follows checks none of it again.  A unit no request
\* line links to comes here at once.
WriteRepair ==
    /\ repair.at = "tasks" /\ repair.todo = {}
    /\ stat' = Release(stat, {repair.unit})
    /\ link' = [r \in Req |-> IF r \in repair.links THEN NoUnit ELSE link[r]]
    /\ req' = [r \in Req |-> IF r \in repair.closing THEN "CANCELLED" ELSE req[r]]
    /\ repair' = [NoRepair EXCEPT !.crossed = repair.crossed \/ CrossesTask]
    /\ UNCHANGED <<qty, issued, taskVars>>

-----------------------------------------------------------------------------
RequestNext ==
    \E r \in Req :
        \/ Submit(r) \/ Defer(r) \/ Reject(r) \/ ApproveOnly(r)
        \/ ApproveAndReserve(r) \/ Cancel(r) \/ RecoverStalled(r)
        \/ \E t \in Task : Allocate(r, t)

TaskNext ==
    \E t \in Task :
        \/ \E u \in LinesOf(t) : \E n \in 0..line[t][u].want : Pick(t, u, n)
        \/ PickRemaining(t) \/ Advance(t) \/ StartPacking(t) \/ CompletePacking(t)
        \/ CreateShipment(t) \/ Dispatch(t) \/ ConfirmDelivery(t)
        \/ IssueToRma(t) \/ ReleaseAndCancel(t) \/ SetException(t)

InventoryNext ==
    \/ \E s \in Row : \E to \in ManualHolds : SetStatus(s, to)
    \/ RepairReads \/ WriteRepair

Next == RequestNext \/ TaskNext \/ InventoryNext

Spec == Init /\ [][Next]_vars

-----------------------------------------------------------------------------
(* Properties *)

\* A unit is on the lines of at most one live task: two tasks never both
\* expect to pick and ship the same row (allocate, lockApprovalPool), until a
\* repair writes over a task.
OneTaskHolds ==
    \A t, u \in Task : \A s \in Row : Holds(t, s) /\ Holds(u, s) => t = u
HeldOnce == ~repair.crossed => OneTaskHolds

\* While a task is live its units are committed to it: PICKED once something
\* was picked, RESERVED before (and after a zero pick).
HeldUnitsCommitted ==
    \A t \in Task : \A s \in Row :
        Holds(t, s) => stat[s] = IF line[t][s].got > 0 THEN "PICKED" ELSE "RESERVED"

\* A live task works for a request that is in picking: cancelling, recovering
\* and re-opening requests never leaves a task working for nobody, until a
\* repair writes over a task that came to life after its reads.
LiveTaskHasRequest ==
    ~repair.crossed =>
        \A t \in Task :
            task[t] \in CancellableStatuses => owner[t] \in Req /\ req[owner[t]] = "PICKING"

\* With unified reservation nothing stays reserved or picked that no live task
\* holds: cancels, short picks and dispatches give back what they do not ship.
NoOrphanReservation ==
    Unified =>
        \A s \in RowsIn(OutboundStatuses) :
            (\E t \in Task : Holds(t, s)) \/ (\E r \in Stranded : link[r] = s)

\* Splitting rows, at approval, allocation or dispatch, neither creates nor
\* loses a unit.
StockConserved == TotalQty = SumFunction(InitialQty)

\* The ledger of goods issue: the quantity on shipped rows is what the
\* dispatched tasks recorded as picked, and a request is never issued more
\* than it asked for, whatever was cancelled, returned, allocated again or
\* repaired, as long as no repair wrote over a task.
DispatchedQty(r) ==
    SumFunction([t \in {x \in TasksOf(r) : ship[x] = "shipped"} |->
                    SumFunction([u \in Unit |-> line[t][u].got])])
ShippedQty == SumFunctionOnSet(qty, RowsIn({"SHIPPED"}))
IssueLedger ==
    ~repair.crossed =>
        /\ ShippedQty = SumFunction([r \in Req |-> DispatchedQty(r)])
        /\ \A r \in Req : issued[r] = DispatchedQty(r) /\ issued[r] <= Want[r]

\* A row leaves the warehouse only when the shipment of the live task holding
\* it is dispatched, after it was picked, with exactly the picked quantity.
OnlyPickedLeaves ==
    [][\A s \in Row : stat[s] # "SHIPPED" /\ stat'[s] = "SHIPPED" =>
         /\ stat[s] = "PICKED"
         /\ \E t \in Task : /\ Holds(t, s) /\ ship[t] # "shipped" /\ ship'[t] = "shipped"
                           /\ qty'[s] = line[t][s].got]_vars

\* Once goods of a request were issued it is never cancelled or re-opened, by
\* its requester, by the board, by recoverStalled or by any other handler, with
\* repairs beside them.  Only the unguarded write of a repair itself is not
\* meant: see RepairUndoesNoIssue.
UndoesNoIssue ==
    \A r \in Req : (\E t \in TasksOf(r) : ship[t] = "shipped") =>
        req'[r] \in {req[r], "ISSUED_TO_RMA"}
IssuedIsNeverUndone == [][WriteRepair \/ UndoesNoIssue]_vars

\* releaseStuckReservation: "Everything still in play is refused here", so its
\* write touches no unit of a live task and no request that has one ...
RepairSparesLiveTasks == [][WriteRepair => ~CrossesTask]_vars

\* ... and least of all a request whose goods were issued.
RepairUndoesNoIssue == [][WriteRepair => UndoesNoIssue]_vars

\* Legacy mode: the units approval reserved for the requests that still wait
\* for their first task are there.
ApprovedIsBacked ==
    LET waiting == {r \in Req : req[r] = "APPROVED" /\ ~HadCancelledTask(r)}
        backing == {s \in RowsIn({"RESERVED"}) : ~ \E t \in Task : Holds(t, s)}
    IN  ~Unified =>
          SumFunctionOnSet(qty, backing) >= SumFunctionOnSet(Want, waiting)

\* allocate: "Those rows are consumed here - never a unit reserved for another
\* request", so what the other approved requests wait for is still there.
AllocationSparesOthers ==
    [][ApprovedIsBacked /\ (\E r \in Req : req[r] = "APPROVED" /\ req'[r] = "PICKING")
         => ApprovedIsBacked']_vars

\* allocate: a request whose task was cancelled "must not claim the shared
\* approval pool again", so cancelling it takes nothing another
\* request waits for.
ReopenedClaimsNothing ==
    [][\A r \in Req :
         (/\ ApprovedIsBacked
          /\ req[r] = "APPROVED" /\ HadCancelledTask(r) /\ req'[r] = "CANCELLED")
            => ApprovedIsBacked']_vars
=============================================================================
