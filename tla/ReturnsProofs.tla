---------------------------- MODULE ReturnsProofs ----------------------------
(***************************************************************************)
(* What TLAPS proves of Returns, for any requests, rows, tasks and numbers *)
(* of concurrent handlers, without repairs.                                *)
(***************************************************************************)
EXTENDS Returns, OutboundProofs

-----------------------------------------------------------------------------
(* Type correctness *)

LEMMA ReturnsTypeNext == ReturnsTypeOK /\ [ReturnsNext]_returnsVars => ReturnsTypeOK'
<1> SUFFICES ASSUME ReturnsTypeOK, [ReturnsNext]_returnsVars PROVE ReturnsTypeOK'
  OBVIOUS
<1> USE DEF UsageRows, Usages, Outcomes
<1>0. /\ \A r \in Req : usage[r] \in UsageRows
      /\ NoUsage \in UsageRows
      /\ \A c \in Call : call[c] \in CallRecord
  BY DEF ReturnsTypeOK, NoUsage
<1>1. Idle \in CallRecord
  BY <1>0 DEF Idle, CallRecord
<1>b. ASSUME NEW c \in Call, NEW r \in Req, NEW at \in {"usage", "return"}, Begin(c, at, r)
      PROVE  ReturnsTypeOK'
  <2>1. TypeOK' /\ usage' = usage
    BY <1>b DEF Begin, ReturnsTypeOK, vars, TypeOK, StockTypeOK
  <2>2. \A units \in IssuedSets(r) : units \in SUBSET Row
    BY DEF IssuedSets, Issued, Fallback, UnitsOf, LinesOf, Unit, ReturnsTypeOK, TypeOK
  <2>3. PICK units \in IssuedSets(r) :
          call' = [call EXCEPT ![c] =
                     [at |-> at, req |-> r, units |-> units, known |-> usage[r]]]
    BY <1>b DEF Begin
  <2>4. [at |-> at, req |-> r, units |-> units, known |-> usage[r]] \in CallRecord
    BY <1>0, <2>2 DEF CallRecord
  <2> QED BY <2>1, <2>3, <2>4 DEF ReturnsTypeOK
<1>t. ASSUME NEW c \in Call, Throw(c) PROVE ReturnsTypeOK'
  BY <1>t, <1>1 DEF Throw, ReturnsTypeOK, vars, TypeOK, StockTypeOK
<1>c. ASSUME NEW c \in Call, ConfirmUsage(c) PROVE ReturnsTypeOK'
  <2> DEFINE r == call[c].req
  <2>0. PICK U \in SUBSET Unrecorded(c) : \E use \in [U -> Usages] :
          /\ stat' = UsageStat(use)
          /\ usage' = [usage EXCEPT ![r] = Written(@, use)]
          /\ \E seen \in Views(c) : req' = [req EXCEPT ![r] = Verdict(c, Written(seen, use))]
    BY <1>c DEF ConfirmUsage
  <2>1. PICK use \in [U -> Usages] :
          /\ stat' = UsageStat(use)
          /\ usage' = [usage EXCEPT ![r] = Written(@, use)]
          /\ \E seen \in Views(c) : req' = [req EXCEPT ![r] = Verdict(c, Written(seen, use))]
    BY <2>0
  <2>2. UsageStat(use) \in [Row -> StockStatus]
    BY DEF UsageStat, StockStatus, AfterIssueStatuses, ReturnsTypeOK, TypeOK, StockTypeOK
  <2>3. req' \in [Req -> RequestStatus]
    BY <2>1 DEF Verdict, RequestStatus, ReturnsTypeOK, TypeOK
  <2>4. TypeOK'
    BY <1>c, <2>1, <2>2, <2>3 DEF ConfirmUsage, ReturnsTypeOK, TypeOK, StockTypeOK, taskVars
  <2>5. \A rows \in UsageRows : Written(rows, use) \in UsageRows
    BY DEF Written
  <2>6. usage' \in [Req -> UsageRows]
    BY <2>1, <2>5 DEF ReturnsTypeOK
  <2> QED BY <1>c, <1>1, <2>4, <2>6 DEF ConfirmUsage, ReturnsTypeOK
<1>p. ASSUME NEW c \in Call, ProcessUnits(c) PROVE ReturnsTypeOK'
  <2> DEFINE r == call[c].req
  <2>1. PICK U \in (SUBSET Awaited(call[c].known)) \ {{}}, out \in Outcomes :
          /\ usage' = [usage EXCEPT ![r] = Written(@, [s \in U |-> out])]
          /\ \E done \in BOOLEAN :
               req' = [req EXCEPT ![r] = IF done THEN "COMPLETED" ELSE @]
          /\ stat' = Transition(stat, U, IF out = "RECEIVED" THEN "PENDING_INSPECTION"
                                         ELSE "RTV_PENDING")
    BY <1>p DEF ProcessUnits
  <2>2. stat' \in [Row -> StockStatus]
    <3>1. stat \in [Row -> StockStatus]
      BY DEF ReturnsTypeOK, TypeOK, StockTypeOK
    <3> QED BY <2>1, <3>1, Writes DEF StockStatus, AfterIssueStatuses
  <2>3. req' \in [Req -> RequestStatus]
    <3>1. req \in [Req -> RequestStatus]
      BY DEF ReturnsTypeOK, TypeOK
    <3>2. PICK done \in BOOLEAN : req' = [req EXCEPT ![r] = IF done THEN "COMPLETED" ELSE @]
      BY <2>1
    <3> QED BY <3>1, <3>2 DEF RequestStatus
  <2>4. TypeOK'
    BY <1>p, <2>1, <2>2, <2>3 DEF ProcessUnits, ReturnsTypeOK, TypeOK, StockTypeOK, taskVars
  <2>5. \A rows \in UsageRows : Written(rows, [s \in U |-> out]) \in UsageRows
    BY DEF Written
  <2>6. usage' \in [Req -> UsageRows]
    BY <2>1, <2>5 DEF ReturnsTypeOK
  <2> QED BY <1>p, <1>1, <2>4, <2>6 DEF ProcessUnits, ReturnsTypeOK
<1>w. ASSUME NEW s \in Row, Putaway(s) PROVE ReturnsTypeOK'
  <2>1. stat' \in [Row -> StockStatus]
    BY <1>w, Writes DEF Putaway, StockStatus, ManualStatuses, ReturnsTypeOK, TypeOK, StockTypeOK
  <2> QED BY <1>w, <2>1 DEF Putaway, ReturnsTypeOK, TypeOK, StockTypeOK, taskVars, requestVars
<1>o. CASE OutboundNext
  BY <1>o, TypeNext DEF OutboundNext, ReturnsTypeOK
<1>u. CASE UNCHANGED returnsVars
  BY <1>u, TypeNext DEF returnsVars, ReturnsTypeOK
<1> QED
  BY <1>b, <1>t, <1>c, <1>p, <1>w, <1>o, <1>u
  DEF ReturnsNext, UsageNext, BeginUsage, BeginReturn

\* The variables of Outbound, the usage rows and what the handlers have read
\* have their types.
THEOREM ReturnsTypeCorrect == ReturnsSpec => []ReturnsTypeOK
<1>1. ReturnsInit => ReturnsTypeOK
  BY TypeInit DEF ReturnsInit, ReturnsTypeOK, NoUsage, Idle, CallRecord, UsageRows
<1> QED BY <1>1, ReturnsTypeNext, PTL DEF ReturnsSpec
-----------------------------------------------------------------------------
(* Requests whose goods were handed over *)

Done == {"ISSUED_TO_RMA", "COMPLETED"}
Finished == {"CLOSED", "RETURNED", "CANCELLED"}

\* An id not in use has no request.
UnusedUnowned == \A t \in Task : task[t] = "NONE" => owner[t] = NoReq

\* The task of a request that is done is over.
DoneIsHandedOver ==
    \A r \in Req : req[r] \in Done => \A t \in TasksOf(r) : task[t] \in Finished

\* What a running handler has read: the units issued, if any, which no longer
\* change, and usage rows, of which those with an outcome no longer change.
CallFacts ==
    \A c \in Call : call[c].at # "idle" =>
        /\ call[c].req \in Req
        /\ req[call[c].req] \in Done
        /\ Issued(call[c].req) # {} => call[c].units = Issued(call[c].req)
        /\ \A s \in Row : call[c].known[s] \notin {"NONE", "PENDING"} =>
              usage[call[c].req][s] = call[c].known[s]

RecordedIsIssued ==
    \A r \in Req : \A s \in Row : usage[r][s] # "NONE" =>
        req[r] \in Done /\ (Issued(r) # {} => s \in Issued(r))

HandoverInv == RequestInv /\ repair = NoRepair /\ UnusedUnowned /\ DoneIsHandedOver
UsageInv == CallFacts /\ RecordedIsIssued /\ CompletedIsSettled
RInv == ReturnsTypeOK /\ HandoverInv /\ UsageInv

\* No handler of Outbound touches a finished task, and only an allocation
\* gives a task to a request.
LEMMA FinishedTasks ==
    ASSUME TypeOK, Repair = {}, repair = NoRepair, Next, NEW u \in Task
    PROVE  /\ task[u] \in Finished =>
                 task'[u] = task[u] /\ line'[u] = line[u] /\ owner'[u] = owner[u]
           /\ task'[u] = "NONE" => task[u] = "NONE" /\ owner'[u] = owner[u]
           /\ owner'[u] # owner[u] =>
                 owner'[u] \in Req /\ req[owner'[u]] \in {"APPROVED", "PICKING"}
<1> USE DEF taskVars, Finished
<1>u. CASE UNCHANGED taskVars
  BY <1>u
<1>r. ASSUME NEW r \in Req,
             \/ Submit(r) \/ Defer(r) \/ Reject(r) \/ ApproveOnly(r)
             \/ ApproveAndReserve(r) \/ RecoverStalled(r)
      PROVE  UNCHANGED taskVars
  BY <1>r DEF Submit, Defer, Reject, ApproveOnly, ApproveAndReserve, RecoverStalled
<1>x. ASSUME NEW t \in Task, CancelTask(t)
      PROVE  /\ task[t] \notin Finished \union {"NONE"} /\ task'[t] = "CANCELLED"
             /\ \A v \in Task \ {t} : task'[v] = task[v]
  BY <1>x DEF CancelTask, TaskGoes, CancellableStatuses, HoldStatuses, TypeOK
<1>c. ASSUME NEW r \in Req, Cancel(r)
      PROVE  /\ UNCHANGED <<owner, line>>
             /\ task[u] \in Finished \union {"NONE"} => task'[u] = task[u]
             /\ task'[u] = "NONE" => task[u] = "NONE"
  BY <1>c, <1>x DEF Cancel, UncancelledTasks, TasksOf
<1>b. ASSUME NEW r \in Req, NEW t \in Task, Allocate(r, t)
      PROVE  /\ task[t] = "NONE" /\ task'[t] = "ALLOCATED" /\ owner'[t] = r
             /\ \A v \in Task \ {t} :
                  task'[v] = task[v] /\ line'[v] = line[v] /\ owner'[v] = owner[v]
             /\ req[r] \in {"APPROVED", "PICKING"}
  BY <1>b DEF Allocate, TaskGoes, RequestGoes, TypeOK
<1>p. ASSUME NEW t \in Task,
             \/ \E v \in LinesOf(t) : \E n \in 0..line[t][v].want : Pick(t, v, n)
             \/ PickRemaining(t)
      PROVE  /\ task[t] \in Pickable /\ task'[t] \in {"PICKING", "PICKED"}
             /\ \A v \in Task \ {t} : task'[v] = task[v] /\ line'[v] = line[v]
             /\ owner' = owner
  BY <1>p DEF Pick, PickRemaining, TaskGoes, Pickable, TypeOK
<1>m. ASSUME NEW t \in Task,
             \/ Advance(t) \/ StartPacking(t) \/ CompletePacking(t) \/ CreateShipment(t)
             \/ Dispatch(t) \/ ConfirmDelivery(t) \/ IssueToRma(t) \/ SetException(t)
      PROVE  /\ UNCHANGED <<owner, line>>
             /\ task[t] \notin Finished \union {"NONE"} /\ task'[t] # "NONE"
             /\ \A v \in Task \ {t} : task'[v] = task[v]
  BY <1>m, OutboundAssumption
  DEF Advance, StartPacking, CompletePacking, CreateShipment, Dispatch, ConfirmDelivery,
      IssueToRma, SetException, TaskGoes, CancellableStatuses, HoldStatuses, TypeOK
<1>k. ASSUME NEW t \in Task, ReleaseAndCancel(t) PROVE UNCHANGED <<owner, line>> /\ CancelTask(t)
  BY <1>k DEF ReleaseAndCancel
<1>i. ASSUME InventoryNext PROVE UNCHANGED taskVars
  BY <1>i DEF InventoryNext, RepairReads, BeginRepair, ReadLinks, CheckTask, SetStatus,
      WriteRepair, NoRepair
<1>1. CASE \E r \in Req : Cancel(r)
  BY <1>1, <1>c
<1>2. CASE \E r \in Req, t \in Task : Allocate(r, t)
  BY <1>2, <1>b
<1>3. CASE \E t \in Task : \/ \E v \in LinesOf(t) : \E n \in 0..line[t][v].want : Pick(t, v, n)
                          \/ PickRemaining(t)
  BY <1>3, <1>p DEF Pickable
<1>4. CASE \E t \in Task :
             \/ Advance(t) \/ StartPacking(t) \/ CompletePacking(t) \/ CreateShipment(t)
             \/ Dispatch(t) \/ ConfirmDelivery(t) \/ IssueToRma(t) \/ SetException(t)
  BY <1>4, <1>m
<1>5. CASE \E t \in Task : ReleaseAndCancel(t)
  BY <1>5, <1>k, <1>x
<1> QED
  BY <1>u, <1>r, <1>i, <1>1, <1>2, <1>3, <1>4, <1>5 DEF Next, RequestNext, TaskNext

\* Only a handover makes a request done, and no handler of Outbound touches
\* it afterwards.
LEMMA DoneRequests ==
    ASSUME TypeOK, HandoverInv, Repair = {}, Next, NEW r \in Req
    PROVE  /\ req[r] \in Done => req'[r] = req[r]
           /\ req[r] \notin Done /\ req'[r] \in Done =>
              /\ req'[r] = "ISSUED_TO_RMA"
              /\ \E t \in TasksOf(r) :
                    /\ task'[t] = "CLOSED" /\ task[t] \notin {"NONE", "CANCELLED"}
                    /\ UNCHANGED <<owner, line>>
<1> USE DEF Done
<1>0. \A t \in TasksOf(r) : req[r] \in Done => task[t] \in Finished
  BY DEF HandoverInv, DoneIsHandedOver
<1>1. ASSUME NEW q \in Req, NEW to \in RequestStatus \ Done, NEW from, RequestGoes(q, from, to),
             from \cap Done = {}
      PROVE  req[r] \in Done \/ req'[r] \in Done => req'[r] = req[r]
  BY <1>1 DEF RequestGoes, TypeOK
<1>2. ASSUME req' = req PROVE req'[r] = req[r]
  BY <1>2
<1>r. ASSUME NEW q \in Req,
             \/ Submit(q) \/ Defer(q) \/ Reject(q) \/ ApproveOnly(q)
             \/ ApproveAndReserve(q) \/ RecoverStalled(q) \/ Cancel(q)
             \/ \E t \in Task : Allocate(q, t)
      PROVE  req[r] \in Done \/ req'[r] \in Done => req'[r] = req[r]
  BY <1>r, <1>1 DEF Submit, Defer, Reject, ApproveOnly, ApproveAndReserve, RecoverStalled, Cancel,
                    Allocate, Reviewable, RequestStatus
<1>m. ASSUME NEW t \in Task,
             \/ \E u \in LinesOf(t) : \E n \in 0..line[t][u].want : Pick(t, u, n)
             \/ PickRemaining(t) \/ Advance(t) \/ StartPacking(t) \/ CompletePacking(t)
             \/ CreateShipment(t) \/ Dispatch(t) \/ ConfirmDelivery(t) \/ SetException(t)
      PROVE  req' = req
  BY <1>m DEF Pick, PickRemaining, Advance, StartPacking, CompletePacking, CreateShipment,
              Dispatch, ConfirmDelivery, SetException, requestVars
<1>k. ASSUME NEW t \in Task, ReleaseAndCancel(t)
      PROVE  req[r] \in Done \/ req'[r] \in Done => req'[r] = req[r]
  BY <1>k DEF ReleaseAndCancel, TypeOK
<1>i. ASSUME NEW t \in Task, IssueToRma(t)
      PROVE  /\ task'[t] = "CLOSED" /\ task[t] \notin Finished \union {"NONE"}
             /\ UNCHANGED <<owner, line>>
             /\ owner[t] # r => req'[r] = req[r]
             /\ req[r] \notin Done /\ req'[r] \in Done => req'[r] = "ISSUED_TO_RMA"
  BY <1>i DEF IssueToRma, TaskGoes, Finished, TypeOK
<1>n. ASSUME InventoryNext PROVE req' = req
  BY <1>n DEF InventoryNext, RepairReads, BeginRepair, ReadLinks, CheckTask, SetStatus,
      WriteRepair, NoRepair, requestVars, HandoverInv
<1>3. CASE \E t \in Task : IssueToRma(t)
  BY <1>3, <1>i, <1>0 DEF TasksOf, Finished
<1> QED
  BY <1>2, <1>r, <1>m, <1>k, <1>n, <1>3 DEF Next, RequestNext, TaskNext

\* So what was issued on a request that is done stays what it is.
LEMMA DoneStays ==
    ASSUME TypeOK, HandoverInv, Repair = {}, Next, NEW r \in Req, req[r] \in Done
    PROVE  /\ req'[r] = req[r]
           /\ Issued(r)' = Issued(r)
           /\ \A t \in TasksOf(r)' : task'[t] \in Finished
<1>1. req'[r] = req[r]
  BY DoneRequests
<1>2. /\ \A t \in Task : owner'[t] = r <=> owner[t] = r
      /\ \A t \in Task : owner[t] = r =>
           task[t] \in Finished /\ task'[t] = task[t] /\ line'[t] = line[t]
  <2>1. \A t \in Task : owner'[t] = r => owner[t] = r
    BY FinishedTasks DEF HandoverInv, Done
  <2>2. \A t \in Task : owner[t] = r => task[t] \in Finished
    BY DEF HandoverInv, DoneIsHandedOver, TasksOf
  <2> QED BY <2>1, <2>2, FinishedTasks DEF HandoverInv
<1>3. Issued(r)' = Issued(r)
  BY <1>2 DEF Issued, UncancelledTasks, TasksOf
<1> QED BY <1>1, <1>2, <1>3 DEF TasksOf

LEMMA OutboundHandover ==
    ASSUME TypeOK, HandoverInv, Repair = {}, OutboundNext
    PROVE  HandoverInv'
<1>0. Next
  BY DEF OutboundNext
<1>2. repair' = NoRepair
  BY <1>0, NoRepairStays DEF HandoverInv
<1>1. RequestInv'
  BY <1>0, RequestsNext DEF HandoverInv
<1>3. UnusedUnowned'
  BY <1>0, FinishedTasks DEF HandoverInv, UnusedUnowned
<1>4. DoneIsHandedOver'
  <2> SUFFICES ASSUME NEW r \in Req, req'[r] \in Done
               PROVE  \A t \in TasksOf(r)' : task'[t] \in Finished
    BY DEF DoneIsHandedOver
  <2>1. CASE req[r] \in Done
    BY <1>0, <2>1, DoneStays DEF HandoverInv, DoneIsHandedOver
  <2>2. CASE req[r] \notin Done
    <3>1. PICK t \in Task : /\ owner[t] = r /\ task'[t] = "CLOSED"
                            /\ UNCHANGED <<owner, line>>
      BY ZenonT(60), <1>0, <2>2, DoneRequests DEF TasksOf
    <3>2. \A u \in Task : owner'[u] = r => u = t \/ task'[u] \in {"NONE", "CANCELLED"}
      BY <1>1, <3>1 DEF RequestInv, OneTaskEach
    <3>3. \A u \in Task : owner'[u] = r => task'[u] # "NONE"
      BY <1>3, OutboundAssumption DEF UnusedUnowned
    <3> QED BY <3>1, <3>2, <3>3 DEF TasksOf, Finished
  <2> QED BY <2>1, <2>2
<1> QED BY <1>1, <1>2, <1>3, <1>4 DEF HandoverInv

LEMMA OutboundUsage ==
    ASSUME TypeOK, HandoverInv, UsageInv, Repair = {}, OutboundNext
    PROVE  UsageInv'
<1>0. Next /\ usage' = usage /\ call' = call
  BY DEF OutboundNext
<1>1. \A r \in Req : req[r] \in Done => req'[r] = req[r] /\ Issued(r)' = Issued(r)
  BY <1>0, DoneStays
<1>2. CallFacts'
  BY <1>0, <1>1 DEF UsageInv, CallFacts
<1>3. RecordedIsIssued'
  BY <1>0, <1>1 DEF UsageInv, RecordedIsIssued
<1>4. CompletedIsSettled'
  <2> SUFFICES ASSUME NEW r \in Req, req'[r] = "COMPLETED", Issued(r)' # {}
               PROVE  (\A s \in Issued(r)' : usage[r][s] # "NONE") /\ Awaited(usage[r]) = {}
    BY <1>0 DEF CompletedIsSettled, Awaited
  <2>1. CASE req[r] \in Done
    BY <1>1, <2>1 DEF UsageInv, CompletedIsSettled
  <2>2. CASE req[r] \notin Done
    BY <1>0, <2>2, DoneRequests DEF Done
  <2> QED BY <2>1, <2>2
<1> QED BY <1>2, <1>3, <1>4 DEF UsageInv

-----------------------------------------------------------------------------
(* Usages and returns *)

\* A handler's write of the request moves it between the two done statuses.
LEMMA UsageHandover ==
    ASSUME TypeOK, HandoverInv, NEW r \in Req, req[r] \in Done, NEW to \in Done,
           req' = [req EXCEPT ![r] = to], UNCHANGED <<taskVars, repair>>
    PROVE  /\ HandoverInv'
           /\ \A q \in Req : Issued(q)' = Issued(q) /\ (req[q] \in Done => req'[q] \in Done)
<1> USE DEF taskVars
<1>1. \A q \in Req : /\ Issued(q)' = Issued(q) /\ TasksOf(q)' = TasksOf(q)
                      /\ req'[q] \in Done <=> req[q] \in Done
                      /\ req[q] \notin Done => req'[q] = req[q]
  BY DEF Issued, UncancelledTasks, TasksOf, TypeOK
<1>2. RequestInv'
  BY <1>1 DEF HandoverInv, RequestInv, OneTaskEach, TasksOwned, LiveTaskKept,
              ShippedIsIssued, IssuedTaskStatuses, Done
<1>3. UnusedUnowned'
  BY DEF HandoverInv, UnusedUnowned
<1>4. DoneIsHandedOver'
  BY <1>1 DEF HandoverInv, DoneIsHandedOver, Issued, UncancelledTasks, TasksOf
<1>5. HandoverInv'
  BY <1>2, <1>3, <1>4 DEF HandoverInv
<1>6. \A q \in Req : Issued(q)' = Issued(q) /\ (req[q] \in Done => req'[q] \in Done)
  BY <1>1 DEF Issued, UncancelledTasks, TasksOf
<1> QED BY <1>5, <1>6

LEMMA BeginKeeps ==
    ASSUME ReturnsTypeOK, HandoverInv, UsageInv, NEW c \in Call, NEW r \in Req,
           NEW at, req[r] \in Done, Begin(c, at, r)
    PROVE  HandoverInv' /\ UsageInv'
<1>1. UNCHANGED <<vars, usage>>
  BY DEF Begin
<1>2. HandoverInv' /\ RecordedIsIssued' /\ CompletedIsSettled'
  BY <1>1 DEF vars, HandoverInv, RequestInv, OneTaskEach, TasksOwned, LiveTaskKept,
       ShippedIsIssued, UnusedUnowned, DoneIsHandedOver, UsageInv, RecordedIsIssued,
       CompletedIsSettled, Issued, UncancelledTasks, TasksOf, Awaited
<1>3. PICK units \in IssuedSets(r) :
        call' = [call EXCEPT ![c] = [at |-> at, req |-> r, units |-> units, known |-> usage[r]]]
  BY DEF Begin
<1>4. Issued(r) # {} => units = Issued(r)
  BY DEF IssuedSets
<1>5. \A q \in Req : Issued(q)' = Issued(q)
  BY <1>1 DEF vars, Issued, UncancelledTasks, TasksOf
<1>6. CallFacts'
  <2> SUFFICES ASSUME NEW d \in Call, call'[d].at # "idle"
               PROVE  /\ call'[d].req \in Req
                      /\ req[call'[d].req] \in Done
                      /\ Issued(call'[d].req) # {} => call'[d].units = Issued(call'[d].req)
                      /\ \A s \in Row : call'[d].known[s] \notin {"NONE", "PENDING"} =>
                            usage[call'[d].req][s] = call'[d].known[s]
    BY <1>1, <1>5 DEF CallFacts, vars
  <2>1. CASE d = c
    BY <1>3, <1>4, <2>1 DEF ReturnsTypeOK
  <2>2. CASE d # c
    BY <1>3, <2>2 DEF ReturnsTypeOK, UsageInv, CallFacts
  <2> QED BY <2>1, <2>2
<1> QED BY <1>2, <1>6 DEF UsageInv

LEMMA ConfirmKeeps ==
    ASSUME ReturnsTypeOK, HandoverInv, UsageInv, NEW c \in Call, ConfirmUsage(c)
    PROVE  /\ HandoverInv' /\ UsageInv'
           /\ \A q \in Req : req[q] = "COMPLETED" /\ Issued(q) # {} => req'[q] = "COMPLETED"
<1> DEFINE r == call[c].req
<1>0. /\ r \in Req /\ req[r] \in Done /\ (Issued(r) # {} => call[c].units = Issued(r))
      /\ \A s \in Row : call[c].known[s] \notin {"NONE", "PENDING"} =>
            usage[r][s] = call[c].known[s]
  BY DEF ConfirmUsage, UsageInv, CallFacts
<1>1. PICK U \in (SUBSET Unrecorded(c)) \ {{}} : \E use \in [U -> Usages] :
        /\ usage' = [usage EXCEPT ![r] = Written(@, use)]
        /\ \E seen \in Views(c) : req' = [req EXCEPT ![r] = Verdict(c, Written(seen, use))]
  BY DEF ConfirmUsage
<1>2. PICK use \in [U -> Usages], seen \in Views(c) :
        /\ usage' = [usage EXCEPT ![r] = Written(@, use)]
        /\ req' = [req EXCEPT ![r] = Verdict(c, Written(seen, use))]
  BY <1>1
<1>3. /\ U # {}
      /\ \A s \in U : s \in Row /\ (Issued(r) # {} => s \in Issued(r)) /\ usage[r][s] = "NONE"
  BY <1>0, <1>1 DEF Unrecorded, ReturnsTypeOK, CallRecord
<1>4. /\ \A q \in Req \ {r} : usage'[q] = usage[q]
      /\ \A s \in Row : usage'[r][s] = IF s \in U THEN use[s] ELSE usage[r][s]
      /\ \A s \in U : use[s] \in Usages
  BY <1>0, <1>2 DEF ReturnsTypeOK, Written
<1>5. Verdict(c, Written(seen, use)) \in Done
  BY DEF Verdict, Done
<1>6. UNCHANGED <<taskVars, repair>> /\ call' = [call EXCEPT ![c] = Idle]
  BY DEF ConfirmUsage
<1>7. /\ HandoverInv'
      /\ \A q \in Req : Issued(q)' = Issued(q) /\ (req[q] \in Done => req'[q] \in Done)
  BY <1>0, <1>2, <1>5, <1>6, UsageHandover DEF ReturnsTypeOK
<1>8. CallFacts'
  <2> SUFFICES ASSUME NEW d \in Call, call'[d].at # "idle"
               PROVE  /\ call'[d].req \in Req
                      /\ req'[call'[d].req] \in Done
                      /\ Issued(call'[d].req) # {} => call'[d].units = Issued(call'[d].req)
                      /\ \A s \in Row : call'[d].known[s] \notin {"NONE", "PENDING"} =>
                            usage'[call'[d].req][s] = call'[d].known[s]
    BY <1>7 DEF CallFacts
  <2>1. call'[d] = call[d]
    BY <1>6 DEF Idle, ReturnsTypeOK
  <2>2. /\ call[d].req \in Req
        /\ req[call[d].req] \in Done
        /\ Issued(call[d].req) # {} => call[d].units = Issued(call[d].req)
        /\ \A s \in Row : call[d].known[s] \notin {"NONE", "PENDING"} =>
              usage[call[d].req][s] = call[d].known[s]
    BY <2>1 DEF UsageInv, CallFacts
  <2> QED BY <1>3, <1>4, <1>7, <2>1, <2>2
<1>9. RecordedIsIssued'
  BY <1>0, <1>3, <1>4, <1>7 DEF UsageInv, RecordedIsIssued
<1>10. CompletedIsSettled'
  <2> SUFFICES ASSUME NEW q \in Req, req'[q] = "COMPLETED", Issued(q) # {}
               PROVE  \A s \in Row : usage'[q][s] # "PENDING" /\
                                      (s \in Issued(q) => usage'[q][s] # "NONE")
    BY <1>7 DEF CompletedIsSettled, Awaited, Issued
  <2>1. CASE q # r
    BY <1>2, <1>4, <2>1 DEF UsageInv, CompletedIsSettled, Awaited, ReturnsTypeOK, TypeOK
  <2>2. CASE q = r
    <3>1. /\ AllRecorded(c, Written(seen, use))
          /\ \A s \in Row : Written(seen, use)[s] \in {"NONE", "USED"}
      BY <1>0, <1>2, <2>2 DEF Verdict, ReturnsTypeOK, TypeOK
    <3>2. ASSUME NEW s \in Row, s \in Issued(r) PROVE usage'[r][s] = "USED"
      <4>1. Written(seen, use)[s] = "USED"
        BY <1>0, <3>1, <3>2 DEF AllRecorded
      <4>2. Written(seen, use)[s] = IF s \in U THEN use[s] ELSE seen[s]
        BY DEF Written
      <4>3. seen = call[c].known \/ seen = usage[r]
        BY DEF Views
      <4> QED BY <1>0, <1>4, <4>1, <4>2, <4>3
    <3>3. ASSUME NEW s \in Row, s \notin Issued(r) PROVE usage'[r][s] = "NONE"
      BY <1>0, <1>7, <1>9, <2>2, <3>3 DEF RecordedIsIssued
    <3> QED BY <2>2, <3>2, <3>3
  <2> QED BY <2>1, <2>2
<1>11. \A q \in Req : req[q] = "COMPLETED" /\ Issued(q) # {} => req'[q] = "COMPLETED"
  <2>1. req[r] # "COMPLETED" \/ Issued(r) = {}
    BY <1>0, <1>3 DEF UsageInv, CompletedIsSettled
  <2> QED BY <1>2, <2>1 DEF ReturnsTypeOK, TypeOK
<1> QED BY <1>7, <1>8, <1>9, <1>10, <1>11 DEF UsageInv

LEMMA ProcessKeeps ==
    ASSUME ReturnsTypeOK, HandoverInv, UsageInv, NEW c \in Call, ProcessUnits(c)
    PROVE  /\ HandoverInv' /\ UsageInv'
           /\ \A q \in Req : req[q] = "COMPLETED" /\ Issued(q) # {} => req'[q] = "COMPLETED"
<1> DEFINE r == call[c].req
           Settled(rows) == AllRecorded(c, rows) /\ Awaited(rows) = {}
<1>0. /\ r \in Req /\ req[r] \in Done /\ (Issued(r) # {} => call[c].units = Issued(r))
      /\ \A s \in Row : call[c].known[s] \notin {"NONE", "PENDING"} =>
            usage[r][s] = call[c].known[s]
  BY DEF ProcessUnits, UsageInv, CallFacts
<1>1. PICK U \in (SUBSET Awaited(call[c].known)) \ {{}}, out \in Outcomes :
        /\ U \subseteq Awaited(usage[r])
        /\ usage' = [usage EXCEPT ![r] = Written(@, [s \in U |-> out])]
        /\ \E seen \in Views(c) :
             req' = [req EXCEPT ![r] =
                       IF Settled(Written(seen, [s \in U |-> out])) /\ @ = "ISSUED_TO_RMA"
                       THEN "COMPLETED" ELSE @]
  BY DEF ProcessUnits
<1> DEFINE new == [s \in U |-> out]
<1>2. PICK seen \in Views(c) :
        req' = [req EXCEPT ![r] = IF Settled(Written(seen, new)) /\ @ = "ISSUED_TO_RMA"
                                  THEN "COMPLETED" ELSE @]
  BY <1>1
<1> HIDE DEF Settled
<1>3. U # {} /\ \A s \in U : s \in Row /\ usage[r][s] = "PENDING"
  BY <1>1 DEF Awaited
<1>4. /\ \A q \in Req \ {r} : usage'[q] = usage[q]
      /\ \A s \in Row : usage'[r][s] = IF s \in U THEN out ELSE usage[r][s]
      /\ out \notin {"NONE", "PENDING"}
  BY <1>0, <1>1 DEF ReturnsTypeOK, Written, Outcomes
<1>5. PICK to \in Done : /\ req' = [req EXCEPT ![r] = to]
                         /\ req[r] = "COMPLETED" => to = "COMPLETED"
                         /\ to = "COMPLETED" =>
                              req[r] = "COMPLETED" \/ Settled(Written(seen, new))
  BY <1>0, <1>2 DEF Done
<1>6. UNCHANGED <<taskVars, repair>> /\ call' = [call EXCEPT ![c] = Idle]
  BY DEF ProcessUnits
<1>7. /\ HandoverInv'
      /\ \A q \in Req : Issued(q)' = Issued(q) /\ (req[q] \in Done => req'[q] \in Done)
  BY <1>0, <1>5, <1>6, UsageHandover DEF ReturnsTypeOK
<1>8. CallFacts'
  <2> SUFFICES ASSUME NEW d \in Call, call'[d].at # "idle"
               PROVE  /\ call'[d].req \in Req
                      /\ req'[call'[d].req] \in Done
                      /\ Issued(call'[d].req) # {} => call'[d].units = Issued(call'[d].req)
                      /\ \A s \in Row : call'[d].known[s] \notin {"NONE", "PENDING"} =>
                            usage'[call'[d].req][s] = call'[d].known[s]
    BY <1>7 DEF CallFacts
  <2>1. call'[d] = call[d]
    BY <1>6 DEF Idle, ReturnsTypeOK
  <2>2. /\ call[d].req \in Req
        /\ req[call[d].req] \in Done
        /\ Issued(call[d].req) # {} => call[d].units = Issued(call[d].req)
        /\ \A s \in Row : call[d].known[s] \notin {"NONE", "PENDING"} =>
              usage[call[d].req][s] = call[d].known[s]
    BY <2>1 DEF UsageInv, CallFacts
  <2> QED BY <1>3, <1>4, <1>7, <2>1, <2>2
<1>9. RecordedIsIssued'
  BY <1>0, <1>3, <1>4, <1>7 DEF UsageInv, RecordedIsIssued
<1>10. CompletedIsSettled'
  <2> SUFFICES ASSUME NEW q \in Req, req'[q] = "COMPLETED", Issued(q) # {}
               PROVE  \A s \in Row : usage'[q][s] # "PENDING" /\
                                      (s \in Issued(q) => usage'[q][s] # "NONE")
    BY <1>7 DEF CompletedIsSettled, Awaited, Issued
  <2>1. CASE req[q] = "COMPLETED"
    BY <1>3, <1>4, <2>1 DEF UsageInv, CompletedIsSettled, Awaited
  <2>2. CASE q = r /\ req[r] # "COMPLETED"
    <3>1. Settled(Written(seen, new))
      BY <1>0, <1>5, <2>2 DEF ReturnsTypeOK, TypeOK
    <3>2. \A s \in Row : /\ Written(seen, new)[s] # "PENDING"
                         /\ s \in Issued(r) => Written(seen, new)[s] # "NONE"
      BY <1>0, <3>1 DEF Settled, AllRecorded, Awaited
    <3>3. \A s \in Row : Written(seen, new)[s] = IF s \in U THEN out ELSE seen[s]
      BY DEF Written
    <3>4. seen = call[c].known \/ seen = usage[r]
      BY DEF Views
    <3>5. ASSUME NEW s \in Row, s \in Issued(r) PROVE usage'[r][s] \notin {"NONE", "PENDING"}
      BY <1>0, <1>4, <3>2, <3>3, <3>4, <3>5
    <3>6. ASSUME NEW s \in Row, s \notin Issued(r) PROVE usage'[r][s] = "NONE"
      BY <1>0, <1>7, <1>9, <2>2, <3>6 DEF RecordedIsIssued
    <3> QED BY <2>2, <3>5, <3>6
  <2>3. CASE q # r /\ req[q] # "COMPLETED"
    BY <1>5, <2>3 DEF ReturnsTypeOK, TypeOK
  <2> QED BY <2>1, <2>2, <2>3
<1>11. \A q \in Req : req[q] = "COMPLETED" /\ Issued(q) # {} => req'[q] = "COMPLETED"
  BY <1>0, <1>5 DEF ReturnsTypeOK, TypeOK
<1> QED BY <1>7, <1>8, <1>9, <1>10, <1>11 DEF UsageInv

\* Steps that leave requests, tasks and usages alone.
LEMMA OthersKeep ==
    ASSUME ReturnsTypeOK, HandoverInv, UsageInv,
           UNCHANGED <<req, task, owner, line, ship, repair, usage>>,
           \A c \in Call : call'[c] \in {call[c], Idle}
    PROVE  HandoverInv' /\ UsageInv'
<1>1. HandoverInv' /\ RecordedIsIssued' /\ CompletedIsSettled'
  BY DEF HandoverInv, RequestInv, OneTaskEach, TasksOwned, LiveTaskKept,
       ShippedIsIssued, UnusedUnowned, DoneIsHandedOver, UsageInv, RecordedIsIssued,
       CompletedIsSettled, Issued, UncancelledTasks, TasksOf, Awaited
<1>2. CallFacts'
  BY DEF UsageInv, CallFacts, Idle, Issued, UncancelledTasks, TasksOf
<1> QED BY <1>1, <1>2 DEF UsageInv

LEMMA UsageKeeps ==
    ASSUME ReturnsTypeOK, HandoverInv, UsageInv, UsageNext
    PROVE  /\ HandoverInv' /\ UsageInv'
           /\ \A q \in Req : req[q] = "COMPLETED" /\ Issued(q) # {} => req'[q] = "COMPLETED"
<1>b. ASSUME NEW c \in Call, NEW r \in Req, BeginUsage(c, r) \/ BeginReturn(c, r)
      PROVE  HandoverInv' /\ UsageInv' /\ req' = req
  <2>1. \E at : Begin(c, at, r)
    BY <1>b DEF BeginUsage, BeginReturn
  <2>2. req[r] \in Done
    BY <1>b DEF BeginUsage, BeginReturn, Done, Awaited, UsageInv, RecordedIsIssued
  <2>3. req' = req
    BY <2>1 DEF Begin, vars
  <2> QED BY <2>1, <2>2, <2>3, BeginKeeps
<1>t. ASSUME NEW c \in Call, Throw(c) PROVE HandoverInv' /\ UsageInv' /\ req' = req
  BY <1>t, OthersKeep DEF Throw, vars, ReturnsTypeOK
<1>w. ASSUME NEW s \in Row, Putaway(s) PROVE HandoverInv' /\ UsageInv' /\ req' = req
  BY <1>w, OthersKeep DEF Putaway, requestVars, taskVars
<1> QED
  BY <1>b, <1>t, <1>w, ConfirmKeeps, ProcessKeeps DEF UsageNext

-----------------------------------------------------------------------------
(* What holds of requests on which something was issued *)

LEMMA ReturnsInvInit == ReturnsInit => RInv
<1> SUFFICES ASSUME ReturnsInit PROVE RInv
  OBVIOUS
<1>1. ReturnsTypeOK
  BY TypeInit DEF ReturnsInit, ReturnsTypeOK, NoUsage, Idle, CallRecord, UsageRows
<1>2. RequestInv /\ repair = NoRepair
  BY InvInit DEF ReturnsInit, IInv
<1>3. \A r \in Req : req[r] \notin Done
  BY DEF ReturnsInit, Init, Done
<1>4. UnusedUnowned /\ DoneIsHandedOver
  BY <1>3 DEF ReturnsInit, Init, UnusedUnowned, DoneIsHandedOver
<1>5. CallFacts /\ RecordedIsIssued /\ CompletedIsSettled
  BY <1>3 DEF ReturnsInit, NoUsage, Idle, CallFacts, RecordedIsIssued, CompletedIsSettled, Done
<1> QED BY <1>1, <1>2, <1>4, <1>5 DEF RInv, HandoverInv, UsageInv

LEMMA ReturnsInvNext ==
    ASSUME Repair = {}
    PROVE  RInv /\ [ReturnsNext]_returnsVars =>
             RInv' /\ \A r \in Req : req[r] = "COMPLETED" /\ Issued(r) # {} => req'[r] = "COMPLETED"
<1> SUFFICES ASSUME RInv, [ReturnsNext]_returnsVars
             PROVE  /\ RInv'
                    /\ \A r \in Req : req[r] = "COMPLETED" /\ Issued(r) # {} => req'[r] = "COMPLETED"
  OBVIOUS
<1>0. ReturnsTypeOK /\ TypeOK /\ HandoverInv /\ UsageInv
  BY DEF RInv, ReturnsTypeOK
<1>1. ReturnsTypeOK'
  BY <1>0, ReturnsTypeNext
<1>o. CASE OutboundNext
  <2>1. HandoverInv' /\ UsageInv'
    BY <1>0, <1>o, OutboundHandover, OutboundUsage
  <2>2. \A r \in Req : req[r] = "COMPLETED" /\ Issued(r) # {} => req'[r] = "COMPLETED"
    BY <1>0, <1>o, DoneRequests DEF OutboundNext, Done
  <2> QED BY <1>1, <2>1, <2>2 DEF RInv
<1>u. CASE UsageNext
  BY <1>0, <1>1, <1>u, UsageKeeps DEF RInv
<1>s. CASE UNCHANGED returnsVars
  BY <1>0, <1>1, <1>s, OthersKeep DEF RInv, returnsVars, vars
<1> QED BY <1>o, <1>u, <1>s DEF ReturnsNext

\* A completed request is settled: everything issued on it, if anything was, has
\* its usage and nothing has to come back, however its confirmations and returns interleave.
THEOREM CompletedIsSettledAlways ==
    ASSUME Repair = {}
    PROVE  ReturnsSpec => []CompletedIsSettled
<1>1. RInv /\ [ReturnsNext]_returnsVars => RInv'
  BY ReturnsInvNext
<1>2. RInv => CompletedIsSettled
  BY DEF RInv, UsageInv
<1> QED BY <1>1, <1>2, ReturnsInvInit, PTL DEF ReturnsSpec

\* No late confirmation, return or handover opens a completed request on which
\* something was issued again.
THEOREM CompletedIsFinalAlways ==
    ASSUME Repair = {}
    PROVE  ReturnsSpec => CompletedIsFinal
<1>1. RInv /\ [ReturnsNext]_returnsVars => RInv'
  BY ReturnsInvNext
<1>2. RInv /\ [ReturnsNext]_returnsVars =>
        [\A r \in Req : req[r] = "COMPLETED" /\ Issued(r) # {} => req'[r] = "COMPLETED"]_returnsVars
  BY ReturnsInvNext
<1> QED BY <1>1, <1>2, ReturnsInvInit, PTL DEF ReturnsSpec, CompletedIsFinal

-----------------------------------------------------------------------------
(* The rows that are out *)

\* Only a goods issue brings a task into the states after it.
IssuedIsShipped == \A t \in Task : task[t] \in IssuedTaskStatuses => ship[t] = "shipped"

OutInv == StockInv /\ IssuedIsShipped /\ PickedIsWanted /\ OwedByOne

\* A request handed over empty stays so.
LEMMA EmptyStays ==
    ASSUME ReturnsTypeOK, HandoverInv, UsageInv, Repair = {}, [ReturnsNext]_returnsVars, NoneEmpty'
    PROVE  NoneEmpty
<1> USE DEF NoneEmpty, HandedEmpty
<1>0. TypeOK
  BY DEF ReturnsTypeOK
<1>o. CASE OutboundNext
  BY <1>0, <1>o, DoneStays DEF OutboundNext, Done
<1>c. ASSUME NEW c \in Call, ConfirmUsage(c) \/ ProcessUnits(c) PROVE NoneEmpty
  <2> DEFINE r == call[c].req
  <2>1. r \in Req /\ req[r] \in Done
    BY <1>c DEF ConfirmUsage, ProcessUnits, UsageInv, CallFacts
  <2>2. PICK to \in Done : req' = [req EXCEPT ![r] = to]
    <3>1. CASE ConfirmUsage(c)
      <4>1. \E rows : req' = [req EXCEPT ![r] = Verdict(c, rows)]
        BY <3>1 DEF ConfirmUsage
      <4> QED BY <4>1 DEF Verdict, Done
    <3>2. CASE ProcessUnits(c)
      <4>1. \E done \in BOOLEAN : req' = [req EXCEPT ![r] = IF done THEN "COMPLETED" ELSE @]
        BY <3>2 DEF ProcessUnits
      <4> QED BY <2>1, <4>1 DEF Done
    <3> QED BY <1>c, <3>1, <3>2
  <2>3. UNCHANGED <<taskVars, repair>>
    BY <1>c DEF ConfirmUsage, ProcessUnits
  <2>4. \A q \in Req : Issued(q)' = Issued(q) /\ (req[q] \in Done => req'[q] \in Done)
    BY <1>0, <2>1, <2>2, <2>3, UsageHandover
  <2> QED BY <2>4 DEF Done
<1>b. ASSUME UNCHANGED <<req, taskVars>> PROVE NoneEmpty
  BY <1>b DEF taskVars, Issued, UncancelledTasks, TasksOf
<1>1. ASSUME NEW c \in Call, NEW r \in Req, BeginUsage(c, r) \/ BeginReturn(c, r)
      PROVE  UNCHANGED <<req, taskVars>>
  BY <1>1 DEF BeginUsage, BeginReturn, Begin, vars, taskVars
<1>2. ASSUME NEW c \in Call, Throw(c) PROVE UNCHANGED <<req, taskVars>>
  BY <1>2 DEF Throw, vars, taskVars
<1>3. ASSUME NEW s \in Row, Putaway(s) PROVE UNCHANGED <<req, taskVars>>
  BY <1>3 DEF Putaway, requestVars
<1>4. CASE UNCHANGED returnsVars
  BY <1>4, <1>b DEF returnsVars, vars, taskVars
<1> QED
  BY <1>o, <1>c, <1>b, <1>1, <1>2, <1>3, <1>4 DEF ReturnsNext, UsageNext

\* Indoors, nobody's debt changes.
LEMMA IndoorsOwes ==
    ASSUME RequestInv, OutInv, UNCHANGED usage, Indoors
    PROVE  IssuedIsShipped' /\ PickedIsWanted' /\ OwedByOne'
<1>1. IssuedIsShipped'
  BY DEF OutInv, IssuedIsShipped, Indoors
<1>2. PickedIsWanted'
  BY DEF OutInv, Indoors
<1>3. \A r \in Req, s \in Row : Owes(r, s)' <=> Owes(r, s)
  BY DEF Owes, TasksOf, Indoors
<1>4. OwedByOne'
  BY <1>3 DEF OutInv, OwedByOne, Indoors
<1> QED BY <1>1, <1>2, <1>4

\* A goods issue makes the request of its task, and no other, owe what it ships.
LEMMA OutdoorsOwes ==
    ASSUME ReturnsTypeOK, RequestInv, RecordedIsIssued, OutInv, UNCHANGED usage,
           NEW t \in Task, Outdoors(t)
    PROVE  IssuedIsShipped' /\ PickedIsWanted' /\ OwedByOne'
<1>0. TypeOK /\ GoodsIssue(t) /\ StockInv /\ task[t] \in CancellableStatuses
  BY DEF ReturnsTypeOK, Outdoors, OutInv, GoodsIssue, CancellableStatuses
<1>1. owner[t] \in Req /\ req[owner[t]] \in {"PICKING", "CANCELLED"}
  BY <1>0 DEF RequestInv, LiveTaskKept
<1>2. \A s \in Row : usage[owner[t]][s] = "NONE"
  BY <1>1 DEF RecordedIsIssued, Done
<1>3. ship[t] # "shipped"
  BY DEF Outdoors, GoodsIssue
<1>4. IssuedIsShipped' /\ PickedIsWanted'
  BY DEF OutInv, IssuedIsShipped, PickedIsWanted, Outdoors
<1>5. ASSUME NEW s \in Row, NEW r \in Req, line[t][s].got = 0 \/ r # owner[t]
      PROVE  Owes(r, s)' <=> Owes(r, s)
  BY <1>3, <1>5 DEF Owes, TasksOf, Outdoors
<1>6. ASSUME NEW s \in Row, s \in OutRows(t)
      PROVE  /\ stat[s] # "SHIPPED" /\ stat'[s] = "SHIPPED" /\ line[t][s].got > 0
             /\ \A r \in Req : Owes(r, s)' <=> r = owner[t]
  <2>1. stat[s] # "SHIPPED" /\ stat'[s] = "SHIPPED"
    BY <1>0, <1>6, GoodsIssueRows
  <2>2. line[t][s].got > 0
    BY <1>6 DEF OutRows
  <2>3. \A r \in Req : ~Owes(r, s)
    BY <2>1 DEF OutInv, OwedByOne
  <2>4. ASSUME NEW r \in Req, r = owner[t] PROVE Owes(r, s)'
    <3>1. owner'[t] = r /\ ship'[t] = "shipped" /\ line'[t][s].got > 0
      BY <2>2, <2>4 DEF Outdoors
    <3>2. usage'[r][s] = "NONE"
      BY <1>2, <2>4
    <3> QED BY <3>1, <3>2 DEF Owes, TasksOf
  <2> QED BY <1>5, <2>1, <2>2, <2>3, <2>4
<1>7. ASSUME NEW s \in Row, s \notin OutRows(t)
      PROVE  /\ stat'[s] = "SHIPPED" <=> stat[s] = "SHIPPED"
             /\ \A r \in Req : Owes(r, s)' <=> Owes(r, s)
  <2>1. s \in Unit /\ s # NoUnit
    BY OutboundAssumption DEF Unit
  <2>2. line[t][s].got = 0
    <3>1. line[t][s].got \in Nat /\ line[t][s].want \in Nat
      BY <1>0, <2>1 DEF TypeOK, LineRecord
    <3>2. line[t][s].got <= line[t][s].want
      BY <2>1 DEF OutInv, PickedIsWanted
    <3> QED BY <1>7, <2>1, <3>1, <3>2 DEF OutRows, UnitsOf, LinesOf
  <2>3. stat'[s] = "SHIPPED" <=> stat[s] = "SHIPPED"
    <3>1. CASE s \notin UnitsOf(t)
      <4>1. stat'[s] \in {stat[s], "AVAILABLE"} /\ (stat[s] # "ABSENT" => stat'[s] = stat[s])
        BY <1>0, <3>1, GoodsIssueRows
      <4> QED BY <4>1
    <3>2. CASE s \in UnitsOf(t)
      <4>1. stat[s] \in {"RESERVED", "PICKED"}
        BY <1>0, <3>2 DEF Holds, StockInv, HeldUnitsCommitted
      <4>2. stat'[s] = "AVAILABLE"
        BY <1>0, <1>7, <3>2, <4>1, GoodsIssueRows
      <4> QED BY <4>1, <4>2
    <3> QED BY <3>1, <3>2
  <2> QED BY <1>5, <2>2, <2>3
<1>8. OwedByOne'
  <2> SUFFICES ASSUME NEW s \in Row
               PROVE  /\ stat'[s] = "SHIPPED" <=> \E r \in Req : Owes(r, s)'
                      /\ \A r, q \in Req : Owes(r, s)' /\ Owes(q, s)' => r = q
    BY DEF OwedByOne
  <2>1. CASE s \in OutRows(t)
    BY <1>1, <1>6, <2>1
  <2>2. CASE s \notin OutRows(t)
    BY <1>7, <2>2 DEF OutInv, OwedByOne
  <2> QED BY <2>1, <2>2
<1> QED BY <1>4, <1>8

LEMMA OutboundOut ==
    ASSUME ReturnsTypeOK, HandoverInv, UsageInv, OutInv, Repair = {}, OutboundNext
    PROVE  OutInv'
<1>1. Next /\ usage' = usage /\ TypeOK /\ StockInv /\ RequestInv /\ repair = NoRepair
  BY DEF OutboundNext, ReturnsTypeOK, OutInv, HandoverInv
<1>2. StockInv'
  BY <1>1, NoRepairStays, StockNext
<1>3. Indoors \/ \E t \in Task : Outdoors(t)
  BY <1>1, InOrOut
<1>4. IssuedIsShipped' /\ PickedIsWanted' /\ OwedByOne'
  BY <1>1, <1>3, IndoorsOwes, OutdoorsOwes DEF UsageInv
<1> QED BY <1>2, <1>4 DEF OutInv

\* What was issued on a request that is done and has no outcome yet is out.
LEMMA IssuedIsOut ==
    ASSUME HandoverInv, OutInv, NEW r \in Req, req[r] \in Done,
           NEW s \in Issued(r), usage[r][s] \in {"NONE", "PENDING"}
    PROVE  Owes(r, s) /\ stat[s] = "SHIPPED"
<1>1. PICK t \in UncancelledTasks(r) : line[t][s].got > 0
  BY DEF Issued
<1>2. t \in TasksOf(r) /\ t \in Task /\ task[t] \in Finished /\ task[t] # "CANCELLED"
  BY DEF HandoverInv, DoneIsHandedOver, UncancelledTasks, TasksOf
<1>3. ship[t] = "shipped"
  BY <1>2 DEF OutInv, IssuedIsShipped, Finished, IssuedTaskStatuses
<1>4. Owes(r, s) /\ s \in Row
  BY <1>1, <1>2, <1>3 DEF Owes, Issued
<1> QED BY <1>4 DEF OutInv, OwedByOne

\* A step on units of r that were out: each stays out and owed, or neither.
LEMMA UsageOut ==
    ASSUME ReturnsTypeOK, OutInv, UNCHANGED <<qty, taskVars>>, NEW r \in Req,
           NEW U \in SUBSET Row, \A s \in U : Owes(r, s) /\ stat[s] = "SHIPPED",
           \A q \in Req \ {r} : usage'[q] = usage[q],
           \A s \in Row \ U : stat'[s] = stat[s] /\ usage'[r][s] = usage[r][s],
           \A s \in U : stat'[s] = "SHIPPED" <=> usage'[r][s] \in {"NONE", "PENDING"}
    PROVE  OutInv'
<1> USE DEF taskVars
<1>1. TypeOK /\ StockInv
  BY DEF ReturnsTypeOK, OutInv
<1>2. \A t \in Task, s \in Row : Holds(t, s)' <=> Holds(t, s)
  BY DEF Holds, UnitsOf, LinesOf
<1>3. \A t \in Task, s \in Row : Holds(t, s) => stat'[s] = stat[s]
  BY DEF OutInv, StockInv, HeldUnitsCommitted
<1>4. StockInv'
  BY <1>1, <1>2, <1>3, StockKept
<1>5. IssuedIsShipped' /\ PickedIsWanted'
  BY DEF OutInv, IssuedIsShipped, PickedIsWanted
<1>6. ASSUME NEW s \in Row, s \notin U PROVE \A q \in Req : Owes(q, s)' <=> Owes(q, s)
  BY <1>6 DEF Owes, TasksOf
<1>7. ASSUME NEW s \in Row, s \in U
      PROVE  \A q \in Req : Owes(q, s)' <=> q = r /\ stat'[s] = "SHIPPED"
  <2>1. \A q \in Req \ {r} : ~Owes(q, s)
    BY <1>7 DEF OutInv, OwedByOne
  <2>2. \A q \in Req \ {r} : ~Owes(q, s)'
    BY <2>1 DEF Owes, TasksOf
  <2>3. Owes(r, s)' <=> stat'[s] = "SHIPPED"
    BY <1>7 DEF Owes, TasksOf
  <2> QED BY <2>2, <2>3
<1>8. OwedByOne'
  <2> SUFFICES ASSUME NEW s \in Row
               PROVE  /\ stat'[s] = "SHIPPED" <=> \E q \in Req : Owes(q, s)'
                      /\ \A p, q \in Req : Owes(p, s)' /\ Owes(q, s)' => p = q
    BY DEF OwedByOne
  <2>1. CASE s \in U
    BY <1>7, <2>1
  <2>2. CASE s \notin U
    BY <1>6, <2>2 DEF OutInv, OwedByOne
  <2> QED BY <2>1, <2>2
<1> QED BY <1>4, <1>5, <1>8 DEF OutInv

LEMMA ConfirmOut ==
    ASSUME ReturnsTypeOK, HandoverInv, UsageInv, NoneEmpty, OutInv, NEW c \in Call, ConfirmUsage(c)
    PROVE  OutInv'
<1> DEFINE r == call[c].req
<1>0. r \in Req /\ req[r] \in Done /\ call[c].units = Issued(r)
  BY DEF ConfirmUsage, UsageInv, CallFacts, NoneEmpty, HandedEmpty, Done
<1>1. PICK U \in (SUBSET Unrecorded(c)) \ {{}} : \E use \in [U -> Usages] :
        /\ stat' = UsageStat(use)
        /\ usage' = [usage EXCEPT ![r] = Written(@, use)]
  BY DEF ConfirmUsage
<1>2. PICK use \in [U -> Usages] :
        /\ stat' = UsageStat(use)
        /\ usage' = [usage EXCEPT ![r] = Written(@, use)]
  BY <1>1
<1>3. \A s \in U : s \in Issued(r) /\ s \in Row /\ usage[r][s] = "NONE" /\ use[s] \in Usages
  BY <1>0, <1>1 DEF Unrecorded, Issued
<1>4. \A s \in U : Owes(r, s) /\ stat[s] = "SHIPPED"
  BY <1>0, <1>3, IssuedIsOut
<1>5. /\ \A q \in Req \ {r} : usage'[q] = usage[q]
      /\ \A s \in Row : usage'[r][s] = IF s \in U THEN use[s] ELSE usage[r][s]
  BY <1>0, <1>2 DEF ReturnsTypeOK, Written
<1>6. \A s \in Row : stat'[s] = IF s \in U /\ use[s] = "USED" THEN "CONSUMED"
                                 ELSE IF s \in U /\ use[s] = "DOA" THEN "RTV_PENDING"
                                 ELSE stat[s]
  BY <1>2 DEF UsageStat
<1>7. \A s \in U : stat'[s] = "SHIPPED" <=> usage'[r][s] \in {"NONE", "PENDING"}
  BY <1>3, <1>4, <1>5, <1>6 DEF Usages
<1>8. UNCHANGED <<qty, taskVars>> /\ U \in SUBSET Row
  BY <1>3 DEF ConfirmUsage
<1> HIDE DEF r
<1> QED BY <1>0, <1>4, <1>5, <1>6, <1>7, <1>8, UsageOut

LEMMA ProcessOut ==
    ASSUME ReturnsTypeOK, HandoverInv, UsageInv, NoneEmpty, OutInv, NEW c \in Call, ProcessUnits(c)
    PROVE  OutInv'
<1> DEFINE r == call[c].req
<1>0. r \in Req
  BY DEF ProcessUnits, UsageInv, CallFacts
<1>1. PICK U \in (SUBSET Awaited(call[c].known)) \ {{}}, out \in Outcomes :
        /\ U \subseteq Awaited(usage[r])
        /\ usage' = [usage EXCEPT ![r] = Written(@, [s \in U |-> out])]
        /\ stat' = Transition(stat, U, IF out = "RECEIVED" THEN "PENDING_INSPECTION"
                                       ELSE "RTV_PENDING")
  BY DEF ProcessUnits
<1>2. \A s \in U : s \in Row /\ usage[r][s] = "PENDING"
  BY <1>1 DEF Awaited
<1>3. \A s \in U : req[r] \in Done /\ s \in Issued(r)
  BY <1>0, <1>2 DEF UsageInv, RecordedIsIssued, NoneEmpty, HandedEmpty, Done
<1>4. \A s \in U : Owes(r, s) /\ stat[s] = "SHIPPED"
  BY <1>0, <1>2, <1>3, IssuedIsOut
<1>5. /\ \A q \in Req \ {r} : usage'[q] = usage[q]
      /\ \A s \in Row : usage'[r][s] = IF s \in U THEN out ELSE usage[r][s]
  BY <1>0, <1>1 DEF ReturnsTypeOK, Written
<1>6. \A s \in Row : IF s \in U THEN stat'[s] # "SHIPPED" ELSE stat'[s] = stat[s]
  BY <1>1 DEF Transition
<1>7. \A s \in U : stat'[s] = "SHIPPED" <=> usage'[r][s] \in {"NONE", "PENDING"}
  BY <1>2, <1>5, <1>6 DEF Outcomes
<1>8. UNCHANGED <<qty, taskVars>> /\ U \in SUBSET Row
  BY <1>2 DEF ProcessUnits
<1> HIDE DEF r
<1> QED BY <1>0, <1>4, <1>5, <1>6, <1>7, <1>8, UsageOut

\* Steps that leave tasks and usages alone, and rows except ones neither held
\* nor out.
LEMMA OthersOut ==
    ASSUME ReturnsTypeOK, OutInv, UNCHANGED <<qty, taskVars, usage>>,
           \A s \in Row : \/ stat'[s] = stat[s]
                          \/ stat[s] = "PENDING_INSPECTION" /\ stat'[s] # "SHIPPED"
    PROVE  OutInv'
<1> USE DEF taskVars
<1>1. TypeOK /\ StockInv
  BY DEF ReturnsTypeOK, OutInv
<1>2. \A t \in Task, s \in Row : Holds(t, s)' <=> Holds(t, s)
  BY DEF Holds, UnitsOf, LinesOf
<1>3. \A t \in Task, s \in Row : Holds(t, s) => stat'[s] = stat[s]
  BY DEF OutInv, StockInv, HeldUnitsCommitted
<1>4. StockInv'
  BY <1>1, <1>2, <1>3, StockKept
<1>5. IssuedIsShipped' /\ PickedIsWanted'
  BY DEF OutInv, IssuedIsShipped, PickedIsWanted
<1>6. \A r \in Req, s \in Row : Owes(r, s)' <=> Owes(r, s)
  BY DEF Owes, TasksOf
<1>7. OwedByOne'
  BY <1>6 DEF OutInv, OwedByOne
<1> QED BY <1>4, <1>5, <1>7 DEF OutInv

LEMMA OutInit == ReturnsInit => OutInv
<1> SUFFICES ASSUME ReturnsInit PROVE OutInv
  OBVIOUS
<1>1. StockInv
  BY InvInit DEF ReturnsInit, IInv
<1>2. IssuedIsShipped /\ PickedIsWanted
  BY DEF ReturnsInit, Init, IssuedIsShipped, PickedIsWanted, IssuedTaskStatuses, NoLine
<1>3. \A s \in Row : stat[s] # "SHIPPED"
  BY DEF ReturnsInit, Init
<1>4. \A r \in Req, s \in Row : ~Owes(r, s)
  BY DEF ReturnsInit, Init, Owes, TasksOf
<1> QED BY <1>1, <1>2, <1>3, <1>4 DEF OutInv, OwedByOne

LEMMA OutAlways ==
    ASSUME Repair = {}
    PROVE  ReturnsSpec => [](RInv /\ (NoneEmpty => OutInv))
<1>1. RInv /\ [ReturnsNext]_returnsVars => RInv'
  BY ReturnsInvNext
<1>2. RInv /\ (NoneEmpty => OutInv) /\ [ReturnsNext]_returnsVars => (NoneEmpty => OutInv)'
  <2> SUFFICES ASSUME RInv, NoneEmpty => OutInv, [ReturnsNext]_returnsVars, NoneEmpty' PROVE OutInv'
    OBVIOUS
  <2>0. ReturnsTypeOK /\ HandoverInv /\ UsageInv /\ NoneEmpty /\ OutInv
    BY EmptyStays DEF RInv
  <2>o. CASE OutboundNext
    BY <2>0, <2>o, OutboundOut
  <2>c. ASSUME NEW c \in Call, ConfirmUsage(c) \/ ProcessUnits(c) PROVE OutInv'
    BY <2>0, <2>c, ConfirmOut, ProcessOut
  <2>b. ASSUME NEW c \in Call,
               \/ \E r \in Req : BeginUsage(c, r) \/ BeginReturn(c, r)
               \/ Throw(c)
        PROVE  OutInv'
    <3>1. UNCHANGED <<qty, stat, taskVars, usage>>
      BY <2>b DEF BeginUsage, BeginReturn, Begin, Throw, vars, taskVars
    <3> QED BY <2>0, <3>1, OthersOut
  <2>w. ASSUME NEW x \in Row, Putaway(x) PROVE OutInv'
    <3>1. UNCHANGED <<qty, taskVars, usage>>
      BY <2>w DEF Putaway
    <3>2. \A s \in Row : \/ stat'[s] = stat[s]
                         \/ stat[s] = "PENDING_INSPECTION" /\ stat'[s] # "SHIPPED"
      BY <2>w DEF Putaway, Transition
    <3> QED BY <2>0, <3>1, <3>2, OthersOut
  <2>s. CASE UNCHANGED returnsVars
    <3>1. UNCHANGED <<qty, stat, taskVars, usage>>
      BY <2>s DEF returnsVars, vars, taskVars
    <3> QED BY <2>0, <3>1, OthersOut
  <2> QED BY <2>o, <2>c, <2>b, <2>w, <2>s DEF ReturnsNext, UsageNext
<1> QED BY <1>1, <1>2, ReturnsInvInit, OutInit, PTL DEF ReturnsSpec

\* A row is out exactly as long as one request has to account for it, over any
\* number of issues, usages, returns and put-aways, until a task is handed over
\* with nothing picked on it.
THEOREM ShippedIsOwedAlways ==
    ASSUME Repair = {}
    PROVE  ReturnsSpec => []ShippedIsOwed
<1>1. RInv /\ (NoneEmpty => OutInv) => ShippedIsOwed
  BY DEF OutInv, ShippedIsOwed
<1> QED BY <1>1, OutAlways, PTL

\* Usages, returns and put-aways never take a row from the task that holds it,
\* until a task is handed over with nothing picked on it.
THEOREM CommittedUnderReturns ==
    ASSUME Repair = {}
    PROVE  ReturnsSpec => []HeldUnitsKept
<1>1. RInv /\ (NoneEmpty => OutInv) => HeldUnitsKept
  BY DEF OutInv, StockInv, HeldUnitsKept
<1> QED BY <1>1, OutAlways, PTL

=============================================================================
