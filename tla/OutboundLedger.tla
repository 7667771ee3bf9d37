---------------------------- MODULE OutboundLedger ----------------------------
(***************************************************************************)
(* Outbound, with unified reservation and without repairs, implements      *)
(* StockLedger: the rows a request's live task holds are the units held    *)
(* for it, the lines of its dispatched tasks are the units issued to it.   *)
(***************************************************************************)
EXTENDS Outbound

LiveUnits(r) == {s \in Row : \E t \in TasksOf(r) : Holds(t, s)}

freeQty == SumFunctionOnSet(qty, RowsIn(ManualStatuses))
heldQty == [r \in Req |-> SumFunctionOnSet(qty, LiveUnits(r))]
goneQty == [r \in Req |-> DispatchedQty(r)]
doneReq == {r \in Req : \E t \in TasksOf(r) : ship[t] = "shipped"}

Ledger == INSTANCE StockLedger WITH
    Total <- SumFunction(InitialQty),
    free <- freeQty, held <- heldQty, gone <- goneQty, done <- doneReq

\* Every step of the outbound flow is a step of the ledger or leaves it alone:
\* no interleaving of approvals, allocations, picks, cancels and dispatches
\* issues goods twice, issues what is not held or loses what is held.
ImplementsLedger == Ledger!Spec
=============================================================================
