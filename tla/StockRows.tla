------------------------------ MODULE StockRows ------------------------------
(***************************************************************************)
(* The StockItem table, as the outbound flow sees it: every row has a      *)
(* status and a quantity, and a row may be split in two.  All rows hold    *)
(* the same product in the same warehouse; serial numbers, slots and dates *)
(* are left out.  The operators return the table a write leaves behind, so *)
(* that one transaction can chain several writes before it commits.        *)
(***************************************************************************)
EXTENDS Integers, FiniteSets, Functions

CONSTANTS
    Row,        \* ids a stock row may have, those of future splits included
    InitialQty  \* the quantity on each row; 0 for an id not yet in use

ASSUME InitialQtyAssumption == InitialQty \in [Row -> Nat]

VARIABLES
    stat,       \* StockItem.status; "ABSENT" for an id not yet in use
    qty         \* StockItem.quantity

ManualStatuses == {"AVAILABLE", "QUARANTINE", "DAMAGED", "DOA"}

\* Statuses that only the outbound flow writes or leaves.
OutboundStatuses ==
    {"RESERVED", "PICKING", "PICKED", "PACKED", "READY_FOR_PICKUP"}

\* What becomes of a row after its goods were issued or received.
AfterIssueStatuses ==
    {"SHIPPED", "CONSUMED", "PENDING_RECEIVING", "PENDING_INSPECTION",
     "RTV_PENDING", "RTV_SHIPPED", "CLOSED", "CANCELLED"}

StockStatus ==
    {"ABSENT"} \union ManualStatuses \union OutboundStatuses \union AfterIssueStatuses

RowsIn(statuses) == {s \in Row : stat[s] \in statuses}

StockTypeOK ==
    /\ stat \in [Row -> StockStatus]
    /\ qty \in [Row -> Nat]

-----------------------------------------------------------------------------
\* transitionStock: the caller's guard is that every row of S is in a status
\* it accepts; one row that is not makes the whole transaction throw.
Transition(st, S, to) == [s \in Row |-> IF s \in S THEN to ELSE st[s]]

\* Mutant of Release: rows already picked stay picked.
ReleaseReservedOnly(st, S) ==
    [s \in Row |-> IF s \in S /\ st[s] = "RESERVED" THEN "AVAILABLE" ELSE st[s]]

\* releaseReservation: rows that are not reserved or picked are left alone.
Release(st, S) ==
    [s \in Row |->
        IF s \in S /\ st[s] \in {"RESERVED", "PICKING", "PICKED"}
        THEN "AVAILABLE" ELSE st[s]]

\* splitStockRow, for every row s that holds more than keep[s]: the row keeps
\* keep[s] and a new row fresh[s] takes the remainder, AVAILABLE.
Oversized(keep) == {s \in DOMAIN keep : keep[s] > 0 /\ qty[s] > keep[s]}

FreshIds(keep) == Injection(Oversized(keep), RowsIn({"ABSENT"}))

\* Mutant of SplitStat: the row kept, not the remainder, becomes available.
SplitKeptRow(st, fresh) ==
    [s \in Row |-> IF s \in DOMAIN fresh THEN "AVAILABLE"
                   ELSE IF s \in Range(fresh) THEN "RESERVED" ELSE st[s]]

SplitStat(st, fresh) ==
    [s \in Row |-> IF s \in Range(fresh) THEN "AVAILABLE" ELSE st[s]]

\* Mutants of Remainder: the new row gets the quantity the old one had, or the
\* operands are swapped.
WholeRemainder(parent, keep) == qty[parent]
SwappedRemainder(parent, keep) == keep[parent] - qty[parent]

Remainder(parent, keep) == qty[parent] - keep[parent]

SplitQty(keep, fresh) ==
    [s \in Row |->
        IF s \in DOMAIN fresh THEN keep[s]
        ELSE IF s \in Range(fresh)
             THEN Remainder(CHOOSE p \in DOMAIN fresh : fresh[p] = s, keep)
             ELSE qty[s]]

-----------------------------------------------------------------------------
\* Mutant of Fills: a row is taken whole although less is missing.
FillsUncapped(take, need) == \A s \in DOMAIN take : take[s] <= qty[s]

\* Rows taken one after the other until `need` units are covered: each row is
\* taken whole, except that the last one gives only what is still missing.
Fills(take, need) ==
    /\ \A s \in DOMAIN take : take[s] <= qty[s]
    /\ SumFunction(take) <= need
    /\ \A s, u \in DOMAIN take :
         take[s] < qty[s] => /\ SumFunction(take) = need
                             /\ take[u] < qty[u] => s = u

TotalQty == SumFunction(qty)
=============================================================================
