------------------------------- MODULE Receiving -------------------------------
(***************************************************************************)
(* Goods in, and the cases over defective goods: ReceivingService,         *)
(* PutawayService, DoaService, RtvService, ScrapService, and the serial    *)
(* guard.  What outbound does to a unit in between is Issue, Split,        *)
(* Consume, ComeBack and Defective, the steps that modules Outbound and    *)
(* Returns model in full; a usage recorded of a row that still is reserved *)
(* or picked is Issue and Consume or Defective in one.                     *)
(*                                                                         *)
(* A handler that re-checks under locks what it read before its            *)
(* transaction is one action.  ScrapService.create does not and is two.    *)
(***************************************************************************)
EXTENDS Naturals

CONSTANTS
    Unit,         \* stock rows; a row is also the receipt line that made it
    Serial,       \* serial numbers that identify a unit
    NotAvailable, \* the text 'N/A' where a serial is asked for
    NoSerial,     \* no text at all
    Receipt, NoReceipt,
    NoUnit,
    RtvCase, NoCase,
    ScrapCase,
    Call,         \* handlers of ScrapService.create that run at the same time
    MaxQty        \* the largest received quantity

ASSUME ReceivingAssumption ==
    /\ NoUnit \notin Unit /\ NoReceipt \notin Receipt /\ NoCase \notin RtvCase
    /\ {NotAvailable, NoSerial} \cap Serial = {} /\ NotAvailable # NoSerial
    /\ MaxQty \in Nat \ {0}

VARIABLES
    stat, qty, serial,  \* StockItem
    receipt,            \* the receipt of the line that made the row
    gr,                 \* GoodsReceiving.statusEnum
    source,             \* GoodsReceiving.sourceRef: the case it is a replacement for
    rtv, scrap,         \* RTVCase, ScrapCase
    call,               \* scrap requests that have passed their checks
    back,               \* history: units that came back from an issue
    reopened            \* history: units of a case whose replacement was reversed

vars == <<stat, qty, serial, receipt, gr, source, rtv, scrap, call, back, reopened>>
caseVars == <<rtv, reopened, scrap, call>>
lineVars == <<receipt, gr, source>>

\* The text in StockItem.serialNumber.
SerialText == Serial \union {NotAvailable, NoSerial}

\* CLOSED stands for CONSUMED, too.  DAMAGED, which only a manual change writes,
\* is left out: it differs from QUARANTINE in that no receipt of it is reversed.
StockStatus == {"ABSENT", "PENDING_RECEIVING", "PENDING_INSPECTION", "QUARANTINE",
                "RTV_PENDING", "RTV_SHIPPED", "DOA", "AVAILABLE", "SHIPPED",
                "CLOSED", "CANCELLED"}
SerialReleased == {"ABSENT", "SHIPPED", "CLOSED", "CANCELLED"}
Reversible == {"PENDING_RECEIVING", "PENDING_INSPECTION", "QUARANTINE", "RTV_PENDING"}
OnHandUncommitted == {"AVAILABLE", "QUARANTINE", "DOA", "RTV_PENDING"}
RtvEligible == {"DOA", "QUARANTINE", "RTV_PENDING"}
Declarable == {"AVAILABLE", "QUARANTINE", "PENDING_INSPECTION"}
ManualStatuses == {"AVAILABLE", "QUARANTINE", "DOA"}

\* INSPECTED stands for PUTAWAY_PENDING, PARTIAL, REJECTED and COMPLETED: how the
\* inspection went matters to no later step.
ReceivingStatus == {"NONE", "QC_PENDING", "INSPECTED", "CANCELLED"}
\* OPEN stands for the statuses in which no replacement is awaited, which no
\* code tells apart, and for SHIPPED_TO_VENDOR once it has moved the unit.
RtvClosed == {"COMPLETED", "REJECTED_BY_VENDOR", "CANCELLED"}
Replaceable == {"VENDOR_RECEIVED", "REPLACEMENT_PENDING"}
RtvStatus == {"OPEN", "SHIPPED_TO_VENDOR"} \union Replaceable \union RtvClosed
\* No code reads a case again that ended without a replacement, or a scrap case
\* that ended: it is forgotten, and its identifier is free for another one.
ScrapOpen == {"PENDING_REVIEW", "APPROVED"}

RtvRecord == [at : {"NONE", "OPEN", "COMPLETED"} \union Replaceable,
              unit : Unit \union {NoUnit}, repl : Unit \union {NoUnit}]
NoRtv == [at |-> "NONE", unit |-> NoUnit, repl |-> NoUnit]
NoScrap == [at |-> "NONE", unit |-> NoUnit, qty |-> 0]
Idle == [unit |-> NoUnit, qty |-> 0]

TypeOK ==
    /\ stat \in [Unit -> StockStatus]
    /\ qty \in [Unit -> 0..MaxQty]
    /\ serial \in [Unit -> SerialText]
    /\ receipt \in [Unit -> Receipt \union {NoReceipt}]
    /\ gr \in [Receipt -> ReceivingStatus]
    /\ source \in [Receipt -> RtvCase \union {NoCase}]
    /\ rtv \in [RtvCase -> RtvRecord]
    /\ scrap \in [ScrapCase -> [at : ScrapOpen \union {"NONE"},
                                unit : Unit \union {NoUnit}, qty : 0..MaxQty]]
    /\ call \in [Call -> [unit : Unit \union {NoUnit}, qty : 0..MaxQty]]
    /\ back \subseteq Unit /\ reopened \subseteq Unit

Init ==
    /\ stat = [u \in Unit |-> "ABSENT"]
    /\ qty = [u \in Unit |-> 0]
    /\ serial = [u \in Unit |-> NoSerial]
    /\ receipt = [u \in Unit |-> NoReceipt]
    /\ gr = [g \in Receipt |-> "NONE"]
    /\ source = [g \in Receipt |-> NoCase]
    /\ rtv = [c \in RtvCase |-> NoRtv]
    /\ scrap = [c \in ScrapCase |-> NoScrap]
    /\ call = [h \in Call |-> Idle]
    /\ back = {} /\ reopened = {}

-----------------------------------------------------------------------------
(* common *)

Lines(g) == {u \in Unit : receipt[u] = g}
Active(u) == stat[u] \notin SerialReleased
OpenRtv(c) == rtv[c].at \notin RtvClosed \union {"NONE"}
OpenScrap(c) == scrap[c].at \in ScrapOpen
RtvOn(u) == {c \in RtvCase : OpenRtv(c) /\ rtv[c].unit = u}
ScrapOn(u) == {c \in ScrapCase : OpenScrap(c) /\ scrap[c].unit = u}

\* Mutant of SerialsFree: the serials in stock are not looked at.
FreeInRequest(new, excluded) ==
    \A u, v \in DOMAIN new : u # v /\ new[u] \in Serial => new[u] # new[v]

\* assertSerialsFree, for the serials of function new: only a real serial counts.
SerialsFree(new, excluded) ==
    /\ \A u, v \in DOMAIN new : u # v /\ new[u] \in Serial => new[u] # new[v]
    /\ \A u \in DOMAIN new, v \in Unit \ excluded :
         new[u] \in Serial /\ serial[v] = new[u] => ~Active(v)

\* transitionStock of one row.
Move(u, from, to) == stat[u] \in from /\ stat' = [stat EXCEPT ![u] = to]

Over(f, new) == [u \in Unit |-> IF u \in DOMAIN new THEN new[u] ELSE f[u]]

-----------------------------------------------------------------------------
(* ReceivingService *)

\* create: a receipt with one line and one row for each unit of function new,
\* which gives its serial; n gives its quantity.
Receive(g, new, n) ==
    LET U == DOMAIN new
    IN  /\ gr[g] = "NONE" /\ \A u \in U : stat[u] = "ABSENT"
        /\ \A u \in U : new[u] \in Serial => n[u] = 1
        /\ SerialsFree(new, {})
        /\ serial' = Over(serial, new)
        /\ qty' = Over(qty, n)
        /\ stat' = [u \in Unit |-> IF u \in U THEN "PENDING_RECEIVING" ELSE stat[u]]
        /\ receipt' = [u \in Unit |-> IF u \in U THEN g ELSE receipt[u]]
        /\ gr' = [gr EXCEPT ![g] = "QC_PENDING"]
        /\ UNCHANGED back

Create(g) ==
    /\ \E U \in (SUBSET {u \in Unit : stat[u] = "ABSENT"}) \ {{}} :
         \E new \in [U -> SerialText], n \in [U -> 1..MaxQty] : Receive(g, new, n)
    /\ UNCHANGED <<source, caseVars>>

Route(outcome) ==
    CASE outcome \in {"good", "short_qty"} -> "PENDING_INSPECTION"
      [] outcome = "doa" -> "RTV_PENDING"
      [] OTHER -> "QUARANTINE"

InspectionOutcomes ==
    {"good", "short_qty", "doa", "damaged", "wrong_item", "missing_accessories"}

\* inspect, of some lines.  A line that has an outcome is the line of a unit
\* that is not PENDING_RECEIVING any more, and the reverse before verify.  A
\* serial may be corrected to 'N/A', or to a real one on a line of several units.
Inspect(g) ==
    /\ gr[g] \notin {"NONE", "CANCELLED"}
    /\ \E L \in (SUBSET {u \in Lines(g) : stat[u] = "PENDING_RECEIVING"}) \ {{}} :
         /\ \E corrected \in [L -> SerialText] :
              LET fixed == {u \in L : corrected[u] \notin {NoSerial, serial[u]}}
                  new == [u \in fixed |-> corrected[u]]
              IN  SerialsFree(new, fixed) /\ serial' = Over(serial, new)
         /\ \E to \in [L -> {Route(o) : o \in InspectionOutcomes}] : stat' = Over(stat, to)
         /\ \E n \in [L -> 0..MaxQty] :
              (\A u \in L : n[u] <= qty[u]) /\ qty' = Over(qty, n)
    /\ gr' = [gr EXCEPT ![g] = "INSPECTED"]
    /\ UNCHANGED <<receipt, source, back, caseVars>>

\* verify: every line by the condition it was received in.
Verify(g) ==
    /\ gr[g] = "QC_PENDING"
    /\ \A u \in Lines(g) : stat[u] = "PENDING_RECEIVING"
    /\ \E condition \in [Lines(g) -> {"good", "doa", "damaged"}] :
         stat' = Over(stat, [u \in Lines(g) |-> Route(condition[u])])
    /\ gr' = [gr EXCEPT ![g] = "INSPECTED"]
    /\ UNCHANGED <<qty, serial, receipt, source, back, caseVars>>

\* Mutant of Movable: open cases are not looked at.
MovableStatus(u) == stat[u] \in Reversible

Movable(u) == stat[u] \in Reversible /\ RtvOn(u) = {} /\ ScrapOn(u) = {}

\* Mutant of Reopened: the case keeps its replacement.
KeptReplacement(c) == [rtv[c] EXCEPT !.at = "REPLACEMENT_PENDING"]

\* A case whose replacement is reversed waits for its replacement again,
\* whatever has become of its unit and of the receipt that brought it.
Reopened(c) == [rtv[c] EXCEPT !.repl = NoUnit, !.at = "REPLACEMENT_PENDING"]

Reverse(g) ==
    /\ gr[g] \notin {"NONE", "CANCELLED"}
    /\ \A u \in Lines(g) : Movable(u)
    /\ gr' = [gr EXCEPT ![g] = "CANCELLED"]
    /\ stat' = [u \in Unit |-> IF u \in Lines(g) THEN "CANCELLED" ELSE stat[u]]
    /\ rtv' = [c \in RtvCase |-> IF rtv[c].repl \in Lines(g) THEN Reopened(c) ELSE rtv[c]]
    /\ reopened' = reopened \union
                     {u \in Unit : \E c \in RtvCase : rtv[c].unit = u /\ rtv[c].repl \in Lines(g)}
    /\ UNCHANGED <<qty, serial, receipt, source, scrap, call, back>>

-----------------------------------------------------------------------------
(* PutawayService, DoaService, InventoryService; what outbound does to a unit *)

StockStep(u, from, to) ==
    /\ Move(u, from, to)
    /\ UNCHANGED <<qty, serial, lineVars, caseVars, back>>

Putaway(u) == StockStep(u, {"PENDING_INSPECTION"}, "AVAILABLE")
Declare(u) == StockStep(u, Declarable, "DOA")
SetStatus(u, to) == to \in ManualStatuses /\ StockStep(u, ManualStatuses, to)

Issue(u) == StockStep(u, {"AVAILABLE"}, "SHIPPED")
Consume(u) == StockStep(u, {"SHIPPED"}, "CLOSED")

\* processUnits: the row is in stock again, with its serial, unchecked.
ComeBack(u) ==
    /\ Move(u, {"SHIPPED"}, "PENDING_INSPECTION")
    /\ back' = back \union {u}
    /\ UNCHANGED <<qty, serial, lineVars, caseVars>>

\* confirmUsage of a defective unit, and processUnits of one: the row is in
\* stock again, too, under a vendor case that is opened without a look at others.
Defective(c, u) ==
    /\ rtv[c].at = "NONE"
    /\ Move(u, {"SHIPPED"}, "RTV_PENDING")
    /\ back' = back \union {u}
    /\ rtv' = [rtv EXCEPT ![c] = [NoRtv EXCEPT !.at = "OPEN", !.unit = u]]
    /\ UNCHANGED <<qty, serial, lineVars, reopened, scrap, call>>

\* A reservation splits a row that is larger than what it needs, unless there
\* is a text for its serial.
Split(u) ==
    /\ stat[u] = "AVAILABLE" /\ serial[u] = NoSerial
    /\ \E v \in Unit, n \in 1..MaxQty :
         /\ stat[v] = "ABSENT" /\ n < qty[u]
         /\ stat' = [stat EXCEPT ![v] = "AVAILABLE"]
         /\ qty' = [qty EXCEPT ![u] = n, ![v] = qty[u] - n]
    /\ UNCHANGED <<serial, lineVars, caseVars, back>>

-----------------------------------------------------------------------------
(* RtvService *)

Caseless(u) == RtvOn(u) = {}

\* openRtvCase.
OpenRtvCase(c, u) ==
    /\ rtv[c].at = "NONE"
    /\ Caseless(u)
    /\ Move(u, RtvEligible, "RTV_PENDING")
    /\ rtv' = [rtv EXCEPT ![c] = [NoRtv EXCEPT !.at = "OPEN", !.unit = u]]
    /\ UNCHANGED <<qty, serial, lineVars, reopened, scrap, call, back>>

\* What a change of status does to the unit, if it is still waiting.
Shipped(u, to) ==
    IF stat[u] # "RTV_PENDING" THEN stat[u]
    ELSE CASE to = "SHIPPED_TO_VENDOR" -> "RTV_SHIPPED"
           [] to = "CANCELLED" -> "DOA"
           [] OTHER -> stat[u]

\* updateStatus: any status may follow any other, but for three; whether the
\* unit was shipped to the vendor is not asked.
UpdateRtv(c, to) ==
    LET u == rtv[c].unit
    IN  /\ OpenRtv(c)
        /\ ~(to = "COMPLETED" /\ rtv[c].at = "REPLACEMENT_PENDING")
        /\ rtv' = [rtv EXCEPT ![c] = IF to \in RtvClosed THEN NoRtv
                                        ELSE IF to \in Replaceable THEN [@ EXCEPT !.at = to]
                                        ELSE [@ EXCEPT !.at = "OPEN"]]
        /\ stat' = [stat EXCEPT ![u] = Shipped(u, to)]
    /\ UNCHANGED <<qty, serial, lineVars, reopened, scrap, call, back>>

Awaiting(c) == rtv[c].repl = NoUnit /\ rtv[c].at \in Replaceable

\* A replacement with a text for its serial, or for a unit that has one, is one
\* unit; else it is as many as the unit it replaces.
ReceiveReplacement(c, g, v) ==
    LET u == rtv[c].unit
    IN  /\ Awaiting(c)
        /\ \E text \in SerialText :
             Receive(g, [x \in {v} |-> text],
                     [x \in {v} |-> IF serial[u] # NoSerial \/ text # NoSerial THEN 1 ELSE qty[u]])
        /\ source' = [source EXCEPT ![g] = c]
        /\ rtv' = [rtv EXCEPT ![c].at = "COMPLETED", ![c].repl = v]
    /\ UNCHANGED <<reopened, scrap, call>>

-----------------------------------------------------------------------------
(* ScrapService *)

\* create: the checks, then the transaction.
AskScrap(h, u) ==
    /\ call[h].unit = NoUnit
    /\ stat[u] \in OnHandUncommitted
    /\ \E n \in 1..qty[u] : call' = [call EXCEPT ![h] = [unit |-> u, qty |-> n]]
    /\ UNCHANGED <<stat, qty, serial, lineVars, rtv, reopened, scrap, back>>

\* Mutant of Scrappable: the open case is not looked for.
ScrappableAgain(u) == TRUE

Scrappable(u) == ScrapOn(u) = {}

CreateScrap(h, c) ==
    /\ call[h].unit # NoUnit /\ scrap[c].at = "NONE"
    /\ Scrappable(call[h].unit)
    /\ scrap' = [scrap EXCEPT ![c] =
                   [at |-> "PENDING_REVIEW", unit |-> call[h].unit, qty |-> call[h].qty]]
    /\ call' = [call EXCEPT ![h] = Idle]
    /\ UNCHANGED <<stat, qty, serial, lineVars, rtv, reopened, back>>

RefuseScrap(h) ==
    /\ call[h].unit # NoUnit /\ ~Scrappable(call[h].unit)
    /\ call' = [call EXCEPT ![h] = Idle]
    /\ UNCHANGED <<stat, qty, serial, lineVars, rtv, reopened, scrap, back>>

ApproveScrap(c) ==
    /\ scrap[c].at = "PENDING_REVIEW"
    /\ scrap' = [scrap EXCEPT ![c].at = "APPROVED"]
    /\ UNCHANGED <<stat, qty, serial, lineVars, rtv, reopened, call, back>>

\* REJECTED or CANCELLED.
RejectScrap(c) ==
    /\ OpenScrap(c)
    /\ scrap' = [scrap EXCEPT ![c] = NoScrap]
    /\ UNCHANGED <<stat, qty, serial, lineVars, rtv, reopened, call, back>>

\* Mutant of PartOnly: the whole row goes.
WholeRow(c) == FALSE

\* The case is for a part of a row that can be divided.  A row for which 'N/A'
\* was given counts as one with a serial, whatever its quantity.
PartOnly(c) == qty[scrap[c].unit] > scrap[c].qty /\ serial[scrap[c].unit] = NoSerial

Dispose(c) ==
    LET u == scrap[c].unit
    IN  /\ scrap[c].at = "APPROVED"
        /\ stat[u] \in OnHandUncommitted
        /\ IF PartOnly(c)
           THEN qty' = [qty EXCEPT ![u] = @ - scrap[c].qty] /\ UNCHANGED stat
           ELSE stat' = [stat EXCEPT ![u] = "CLOSED"] /\ UNCHANGED qty
        /\ scrap' = [scrap EXCEPT ![c] = NoScrap]
    /\ UNCHANGED <<serial, lineVars, rtv, reopened, call, back>>

-----------------------------------------------------------------------------

Next ==
    \/ \E g \in Receipt : Create(g) \/ Inspect(g) \/ Verify(g) \/ Reverse(g)
    \/ \E u \in Unit : \/ Putaway(u) \/ Declare(u)
                       \/ Issue(u) \/ Consume(u) \/ ComeBack(u) \/ Split(u)
                       \/ \E to \in ManualStatuses : SetStatus(u, to)
    \/ \E c \in RtvCase, u \in Unit : OpenRtvCase(c, u) \/ Defective(c, u)
    \/ \E c \in RtvCase, to \in RtvStatus : UpdateRtv(c, to)
    \/ \E c \in RtvCase, g \in Receipt, v \in Unit : ReceiveReplacement(c, g, v)
    \/ \E h \in Call, u \in Unit : AskScrap(h, u)
    \/ \E h \in Call, c \in ScrapCase : CreateScrap(h, c)
    \/ \E h \in Call : RefuseScrap(h)
    \/ \E c \in ScrapCase : ApproveScrap(c) \/ RejectScrap(c) \/ Dispose(c)

Spec == Init /\ [][Next]_vars

-----------------------------------------------------------------------------
(* Properties *)

\* Two active rows share a serial only if one of them was issued and came
\* back: receiving, inspection, reversals and cases never let a serial be
\* active twice, whatever is reversed, corrected, replaced or received again.
SerialActiveOnce ==
    \A u, v \in Unit :
      u # v /\ Active(u) /\ Active(v) /\ serial[u] \in Serial /\ serial[u] = serial[v]
        => {u, v} \cap back # {}

\* A reversed receipt left nothing in the building, nothing else is cancelled,
\* and a vendor case is open over a unit that was never received only if the
\* reversal of a replacement re-opened it.
CaseHasUnit(c) == OpenRtv(c) => stat[rtv[c].unit] # "CANCELLED"
ReversedIsGone ==
    /\ \A u \in Unit : stat[u] = "CANCELLED" <=> receipt[u] # NoReceipt /\ gr[receipt[u]] = "CANCELLED"
    /\ \A c \in RtvCase : rtv[c].unit \notin reopened => CaseHasUnit(c)

\* "At most one open case per unit", for scrap cases, and for vendor cases over
\* units none of whose cases was re-opened by the reversal of a replacement:
\* whatever opens a case without a look at the others, no other was open.
OneOpenCase ==
    \A u \in Unit : /\ u \notin reopened => \A c, d \in RtvOn(u) : c = d
                   /\ \A c, d \in ScrapOn(u) : c = d

\* "One replacement per case": a receipt that came as a replacement and was not
\* reversed brought the unit that its case is linked to and completed by, and
\* no case is linked to a unit of another receipt or of a reversed one.
Stands(g) == gr[g] \notin {"NONE", "CANCELLED"}
ReplacedOnce ==
    /\ \A g \in Receipt : source[g] # NoCase /\ Stands(g) => rtv[source[g]].repl \in Lines(g)
    /\ \A c \in RtvCase : rtv[c].repl # NoUnit =>
         /\ rtv[c].at = "COMPLETED"
         /\ \E g \in Receipt : Stands(g) /\ source[g] = c /\ rtv[c].repl \in Lines(g)

\* Disposing of an approved scrap case is the only way in which goods in the
\* building become fewer, and takes at most what was approved from the row,
\* unless the row is of several units and there is a text for their serial.
Taken(u) == IF stat'[u] = "CLOSED" THEN qty[u] ELSE qty[u] - qty'[u]
Fewer(u) ==
    /\ stat[u] \in OnHandUncommitted
    /\ stat'[u] = "CLOSED" \/ (qty'[u] < qty[u] /\ UNCHANGED stat)
Granted(u, n) ==
    \E c \in ScrapOn(u) : scrap[c].at = "APPROVED" /\ scrap'[c] = NoScrap /\ n <= scrap[c].qty
DisposedAtMost ==
    [][\A u \in Unit : Fewer(u) =>
         Granted(u, IF serial[u] # NoSerial /\ qty[u] > 1 THEN 0 ELSE Taken(u))]_vars

\* What the code's comments promise without those provisos.  scrap.service.ts:
\* "the scrapped quantity leaves the row, or the whole row is closed when
\* nothing remains".
TakesWhatWasApproved == [][\A u \in Unit : Fewer(u) => Granted(u, Taken(u))]_vars

\* rtv.service.ts: "at most one open case per unit", however it was opened, ...
OneVendorCase == \A u \in Unit : \A c, d \in RtvOn(u) : c = d

\* ... over a unit that was received ...
NoCaseOverReversed == \A c \in RtvCase : CaseHasUnit(c)

\* ... and "A replacement can be received once the vendor has the unit".
ReplacedHasLeft ==
    \A c \in RtvCase : rtv[c].repl # NoUnit => stat[rtv[c].unit] = "RTV_SHIPPED"

================================================================================
