-------------------------------- MODULE Returns --------------------------------
(***************************************************************************)
(* What becomes of issued goods: RmaService.confirmUsage, the per-unit     *)
(* returns of UnusedService, and PutawayService.confirm, composed with the *)
(* outbound flow that issued them and may issue a returned unit again.     *)
(*                                                                         *)
(* Both handlers read the request and its issued units first and write in  *)
(* a transaction later, which may not see what others committed meanwhile. *)
(***************************************************************************)
EXTENDS Outbound

CONSTANT Call  \* handlers of usages and returns that run at the same time

VARIABLES
    usage,  \* IssuedUnitUsage, by request and unit
    call    \* the running handlers

returnsVars == <<vars, usage, call>>

\* usage and returnStatus in one.  DOA stands for DEFECTIVE, too, PENDING (to
\* come back) for UNUSED and WRONG_ITEM; RETURNED_DOA came back defective.
Usages == {"USED", "DOA", "PENDING"}
Outcomes == {"RECEIVED", "RETURNED_DOA"}
UsageRows == [Row -> {"NONE"} \union Usages \union Outcomes]

\* at: what the handler is to do; units, known: the issued units and the usage
\* rows of the request when the handler began.
CallRecord ==
    [at : {"idle", "usage", "return"}, req : Req \union {NoReq},
     units : SUBSET Row, known : UsageRows]
NoUsage == [s \in Row |-> "NONE"]
Idle == [at |-> "idle", req |-> NoReq, units |-> {}, known |-> NoUsage]

ReturnsTypeOK ==
    /\ TypeOK
    /\ usage \in [Req -> UsageRows]
    /\ call \in [Call -> CallRecord]

ReturnsInit ==
    /\ Init
    /\ usage = [r \in Req |-> NoUsage]
    /\ call = [c \in Call |-> Idle]

-----------------------------------------------------------------------------
(* issuedUnitsOf *)

\* Mutant of Issued: what was not picked counts as issued, too.
OnTheLines(r) == UNION {UnitsOf(t) : t \in UncancelledTasks(r)}

\* The picked lines of the request's task.
Issued(r) == {s \in Row : \E t \in UncancelledTasks(r) : line[t][s].got > 0}

\* Nothing was picked: the row of some line of the task, whatever its state
\* is now, or else the row that approval linked.
Fallback(r) ==
    LET lines == UNION {UnitsOf(t) : t \in TasksOf(r)}
    IN  IF lines # {} THEN {{s} : s \in lines} ELSE {{link[r]} \ {NoUnit}}

\* What issuedUnitsOf may return.
IssuedSets(r) == IF Issued(r) # {} THEN {Issued(r)} ELSE Fallback(r)

IssuedUnitStatuses == {"SHIPPED", "PICKED", "RESERVED"}

\* The rows a transaction reads: those that were there when its handler began,
\* or also what was committed since; in either case its own writes.
Views(c) == {call[c].known, usage[call[c].req]}

Written(rows, new) ==
    [s \in Row |-> IF s \in DOMAIN new THEN new[s] ELSE rows[s]]

AllRecorded(c, rows) == \A s \in call[c].units : rows[s] # "NONE"

Begin(c, at, r) ==
    /\ call[c].at = "idle"
    /\ \E units \in IssuedSets(r) :
         call' = [call EXCEPT ![c] =
                    [at |-> at, req |-> r, units |-> units, known |-> usage[r]]]
    /\ UNCHANGED <<vars, usage>>

\* A handler that throws leaves nothing behind.
Throw(c) ==
    /\ call[c].at # "idle"
    /\ call' = [call EXCEPT ![c] = Idle]
    /\ UNCHANGED <<vars, usage>>

-----------------------------------------------------------------------------
(* RmaService *)

BeginUsage(c, r) == req[r] = "ISSUED_TO_RMA" /\ Begin(c, "usage", r)

\* Mutant of Unrecorded: a unit may be recorded again.
RecordAgain(c) == call[c].units

\* The unique key on request and unit: a unit is recorded once.
Unrecorded(c) == {s \in call[c].units : usage[call[c].req][s] = "NONE"}

\* Mutant of UsageStat: unused units are back at once, before any receipt.
BackAtOnce(use) ==
    [s \in Row |-> IF s \in DOMAIN use
                   THEN CASE use[s] = "USED" -> "CONSUMED"
                          [] use[s] = "DOA" -> "RTV_PENDING"
                          [] OTHER -> "PENDING_INSPECTION"
                   ELSE stat[s]]

UsageStat(use) ==
    [s \in Row |-> IF s \in DOMAIN use /\ use[s] = "USED" THEN "CONSUMED"
                   ELSE IF s \in DOMAIN use /\ use[s] = "DOA" THEN "RTV_PENDING"
                   ELSE stat[s]]

\* Mutants of Verdict: units without a usage are overlooked; a wrong status.
VerdictOfRecorded(c, rows) ==
    IF \A s \in Row : rows[s] \in {"NONE", "USED"} THEN "COMPLETED" ELSE "ISSUED_TO_RMA"
VerdictClosed(c, rows) == "CLOSED"

Verdict(c, rows) ==
    IF AllRecorded(c, rows) /\ \A s \in Row : rows[s] \in {"NONE", "USED"}
    THEN "COMPLETED" ELSE "ISSUED_TO_RMA"

\* confirmUsage for some units; "the whole request" is all unrecorded ones.
\* The request's status is written whatever it has become.
ConfirmUsage(c) ==
    LET r == call[c].req
    IN  /\ call[c].at = "usage"
        /\ \E U \in (SUBSET Unrecorded(c)) \ {{}} : \E use \in [U -> Usages] :
             /\ \A s \in U : use[s] # "PENDING" => stat[s] \in IssuedUnitStatuses
             /\ stat' = UsageStat(use)
             /\ usage' = [usage EXCEPT ![r] = Written(@, use)]
             /\ \E seen \in Views(c) :
                  req' = [req EXCEPT ![r] = Verdict(c, Written(seen, use))]
        /\ call' = [call EXCEPT ![c] = Idle]
        /\ UNCHANGED <<qty, link, issued, taskVars, repair>>

-----------------------------------------------------------------------------
(* UnusedService, PutawayService *)

Awaited(rows) == {s \in Row : rows[s] = "PENDING"}

BeginReturn(c, r) == Awaited(usage[r]) # {} /\ Begin(c, "return", r)

\* processUnits, for returnToStock and markDoa.
ProcessUnits(c) ==
    LET r == call[c].req
    IN  /\ call[c].at = "return"
        /\ \E U \in (SUBSET Awaited(call[c].known)) \ {{}}, out \in Outcomes :
             /\ U \subseteq Awaited(usage[r])
             /\ U \subseteq RowsIn(IssuedUnitStatuses)
             /\ LET new == [s \in U |-> out]
                IN  /\ usage' = [usage EXCEPT ![r] = Written(@, new)]
                    /\ \E seen \in Views(c) :
                         LET rows == Written(seen, new)
                         IN  req' = [req EXCEPT ![r] =
                                       IF /\ AllRecorded(c, rows) /\ Awaited(rows) = {}
                                          /\ @ = "ISSUED_TO_RMA"
                                       THEN "COMPLETED" ELSE @]
             /\ stat' = Transition(stat, U, IF out = "RECEIVED" THEN "PENDING_INSPECTION"
                                            ELSE "RTV_PENDING")
        /\ call' = [call EXCEPT ![c] = Idle]
        /\ UNCHANGED <<qty, link, issued, taskVars, repair>>

Putaway(s) ==
    /\ stat[s] = "PENDING_INSPECTION"
    /\ stat' = Transition(stat, {s}, "AVAILABLE")
    /\ UNCHANGED <<qty, requestVars, taskVars, repair, usage, call>>

-----------------------------------------------------------------------------
OutboundNext == Next /\ UNCHANGED <<usage, call>>

UsageNext ==
    \/ \E c \in Call :
         \/ \E r \in Req : BeginUsage(c, r) \/ BeginReturn(c, r)
         \/ ConfirmUsage(c) \/ ProcessUnits(c) \/ Throw(c)
    \/ \E s \in Row : Putaway(s)

ReturnsNext == OutboundNext \/ UsageNext

ReturnsSpec == ReturnsInit /\ [][ReturnsNext]_returnsVars

-----------------------------------------------------------------------------
(* Properties *)

\* A request whose task was handed over with nothing picked: its issued units
\* are the fallback's, whatever has become of them.
HandedEmpty(r) == req[r] \in {"ISSUED_TO_RMA", "COMPLETED"} /\ Issued(r) = {}
NoneEmpty == \A r \in Req : ~HandedEmpty(r)

\* The unit left with the request's goods and nobody has said yet that it was
\* used or defective, or taken it back.
Owes(r, s) ==
    /\ \E t \in TasksOf(r) : ship[t] = "shipped" /\ line[t][s].got > 0
    /\ usage[r][s] \in {"NONE", "PENDING"}

\* Whoever is out owes: a row is SHIPPED exactly as long as one request, and
\* only one, has to account for it, however often it was returned, put away
\* and issued again (confirmUsage, processUnits, dispatchInTx), until a task
\* is handed over empty.
OwedByOne ==
    \A s \in Row :
        /\ stat[s] = "SHIPPED" <=> \E r \in Req : Owes(r, s)
        /\ \A r, q \in Req : Owes(r, s) /\ Owes(q, s) => r = q
ShippedIsOwed == NoneEmpty => OwedByOne

\* Usages, returns and put-aways leave the rows that live tasks hold to them,
\* returned and allocated again or not, until a task is handed over empty and
\* the fallback of issuedUnitsOf reaches such rows.
HeldUnitsKept == NoneEmpty => HeldUnitsCommitted

\* A request is completed only when all that was issued on it is recorded and
\* nothing has still to come back, whatever the concurrent handlers saw and
\* whatever the fallback made of other requests.
CompletedIsSettled ==
    \A r \in Req : req[r] = "COMPLETED" /\ Issued(r) # {} =>
        /\ \A s \in Issued(r) : usage[r][s] # "NONE"
        /\ Awaited(usage[r]) = {}

\* confirmUsage writes the status it computed without looking at the status
\* the request has by then; still no completed request on which something was
\* issued is opened again.
CompletedIsFinal ==
    [][\A r \in Req : req[r] = "COMPLETED" /\ Issued(r) # {}
         => req'[r] = "COMPLETED"]_returnsVars

\* Usages and returns move no row that is not issued.  issued-units.ts: "every
\* unit issued on a request [...] Source: the picked lines of the request's
\* latest non-cancelled task; requests issued without a task (legacy) fall back
\* to the line -> unit link."
OnlyIssuedMoves ==
    [][\A s \in Row :
         stat'[s] \in {"CONSUMED", "RTV_PENDING", "PENDING_INSPECTION"} /\ stat[s] # stat'[s]
            => stat[s] = "SHIPPED"]_returnsVars

\* A request whose units are all recorded, all used or some returned, and none
\* awaited, is not left open.  unused.service.ts: "The request is finished once
\* every issued unit is recorded and nothing waits to come back."
SettledIsCompleted ==
    \A r \in Req :
        (/\ Issued(r) # {}
         /\ \A s \in Issued(r) : usage[r][s] # "NONE"
         /\ Awaited(usage[r]) = {}
         /\ \/ \E s \in Row : usage[r][s] \in Outcomes
            \/ \A s \in Issued(r) : usage[r][s] = "USED")
          => req[r] # "ISSUED_TO_RMA"
=============================================================================
