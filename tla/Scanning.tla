-------------------------------- MODULE Scanning --------------------------------
(***************************************************************************)
(* Scans of the handheld devices: ScanService.scan.  A scan carries the    *)
(* client's clientScanId; a device that got no answer sends it again, and  *)
(* a queue collected offline is replayed, so one scan may arrive many      *)
(* times, late, and twice at once.  A handler looks for the event of the   *)
(* id, resolves the barcode, takes the effect and then records the event:  *)
(* four steps without a common transaction.                                *)
(*                                                                         *)
(* A scan is one of five kinds of work: PUTAWAY, PICK and SHIP change a    *)
(* state, VERIFY stands for the workflows that change nothing (LOOKUP,     *)
(* RECEIVE, PACK, RTV).  TRANSFER, COUNT and ADJUST are refused by default *)
(* and left out.  The scans of one kind are about one unit, pick line or   *)
(* shipment.                                                               *)
(***************************************************************************)
EXTENDS Naturals

CONSTANTS
    Scan,          \* the clientScanIds
    Handler,       \* requests being handled at the same time
    MaxFaults,     \* bound: crashes of the server and failing audit writes
    MaxUndone,     \* bound: how often the unit comes back to be put away
    MaxApplied     \* bound: how often one scan takes effect

ASSUME ScanningAssumption ==
    MaxFaults \in Nat /\ MaxUndone \in Nat /\ MaxApplied \in Nat \ {0}

Effective == {"PUTAWAY", "PICK", "SHIP"}
Workflow == Effective \union {"VERIFY"}
Result == {"SUCCESS", "ERROR", "DUPLICATE"}

VARIABLES
    workflow,      \* what each scan is for
    awaits,        \* per workflow: its unit, line or shipment waits for the work
    event,         \* ScanEvent of each scan
    handler,       \* the running handlers
    answers,       \* the results the device has been told for each scan
    applied,       \* history: how often the scan took effect
    torn,          \* history: two handlers worked on the scan at once, or one
                   \* failed between the effect and the event
    faults, undone

vars == <<workflow, awaits, event, handler, answers, applied, torn, faults, undone>>

Idle == [op |-> "idle", result |-> "NONE"]
Busy(op, c, r) == [op |-> op, scan |-> c, result |-> r]
HandlerRecord ==
    {Idle} \union [op : {"resolve", "apply", "log", "record"}, scan : Scan,
                   result : Result \union {"NONE"}]

TypeOK ==
    /\ workflow \in [Scan -> Workflow]
    /\ awaits \in [Effective -> BOOLEAN]
    /\ event \in [Scan -> Result \union {"NONE"}]
    /\ handler \in [Handler -> HandlerRecord]
    /\ answers \in [Scan -> SUBSET Result]
    /\ applied \in [Scan -> 0..MaxApplied]
    /\ torn \in [Scan -> BOOLEAN]
    /\ faults \in 0..MaxFaults /\ undone \in 0..MaxUndone

Init ==
    /\ workflow \in [Scan -> Workflow]
    /\ awaits = [w \in Effective |-> TRUE]
    /\ event = [c \in Scan |-> "NONE"]
    /\ handler = [h \in Handler |-> Idle]
    /\ answers = [c \in Scan |-> {}]
    /\ applied = [c \in Scan |-> 0]
    /\ torn = [c \in Scan |-> FALSE]
    /\ faults = 0 /\ undone = 0

-----------------------------------------------------------------------------

WorkOn(c) == {h \in Handler : handler[h] # Idle /\ handler[h].scan = c}

\* The answer reaches the device, or it is lost.
Tell(c, r) ==
    \/ answers' = [answers EXCEPT ![c] = @ \union {r}]
    \/ UNCHANGED answers

\* Mutant of Known: the event of the scan is not looked for.
KnownNever(c) == FALSE

\* "Idempotency: replay returns the original outcome".
Known(c) == event[c] # "NONE"

\* A request arrives: the first, a retry, a replay, or a duplicate.
Replay(h, c) ==
    /\ handler[h] = Idle /\ Known(c)
    /\ Tell(c, event[c])
    /\ UNCHANGED <<workflow, awaits, event, handler, applied, torn, faults, undone>>

Begin(h, c) ==
    /\ handler[h] = Idle /\ ~Known(c)
    /\ handler' = [handler EXCEPT ![h] = Busy("resolve", c, "NONE")]
    /\ torn' = [torn EXCEPT ![c] = @ \/ WorkOn(c) # {}]
    /\ UNCHANGED <<workflow, awaits, event, answers, applied, faults, undone>>

\* What is said of work that is already done.
DoneResult(w) == IF w = "PUTAWAY" THEN "ERROR" ELSE "DUPLICATE"

\* resolve, and the checks of doPutaway, doPick and doShip.
Resolve(h) ==
    /\ handler[h].op = "resolve"
    /\ LET c == handler[h].scan
           w == workflow[c]
       IN \/ /\ w = "VERIFY"
             /\ \E r \in {"SUCCESS", "ERROR"} :
                  handler' = [handler EXCEPT ![h] = Busy("record", c, r)]
          \/ /\ w # "VERIFY"
             /\ handler' = [handler EXCEPT ![h] =
                  IF awaits[w] THEN Busy("apply", c, "NONE")
                  ELSE Busy("record", c, DoneResult(w))]
    /\ UNCHANGED <<workflow, awaits, event, answers, applied, torn, faults, undone>>

\* Mutant of LostRace: the guarded update that matched no row goes unnoticed.
LostRaceUnseen == "SUCCESS"

\* transitionStock, confirmPick and confirmDispatch throw when another was first.
LostRace == "ERROR"

\* The effect, in a transaction guarded by the state it changes; SHIP then
\* writes its audit entry outside of it.
Apply(h) ==
    /\ handler[h].op = "apply"
    /\ LET c == handler[h].scan
           w == workflow[c]
       IN IF awaits[w]
          THEN /\ applied[c] < MaxApplied
               /\ awaits' = [awaits EXCEPT ![w] = FALSE]
               /\ applied' = [applied EXCEPT ![c] = @ + 1]
               /\ handler' = [handler EXCEPT ![h] =
                    Busy(IF w = "SHIP" THEN "log" ELSE "record", c, "SUCCESS")]
          ELSE /\ handler' = [handler EXCEPT ![h] = Busy("record", c, LostRace)]
               /\ UNCHANGED <<awaits, applied>>
    /\ UNCHANGED <<workflow, event, answers, torn, faults, undone>>

Log(h) ==
    /\ handler[h].op = "log"
    /\ handler' = [handler EXCEPT ![h].op = "record"]
    /\ UNCHANGED <<workflow, awaits, event, answers, applied, torn, faults, undone>>

\* The audit entry of SHIP fails: the catch makes an ERROR of a dispatch that is done.
LogFails(h) ==
    /\ handler[h].op = "log" /\ faults < MaxFaults
    /\ faults' = faults + 1
    /\ handler' = [handler EXCEPT ![h] = Busy("record", @.scan, "ERROR")]
    /\ torn' = [torn EXCEPT ![handler[h].scan] = TRUE]
    /\ UNCHANGED <<workflow, awaits, event, answers, applied, undone>>

\* Mutant of Insertable: clientScanId without its unique index.
InsertableAlways(c) == TRUE

\* ScanEvent.clientScanId is unique: a second create fails.
Insertable(c) == event[c] = "NONE"

\* The event and the answer.  When the create fails the device gets no result.
Record(h) ==
    /\ handler[h].op = "record"
    /\ LET c == handler[h].scan
       IN IF Insertable(c)
          THEN event' = [event EXCEPT ![c] = handler[h].result] /\ Tell(c, handler[h].result)
          ELSE UNCHANGED <<event, answers>>
    /\ handler' = [handler EXCEPT ![h] = Idle]
    /\ UNCHANGED <<workflow, awaits, applied, torn, faults, undone>>

\* The server stops and starts: the running handlers are gone.
HalfDone == {handler[h].scan : h \in {g \in Handler : handler[g].op \in {"log", "record"}
                                                       /\ handler[g].result = "SUCCESS"}}
Crash ==
    /\ faults < MaxFaults /\ \E h \in Handler : handler[h] # Idle
    /\ faults' = faults + 1
    /\ handler' = [h \in Handler |-> Idle]
    /\ torn' = [c \in Scan |-> torn[c] \/ c \in HalfDone]
    /\ UNCHANGED <<workflow, awaits, event, answers, applied, undone>>

\* Elsewhere: an issued unit comes back unused and waits for put-away again.
\* Nothing resets pickedAt or shippedAt.
ComesBack ==
    /\ ~awaits["PUTAWAY"] /\ undone < MaxUndone
    /\ awaits' = [awaits EXCEPT !["PUTAWAY"] = TRUE]
    /\ undone' = undone + 1
    /\ UNCHANGED <<workflow, event, handler, answers, applied, torn, faults>>

-----------------------------------------------------------------------------

Next ==
    \/ \E h \in Handler :
         \/ \E c \in Scan : Replay(h, c) \/ Begin(h, c)
         \/ Resolve(h) \/ Apply(h) \/ Log(h) \/ LogFails(h) \/ Record(h)
    \/ ComesBack \/ Crash

Spec == Init /\ [][Next]_vars

-----------------------------------------------------------------------------
(* Properties *)

\* "Retries return the original result": however often a scan is sent, also
\* twice at once and over a crash, the device is never told two results.
AnswersAgree == \A c \in Scan : \A r, s \in answers[c] : r = s

\* A scan recorded as a success was carried out, by this scan and not by another
\* that was faster: whatever was sent at the same time.
SuccessWasApplied ==
    \A c \in Scan : event[c] = "SUCCESS" /\ workflow[c] # "VERIFY" => applied[c] >= 1

\* "Never double-apply": unless two requests of the scan were handled at once, or
\* one failed between the effect and the event, the scan takes effect at most
\* once, and not at all when it is on record as refused; also when the unit waits
\* for the same work again.
EffectMatchesRecord ==
    \A c \in Scan :
      torn[c] \/ (applied[c] <= 1 /\ (event[c] \in {"ERROR", "DUPLICATE"} => applied[c] = 0))

\* "Retries return the original result", without the exceptions: a device that is
\* told a refusal has changed nothing with that scan (a dispatch whose audit entry
\* fails is left aside).
ReplayReturnsTheOutcome ==
    \A c \in Scan :
      answers[c] \intersect {"ERROR", "DUPLICATE"} # {} => applied[c] = 0 \/ workflow[c] = "SHIP"

=================================================================================
