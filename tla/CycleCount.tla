------------------------------ MODULE CycleCount ------------------------------
(***************************************************************************)
(* CycleCountService, for one warehouse, and the stock lock derived from   *)
(* its sessions (count-lock.ts), which the movements of stock consult.     *)
(*                                                                         *)
(* A handler that reads before its transaction is a call: it begins with   *)
(* what it read, and writes in a later step.  So is a movement: whether    *)
(* the row is locked, and the guarded update, are two statements.          *)
(***************************************************************************)
EXTENDS Integers

CONSTANTS
    Row,        \* stock rows
    Session,
    User, NoUser,
    Call,       \* handlers of CycleCountService at work at the same time
    NoCall,
    MaxQty      \* the largest quantity of a row

ASSUME CycleCountAssumption ==
    NoUser \notin User /\ NoCall \notin Call /\ MaxQty \in Nat \ {0}

VARIABLES
    place,      \* "AVAILABLE"; on its shelf, but "HELD" or elsewhere; or "OUT"
    book,       \* StockItem.quantity
    shelf,      \* what is really there, wherever the row is
    session,    \* CycleCountSession.status
    line,       \* the line of each session for each row
    call,       \* handlers at work
    mover       \* a movement of stock at work

vars == <<place, book, shelf, session, line, call, mover>>
stockVars == <<place, book, shelf>>

Qty == 0..MaxQty
Uncounted == MaxQty + 1
NoQty == MaxQty + 1

\* COUNTING stands for OPEN and IN_PROGRESS: only the second can be recounted,
\* but no line has a conflict before the first.
ActiveCountStatuses == {"COUNTING", "REVIEW"}
\* CLOSED stands for APPROVED and CANCELLED, which nothing tells apart.
CycleCountStatus == {"NONE", "CLOSED"} \union ActiveCountStatuses

\* at: "NONE", "LIVE" or "EXCLUDED"; exp: expectedQty; varies: variance is not 0; by:
\* countedById; again: isRecounted.  how is history, the row as it was counted: it
\* was "there" or "away", or what was counted is "stale", for the books came to what
\* is expected only after it was counted.
NoLine == [at |-> "NONE", exp |-> 0, counted |-> Uncounted, varies |-> FALSE, by |-> NoUser,
           conflict |-> FALSE, again |-> FALSE, how |-> "there"]
LineRecord == [at : {"NONE", "LIVE", "EXCLUDED"}, exp : Qty, counted : Qty \union {Uncounted},
               varies : BOOLEAN, by : User \union {NoUser}, conflict : BOOLEAN,
               again : BOOLEAN, how : {"there", "away", "stale"}]

NoLines == [r \in Row |-> NoLine]

\* lines: those approve has read; rows: the row that is counted, or those that
\* were found in conflict.
Idle == [op |-> "idle", n |-> NoQty, varies |-> FALSE, by |-> NoUser, session |-> {},
         rows |-> {}, lines |-> NoLines, how |-> "there"]
CallRecord == [op : {"idle", "count", "submit", "approve", "flag", "recount"},
               n : Qty \union {NoQty}, varies : BOOLEAN, by : User \union {NoUser},
               session : SUBSET Session, rows : SUBSET Row,
               lines : [Row -> LineRecord], how : {"there", "away", "stale"}]

Still == [op |-> "idle", row |-> {}, before |-> NoQty, after |-> NoQty]

TypeOK ==
    /\ place \in [Row -> {"AVAILABLE", "HELD", "OUT"}]
    /\ book \in [Row -> Qty] /\ shelf \in [Row -> Qty]
    /\ session \in [Session -> CycleCountStatus]
    /\ line \in [Session -> [Row -> LineRecord]]
    /\ call \in [Call -> CallRecord]
    /\ mover \in [op : {"idle", "leave", "ask", "adjust", "dispose"}, row : SUBSET Row,
                  before : Qty \union {NoQty}, after : Qty \union {NoQty}]

\* The books may be wrong: that is what counts are for.
Init ==
    /\ place = [r \in Row |-> "AVAILABLE"]
    /\ book = [r \in Row |-> MaxQty] /\ shelf \in [Row -> Qty \ {0}]
    /\ session = [s \in Session |-> "NONE"]
    /\ line = [s \in Session |-> NoLines]
    /\ call = [h \in Call |-> Idle] /\ mover = Still

-----------------------------------------------------------------------------

Active(s) == session[s] \in ActiveCountStatuses
Live(s) == {r \in Row : line[s][r].at = "LIVE"}
Locked(r) == \E s \in Session : Active(s) /\ r \in Live(s)

Begin(h, s, rec) ==
    /\ call[h] = Idle
    /\ call' = [call EXCEPT ![h] = [rec EXCEPT !.session = {s}]]

On(h, op, s) == call[h].op = op /\ call[h].session = {s}

\* Handler h is done, or has next to do.
Goes(h, next) == call' = [call EXCEPT ![h] = next]

\* Handler h (or one that does not read first: no call) leaves session s with this
\* status, and the lines of all sessions are lines.  A closed session is forgotten
\* as soon as no handler is left that will use it.
Leaves(h, s, status, lines) ==
    LET kept == status \in ActiveCountStatuses \/ \E g \in Call \ {h} : call[g].session = {s}
    IN  /\ session' = [session EXCEPT ![s] = IF kept THEN status ELSE "NONE"]
        /\ line' = IF kept THEN lines ELSE [lines EXCEPT ![s] = NoLines]

\* The books of a row come back to exp, which a line expects of it: what was
\* counted for that line is stale.
Returned(r, exp) == book'[r] # book[r] /\ book'[r] = exp
Stale(lines) ==
    [r \in Row |-> IF lines[r].at = "LIVE" /\ Returned(r, lines[r].exp)
                   THEN [lines[r] EXCEPT !.how = "stale"] ELSE lines[r]]
StaleLines == [s \in Session |-> Stale(line[s])]
StaleCall(c) ==
    [c EXCEPT !.lines = Stale(@),
              !.how = IF \E s \in c.session, r \in c.rows :
                           c.op = "count" /\ Returned(r, line[s][r].exp)
                      THEN "stale" ELSE @]
StaleCalls == [h \in Call |-> StaleCall(call[h])]

\* The handler of h throws.
Throw(h, s) ==
    /\ call[h].op # "idle" /\ call[h].session = {s}
    /\ Goes(h, Idle)
    /\ Leaves(h, s, session[s], line)
    /\ UNCHANGED <<stockVars, mover>>

-----------------------------------------------------------------------------
(* Sessions *)

Startable(s) == session[s] = "NONE" /\ \A t \in Session : ~Active(t)

\* createSession holds the lock on the warehouse from its check to its end.
CreateSession(s) ==
    /\ Startable(s)
    /\ session' = [session EXCEPT ![s] = "COUNTING"]
    /\ line' = [line EXCEPT ![s] =
                  [r \in Row |-> IF place[r] = "AVAILABLE"
                                 THEN [NoLine EXCEPT !.at = "LIVE", !.exp = book[r]]
                                 ELSE NoLine]]
    /\ UNCHANGED <<stockVars, call, mover>>

\* What somebody who looks for row r finds.
Found(r) == IF place[r] = "OUT" THEN 0 ELSE shelf[r]

\* countLine: the status and the line are checked, then the line is written,
\* whatever the session has become.
BeginCount(h, s, r, u) ==
    /\ session[s] = "COUNTING" /\ r \in Live(s)
    /\ Begin(h, s, [Idle EXCEPT !.op = "count", !.rows = {r}, !.n = Found(r),
                                !.varies = Found(r) # line[s][r].exp, !.by = u,
                                !.how = IF place[r] = "OUT" THEN "away" ELSE "there"])
    /\ UNCHANGED <<stockVars, session, line, mover>>

CountLine(h, s, r) ==
    /\ On(h, "count", s) /\ call[h].rows = {r}
    /\ Leaves(h, s, session[s], [line EXCEPT ![s][r] =
                  [@ EXCEPT !.counted = call[h].n, !.varies = call[h].varies,
                            !.by = call[h].by, !.conflict = FALSE, !.how = call[h].how]])
    /\ Goes(h, Idle)
    /\ UNCHANGED <<stockVars, mover>>

\* Mutant of Complete: only what is to be counted again is looked at.
FlaggedComplete(s) ==
    \A r \in Live(s) : line[s][r].conflict => line[s][r].counted # Uncounted

Complete(s) == \A r \in Live(s) : line[s][r].counted # Uncounted

BeginSubmit(h, s) ==
    /\ session[s] # "NONE" /\ Complete(s)
    /\ Begin(h, s, [Idle EXCEPT !.op = "submit"])
    /\ UNCHANGED <<stockVars, session, line, mover>>

SubmitForReview(h, s) ==
    /\ On(h, "submit", s) /\ session[s] = "COUNTING"
    /\ session' = [session EXCEPT ![s] = "REVIEW"]
    /\ Goes(h, Idle)
    /\ UNCHANGED <<stockVars, line, mover>>

Cancel(s) ==
    /\ Active(s)
    /\ Leaves(NoCall, s, "CLOSED", line)
    /\ UNCHANGED <<stockVars, call, mover>>

-----------------------------------------------------------------------------
(* Approval *)

\* assertNotSelfApproval, excluded lines included.
MayApprove(u, s) == \A r \in Row : line[s][r].by # u

BeginApprove(h, s, u) ==
    /\ session[s] = "REVIEW" /\ MayApprove(u, s)
    /\ Begin(h, s, [Idle EXCEPT !.op = "approve", !.lines = line[s]])
    /\ UNCHANGED <<stockVars, session, line, mover>>

\* Mutant of Conflict: the quantity is not compared.
StatusConflict(r, l) == place[r] # "AVAILABLE"

\* findConflicts, of row r with the line l that was read.
Conflict(r, l) == place[r] # "AVAILABLE" \/ book[r] # l.exp

Conflicts(h) ==
    {r \in Row : call[h].lines[r].at = "LIVE" /\ Conflict(r, call[h].lines[r])}

\* The lines as they were read are applied, not as they are.
Approve(h, s) ==
    /\ On(h, "approve", s) /\ Conflicts(h) = {} /\ session[s] = "REVIEW"
    /\ book' = [r \in Row |-> LET l == call[h].lines[r]
                              IN  IF l.at = "LIVE" /\ l.varies THEN l.counted ELSE book[r]]
    /\ call' = [StaleCalls EXCEPT ![h] = Idle]
    /\ Leaves(h, s, "CLOSED", StaleLines)
    /\ UNCHANGED <<place, shelf, mover>>

\* Nothing is applied; the conflicts are written in another transaction.
RefuseApproval(h, s) ==
    /\ On(h, "approve", s) /\ Conflicts(h) # {}
    /\ Goes(h, [Idle EXCEPT !.op = "flag", !.session = {s}, !.rows = Conflicts(h)])
    /\ UNCHANGED <<stockVars, session, line, mover>>

FlagConflicts(h, s) ==
    /\ On(h, "flag", s)
    /\ Leaves(h, s, session[s], [line EXCEPT ![s] = [r \in Row |->
                  [line[s][r] EXCEPT !.conflict = @ \/ r \in call[h].rows]]])
    /\ Goes(h, Idle)
    /\ UNCHANGED <<stockVars, mover>>

BeginRecount(h, s) ==
    /\ Active(s)
    /\ Begin(h, s, [Idle EXCEPT !.op = "recount"])
    /\ UNCHANGED <<stockVars, session, line, mover>>

Refreshed(r) == [NoLine EXCEPT !.at = "LIVE", !.exp = book[r], !.again = TRUE]

\* Whatever the session has become, it is open again.
RecountConflicts(h, s) ==
    LET flagged == {r \in Live(s) : line[s][r].conflict}
    IN  /\ On(h, "recount", s) /\ flagged # {}
        /\ line' = [line EXCEPT ![s] = [r \in Row |->
              IF r \notin flagged THEN line[s][r]
              ELSE IF place[r] = "AVAILABLE" THEN Refreshed(r)
              ELSE [line[s][r] EXCEPT !.at = "EXCLUDED", !.conflict = FALSE]]]
        /\ session' = [session EXCEPT ![s] = "COUNTING"]
        /\ call' = [g \in Call |->
              IF g = h THEN Idle
              ELSE IF On(g, "count", s) /\ call[g].rows \subseteq flagged
              THEN [call[g] EXCEPT !.how = "stale"]
              ELSE call[g]]
        /\ UNCHANGED <<stockVars, mover>>

-----------------------------------------------------------------------------
(* Movements *)

Moves(op, r) == mover.op = op /\ mover.row = {r}

\* The lock is looked at; a movement that finds it throws.
BeginMove(op, r) ==
    /\ mover = Still /\ place[r] = "AVAILABLE" /\ ~Locked(r)
    /\ mover' = [Still EXCEPT !.op = op, !.row = {r}]
    /\ UNCHANGED <<stockVars, session, line, call>>

BeginLeave(r) == BeginMove("leave", r)
BeginDispose(r) == book[r] > 1 /\ BeginMove("dispose", r)

\* transitionStock, out of AVAILABLE.
Leave(r) ==
    /\ Moves("leave", r) /\ place[r] = "AVAILABLE"
    /\ place' = [place EXCEPT ![r] = "HELD"]
    /\ mover' = Still
    /\ UNCHANGED <<book, shelf, session, line, call>>

\* A part of the row is scrapped, under a lock on the row.
Dispose(r) ==
    /\ Moves("dispose", r) /\ place[r] # "OUT" /\ book[r] > 1
    /\ book' = [book EXCEPT ![r] = @ - 1]
    /\ shelf' = [shelf EXCEPT ![r] = IF @ = 0 THEN 0 ELSE @ - 1]
    /\ line' = StaleLines /\ call' = StaleCalls
    /\ mover' = Still
    /\ UNCHANGED <<place, session>>

\* AdjustmentService.create, by somebody who found a difference; its approval.
AskAdjustment(r) ==
    /\ mover = Still /\ place[r] # "OUT" /\ book[r] # shelf[r]
    /\ mover' = [op |-> "ask", row |-> {r}, before |-> book[r], after |-> shelf[r]]
    /\ UNCHANGED <<stockVars, session, line, call>>

BeginAdjust(r) ==
    /\ Moves("ask", r) /\ ~Locked(r)
    /\ mover' = [mover EXCEPT !.op = "adjust"]
    /\ UNCHANGED <<stockVars, session, line, call>>

Adjust(r) ==
    /\ Moves("adjust", r) /\ place[r] # "OUT" /\ book[r] = mover.before
    /\ book' = [book EXCEPT ![r] = mover.after]
    /\ line' = StaleLines /\ call' = StaleCalls
    /\ mover' = Still
    /\ UNCHANGED <<place, shelf, session>>

\* A movement that throws, or an adjustment that is rejected.
GiveUp ==
    /\ mover # Still
    /\ mover' = Still
    /\ UNCHANGED <<stockVars, session, line, call>>

\* Moves that do not start from AVAILABLE look at no lock.
Elsewhere(r, from, to) ==
    /\ place[r] = from
    /\ place' = [place EXCEPT ![r] = to]
    /\ UNCHANGED <<book, shelf, session, line, call, mover>>

ReleaseRow(r) == Elsewhere(r, "HELD", "AVAILABLE")
Ship(r) == Elsewhere(r, "HELD", "OUT")
ReturnRow(r) == Elsewhere(r, "OUT", "AVAILABLE")

-----------------------------------------------------------------------------

Next ==
    \/ \E s \in Session : CreateSession(s) \/ Cancel(s)
    \/ \E h \in Call, s \in Session, r \in Row :
         (\E u \in User : BeginCount(h, s, r, u)) \/ CountLine(h, s, r)
    \/ \E h \in Call, s \in Session :
         \/ BeginSubmit(h, s) \/ SubmitForReview(h, s)
         \/ (\E u \in User : BeginApprove(h, s, u)) \/ Approve(h, s)
         \/ RefuseApproval(h, s) \/ FlagConflicts(h, s)
         \/ BeginRecount(h, s) \/ RecountConflicts(h, s) \/ Throw(h, s)
    \/ \E r \in Row : \/ BeginLeave(r) \/ Leave(r) \/ BeginDispose(r) \/ Dispose(r)
                      \/ AskAdjustment(r) \/ BeginAdjust(r) \/ Adjust(r)
                      \/ ReleaseRow(r) \/ Ship(r) \/ ReturnRow(r)
    \/ GiveUp

Spec == Init /\ [][Next]_vars

-----------------------------------------------------------------------------
(* Properties *)

\* "All lines must be counted" of a session under review, whatever was recounted
\* between the check and the claim of the submit, and whatever closed session a
\* recount opened again: a line that is not counted is one that was to be recounted.
AllCounted ==
    \A s \in Session : session[s] = "REVIEW" =>
      \A r \in Live(s) : line[s][r].counted # Uncounted \/ line[s][r].again

\* What approve by h has read of row r was counted, in one of the ways of how.
CountedFor(h, r, how) ==
    LET l == call[h].lines[r]
    IN  l.at = "LIVE" /\ l.counted # Uncounted /\ l.how \in how
Correct(how) ==
    \A s \in Session, h \in Call :
      Approve(h, s) => \A r \in Row : CountedFor(h, r, how) => book'[r] = shelf[r]

\* An approved count leaves in the books what is on the shelves, for every row
\* that was counted on its shelf and whose books did not come to the expected
\* quantity only afterwards: a movement that slipped past the lock is caught,
\* whatever was recounted, revived, released, adjusted or disposed of meanwhile.
CountCorrects == [][Correct({"there"})]_vars

\* "Movements that slipped in just before the lock (or bypass it) are caught at
\* approval", for a row that was gone when it was counted, too.  Not so.
MovesAreCaught == [][Correct({"there", "away"})]_vars

\* "One active count per warehouse".  Not so, once a recount has opened a session
\* again that was closed meanwhile.
OneActiveCount == \A s, t \in Session : Active(s) /\ Active(t) => s = t

\* "All lines must be counted" before a review, without the proviso of AllCounted.
\* Not so, when a line is recounted between the check of submit and its claim.
ReviewIsComplete == \A s \in Session : session[s] = "REVIEW" => Complete(s)

================================================================================
