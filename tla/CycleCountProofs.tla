---------------------------- MODULE CycleCountProofs ----------------------------
(***************************************************************************)
(* What TLAPS proves of CycleCount, for any rows, sessions, users and      *)
(* handlers, and any quantities.                                           *)
(***************************************************************************)
EXTENDS CycleCount, TLAPS

\* What a line l, or a copy of it, says of a row with b in the books and q on its
\* shelf: while the books are as expected, q is what was counted there.
Fit(b, q, l) ==
    /\ l.varies => l.counted # Uncounted
    /\ l.counted # Uncounted /\ l.how = "there" =>
         /\ l.varies <=> l.counted # l.exp
         /\ l.at = "LIVE" /\ b = l.exp => q = l.counted

\* The same of a count c that is not written yet, for the line l.
FitCount(b, q, c, l) ==
    c.how = "there" =>
      /\ c.varies <=> c.n # l.exp
      /\ l.at = "LIVE" /\ b = l.exp => q = c.n

LinesFit == \A s \in Session, r \in Row : Fit(book[r], shelf[r], line[s][r])
CopiesFit == \A h \in Call, r \in Row : Fit(book[r], shelf[r], call[h].lines[r])
CountsFit ==
    \A h \in Call, s \in Session, r \in Row :
      On(h, "count", s) /\ call[h].rows = {r} => FitCount(book[r], shelf[r], call[h], line[s][r])

\* A handler at work is about a session that is there, and a count has counted.
CallsAreSound ==
    \A h \in Call :
      /\ \A s \in Session : call[h].session = {s} => session[s] # "NONE"
      /\ call[h].op = "count" => call[h].n \in Qty

\* What AllCounted says of a session, which a submit at work has made sure of.
Filled(l) == l.counted # Uncounted \/ l.again
AllFilled(s) == \A r \in Row : line[s][r].at = "LIVE" => Filled(line[s][r])
SubmitsFilled == \A h \in Call, s \in Session : On(h, "submit", s) => AllFilled(s)
ReviewsFilled == \A s \in Session : session[s] = "REVIEW" => AllFilled(s)

\* An adjustment that is asked for says what the quantity becomes.
MoverIsSound == mover.op \in {"ask", "adjust"} => mover.after \in Qty

IInv == /\ TypeOK /\ CallsAreSound /\ MoverIsSound
        /\ LinesFit /\ CopiesFit /\ CountsFit /\ SubmitsFilled /\ ReviewsFilled

-----------------------------------------------------------------------------

LEMMA LineTypes ==
    /\ 0 \in Qty /\ Uncounted \notin Qty /\ NoQty \notin Qty
    /\ NoLine \in LineRecord /\ NoLine.counted = Uncounted /\ ~NoLine.varies
    /\ NoLines \in [Row -> LineRecord] /\ \A r \in Row : NoLines[r] = NoLine
    /\ \A b, q : Fit(b, q, NoLine)
<1>1. 0 \in Qty /\ Uncounted \notin Qty /\ NoQty \notin Qty
  BY CycleCountAssumption DEF Qty, Uncounted, NoQty
<1>2. NoLine \in LineRecord /\ NoLine.counted = Uncounted /\ ~NoLine.varies
  BY <1>1 DEF NoLine, LineRecord
<1>3. NoLines \in [Row -> LineRecord] /\ \A r \in Row : NoLines[r] = NoLine
  BY <1>2 DEF NoLines
<1> QED BY <1>1, <1>2, <1>3 DEF Fit

LEMMA IdleType ==
    /\ Idle \in CallRecord /\ Idle.op = "idle" /\ Idle.session = {} /\ Idle.lines = NoLines
<1>1. NoLines \in [Row -> LineRecord]
  BY LineTypes
<1> QED BY <1>1 DEF Idle, CallRecord

\* The mover of TypeOK.
MoverRecord == [op : {"idle", "leave", "ask", "adjust", "dispose"}, row : SUBSET Row,
                before : Qty \union {NoQty}, after : Qty \union {NoQty}]

LEMMA StillType == Still \in MoverRecord /\ Still.op = "idle"
  BY DEF Still, MoverRecord

\* An idle handler claims nothing.
LEMMA IdleFits ==
    \A r \in Row : \A b, q : Fit(b, q, Idle.lines[r])
  BY LineTypes, IdleType

LEMMA InitInv == Init => IInv
<1> SUFFICES ASSUME Init PROVE IInv
  OBVIOUS
<1>1. TypeOK
  <2>1. MaxQty \in Qty /\ shelf \in [Row -> Qty]
    BY CycleCountAssumption DEF Init, Qty
  <2>2. mover \in MoverRecord
    BY StillType DEF Init
  <2> QED BY <2>1, <2>2, LineTypes, IdleType
      DEF Init, TypeOK, CycleCountStatus, MoverRecord
<1>2. \A h \in Call : call[h] = Idle
  BY DEF Init
<1>3. CallsAreSound /\ CountsFit /\ SubmitsFilled
  BY <1>2, IdleType DEF CallsAreSound, CountsFit, SubmitsFilled, On
<1>4. CopiesFit
  BY <1>2, IdleFits DEF CopiesFit
<1>5. LinesFit
  BY LineTypes DEF Init, LinesFit
<1>6. MoverIsSound /\ ReviewsFilled
  BY StillType DEF Init, MoverIsSound, ReviewsFilled
<1> QED BY <1>1, <1>3, <1>4, <1>5, <1>6 DEF IInv

-----------------------------------------------------------------------------
(* Handlers that only read *)

\* Handler h goes on as rec.
LEMMA CallInv ==
    ASSUME IInv, NEW h \in Call, NEW s \in Session, NEW rec \in CallRecord, Goes(h, rec),
           rec.session = {s}, session[s] # "NONE",
           UNCHANGED <<stockVars, session, line, mover>>,
           rec.op = "count" =>
             /\ rec.n \in Qty
             /\ \A r \in Row : rec.rows = {r} => FitCount(book[r], shelf[r], rec, line[s][r]),
           rec.op = "submit" => AllFilled(s),
           \A r \in Row : Fit(book[r], shelf[r], rec.lines[r])
    PROVE  IInv'
<1>1. call' = [call EXCEPT ![h] = rec] /\ UNCHANGED <<place, book, shelf, session, line, mover>>
  BY DEF Goes, stockVars
<1>2. call'[h] = rec /\ \A g \in Call \ {h} : call'[g] = call[g]
  BY <1>1 DEF IInv, TypeOK
<1>3. TypeOK'
  BY <1>1 DEF IInv, TypeOK
<1>4. CallsAreSound'
  BY <1>1, <1>2 DEF IInv, CallsAreSound
<1>5. CopiesFit'
  BY <1>1, <1>2 DEF IInv, CopiesFit
<1>6. CountsFit'
  <2> SUFFICES ASSUME NEW g \in Call, NEW t \in Session, NEW r \in Row,
                      On(g, "count", t)', call'[g].rows = {r}
               PROVE  FitCount(book[r], shelf[r], call'[g], line[t][r])
    BY <1>1 DEF CountsFit
  <2>1. CASE g = h
    <3>1. t = s
      BY <1>2, <2>1 DEF On
    <3> QED BY <1>2, <2>1, <3>1 DEF On
  <2>2. CASE g # h
    BY <1>2, <2>2 DEF IInv, CountsFit, On
  <2> QED BY <2>1, <2>2
<1>7. SubmitsFilled'
  <2> SUFFICES ASSUME NEW g \in Call, NEW t \in Session, On(g, "submit", t)' PROVE AllFilled(t)
    BY <1>1 DEF SubmitsFilled, AllFilled
  <2>1. CASE g = h
    <3>1. t = s
      BY <1>2, <2>1 DEF On
    <3> QED BY <1>2, <2>1, <3>1 DEF On
  <2>2. CASE g # h
    BY <1>2, <2>2 DEF IInv, SubmitsFilled, On
  <2> QED BY <2>1, <2>2
<1>8. LinesFit' /\ ReviewsFilled' /\ MoverIsSound'
  BY <1>1 DEF IInv, LinesFit, ReviewsFilled, AllFilled, MoverIsSound
<1> QED BY <1>3, <1>4, <1>5, <1>6, <1>7, <1>8 DEF IInv

LEMMA BeginCountInv ==
    ASSUME IInv, NEW h \in Call, NEW s \in Session, NEW r \in Row, NEW u \in User,
           BeginCount(h, s, r, u)
    PROVE  IInv'
<1> DEFINE how == IF place[r] = "OUT" THEN "away" ELSE "there"
           begun == [Idle EXCEPT !.op = "count", !.rows = {r}, !.n = Found(r),
                                 !.varies = Found(r) # line[s][r].exp, !.by = u, !.how = how]
           rec == [begun EXCEPT !.session = {s}]
<1>1. /\ session[s] = "COUNTING" /\ Goes(h, rec)
      /\ UNCHANGED <<stockVars, session, line, mover>>
  BY DEF BeginCount, Begin, Goes
<1>2. Found(r) \in Qty
  BY LineTypes DEF Found, IInv, TypeOK
<1>3. /\ begun \in CallRecord /\ begun.op = "count" /\ begun.rows = {r} /\ begun.n = Found(r)
      /\ begun.varies = (Found(r) # line[s][r].exp) /\ begun.how = how
      /\ begun.lines = NoLines
  BY <1>2, IdleType DEF CallRecord
<1> HIDE DEF begun
<1>4. /\ rec \in CallRecord /\ rec.op = "count" /\ rec.rows = {r} /\ rec.n = Found(r)
      /\ rec.varies = (Found(r) # line[s][r].exp) /\ rec.how = how
      /\ rec.lines = NoLines /\ rec.session = {s}
  BY <1>3 DEF CallRecord
<1> HIDE DEF rec
<1>5. how = "there" => Found(r) = shelf[r]
  BY DEF Found
<1> HIDE DEF how
<1>6. \A q \in Row : rec.rows = {q} => FitCount(book[q], shelf[q], rec, line[s][q])
  BY <1>4, <1>5 DEF FitCount
<1>7. \A q \in Row : Fit(book[q], shelf[q], rec.lines[q])
  BY <1>4, LineTypes
<1> QED BY <1>1, <1>2, <1>4, <1>6, <1>7, CallInv

LEMMA BeginSubmitInv ==
    ASSUME IInv, NEW h \in Call, NEW s \in Session, BeginSubmit(h, s)
    PROVE  IInv'
<1> DEFINE rec == [Idle EXCEPT !.op = "submit", !.session = {s}]
<1>1. /\ session[s] # "NONE" /\ Complete(s) /\ Goes(h, rec)
      /\ UNCHANGED <<stockVars, session, line, mover>>
  BY DEF BeginSubmit, Begin, Goes, Idle
<1>2. rec \in CallRecord /\ rec.op = "submit" /\ rec.session = {s} /\ rec.lines = NoLines
  BY IdleType DEF CallRecord
<1>3. AllFilled(s)
  BY <1>1 DEF Complete, Live, AllFilled, Filled
<1> HIDE DEF rec
<1> QED BY <1>1, <1>2, <1>3, LineTypes, CallInv

LEMMA BeginApproveInv ==
    ASSUME IInv, NEW h \in Call, NEW s \in Session, NEW u \in User, BeginApprove(h, s, u)
    PROVE  IInv'
<1> DEFINE rec == [Idle EXCEPT !.op = "approve", !.lines = line[s], !.session = {s}]
<1>1. /\ session[s] # "NONE" /\ Goes(h, rec)
      /\ UNCHANGED <<stockVars, session, line, mover>>
  BY DEF BeginApprove, Begin, Goes, Idle
<1>2. line[s] \in [Row -> LineRecord]
  BY DEF IInv, TypeOK
<1>3. rec \in CallRecord /\ rec.op = "approve" /\ rec.session = {s} /\ rec.lines = line[s]
  BY <1>2, IdleType DEF CallRecord
<1>4. \A r \in Row : Fit(book[r], shelf[r], line[s][r])
  BY DEF IInv, LinesFit
<1> HIDE DEF rec
<1> QED BY <1>1, <1>3, <1>4, CallInv

LEMMA BeginRecountInv ==
    ASSUME IInv, NEW h \in Call, NEW s \in Session, BeginRecount(h, s)
    PROVE  IInv'
<1> DEFINE rec == [Idle EXCEPT !.op = "recount", !.session = {s}]
<1>1. /\ session[s] # "NONE" /\ Goes(h, rec)
      /\ UNCHANGED <<stockVars, session, line, mover>>
  BY DEF BeginRecount, Begin, Goes, Idle, Active, ActiveCountStatuses
<1>2. rec \in CallRecord /\ rec.op = "recount" /\ rec.session = {s} /\ rec.lines = NoLines
  BY IdleType DEF CallRecord
<1> HIDE DEF rec
<1> QED BY <1>1, <1>2, LineTypes, CallInv

LEMMA RefuseApprovalInv ==
    ASSUME IInv, NEW h \in Call, NEW s \in Session, RefuseApproval(h, s)
    PROVE  IInv'
<1> DEFINE rec == [Idle EXCEPT !.op = "flag", !.session = {s}, !.rows = Conflicts(h)]
<1>1. /\ call[h].session = {s} /\ Goes(h, rec)
      /\ UNCHANGED <<stockVars, session, line, mover>>
  BY DEF RefuseApproval, On
<1>2. Conflicts(h) \in SUBSET Row /\ session[s] # "NONE"
  BY <1>1 DEF Conflicts, IInv, CallsAreSound
<1>3. rec \in CallRecord /\ rec.op = "flag" /\ rec.session = {s} /\ rec.lines = NoLines
  BY <1>2, IdleType DEF CallRecord
<1> HIDE DEF rec
<1> QED BY <1>1, <1>2, <1>3, LineTypes, CallInv

-----------------------------------------------------------------------------
(* Handlers that write lines or a session *)

\* A handler is done with session s, or nobody was at work; what is written fits.
LEMMA WriteInv ==
    ASSUME IInv, NEW s \in Session,
           UNCHANGED <<place, book, shelf, mover>>,
           call' \in [Call -> CallRecord],
           \A g \in Call : call'[g] = call[g] \/ call'[g] = Idle,
           session' \in [Session -> CycleCountStatus],
           line' \in [Session -> [Row -> LineRecord]],
           \A t \in Session \ {s} : session'[t] = session[t] /\ line'[t] = line[t],
           \/ /\ session'[s] # "NONE"
              /\ \A r \in Row : /\ line'[s][r].at = line[s][r].at
                                /\ line'[s][r].exp = line[s][r].exp
                                /\ Filled(line[s][r]) => Filled(line'[s][r])
           \/ \A g \in Call : call'[g].session # {s},
           \A r \in Row : Fit(book[r], shelf[r], line'[s][r]),
           session'[s] = "REVIEW" => AllFilled(s)'
    PROVE  IInv'
<1>1. TypeOK'
  BY DEF IInv, TypeOK
<1>2. CallsAreSound'
  <2> SUFFICES ASSUME NEW g \in Call
               PROVE  /\ \A t \in Session : call'[g].session = {t} => session'[t] # "NONE"
                      /\ call'[g].op = "count" => call'[g].n \in Qty
    BY DEF CallsAreSound
  <2>1. CASE call'[g] = Idle
    BY <2>1, IdleType
  <2>2. CASE call'[g] = call[g]
    BY <2>2 DEF IInv, CallsAreSound
  <2> QED BY <2>1, <2>2
<1>3. CopiesFit'
  BY IdleFits DEF IInv, CopiesFit
<1>4. CountsFit'
  <2> SUFFICES ASSUME NEW g \in Call, NEW t \in Session, NEW r \in Row,
                      On(g, "count", t)', call'[g].rows = {r}
               PROVE  FitCount(book[r], shelf[r], call'[g], line'[t][r])
    BY DEF CountsFit
  <2>1. call'[g] = call[g]
    BY IdleType DEF On
  <2>2. FitCount(book[r], shelf[r], call[g], line[t][r])
    BY <2>1 DEF IInv, CountsFit, On
  <2>3. line'[t][r].at = line[t][r].at /\ line'[t][r].exp = line[t][r].exp
    BY DEF On
  <2> QED BY <2>1, <2>2, <2>3 DEF FitCount
<1>5. SubmitsFilled'
  <2> SUFFICES ASSUME NEW g \in Call, NEW t \in Session, On(g, "submit", t)',
                      NEW r \in Row, line'[t][r].at = "LIVE"
               PROVE  Filled(line'[t][r])
    BY DEF SubmitsFilled, AllFilled
  <2>1. call'[g] = call[g]
    BY IdleType DEF On
  <2>2. line[t][r].at = "LIVE" => Filled(line[t][r])
    BY <2>1 DEF IInv, SubmitsFilled, AllFilled, On
  <2>3. line'[t][r].at = line[t][r].at /\ (Filled(line[t][r]) => Filled(line'[t][r]))
    BY DEF On
  <2> QED BY <2>2, <2>3
<1>6. LinesFit'
  BY DEF IInv, LinesFit
<1>7. ReviewsFilled'
  <2> SUFFICES ASSUME NEW t \in Session, session'[t] = "REVIEW" PROVE AllFilled(t)'
    BY DEF ReviewsFilled
  <2>1. CASE t = s
    BY <2>1
  <2>2. CASE t # s
    BY <2>2 DEF IInv, ReviewsFilled, AllFilled
  <2> QED BY <2>1, <2>2
<1>8. MoverIsSound'
  BY DEF IInv, MoverIsSound
<1> QED BY <1>1, <1>2, <1>3, <1>4, <1>5, <1>6, <1>7, <1>8 DEF IInv

\* Handler h leaves session s as it was, but for lines that fit and the status.
LEMMA LeaveInv ==
    ASSUME IInv, NEW h, NEW s \in Session, NEW status \in CycleCountStatus,
           NEW lines \in [Session -> [Row -> LineRecord]],
           call' \in [Call -> CallRecord],
           \A g \in Call : call'[g] = IF g = h THEN Idle ELSE call[g],
           Leaves(h, s, status, lines), UNCHANGED <<place, book, shelf, mover>>,
           status # "NONE", status = "REVIEW" => session[s] = "REVIEW",
           \A t \in Session \ {s} : lines[t] = line[t],
           \A r \in Row : /\ lines[s][r].at = line[s][r].at
                          /\ lines[s][r].exp = line[s][r].exp
                          /\ Filled(line[s][r]) => Filled(lines[s][r])
                          /\ Fit(book[r], shelf[r], lines[s][r])
    PROVE  IInv'
<1>1. /\ session' \in [Session -> CycleCountStatus]
      /\ line' \in [Session -> [Row -> LineRecord]]
      /\ \A t \in Session \ {s} : session'[t] = session[t] /\ line'[t] = line[t]
      /\ \/ session'[s] = status /\ line'[s] = lines[s]
         \/ /\ session'[s] = "NONE" /\ line'[s] = NoLines
            /\ \A g \in Call \ {h} : call[g].session # {s}
  <2>1. /\ session \in [Session -> CycleCountStatus] /\ line \in [Session -> [Row -> LineRecord]]
        /\ "NONE" \in CycleCountStatus /\ NoLines \in [Row -> LineRecord]
    BY LineTypes DEF IInv, TypeOK, CycleCountStatus
  <2>2. /\ session' \in [Session -> CycleCountStatus]
        /\ line' \in [Session -> [Row -> LineRecord]]
        /\ \A t \in Session \ {s} : session'[t] = session[t] /\ line'[t] = lines[t]
        /\ \/ session'[s] = status /\ line'[s] = lines[s]
           \/ /\ session'[s] = "NONE" /\ line'[s] = NoLines
              /\ \A g \in Call \ {h} : call[g].session # {s}
    <3>1. CASE status \in ActiveCountStatuses \/ \E g \in Call \ {h} : call[g].session = {s}
      BY <2>1, <3>1 DEF Leaves
    <3>2. CASE ~(status \in ActiveCountStatuses \/ \E g \in Call \ {h} : call[g].session = {s})
      BY <2>1, <3>2 DEF Leaves
    <3> QED BY <3>1, <3>2
  <2> QED BY <2>2
<1>2. \A g \in Call : call'[g] = call[g] \/ call'[g] = Idle
  OBVIOUS
<1>3. CASE session'[s] = status /\ line'[s] = lines[s]
  <2>1. session'[s] = "REVIEW" => AllFilled(s)'
    BY <1>3 DEF AllFilled, IInv, ReviewsFilled
  <2>2. /\ session'[s] # "NONE"
        /\ \A r \in Row : /\ line'[s][r].at = line[s][r].at
                          /\ line'[s][r].exp = line[s][r].exp
                          /\ Filled(line[s][r]) => Filled(line'[s][r])
                          /\ Fit(book[r], shelf[r], line'[s][r])
    BY <1>3
  <2> QED BY <1>1, <1>2, <2>1, <2>2, WriteInv
<1>4. CASE /\ session'[s] = "NONE" /\ line'[s] = NoLines
           /\ \A g \in Call \ {h} : call[g].session # {s}
  <2>1. \A g \in Call : call'[g].session # {s}
    BY <1>4, IdleType
  <2>2. \A r \in Row : Fit(book[r], shelf[r], line'[s][r])
    BY <1>4, LineTypes
  <2> QED BY <1>1, <1>2, <1>4, <2>1, <2>2, WriteInv
<1> QED BY <1>1, <1>3, <1>4

\* Handler h ends.
LEMMA EndsKeeps ==
    ASSUME TypeOK, NEW h \in Call, Goes(h, Idle)
    PROVE  /\ call' \in [Call -> CallRecord]
           /\ \A g \in Call : call'[g] = IF g = h THEN Idle ELSE call[g]
  BY IdleType DEF TypeOK, Goes

LEMMA ThrowInv ==
    ASSUME IInv, NEW h \in Call, NEW s \in Session, Throw(h, s)
    PROVE  IInv'
<1>1. /\ Goes(h, Idle) /\ Leaves(h, s, session[s], line) /\ session[s] # "NONE"
      /\ UNCHANGED <<place, book, shelf, mover>>
  BY DEF Throw, stockVars, IInv, CallsAreSound
<1>2. /\ session[s] \in CycleCountStatus /\ line \in [Session -> [Row -> LineRecord]]
      /\ \A r \in Row : Fit(book[r], shelf[r], line[s][r])
  BY DEF IInv, TypeOK, LinesFit
<1>3. PICK status, lines : status = session[s] /\ lines = line
  OBVIOUS
<1> QED BY <1>1, <1>2, <1>3, EndsKeeps, LeaveInv DEF IInv

LEMMA CountLineInv ==
    ASSUME IInv, NEW h \in Call, NEW s \in Session, NEW r \in Row, CountLine(h, s, r)
    PROVE  IInv'
<1> DEFINE new == [line[s][r] EXCEPT !.counted = call[h].n, !.varies = call[h].varies,
                                     !.by = call[h].by, !.conflict = FALSE, !.how = call[h].how]
           lines == [line EXCEPT ![s] = [line[s] EXCEPT ![r] = new]]
<1>1. /\ On(h, "count", s) /\ call[h].rows = {r} /\ Goes(h, Idle)
      /\ Leaves(h, s, session[s], lines)
      /\ UNCHANGED <<place, book, shelf, mover>>
  BY DEF CountLine, stockVars
<1>2. line[s] \in [Row -> LineRecord] /\ line[s][r] \in LineRecord /\ call[h] \in CallRecord
  BY DEF IInv, TypeOK
<1>3. call[h].n \in Qty /\ session[s] # "NONE" /\ session[s] \in CycleCountStatus
  BY <1>1 DEF On, IInv, TypeOK, CallsAreSound
<1>4. /\ new \in LineRecord /\ new.counted = call[h].n /\ new.varies = call[h].varies
      /\ new.how = call[h].how /\ new.at = line[s][r].at /\ new.exp = line[s][r].exp
  BY <1>2, <1>3 DEF LineRecord, CallRecord
<1>5. FitCount(book[r], shelf[r], call[h], line[s][r])
  BY <1>1 DEF IInv, CountsFit
<1>6. Fit(book[r], shelf[r], new) /\ Filled(new)
  BY <1>3, <1>4, <1>5, LineTypes DEF Fit, FitCount, Filled
<1> HIDE DEF new
<1>7. /\ lines \in [Session -> [Row -> LineRecord]]
      /\ \A t \in Session \ {s} : lines[t] = line[t]
      /\ lines[s][r] = new /\ \A q \in Row \ {r} : lines[s][q] = line[s][q]
  BY <1>2, <1>4 DEF IInv, TypeOK
<1> HIDE DEF lines
<1>8. \A q \in Row : /\ lines[s][q].at = line[s][q].at
                     /\ lines[s][q].exp = line[s][q].exp
                     /\ Filled(line[s][q]) => Filled(lines[s][q])
                     /\ Fit(book[q], shelf[q], lines[s][q])
  BY <1>4, <1>6, <1>7 DEF IInv, LinesFit
<1>9. PICK status, ls : status = session[s] /\ ls = lines
  OBVIOUS
<1> QED BY <1>1, <1>3, <1>7, <1>8, <1>9, EndsKeeps, LeaveInv DEF IInv

LEMMA SubmitInv ==
    ASSUME IInv, NEW h \in Call, NEW s \in Session, SubmitForReview(h, s)
    PROVE  IInv'
<1>1. /\ On(h, "submit", s) /\ Goes(h, Idle)
      /\ session' = [session EXCEPT ![s] = "REVIEW"]
      /\ UNCHANGED <<place, book, shelf, line, mover>>
  BY DEF SubmitForReview, stockVars
<1>2. /\ session' \in [Session -> CycleCountStatus] /\ session'[s] = "REVIEW"
      /\ \A t \in Session \ {s} : session'[t] = session[t]
  BY <1>1 DEF IInv, TypeOK, CycleCountStatus, ActiveCountStatuses
<1>3. AllFilled(s)'
  BY <1>1 DEF IInv, SubmitsFilled, AllFilled
<1>4. /\ line' \in [Session -> [Row -> LineRecord]]
      /\ \A r \in Row : Fit(book[r], shelf[r], line'[s][r])
  BY <1>1 DEF IInv, TypeOK, LinesFit
<1> QED BY <1>1, <1>2, <1>3, <1>4, EndsKeeps, WriteInv DEF IInv

LEMMA CancelInv ==
    ASSUME IInv, NEW s \in Session, Cancel(s)
    PROVE  IInv'
<1>1. /\ Leaves(NoCall, s, "CLOSED", line)
      /\ UNCHANGED <<place, book, shelf, call, mover>>
  BY DEF Cancel, stockVars
<1>2. /\ "CLOSED" \in CycleCountStatus /\ call \in [Call -> CallRecord]
      /\ line \in [Session -> [Row -> LineRecord]]
      /\ \A r \in Row : Fit(book[r], shelf[r], line[s][r])
  BY DEF IInv, TypeOK, LinesFit, CycleCountStatus
<1>3. \A g \in Call : call'[g] = IF g = NoCall THEN Idle ELSE call[g]
  BY <1>1, CycleCountAssumption
<1>4. PICK h, status, lines : h = NoCall /\ status = "CLOSED" /\ lines = line
  OBVIOUS
<1> QED BY <1>1, <1>2, <1>3, <1>4, LeaveInv

LEMMA FlagConflictsInv ==
    ASSUME IInv, NEW h \in Call, NEW s \in Session, FlagConflicts(h, s)
    PROVE  IInv'
<1> DEFINE lines == [line EXCEPT ![s] = [r \in Row |->
                       [line[s][r] EXCEPT !.conflict = @ \/ r \in call[h].rows]]]
<1>1. /\ On(h, "flag", s) /\ Goes(h, Idle) /\ Leaves(h, s, session[s], lines)
      /\ UNCHANGED <<place, book, shelf, mover>>
  BY DEF FlagConflicts, stockVars
<1>2. session[s] # "NONE" /\ session[s] \in CycleCountStatus
  BY <1>1 DEF On, IInv, TypeOK, CallsAreSound
<1>3. \A r \in Row : line[s][r] \in LineRecord
  BY DEF IInv, TypeOK
<1>4. ASSUME NEW r \in Row
      PROVE  LET l == [line[s][r] EXCEPT !.conflict = @ \/ r \in call[h].rows]
             IN  /\ l \in LineRecord /\ l.at = line[s][r].at /\ l.exp = line[s][r].exp
                 /\ l.counted = line[s][r].counted /\ l.varies = line[s][r].varies
                 /\ l.how = line[s][r].how /\ l.again = line[s][r].again
  BY <1>3 DEF LineRecord
<1>5. /\ lines \in [Session -> [Row -> LineRecord]]
      /\ \A t \in Session \ {s} : lines[t] = line[t]
      /\ \A r \in Row :
           /\ lines[s][r].at = line[s][r].at /\ lines[s][r].exp = line[s][r].exp
           /\ lines[s][r].counted = line[s][r].counted
           /\ lines[s][r].varies = line[s][r].varies
           /\ lines[s][r].how = line[s][r].how /\ lines[s][r].again = line[s][r].again
  BY <1>4 DEF IInv, TypeOK
<1> HIDE DEF lines
<1>6. \A r \in Row : /\ lines[s][r].at = line[s][r].at
                     /\ lines[s][r].exp = line[s][r].exp
                     /\ Filled(line[s][r]) => Filled(lines[s][r])
                     /\ Fit(book[r], shelf[r], lines[s][r])
  <2> TAKE r \in Row
  <2>1. Fit(book[r], shelf[r], line[s][r])
    BY DEF IInv, LinesFit
  <2> QED BY <1>5, <2>1 DEF Fit, Filled
<1>7. PICK status, ls : status = session[s] /\ ls = lines
  OBVIOUS
<1> QED BY <1>1, <1>2, <1>5, <1>6, <1>7, EndsKeeps, LeaveInv DEF IInv

LEMMA CreateSessionInv ==
    ASSUME IInv, NEW s \in Session, CreateSession(s)
    PROVE  IInv'
<1> DEFINE new == [r \in Row |-> IF place[r] = "AVAILABLE"
                                 THEN [NoLine EXCEPT !.at = "LIVE", !.exp = book[r]]
                                 ELSE NoLine]
<1>1. /\ session[s] = "NONE"
      /\ session' = [session EXCEPT ![s] = "COUNTING"] /\ line' = [line EXCEPT ![s] = new]
      /\ UNCHANGED <<place, book, shelf, call, mover>>
  BY DEF CreateSession, Startable, stockVars
<1>2. /\ new \in [Row -> LineRecord]
      /\ \A r \in Row : new[r].counted = Uncounted /\ ~new[r].varies
  <2>1. ASSUME NEW r \in Row
        PROVE  LET l == IF place[r] = "AVAILABLE"
                        THEN [NoLine EXCEPT !.at = "LIVE", !.exp = book[r]] ELSE NoLine
               IN  l \in LineRecord /\ l.counted = Uncounted /\ ~l.varies
    <3>1. book[r] \in Qty
      BY DEF IInv, TypeOK
    <3> QED BY <3>1, LineTypes DEF LineRecord
  <2> QED BY <2>1
<1> HIDE DEF new
<1>3. /\ session' \in [Session -> CycleCountStatus] /\ session'[s] = "COUNTING"
      /\ line' \in [Session -> [Row -> LineRecord]] /\ line'[s] = new
      /\ \A t \in Session \ {s} : session'[t] = session[t] /\ line'[t] = line[t]
  BY <1>1, <1>2 DEF IInv, TypeOK, CycleCountStatus, ActiveCountStatuses
<1>4. \A r \in Row : Fit(book[r], shelf[r], line'[s][r])
  BY <1>2, <1>3 DEF Fit
<1>5. \A g \in Call : call'[g].session # {s}
  BY <1>1 DEF IInv, CallsAreSound
<1>6. call' \in [Call -> CallRecord] /\ \A g \in Call : call'[g] = call[g] \/ call'[g] = Idle
  BY <1>1 DEF IInv, TypeOK
<1> QED BY <1>1, <1>3, <1>4, <1>5, <1>6, WriteInv

\* A line that is counted again says nothing yet, and what was counted for it, and
\* is not written, is stale.
LEMMA RecountInv ==
    ASSUME IInv, NEW h \in Call, NEW s \in Session, RecountConflicts(h, s)
    PROVE  IInv'
<1> DEFINE flagged == {r \in Row : line[s][r].at = "LIVE" /\ line[s][r].conflict}
           after(g) == IF g = h THEN Idle
                       ELSE IF On(g, "count", s) /\ call[g].rows \subseteq flagged
                       THEN [call[g] EXCEPT !.how = "stale"]
                       ELSE call[g]
           new(r) == IF r \notin flagged THEN line[s][r]
                     ELSE IF place[r] = "AVAILABLE" THEN Refreshed(r)
                     ELSE [line[s][r] EXCEPT !.at = "EXCLUDED", !.conflict = FALSE]
<1>1. /\ call[h].op = "recount" /\ call' = [g \in Call |-> after(g)]
      /\ line' = [line EXCEPT ![s] = [r \in Row |-> new(r)]]
      /\ session' = [session EXCEPT ![s] = "COUNTING"]
      /\ UNCHANGED <<place, book, shelf, mover>>
  BY DEF RecountConflicts, Live, On, stockVars
<1>2. /\ \A r \in Row : line[s][r] \in LineRecord /\ book[r] \in Qty
      /\ \A g \in Call : call[g] \in CallRecord
  BY DEF IInv, TypeOK
<1>3. ASSUME NEW r \in Row
      PROVE  /\ new(r) \in LineRecord /\ Fit(book[r], shelf[r], new(r))
             /\ r \notin flagged => new(r) = line[s][r]
             /\ (line[s][r].at = "LIVE" => Filled(line[s][r])) =>
                  (new(r).at = "LIVE" => Filled(new(r)))
  <2>1. CASE r \notin flagged
    BY <1>2, <2>1 DEF IInv, LinesFit
  <2>2. CASE r \in flagged /\ place[r] = "AVAILABLE"
    <3>1. /\ Refreshed(r) \in LineRecord /\ Refreshed(r).counted = Uncounted
          /\ ~Refreshed(r).varies /\ Refreshed(r).again
      BY <1>2, LineTypes DEF Refreshed, LineRecord
    <3> QED BY <2>2, <3>1 DEF Fit, Filled
  <2>3. CASE r \in flagged /\ place[r] # "AVAILABLE"
    <3> DEFINE l == [line[s][r] EXCEPT !.at = "EXCLUDED", !.conflict = FALSE]
    <3>1. /\ l \in LineRecord /\ l.at = "EXCLUDED" /\ l.counted = line[s][r].counted
          /\ l.varies = line[s][r].varies /\ l.how = line[s][r].how /\ l.exp = line[s][r].exp
      BY <1>2 DEF LineRecord
    <3>2. new(r) = l /\ Fit(book[r], shelf[r], line[s][r])
      BY <2>3 DEF IInv, LinesFit
    <3> HIDE DEF l, new
    <3> QED BY <2>3, <3>1, <3>2 DEF Fit
  <2> QED BY <2>1, <2>2, <2>3
<1>4. ASSUME NEW g \in Call
      PROVE  /\ after(g) \in CallRecord
             /\ \/ after(g) = Idle
                \/ /\ after(g).op = call[g].op /\ after(g).session = call[g].session
                   /\ after(g).rows = call[g].rows /\ after(g).n = call[g].n
                   /\ after(g).varies = call[g].varies /\ after(g).lines = call[g].lines
                   /\ after(g).how = call[g].how \/ after(g).how = "stale"
                   /\ On(g, "count", s) /\ call[g].rows \subseteq flagged => after(g).how = "stale"
  BY <1>2, IdleType DEF CallRecord
<1> HIDE DEF new, after, flagged
<1>5. /\ \A g \in Call : call'[g] = after(g)
      /\ session'[s] = "COUNTING" /\ \A r \in Row : line'[s][r] = new(r)
      /\ \A t \in Session \ {s} : session'[t] = session[t] /\ line'[t] = line[t]
  BY <1>1 DEF IInv, TypeOK
<1>6. TypeOK'
  BY <1>1, <1>3, <1>4 DEF IInv, TypeOK, CycleCountStatus, ActiveCountStatuses
<1>7. CallsAreSound'
  <2> SUFFICES ASSUME NEW g \in Call
               PROVE  /\ \A t \in Session : call'[g].session = {t} => session'[t] # "NONE"
                      /\ call'[g].op = "count" => call'[g].n \in Qty
    BY DEF CallsAreSound
  <2>1. CASE after(g) = Idle
    BY <1>5, <2>1, IdleType
  <2>2. CASE after(g) # Idle
    BY <1>4, <1>5, <2>2 DEF IInv, CallsAreSound
  <2> QED BY <2>1, <2>2
<1>8. CopiesFit'
  <2> SUFFICES ASSUME NEW g \in Call, NEW r \in Row
               PROVE  Fit(book[r], shelf[r], after(g).lines[r])
    BY <1>1, <1>5 DEF CopiesFit
  <2>1. CASE after(g) = Idle
    BY <2>1, IdleFits
  <2>2. CASE after(g) # Idle
    BY <1>4, <2>2 DEF IInv, CopiesFit
  <2> QED BY <2>1, <2>2
<1>9. CountsFit'
  <2> SUFFICES ASSUME NEW g \in Call, NEW t \in Session, NEW r \in Row,
                      On(g, "count", t)', call'[g].rows = {r}
               PROVE  FitCount(book[r], shelf[r], after(g), line'[t][r])
    BY <1>1, <1>5 DEF CountsFit
  <2>1. /\ On(g, "count", t) /\ call[g].rows = {r} /\ after(g) # Idle
        /\ after(g).n = call[g].n /\ after(g).varies = call[g].varies
        /\ after(g).how = call[g].how \/ after(g).how = "stale"
        /\ t = s /\ r \in flagged => after(g).how = "stale"
    BY <1>4, <1>5, IdleType DEF On
  <2>2. FitCount(book[r], shelf[r], call[g], line[t][r])
    BY <2>1 DEF IInv, CountsFit
  <2>3. ~(t = s /\ r \in flagged) => line'[t][r] = line[t][r]
    BY <1>3, <1>5
  <2> QED BY <2>1, <2>2, <2>3 DEF FitCount
<1>10. SubmitsFilled'
  <2> SUFFICES ASSUME NEW g \in Call, NEW t \in Session, On(g, "submit", t)',
                      NEW r \in Row, line'[t][r].at = "LIVE"
               PROVE  Filled(line'[t][r])
    BY DEF SubmitsFilled, AllFilled
  <2>1. On(g, "submit", t)
    BY <1>4, <1>5, IdleType DEF On
  <2>2. line[t][r].at = "LIVE" => Filled(line[t][r])
    BY <2>1 DEF IInv, SubmitsFilled, AllFilled
  <2> QED BY <1>3, <1>5, <2>2
<1>11. LinesFit'
  BY <1>1, <1>3, <1>5 DEF IInv, LinesFit
<1>12. ReviewsFilled' /\ MoverIsSound'
  <2>1. MoverIsSound'
    BY <1>1 DEF IInv, MoverIsSound
  <2>2. ASSUME NEW t \in Session, session'[t] = "REVIEW" PROVE AllFilled(t)'
    <3>1. t # s
      BY <1>5, <2>2
    <3> QED BY <1>5, <2>2, <3>1 DEF IInv, ReviewsFilled, AllFilled
  <2> QED BY <2>1, <2>2 DEF ReviewsFilled
<1> QED BY <1>6, <1>7, <1>8, <1>9, <1>10, <1>11, <1>12 DEF IInv

-----------------------------------------------------------------------------
(* What writes the books *)

\* When the books of a row change, or nothing of it, all that fitted fits, as stale
\* as it must be.
LEMMA AllStaleFit ==
    ASSUME IInv, \A r \in Row : book'[r] = book[r] => shelf'[r] = shelf[r]
    PROVE  /\ StaleLines \in [Session -> [Row -> LineRecord]]
           /\ \A s \in Session, r \in Row :
                LET l == StaleLines[s][r]
                IN  /\ Fit(book'[r], shelf'[r], l)
                    /\ l.at = line[s][r].at /\ l.exp = line[s][r].exp
                    /\ Filled(l) <=> Filled(line[s][r])
           /\ StaleCalls \in [Call -> CallRecord]
           /\ \A h \in Call :
                LET c == StaleCalls[h]
                IN  /\ c.op = call[h].op /\ c.session = call[h].session /\ c.n = call[h].n
                    /\ c.rows = call[h].rows
                    /\ \A r \in Row : Fit(book'[r], shelf'[r], c.lines[r])
                    /\ \A s \in Session, r \in Row : On(h, "count", s) /\ c.rows = {r} =>
                         FitCount(book'[r], shelf'[r], c, StaleLines[s][r])
<1>1. ASSUME NEW lines \in [Row -> LineRecord],
             \A r \in Row : Fit(book[r], shelf[r], lines[r])
      PROVE  /\ Stale(lines) \in [Row -> LineRecord]
             /\ \A r \in Row :
                  /\ Fit(book'[r], shelf'[r], Stale(lines)[r])
                  /\ Stale(lines)[r].at = lines[r].at /\ Stale(lines)[r].exp = lines[r].exp
                  /\ Filled(Stale(lines)[r]) <=> Filled(lines[r])
  <2>1. ASSUME NEW r \in Row
        PROVE  /\ Stale(lines)[r] \in LineRecord
               /\ Fit(book'[r], shelf'[r], Stale(lines)[r])
               /\ Stale(lines)[r].at = lines[r].at /\ Stale(lines)[r].exp = lines[r].exp
               /\ Filled(Stale(lines)[r]) <=> Filled(lines[r])
    <3>1. PICK l, m : l = lines[r] /\ m = Stale(lines)[r]
      OBVIOUS
    <3>2. PICK b, q, b2, q2 : b = book[r] /\ q = shelf[r] /\ b2 = book'[r] /\ q2 = shelf'[r]
      OBVIOUS
    <3>3. /\ l \in LineRecord /\ Fit(b, q, l) /\ (b2 = b => q2 = q)
          /\ m = IF l.at = "LIVE" /\ b2 # b /\ b2 = l.exp THEN [l EXCEPT !.how = "stale"] ELSE l
      BY <1>1, <3>1, <3>2 DEF Stale, Returned
    <3>4. /\ m \in LineRecord /\ Fit(b2, q2, m) /\ m.at = l.at /\ m.exp = l.exp
          /\ m.counted = l.counted /\ m.again = l.again
      <4>1. CASE l.at = "LIVE" /\ b2 # b /\ b2 = l.exp
        BY ONLY <3>3, <4>1 DEF Fit, LineRecord
      <4>2. CASE ~(l.at = "LIVE" /\ b2 # b /\ b2 = l.exp)
        BY ONLY <3>3, <4>2 DEF Fit
      <4> QED BY <4>1, <4>2
    <3> QED BY <3>1, <3>2, <3>4 DEF Filled
  <2> QED BY <2>1 DEF Stale
<1>2. /\ StaleLines \in [Session -> [Row -> LineRecord]]
      /\ \A s \in Session : StaleLines[s] = Stale(line[s])
  <2>1. ASSUME NEW s \in Session PROVE Stale(line[s]) \in [Row -> LineRecord]
    <3>1. line[s] \in [Row -> LineRecord] /\ \A r \in Row : Fit(book[r], shelf[r], line[s][r])
      BY DEF IInv, TypeOK, LinesFit
    <3> QED BY <1>1, <3>1
  <2> QED BY <2>1 DEF StaleLines
<1>3. ASSUME NEW s \in Session, NEW r \in Row
      PROVE  /\ Fit(book'[r], shelf'[r], StaleLines[s][r])
             /\ StaleLines[s][r].at = line[s][r].at /\ StaleLines[s][r].exp = line[s][r].exp
             /\ Filled(StaleLines[s][r]) <=> Filled(line[s][r])
  <2>1. line[s] \in [Row -> LineRecord] /\ \A q \in Row : Fit(book[q], shelf[q], line[s][q])
    BY DEF IInv, TypeOK, LinesFit
  <2> QED BY <1>1, <1>2, <2>1
<1>4. ASSUME NEW h \in Call
      PROVE  /\ StaleCall(call[h]) \in CallRecord
             /\ StaleCall(call[h]).op = call[h].op
             /\ StaleCall(call[h]).session = call[h].session
             /\ StaleCall(call[h]).n = call[h].n /\ StaleCall(call[h]).rows = call[h].rows
             /\ StaleCall(call[h]).varies = call[h].varies
             /\ StaleCall(call[h]).lines = Stale(call[h].lines)
             /\ StaleCall(call[h]).how =
                  IF \E s \in call[h].session, r \in call[h].rows :
                       call[h].op = "count" /\ Returned(r, line[s][r].exp)
                  THEN "stale" ELSE call[h].how
  <2>1. call[h] \in CallRecord
    BY DEF IInv, TypeOK
  <2>2. Stale(call[h].lines) \in [Row -> LineRecord]
    <3>1. /\ call[h].lines \in [Row -> LineRecord]
          /\ \A r \in Row : Fit(book[r], shelf[r], call[h].lines[r])
      BY <2>1 DEF CallRecord, IInv, CopiesFit
    <3> QED BY <1>1, <3>1
  <2> QED BY <2>1, <2>2 DEF StaleCall, CallRecord
<1>5. StaleCalls \in [Call -> CallRecord] /\ \A h \in Call : StaleCalls[h] = StaleCall(call[h])
  BY <1>4 DEF StaleCalls
<1>6. ASSUME NEW h \in Call, NEW r \in Row
      PROVE  Fit(book'[r], shelf'[r], StaleCalls[h].lines[r])
  <2>1. /\ call[h].lines \in [Row -> LineRecord]
        /\ \A q \in Row : Fit(book[q], shelf[q], call[h].lines[q])
    BY DEF IInv, TypeOK, CallRecord, CopiesFit
  <2> QED BY <1>1, <1>4, <1>5, <2>1
<1>7. ASSUME NEW h \in Call, NEW s \in Session, NEW r \in Row,
             On(h, "count", s), call[h].rows = {r}
      PROVE  FitCount(book'[r], shelf'[r], StaleCalls[h], StaleLines[s][r])
  <2>1. FitCount(book[r], shelf[r], call[h], line[s][r])
    BY <1>7 DEF IInv, CountsFit
  <2>2. /\ StaleCalls[h].n = call[h].n /\ StaleCalls[h].varies = call[h].varies
        /\ StaleCalls[h].how = IF Returned(r, line[s][r].exp) THEN "stale" ELSE call[h].how
    BY <1>4, <1>5, <1>7 DEF On
  <2>3. StaleLines[s][r].at = line[s][r].at /\ StaleLines[s][r].exp = line[s][r].exp
    BY <1>3
  <2> QED BY <2>1, <2>2, <2>3 DEF FitCount, Returned
<1> QED BY <1>2, <1>3, <1>4, <1>5, <1>6, <1>7

LEMMA ApproveInv ==
    ASSUME IInv, NEW h \in Call, NEW s \in Session, Approve(h, s)
    PROVE  IInv'
<1>1. /\ Leaves(h, s, "CLOSED", StaleLines) /\ call' = [StaleCalls EXCEPT ![h] = Idle]
      /\ UNCHANGED <<place, shelf, mover>>
      /\ book' = [r \in Row |-> LET l == call[h].lines[r]
                                IN  IF l.at = "LIVE" /\ l.varies THEN l.counted ELSE book[r]]
  BY DEF Approve
<1>2. book' \in [Row -> Qty]
  <2> SUFFICES ASSUME NEW r \in Row, call[h].lines[r].varies PROVE call[h].lines[r].counted \in Qty
    BY <1>1 DEF IInv, TypeOK
  <2>1. call[h].lines[r] \in LineRecord /\ Fit(book[r], shelf[r], call[h].lines[r])
    BY DEF IInv, TypeOK, CallRecord, CopiesFit
  <2> QED BY <2>1 DEF Fit, LineRecord
<1>3. \A r \in Row : book'[r] = book[r] => shelf'[r] = shelf[r]
  BY <1>1
<1>4. /\ StaleCalls \in [Call -> CallRecord] /\ StaleLines \in [Session -> [Row -> LineRecord]]
  BY <1>3, AllStaleFit
<1>5. /\ call' \in [Call -> CallRecord] /\ call'[h] = Idle
      /\ \A g \in Call \ {h} : call'[g] = StaleCalls[g]
  BY <1>1, <1>4, IdleType
<1>6. ASSUME NEW g \in Call, call'[g] # Idle
      PROVE  /\ g # h /\ call'[g] = StaleCalls[g]
             /\ call'[g].op = call[g].op /\ call'[g].session = call[g].session
             /\ call'[g].n = call[g].n /\ call'[g].rows = call[g].rows
  BY <1>3, <1>5, <1>6, AllStaleFit
<1>7. /\ session' \in [Session -> CycleCountStatus]
      /\ line' \in [Session -> [Row -> LineRecord]]
      /\ \A t \in Session \ {s} : session'[t] = session[t] /\ line'[t] = StaleLines[t]
      /\ \/ session'[s] = "CLOSED" /\ line'[s] = StaleLines[s]
         \/ /\ session'[s] = "NONE" /\ line'[s] = NoLines
            /\ \A g \in Call \ {h} : call[g].session # {s}
  <2>1. /\ session \in [Session -> CycleCountStatus] /\ "CLOSED" \in CycleCountStatus
        /\ "NONE" \in CycleCountStatus /\ NoLines \in [Row -> LineRecord]
        /\ "CLOSED" \notin ActiveCountStatuses
    BY LineTypes DEF IInv, TypeOK, CycleCountStatus, ActiveCountStatuses
  <2>2. CASE \E g \in Call \ {h} : call[g].session = {s}
    BY <1>1, <1>4, <2>1, <2>2 DEF Leaves
  <2>3. CASE ~\E g \in Call \ {h} : call[g].session = {s}
    BY <1>1, <1>4, <2>1, <2>3 DEF Leaves
  <2> QED BY <2>2, <2>3
<1>8. ASSUME NEW g \in Call, NEW t \in Session, call'[g].session = {t}
      PROVE  /\ call'[g] # Idle /\ session'[t] # "NONE" /\ line'[t] = StaleLines[t]
  <2>1. call'[g] # Idle
    BY <1>8, IdleType
  <2>2. call[g].session = {t} /\ g # h
    BY <1>6, <1>8, <2>1
  <2>3. session[t] # "NONE"
    BY <2>2 DEF IInv, CallsAreSound
  <2> QED BY <1>7, <2>1, <2>2, <2>3
<1>9. TypeOK'
  BY <1>1, <1>2, <1>5, <1>7 DEF IInv, TypeOK
<1>10. CallsAreSound'
  <2> SUFFICES ASSUME NEW g \in Call
               PROVE  /\ \A t \in Session : call'[g].session = {t} => session'[t] # "NONE"
                      /\ call'[g].op = "count" => call'[g].n \in Qty
    BY DEF CallsAreSound
  <2>1. call'[g].op = "count" => call'[g].n \in Qty
    BY <1>6, IdleType DEF IInv, CallsAreSound
  <2> QED BY <1>8, <2>1
<1>11. CopiesFit'
  <2> SUFFICES ASSUME NEW g \in Call, NEW r \in Row
               PROVE  Fit(book'[r], shelf'[r], call'[g].lines[r])
    BY DEF CopiesFit
  <2>1. CASE call'[g] = Idle
    BY <2>1, IdleFits
  <2>2. CASE call'[g] # Idle
    BY <1>3, <1>6, <2>2, AllStaleFit
  <2> QED BY <2>1, <2>2
<1>12. CountsFit'
  <2> SUFFICES ASSUME NEW g \in Call, NEW t \in Session, NEW r \in Row,
                      On(g, "count", t)', call'[g].rows = {r}
               PROVE  FitCount(book'[r], shelf'[r], call'[g], line'[t][r])
    BY DEF CountsFit
  <2>1. /\ call'[g] = StaleCalls[g] /\ line'[t] = StaleLines[t]
        /\ On(g, "count", t) /\ StaleCalls[g].rows = {r}
    BY <1>6, <1>8 DEF On
  <2>2. FitCount(book'[r], shelf'[r], StaleCalls[g], StaleLines[t][r])
    BY <1>3, <2>1, AllStaleFit
  <2> QED BY <2>1, <2>2
<1>13. SubmitsFilled'
  <2> SUFFICES ASSUME NEW g \in Call, NEW t \in Session, On(g, "submit", t)',
                      NEW r \in Row, line'[t][r].at = "LIVE"
               PROVE  Filled(line'[t][r])
    BY DEF SubmitsFilled, AllFilled
  <2>1. On(g, "submit", t) /\ line'[t] = StaleLines[t]
    BY <1>6, <1>8 DEF On
  <2>2. /\ StaleLines[t][r].at = line[t][r].at
        /\ Filled(StaleLines[t][r]) <=> Filled(line[t][r])
    BY <1>3, AllStaleFit
  <2> QED BY <2>1, <2>2 DEF IInv, SubmitsFilled, AllFilled
<1>14. LinesFit'
  <2> SUFFICES ASSUME NEW t \in Session, NEW r \in Row
               PROVE  Fit(book'[r], shelf'[r], line'[t][r])
    BY DEF LinesFit
  <2>1. CASE line'[t] = StaleLines[t]
    BY <1>3, <2>1, AllStaleFit
  <2>2. CASE line'[t] = NoLines
    BY <2>2, LineTypes
  <2> QED BY <1>7, <2>1, <2>2
<1>15. ReviewsFilled'
  <2> SUFFICES ASSUME NEW t \in Session, session'[t] = "REVIEW",
                      NEW r \in Row, line'[t][r].at = "LIVE"
               PROVE  Filled(line'[t][r])
    BY DEF ReviewsFilled, AllFilled
  <2>1. session[t] = "REVIEW" /\ line'[t] = StaleLines[t]
    BY <1>7
  <2>2. /\ StaleLines[t][r].at = line[t][r].at
        /\ Filled(StaleLines[t][r]) <=> Filled(line[t][r])
    BY <1>3, AllStaleFit
  <2> QED BY <2>1, <2>2 DEF IInv, ReviewsFilled, AllFilled
<1>16. MoverIsSound'
  BY <1>1 DEF IInv, MoverIsSound
<1> QED BY <1>9, <1>10, <1>11, <1>12, <1>13, <1>14, <1>15, <1>16 DEF IInv

\* What a movement writes into the books.
LEMMA MovedInv ==
    ASSUME IInv, TypeOK', MoverIsSound', session' = session,
           line' = StaleLines, call' = StaleCalls,
           \A r \in Row : book'[r] = book[r] => shelf'[r] = shelf[r]
    PROVE  IInv'
<1>1. CallsAreSound'
  BY AllStaleFit DEF IInv, CallsAreSound
<1>2. LinesFit' /\ CopiesFit'
  BY AllStaleFit DEF LinesFit, CopiesFit
<1>3. CountsFit'
  <2> SUFFICES ASSUME NEW g \in Call, NEW t \in Session, NEW r \in Row,
                      On(g, "count", t)', StaleCalls[g].rows = {r}
               PROVE  FitCount(book'[r], shelf'[r], StaleCalls[g], StaleLines[t][r])
    BY DEF CountsFit
  <2>1. On(g, "count", t)
    BY AllStaleFit DEF On
  <2> QED BY <2>1, AllStaleFit
<1>4. SubmitsFilled' /\ ReviewsFilled'
  <2>1. \A g \in Call, t \in Session : On(g, "submit", t)' => On(g, "submit", t)
    BY AllStaleFit DEF On
  <2>2. \A t \in Session : AllFilled(t) => AllFilled(t)'
    BY AllStaleFit DEF AllFilled
  <2> QED BY <2>1, <2>2 DEF IInv, SubmitsFilled, ReviewsFilled
<1> QED BY <1>1, <1>2, <1>3, <1>4 DEF IInv

LEMMA DisposeInv == ASSUME IInv, NEW r \in Row, Dispose(r) PROVE IInv'
<1>1. /\ book[r] > 1 /\ book[r] \in Qty /\ shelf[r] \in Qty
      /\ book' = [book EXCEPT ![r] = @ - 1]
      /\ shelf' = [shelf EXCEPT ![r] = IF @ = 0 THEN 0 ELSE @ - 1]
      /\ line' = StaleLines /\ call' = StaleCalls /\ mover' = Still
      /\ UNCHANGED <<place, session>>
  BY DEF Dispose, IInv, TypeOK
<1>2. book[r] - 1 \in Qty /\ book[r] - 1 # book[r]
      /\ (IF shelf[r] = 0 THEN 0 ELSE shelf[r] - 1) \in Qty
  BY <1>1, CycleCountAssumption DEF Qty
<1>3. \A q \in Row : book'[q] = book[q] => shelf'[q] = shelf[q]
  BY <1>1, <1>2 DEF IInv, TypeOK
<1>4. book' \in [Row -> Qty] /\ shelf' \in [Row -> Qty]
  BY <1>1, <1>2 DEF IInv, TypeOK
<1>5. TypeOK'
  BY <1>1, <1>3, <1>4, AllStaleFit, StillType DEF IInv, TypeOK, MoverRecord
<1>6. MoverIsSound'
  BY <1>1, StillType DEF MoverIsSound
<1> QED BY <1>1, <1>3, <1>5, <1>6, MovedInv

LEMMA AdjustInv == ASSUME IInv, NEW r \in Row, Adjust(r) PROVE IInv'
<1>1. /\ mover.op = "adjust" /\ book' = [book EXCEPT ![r] = mover.after]
      /\ line' = StaleLines /\ call' = StaleCalls /\ mover' = Still
      /\ UNCHANGED <<place, shelf, session>>
  BY DEF Adjust, Moves
<1>2. mover.after \in Qty
  BY <1>1 DEF IInv, MoverIsSound
<1>3. \A q \in Row : book'[q] = book[q] => shelf'[q] = shelf[q]
  BY <1>1
<1>4. book' \in [Row -> Qty]
  BY <1>1, <1>2 DEF IInv, TypeOK
<1>5. TypeOK'
  BY <1>1, <1>3, <1>4, AllStaleFit, StillType DEF IInv, TypeOK, MoverRecord
<1>6. MoverIsSound'
  BY <1>1, StillType DEF MoverIsSound
<1> QED BY <1>1, <1>3, <1>5, <1>6, MovedInv

\* A step of a movement that leaves the books alone.
LEMMA AsideInv ==
    ASSUME IInv, UNCHANGED <<book, shelf, session, line, call>>,
           place' \in [Row -> {"AVAILABLE", "HELD", "OUT"}],
           mover' \in MoverRecord, MoverIsSound'
    PROVE  IInv'
<1>1. TypeOK'
  BY DEF IInv, TypeOK, MoverRecord
<1> QED BY <1>1 DEF IInv, CallsAreSound, LinesFit, CopiesFit, CountsFit, SubmitsFilled,
                    ReviewsFilled, AllFilled, On

LEMMA MoverStepInv ==
    ASSUME IInv, NEW r \in Row,
           BeginLeave(r) \/ BeginDispose(r) \/ AskAdjustment(r) \/ BeginAdjust(r)
    PROVE  IInv'
<1>1. UNCHANGED <<place, book, shelf, session, line, call>>
  BY DEF BeginLeave, BeginDispose, BeginMove, AskAdjustment, BeginAdjust, stockVars
<1>2. mover \in MoverRecord /\ book[r] \in Qty /\ shelf[r] \in Qty
  BY DEF IInv, TypeOK, MoverRecord
<1>3. mover' \in MoverRecord /\ MoverIsSound'
  <2>1. CASE BeginLeave(r)
    BY <2>1, StillType DEF BeginLeave, BeginMove, MoverRecord, MoverIsSound
  <2>2. CASE BeginDispose(r)
    BY <2>2, StillType DEF BeginDispose, BeginMove, MoverRecord, MoverIsSound
  <2>3. CASE AskAdjustment(r)
    BY <1>2, <2>3 DEF AskAdjustment, MoverRecord, MoverIsSound
  <2>4. CASE BeginAdjust(r)
    BY <1>2, <2>4 DEF BeginAdjust, Moves, MoverRecord, MoverIsSound, IInv
  <2> QED BY <2>1, <2>2, <2>3, <2>4
<1>4. place' \in [Row -> {"AVAILABLE", "HELD", "OUT"}]
  BY <1>1 DEF IInv, TypeOK
<1> QED BY <1>1, <1>3, <1>4, AsideInv

LEMMA PlaceInv ==
    ASSUME IInv, GiveUp \/ \E r \in Row : Leave(r) \/ ReleaseRow(r) \/ Ship(r) \/ ReturnRow(r)
    PROVE  IInv'
<1>1. UNCHANGED <<book, shelf, session, line, call>> /\ mover' \in {mover, Still}
  BY DEF GiveUp, Leave, ReleaseRow, Ship, ReturnRow, Elsewhere, stockVars
<1>2. place' \in [Row -> {"AVAILABLE", "HELD", "OUT"}]
  BY DEF GiveUp, Leave, ReleaseRow, Ship, ReturnRow, Elsewhere, stockVars, IInv, TypeOK
<1>3. mover' \in MoverRecord /\ MoverIsSound'
  BY <1>1, StillType DEF IInv, TypeOK, MoverRecord, MoverIsSound
<1> QED BY <1>1, <1>2, <1>3, AsideInv

-----------------------------------------------------------------------------

LEMMA NextInv == IInv /\ [Next]_vars => IInv'
<1> SUFFICES ASSUME IInv, [Next]_vars PROVE IInv'
  OBVIOUS
<1>1. CASE UNCHANGED vars
  BY <1>1 DEF vars, IInv, TypeOK, CallsAreSound, MoverIsSound, LinesFit, CopiesFit, CountsFit,
              SubmitsFilled, ReviewsFilled, AllFilled, On
<1>2. ASSUME NEW s \in Session, CreateSession(s) \/ Cancel(s) PROVE IInv'
  BY <1>2, CreateSessionInv, CancelInv
<1>3. ASSUME NEW h \in Call, NEW s \in Session, NEW r \in Row,
             (\E u \in User : BeginCount(h, s, r, u)) \/ CountLine(h, s, r)
      PROVE  IInv'
  BY <1>3, BeginCountInv, CountLineInv
<1>4. ASSUME NEW h \in Call, NEW s \in Session,
             \/ BeginSubmit(h, s) \/ SubmitForReview(h, s)
             \/ (\E u \in User : BeginApprove(h, s, u)) \/ Approve(h, s)
      PROVE  IInv'
  BY <1>4, BeginSubmitInv, SubmitInv, BeginApproveInv, ApproveInv
<1>5. ASSUME NEW h \in Call, NEW s \in Session,
             \/ RefuseApproval(h, s) \/ FlagConflicts(h, s)
             \/ BeginRecount(h, s) \/ RecountConflicts(h, s) \/ Throw(h, s)
      PROVE  IInv'
  BY <1>5, RefuseApprovalInv, FlagConflictsInv, BeginRecountInv, RecountInv, ThrowInv
<1>6. ASSUME NEW r \in Row,
             \/ BeginLeave(r) \/ Leave(r) \/ BeginDispose(r) \/ Dispose(r)
             \/ AskAdjustment(r) \/ BeginAdjust(r) \/ Adjust(r)
             \/ ReleaseRow(r) \/ Ship(r) \/ ReturnRow(r)
      PROVE  IInv'
  BY <1>6, MoverStepInv, DisposeInv, AdjustInv, PlaceInv
<1>7. CASE GiveUp
  BY <1>7, PlaceInv
<1> QED BY <1>1, <1>2, <1>3, <1>4, <1>5, <1>6, <1>7 DEF Next

\* Always, by induction.
LEMMA Invariant == Spec => []IInv
  BY InitInv, NextInv, PTL DEF Spec

\* The variables of cycle-count.service.ts, of its lock and of the stock it counts
\* stay in their types.
THEOREM TypeCorrect == Spec => []TypeOK
<1>1. IInv => TypeOK
  BY DEF IInv
<1> QED BY <1>1, Invariant, PTL

\* Whatever is recounted between the check and the claim of submitForReview, and
\* whatever session a recount opens again, every line of a session under review is
\* counted or was to be counted again.
THEOREM AllCountedAlways == Spec => []AllCounted
<1>1. IInv => AllCounted
  BY DEF IInv, ReviewsFilled, AllFilled, Filled, AllCounted, Live
<1> QED BY <1>1, Invariant, PTL

\* approve leaves in the books what is on the shelf, for every row that was counted
\* there and whose books did not come to the expected quantity only afterwards:
\* with any handlers at work, and any movements beside them.
THEOREM CountCorrectsAlways == Spec => CountCorrects
<1>1. IInv /\ [Next]_vars => [Correct({"there"})]_vars
  <2> SUFFICES ASSUME IInv, NEW s \in Session, NEW h \in Call, Approve(h, s),
                      NEW r \in Row, CountedFor(h, r, {"there"})
               PROVE  book'[r] = shelf[r]
    BY DEF Correct
  <2> DEFINE l == call[h].lines[r]
  <2>1. l.at = "LIVE" /\ l.counted # Uncounted /\ l.how = "there"
    BY DEF CountedFor
  <2>2. place[r] = "AVAILABLE" /\ book[r] = l.exp
    BY <2>1 DEF Approve, Conflicts, Conflict
  <2>3. shelf[r] = l.counted /\ (l.varies <=> l.counted # l.exp)
    BY <2>1, <2>2 DEF IInv, CopiesFit, Fit
  <2>4. book'[r] = IF l.varies THEN l.counted ELSE book[r]
    BY <2>1 DEF Approve
  <2> QED BY <2>2, <2>3, <2>4
<1>2. Spec => [][Correct({"there"})]_vars
  BY <1>1, Invariant, PTL DEF Spec
<1> QED BY <1>2 DEF CountCorrects

=================================================================================
