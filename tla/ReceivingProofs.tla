----------------------------- MODULE ReceivingProofs -----------------------------
(***************************************************************************)
(* What TLAPS proves of Receiving, for any units, serials, receipts, cases *)
(* and quantities.                                                         *)
(***************************************************************************)
EXTENDS Receiving, Integers, TLAPS

\* A row that does not exist has no serial and no receipt, a row's receipt
\* exists, and the rows of a reversed receipt, and no others, are cancelled.
RowsInv ==
    \A u \in Unit :
      /\ stat[u] = "ABSENT" => serial[u] = NoSerial /\ receipt[u] = NoReceipt
      /\ receipt[u] # NoReceipt => gr[receipt[u]] # "NONE"
      /\ stat[u] = "CANCELLED" <=> receipt[u] # NoReceipt /\ gr[receipt[u]] = "CANCELLED"

\* One open scrap case for a unit.
ScrapInv == \A c, d \in ScrapCase :
    OpenScrap(c) /\ OpenScrap(d) /\ scrap[c].unit = scrap[d].unit => c = d

IInv == TypeOK /\ RowsInv /\ SerialActiveOnce /\ ScrapInv

\* Where a unit is while a case is open over it.
Cased == {"RTV_PENDING", "RTV_SHIPPED", "CLOSED"}

\* One open vendor case for a unit, which waits for the vendor or has left for
\* good, unless the case was re-opened.
CaseInv ==
    /\ \A c \in RtvCase : rtv[c].at # "NONE" => rtv[c].unit \in Unit
    /\ \A c \in RtvCase : OpenRtv(c) /\ rtv[c].unit \notin reopened => stat[rtv[c].unit] \in Cased
    /\ \A c, d \in RtvCase :
         /\ OpenRtv(c) /\ OpenRtv(d) /\ rtv[c].unit \notin reopened
         /\ rtv[c].unit = rtv[d].unit
         => c = d

\* A completed case and the receipt of its replacement point to each other.
LinkInv ==
    /\ \A c \in RtvCase : rtv[c].repl # NoUnit =>
         /\ rtv[c].at = "COMPLETED" /\ receipt[rtv[c].repl] # NoReceipt
         /\ Stands(receipt[rtv[c].repl]) /\ source[receipt[rtv[c].repl]] = c
    /\ \A g \in Receipt :
         /\ gr[g] = "NONE" => source[g] = NoCase
         /\ source[g] # NoCase /\ Stands(g) =>
              rtv[source[g]].repl # NoUnit /\ receipt[rtv[source[g]].repl] = g

-----------------------------------------------------------------------------

\* Rows that are written get what is written.
LEMMA OverType ==
    ASSUME NEW S, NEW f \in [Unit -> S], NEW U \in SUBSET Unit, NEW new \in [U -> S]
    PROVE  /\ Over(f, new) \in [Unit -> S]
           /\ \A u \in Unit : Over(f, new)[u] = IF u \in U THEN new[u] ELSE f[u]
<1>1. DOMAIN new = U
  OBVIOUS
<1> QED BY <1>1 DEF Over

\* The same of serials,
LEMMA OverSerials ==
    ASSUME NEW f \in [Unit -> SerialText], NEW U \in SUBSET Unit, NEW new \in [U -> SerialText],
           NEW result, result = Over(f, new)
    PROVE  /\ result \in [Unit -> SerialText]
           /\ \A u \in Unit : result[u] = IF u \in U THEN new[u] ELSE f[u]
<1> DEFINE S == SerialText
<1>1. f \in [Unit -> S] /\ new \in [U -> S]
  OBVIOUS
<1> HIDE DEF S
<1>2. /\ Over(f, new) \in [Unit -> S]
      /\ \A u \in Unit : Over(f, new)[u] = IF u \in U THEN new[u] ELSE f[u]
  BY <1>1, OverType
<1> QED BY <1>2 DEF S

\* of statuses,
LEMMA OverStatuses ==
    ASSUME NEW f \in [Unit -> StockStatus], NEW U \in SUBSET Unit, NEW new \in [U -> StockStatus],
           NEW result, result = Over(f, new)
    PROVE  /\ result \in [Unit -> StockStatus]
           /\ \A u \in Unit : result[u] = IF u \in U THEN new[u] ELSE f[u]
<1> DEFINE S == StockStatus
<1>1. f \in [Unit -> S] /\ new \in [U -> S]
  OBVIOUS
<1> HIDE DEF S
<1>2. /\ Over(f, new) \in [Unit -> S]
      /\ \A u \in Unit : Over(f, new)[u] = IF u \in U THEN new[u] ELSE f[u]
  BY <1>1, OverType
<1> QED BY <1>2 DEF S

\* and of quantities.
LEMMA OverQuantities ==
    ASSUME NEW f \in [Unit -> 0..MaxQty], NEW U \in SUBSET Unit, NEW new \in [U -> 0..MaxQty],
           NEW result, result = Over(f, new)
    PROVE  /\ result \in [Unit -> 0..MaxQty]
           /\ \A u \in Unit : result[u] = IF u \in U THEN new[u] ELSE f[u]
<1> DEFINE S == 0..MaxQty
<1>1. f \in [Unit -> S] /\ new \in [U -> S]
  OBVIOUS
<1> HIDE DEF S
<1>2. /\ Over(f, new) \in [Unit -> S]
      /\ \A u \in Unit : Over(f, new)[u] = IF u \in U THEN new[u] ELSE f[u]
  BY <1>1, OverType
<1> QED BY <1>2 DEF S

\* What most steps do to the rows: none appears from nothing or vanishes, is
\* cancelled or back from it.
Mild ==
    \A u \in Unit : /\ stat'[u] = "ABSENT" => stat[u] = "ABSENT"
                    /\ stat'[u] = "CANCELLED" <=> stat[u] = "CANCELLED"

\* What most steps leave of the vendor cases: all, with their units where a case
\* keeps them, and the receipts they are linked to.
Aside ==
    /\ UNCHANGED <<rtv, reopened, source>>
    /\ \A u \in Unit : /\ stat[u] \in Cased => stat'[u] \in Cased
                       /\ receipt[u] # NoReceipt => receipt'[u] = receipt[u]
    /\ \A g \in Receipt : gr[g] # "NONE" =>
         gr'[g] # "NONE" /\ (gr'[g] = "CANCELLED" <=> gr[g] = "CANCELLED")

\* A row with a real serial is in stock that was not, only if it came back.
NoneRevived ==
    \A u \in Unit : /\ serial'[u] = serial[u]
                    /\ Active(u)' /\ serial[u] \in Serial => Active(u) \/ u \in back'

\* A serial stays active once where no row is in stock again but those that came back.
LEMMA SerialsKept ==
    ASSUME SerialActiveOnce, NoneRevived, back \subseteq back'
    PROVE  SerialActiveOnce'
<1> SUFFICES ASSUME NEW u \in Unit, NEW v \in Unit, u # v, Active(u)', Active(v)',
                    serial'[u] \in Serial, serial'[u] = serial'[v]
             PROVE  {u, v} \cap back' # {}
  BY DEF SerialActiveOnce
<1>1. (Active(u) \/ u \in back') /\ (Active(v) \/ v \in back')
  BY DEF NoneRevived
<1> QED BY <1>1 DEF NoneRevived, SerialActiveOnce

\* Rows stay in step with their receipts where neither is cancelled.
LEMMA RowsKept ==
    ASSUME RowsInv, Mild, UNCHANGED receipt, \A u \in Unit : serial'[u] = serial[u],
           \A g \in Receipt : /\ gr'[g] = "NONE" => gr[g] = "NONE"
                              /\ gr'[g] = "CANCELLED" <=> gr[g] = "CANCELLED",
           TypeOK
    PROVE  RowsInv'
BY DEF RowsInv, Mild, TypeOK

\* What is said of vendor cases holds after a step that leaves them aside.
LEMMA CasesKept == ASSUME CaseInv, LinkInv, Aside, TypeOK PROVE CaseInv' /\ LinkInv'
<1>1. CaseInv'
  BY DEF CaseInv, Aside, OpenRtv
<1>2. \A c \in RtvCase : rtv[c].repl # NoUnit => rtv[c].repl \in Unit /\ receipt[rtv[c].repl] \in Receipt
  BY DEF LinkInv, TypeOK, RtvRecord
<1>3. \A g \in Receipt : gr[g] # "NONE" => (Stands(g)' <=> Stands(g))
  BY DEF Aside, Stands
<1>4. ASSUME NEW c \in RtvCase, rtv[c].repl # NoUnit
      PROVE  /\ rtv[c].at = "COMPLETED" /\ receipt'[rtv[c].repl] # NoReceipt
             /\ gr'[receipt'[rtv[c].repl]] \notin {"NONE", "CANCELLED"} /\ source[receipt'[rtv[c].repl]] = c
  <2>1. receipt'[rtv[c].repl] = receipt[rtv[c].repl] /\ receipt[rtv[c].repl] \in Receipt
    BY <1>2, <1>4 DEF LinkInv, Aside
  <2> QED BY <1>3, <1>4, <2>1 DEF LinkInv, Stands
<1>5. ASSUME NEW g \in Receipt
      PROVE  /\ gr'[g] = "NONE" => source[g] = NoCase
             /\ source[g] # NoCase /\ Stands(g)' =>
                  rtv[source[g]].repl # NoUnit /\ receipt'[rtv[source[g]].repl] = g
  <2>1. gr'[g] = "NONE" => source[g] = NoCase
    BY DEF LinkInv, Aside
  <2>2. ASSUME source[g] # NoCase, Stands(g)'
        PROVE  rtv[source[g]].repl # NoUnit /\ receipt'[rtv[source[g]].repl] = g
    <3>1. Stands(g) /\ source[g] \in RtvCase
      BY <1>3, <2>2 DEF LinkInv, TypeOK
    <3>2. rtv[source[g]].repl # NoUnit /\ receipt[rtv[source[g]].repl] = g
      BY <2>2, <3>1 DEF LinkInv
    <3> QED BY <1>2, <3>1, <3>2 DEF Aside, LinkInv
  <2> QED BY <2>1, <2>2
<1> QED BY <1>1, <1>4, <1>5 DEF LinkInv, Aside, Stands

\* A step that leaves receipts, serials and scrap cases alone.
LEMMA QuietStep ==
    ASSUME IInv, TypeOK', Mild, NoneRevived, back \subseteq back',
           UNCHANGED <<receipt, scrap>>,
           \A g \in Receipt : /\ gr'[g] = "NONE" => gr[g] = "NONE"
                              /\ gr'[g] = "CANCELLED" <=> gr[g] = "CANCELLED"
    PROVE  IInv'
<1>1. RowsInv'
  BY RowsKept DEF IInv, NoneRevived
<1>2. SerialActiveOnce'
  BY SerialsKept DEF IInv
<1>3. ScrapInv'
  BY DEF IInv, ScrapInv, OpenScrap
<1> QED BY <1>1, <1>2, <1>3 DEF IInv

\* What is proved of every state holds in the first one.
LEMMA InitInv == Init => IInv /\ CaseInv /\ LinkInv
<1> SUFFICES ASSUME Init PROVE IInv /\ CaseInv /\ LinkInv
  OBVIOUS
<1>1. TypeOK
  BY ReceivingAssumption DEF Init, TypeOK, NoRtv, RtvRecord, NoScrap, Idle, StockStatus, ReceivingStatus,
     ScrapOpen, SerialText
<1>2. RowsInv /\ SerialActiveOnce /\ ScrapInv
  BY DEF Init, RowsInv, SerialActiveOnce, Active, SerialReleased, ScrapInv, OpenScrap, NoScrap, ScrapOpen
<1>3. CaseInv /\ LinkInv
  BY DEF Init, CaseInv, LinkInv, NoRtv, OpenRtv, Stands
<1> QED BY <1>1, <1>2, <1>3 DEF IInv

-----------------------------------------------------------------------------
(* One row moves *)

\* A row that no case keeps moves.
LEMMA StockStepInv ==
    ASSUME IInv, NEW u \in Unit, NEW from, NEW to \in StockStatus,
           Move(u, from, to), UNCHANGED <<qty, serial, lineVars, caseVars>>,
           back' = back \/ back' = back \union {u},
           to \notin {"ABSENT", "CANCELLED"}, from \cap (Cased \union {"CANCELLED"}) = {},
           u \in back' \/ to \in SerialReleased \/ from \cap SerialReleased = {}
    PROVE  IInv' /\ Aside
<1>1. /\ stat[u] \in from /\ stat' = [stat EXCEPT ![u] = to]
      /\ UNCHANGED <<qty, serial, receipt, gr, source, rtv, reopened, scrap, call>>
  BY DEF Move, lineVars, caseVars
<1>2. stat'[u] = to /\ \A v \in Unit \ {u} : stat'[v] = stat[v]
  BY <1>1 DEF IInv, TypeOK
<1>3. TypeOK'
  BY <1>1 DEF IInv, TypeOK
<1>4. Mild
  BY <1>1, <1>2 DEF Mild
<1>5. NoneRevived
  BY <1>1, <1>2 DEF NoneRevived, Active
<1>6. Aside
  BY <1>1, <1>2 DEF Aside
<1> QED BY <1>1, <1>3, <1>4, <1>5, <1>6, QuietStep

\* Putting away, declaring defective, a status set by hand, and what outbound does.
LEMMA MovesInv ==
    ASSUME IInv, NEW u \in Unit,
           \/ Putaway(u) \/ Declare(u) \/ Issue(u) \/ Consume(u) \/ ComeBack(u)
           \/ \E to \in ManualStatuses : SetStatus(u, to)
    PROVE  IInv' /\ Aside
<1>1. CASE Putaway(u)
  BY <1>1, StockStepInv DEF Putaway, StockStep, StockStatus, SerialReleased, Cased
<1>2. CASE Declare(u)
  BY <1>2, StockStepInv DEF Declare, StockStep, StockStatus, SerialReleased, Declarable, Cased
<1>3. CASE Issue(u)
  BY <1>3, StockStepInv DEF Issue, StockStep, StockStatus, SerialReleased, Cased
<1>4. CASE Consume(u)
  BY <1>4, StockStepInv DEF Consume, StockStep, StockStatus, SerialReleased, Cased
<1>5. CASE ComeBack(u)
  BY <1>5, StockStepInv DEF ComeBack, StockStatus, SerialReleased, Cased
<1>6. ASSUME NEW to \in ManualStatuses, SetStatus(u, to) PROVE IInv' /\ Aside
  BY <1>6, StockStepInv DEF SetStatus, StockStep, StockStatus, SerialReleased, ManualStatuses, Cased
<1> QED BY <1>1, <1>2, <1>3, <1>4, <1>5, <1>6

\* A row of several units is divided.
LEMMA SplitInv == ASSUME IInv, NEW u \in Unit, Split(u) PROVE IInv' /\ Aside
<1>1. PICK v \in Unit, n \in 1..MaxQty :
        /\ stat[v] = "ABSENT" /\ n < qty[u] /\ stat[u] = "AVAILABLE"
        /\ stat' = [stat EXCEPT ![v] = "AVAILABLE"]
        /\ qty' = [qty EXCEPT ![u] = n, ![v] = qty[u] - n]
        /\ UNCHANGED <<serial, receipt, gr, source, rtv, reopened, scrap, call, back>>
  BY DEF Split, lineVars, caseVars
<1>2. TypeOK'
  <2>1. qty[u] \in 0..MaxQty /\ n \in 0..MaxQty /\ qty[u] - n \in 0..MaxQty
    BY <1>1, ReceivingAssumption DEF IInv, TypeOK
  <2>2. qty' \in [Unit -> 0..MaxQty]
    BY <1>1, <2>1 DEF IInv, TypeOK
  <2> QED BY <1>1, <2>2 DEF IInv, TypeOK, StockStatus
<1>3. stat'[v] = "AVAILABLE" /\ \A w \in Unit \ {v} : stat'[w] = stat[w]
  BY <1>1 DEF IInv, TypeOK
<1>4. Mild
  <2>1. receipt[v] = NoReceipt \/ gr[receipt[v]] # "CANCELLED"
    BY <1>1 DEF IInv, RowsInv
  <2> QED BY <1>1, <1>3, <2>1 DEF Mild
<1>5. NoneRevived
  BY <1>1, <1>3, ReceivingAssumption DEF NoneRevived, Active, IInv, RowsInv
<1>6. Aside
  BY <1>1, <1>3 DEF Aside, Cased
<1> QED BY <1>1, <1>2, <1>4, <1>5, <1>6, QuietStep

-----------------------------------------------------------------------------
(* Scrap *)

\* Steps that change no row.
LEMMA StillRows == ASSUME UNCHANGED <<stat, serial, back>> PROVE Mild /\ NoneRevived
BY DEF Mild, NoneRevived, Active

\* A step on scrap cases that leaves them one for a unit.
LEMMA ScrapStepInv ==
    ASSUME IInv, TypeOK', ScrapInv', UNCHANGED <<stat, serial, lineVars, rtv, reopened, back>>
    PROVE  IInv' /\ Aside
<1>1. RowsInv'
  BY StillRows, RowsKept DEF IInv, lineVars
<1>2. SerialActiveOnce'
  BY StillRows, SerialsKept DEF IInv
<1>3. Aside
  BY DEF Aside, lineVars
<1> QED BY <1>1, <1>2, <1>3 DEF IInv

\* Requests that pass the checks, or are refused.
LEMMA CallsInv ==
    ASSUME IInv, NEW h \in Call, RefuseScrap(h) \/ \E u \in Unit : AskScrap(h, u)
    PROVE  IInv' /\ Aside
<1>1. UNCHANGED <<stat, qty, serial, lineVars, rtv, reopened, scrap, back>>
  BY DEF RefuseScrap, AskScrap
<1>2. call' \in [Call -> [unit : Unit \union {NoUnit}, qty : 0..MaxQty]]
  <2>1. CASE RefuseScrap(h)
    BY <2>1, ReceivingAssumption DEF RefuseScrap, Idle, IInv, TypeOK
  <2>2. ASSUME NEW u \in Unit, AskScrap(h, u)
        PROVE  call' \in [Call -> [unit : Unit \union {NoUnit}, qty : 0..MaxQty]]
    <3>1. PICK n \in 1..qty[u] : call' = [call EXCEPT ![h] = [unit |-> u, qty |-> n]]
      BY <2>2 DEF AskScrap
    <3>2. n \in 0..MaxQty
      <4>1. qty[u] \in 0..MaxQty
        BY DEF IInv, TypeOK
      <4> QED BY <4>1, ReceivingAssumption
    <3> QED BY <3>1, <3>2 DEF IInv, TypeOK
  <2> QED BY <2>1, <2>2
<1>3. TypeOK' /\ ScrapInv'
  BY <1>1, <1>2 DEF IInv, TypeOK, ScrapInv, OpenScrap, lineVars
<1> QED BY <1>1, <1>3, ScrapStepInv

\* A case is created while no other one is open over the unit.
LEMMA CreateScrapInv ==
    ASSUME IInv, NEW h \in Call, NEW c \in ScrapCase, CreateScrap(h, c)
    PROVE  IInv' /\ Aside
<1> DEFINE new == [at |-> "PENDING_REVIEW", unit |-> call[h].unit, qty |-> call[h].qty]
<1>1. /\ scrap' = [scrap EXCEPT ![c] = new] /\ call' = [call EXCEPT ![h] = Idle]
      /\ UNCHANGED <<stat, qty, serial, lineVars, rtv, reopened, back>>
      /\ \A d \in ScrapCase : OpenScrap(d) => scrap[d].unit # call[h].unit
  BY DEF CreateScrap, Scrappable, ScrapOn
<1>2. /\ new \in [at : ScrapOpen \union {"NONE"}, unit : Unit \union {NoUnit}, qty : 0..MaxQty]
      /\ new.unit = call[h].unit
  BY DEF IInv, TypeOK, ScrapOpen
<1> HIDE DEF new
<1>3. TypeOK'
  BY <1>1, <1>2, ReceivingAssumption DEF IInv, TypeOK, Idle, lineVars
<1>4. scrap'[c] = new /\ \A d \in ScrapCase \ {c} : scrap'[d] = scrap[d]
  BY <1>1 DEF IInv, TypeOK
<1>5. ScrapInv'
  BY <1>1, <1>2, <1>4 DEF IInv, ScrapInv, OpenScrap
<1> QED BY <1>1, <1>3, <1>5, ScrapStepInv

\* Approvals and rejections: no case is opened or is for another unit.
LEMMA ReviewScrapInv ==
    ASSUME IInv, NEW c \in ScrapCase, ApproveScrap(c) \/ RejectScrap(c)
    PROVE  IInv' /\ Aside
<1>1. /\ UNCHANGED <<stat, qty, serial, lineVars, rtv, reopened, call, back>> /\ OpenScrap(c)
      /\ \/ scrap' = [scrap EXCEPT ![c] = [scrap[c] EXCEPT !.at = "APPROVED"]]
         \/ scrap' = [scrap EXCEPT ![c] = NoScrap]
  BY DEF ApproveScrap, RejectScrap, OpenScrap, ScrapOpen
<1>2. /\ scrap[c] \in [at : ScrapOpen \union {"NONE"}, unit : Unit \union {NoUnit}, qty : 0..MaxQty]
      /\ NoScrap \in [at : ScrapOpen \union {"NONE"}, unit : Unit \union {NoUnit}, qty : 0..MaxQty]
      /\ NoScrap.at = "NONE"
  BY ReceivingAssumption DEF IInv, TypeOK, NoScrap
<1>3. TypeOK'
  <2>1. [scrap[c] EXCEPT !.at = "APPROVED"]
          \in [at : ScrapOpen \union {"NONE"}, unit : Unit \union {NoUnit}, qty : 0..MaxQty]
    BY <1>2 DEF ScrapOpen
  <2>2. scrap' \in [ScrapCase -> [at : ScrapOpen \union {"NONE"}, unit : Unit \union {NoUnit},
                                  qty : 0..MaxQty]]
    BY <1>1, <1>2, <2>1 DEF IInv, TypeOK
  <2> QED BY <1>1, <2>2 DEF IInv, TypeOK, lineVars
<1>4. \A d \in ScrapCase : /\ OpenScrap(d)' => OpenScrap(d)
                           /\ OpenScrap(d)' => scrap'[d].unit = scrap[d].unit
  <2>1. \A d \in ScrapCase \ {c} : scrap'[d] = scrap[d]
    BY <1>1 DEF IInv, TypeOK
  <2>2. scrap'[c] = [scrap[c] EXCEPT !.at = "APPROVED"] \/ scrap'[c] = NoScrap
    BY <1>1 DEF IInv, TypeOK
  <2>3. OpenScrap(c)' => scrap'[c].unit = scrap[c].unit
    BY <1>2, <2>2 DEF OpenScrap, ScrapOpen
  <2> QED BY <1>1, <2>1, <2>3 DEF OpenScrap
<1>5. ScrapInv'
  BY <1>4 DEF IInv, ScrapInv
<1> QED BY <1>1, <1>3, <1>5, ScrapStepInv

\* A disposal takes from a row on hand, or closes it.
LEMMA DisposeInv == ASSUME IInv, NEW c \in ScrapCase, Dispose(c) PROVE IInv' /\ Aside
<1> DEFINE u == scrap[c].unit
<1>1. /\ scrap[c].at = "APPROVED" /\ stat[u] \in OnHandUncommitted
      /\ scrap' = [scrap EXCEPT ![c] = NoScrap]
      /\ UNCHANGED <<serial, receipt, gr, source, rtv, reopened, call, back>>
      /\ \/ qty[u] > scrap[c].qty /\ qty' = [qty EXCEPT ![u] = @ - scrap[c].qty] /\ stat' = stat
         \/ stat' = [stat EXCEPT ![u] = "CLOSED"] /\ qty' = qty
  BY DEF Dispose, PartOnly, lineVars
<1>2. scrap[c].qty \in 0..MaxQty /\ u \in Unit \union {NoUnit}
  BY DEF IInv, TypeOK
<1>3. qty' \in [Unit -> 0..MaxQty]
  <2>1. CASE u \in Unit
    <3>1. qty[u] \in 0..MaxQty
      BY <2>1 DEF IInv, TypeOK
    <3>2. qty[u] > scrap[c].qty => qty[u] - scrap[c].qty \in 0..MaxQty
      BY <1>2, <3>1, ReceivingAssumption
    <3> QED BY <1>1, <2>1, <3>2 DEF IInv, TypeOK
  <2>2. CASE u \notin Unit
    BY <1>1, <2>2 DEF IInv, TypeOK
  <2> QED BY <2>1, <2>2
<1>4. NoScrap \in [at : ScrapOpen \union {"NONE"}, unit : Unit \union {NoUnit}, qty : 0..MaxQty]
  BY ReceivingAssumption DEF NoScrap
<1>5. TypeOK'
  BY <1>1, <1>3, <1>4 DEF IInv, TypeOK, StockStatus
<1>6. \A v \in Unit : stat'[v] = stat[v] \/ (stat'[v] = "CLOSED" /\ stat[v] \in OnHandUncommitted)
  BY <1>1 DEF IInv, TypeOK
<1>7. Mild /\ NoneRevived
  BY <1>1, <1>6 DEF Mild, NoneRevived, Active, SerialReleased, OnHandUncommitted
<1>8. ScrapInv'
  BY <1>1 DEF IInv, TypeOK, ScrapInv, OpenScrap, NoScrap, ScrapOpen
<1>9. RowsInv' /\ SerialActiveOnce'
  BY <1>1, <1>7, RowsKept, SerialsKept DEF IInv
<1>10. Aside
  BY <1>1, <1>6 DEF Aside, Cased
<1> QED BY <1>1, <1>5, <1>8, <1>9, <1>10 DEF IInv

-----------------------------------------------------------------------------
(* Receipts *)

\* The new rows have serials nobody in stock has, and a receipt of their own.
LEMMA ReceiveInv ==
    ASSUME IInv, NEW g \in Receipt, NEW U \in SUBSET Unit, NEW new \in [U -> SerialText],
           NEW n \in [U -> 0..MaxQty], Receive(g, new, n)
    PROVE  /\ stat' \in [Unit -> StockStatus] /\ qty' \in [Unit -> 0..MaxQty]
           /\ serial' \in [Unit -> SerialText]
           /\ receipt' \in [Unit -> Receipt \union {NoReceipt}]
           /\ gr' \in [Receipt -> ReceivingStatus] /\ back' = back
           /\ RowsInv' /\ SerialActiveOnce'
           /\ gr[g] = "NONE" /\ gr' = [gr EXCEPT ![g] = "QC_PENDING"]
           /\ \A u \in Unit : IF u \in U THEN stat[u] = "ABSENT" /\ receipt'[u] = g
                              ELSE stat'[u] = stat[u] /\ receipt'[u] = receipt[u]
<1>0. DOMAIN new = U
  OBVIOUS
<1>1. SerialsFree(new, {}) /\ serial' = Over(serial, new) /\ qty' = Over(qty, n)
  BY DEF Receive
<1>2. /\ gr[g] = "NONE" /\ \A u \in U : stat[u] = "ABSENT"
      /\ stat' = [u \in Unit |-> IF u \in U THEN "PENDING_RECEIVING" ELSE stat[u]]
      /\ receipt' = [u \in Unit |-> IF u \in U THEN g ELSE receipt[u]]
      /\ gr' = [gr EXCEPT ![g] = "QC_PENDING"] /\ back' = back
  BY <1>0 DEF Receive
<1>3. /\ serial' \in [Unit -> SerialText]
      /\ \A u \in Unit : serial'[u] = IF u \in U THEN new[u] ELSE serial[u]
  <2>1. serial \in [Unit -> SerialText]
    BY DEF IInv, TypeOK
  <2> QED BY <1>1, <2>1, OverSerials
<1>4. qty' \in [Unit -> 0..MaxQty]
  <2>1. qty \in [Unit -> 0..MaxQty]
    BY DEF IInv, TypeOK
  <2> QED BY <1>1, <2>1, OverQuantities
<1>5. /\ stat' \in [Unit -> StockStatus] /\ receipt' \in [Unit -> Receipt \union {NoReceipt}]
      /\ gr' \in [Receipt -> ReceivingStatus]
  BY <1>2 DEF IInv, TypeOK, StockStatus, ReceivingStatus
<1>6. RowsInv'
  <2> SUFFICES ASSUME NEW u \in Unit
               PROVE  /\ stat'[u] = "ABSENT" => serial'[u] = NoSerial /\ receipt'[u] = NoReceipt
                      /\ receipt'[u] # NoReceipt => gr'[receipt'[u]] # "NONE"
                      /\ stat'[u] = "CANCELLED" <=>
                           receipt'[u] # NoReceipt /\ gr'[receipt'[u]] = "CANCELLED"
    BY DEF RowsInv
  <2>1. CASE u \in U
    BY <1>2, <2>1 DEF IInv, TypeOK
  <2>2. CASE u \notin U
    <3>1. receipt'[u] = receipt[u] /\ stat'[u] = stat[u] /\ serial'[u] = serial[u]
      BY <1>2, <1>3, <2>2
    <3>2. receipt[u] # NoReceipt => gr'[receipt[u]] = gr[receipt[u]]
      BY <1>2 DEF IInv, TypeOK, RowsInv
    <3> QED BY <3>1, <3>2 DEF IInv, RowsInv
  <2> QED BY <2>1, <2>2
<1>7. SerialActiveOnce'
  <2> SUFFICES ASSUME NEW u \in Unit, NEW v \in Unit, u # v, Active(u)', Active(v)',
                      serial'[u] \in Serial, serial'[u] = serial'[v]
               PROVE  {u, v} \cap back # {}
    BY <1>2 DEF SerialActiveOnce
  <2>1. \A w \in Unit : w \notin U => serial'[w] = serial[w] /\ (Active(w)' => Active(w))
    BY <1>2, <1>3 DEF Active
  <2>2. /\ \A w, x \in U : w # x /\ new[w] \in Serial => new[w] # new[x]
        /\ \A w \in U, x \in Unit : new[w] \in Serial /\ serial[x] = new[w] => ~Active(x)
    BY <1>0, <1>1 DEF SerialsFree
  <2>3. CASE u \notin U /\ v \notin U
    BY <2>1, <2>3 DEF IInv, SerialActiveOnce
  <2>4. CASE u \in U \/ v \in U
    BY <1>3, <2>1, <2>2, <2>4
  <2> QED BY <2>3, <2>4
<1>8. \A u \in Unit : IF u \in U THEN stat[u] = "ABSENT" /\ receipt'[u] = g
                      ELSE stat'[u] = stat[u] /\ receipt'[u] = receipt[u]
  BY <1>2
<1> QED BY <1>2, <1>3, <1>4, <1>5, <1>6, <1>7, <1>8

\* The quantities of a new receipt are positive.
LEMMA CreateReceives ==
    ASSUME NEW g \in Receipt, Create(g)
    PROVE  \E U \in SUBSET Unit : \E new \in [U -> SerialText], n \in [U -> 0..MaxQty] : Receive(g, new, n)
<1>1. PICK U \in SUBSET Unit : \E new \in [U -> SerialText], n \in [U -> 1..MaxQty] : Receive(g, new, n)
  BY DEF Create
<1>2. PICK new \in [U -> SerialText], n \in [U -> 1..MaxQty] : Receive(g, new, n)
  BY <1>1
<1>3. n \in [U -> 0..MaxQty]
  BY ReceivingAssumption
<1> QED BY <1>2, <1>3

\* A new receipt.
LEMMA CreateInv == ASSUME IInv, LinkInv, NEW g \in Receipt, Create(g) PROVE IInv' /\ Aside
<1>1. PICK U \in SUBSET Unit : \E new \in [U -> SerialText], n \in [U -> 0..MaxQty] : Receive(g, new, n)
  BY CreateReceives
<1>2. UNCHANGED <<source, rtv, reopened, scrap, call>>
  BY DEF Create, caseVars
<1>3. ScrapInv'
  BY <1>2 DEF IInv, ScrapInv, OpenScrap
<1>4. /\ stat' \in [Unit -> StockStatus] /\ qty' \in [Unit -> 0..MaxQty]
      /\ serial' \in [Unit -> SerialText]
      /\ receipt' \in [Unit -> Receipt \union {NoReceipt}]
      /\ gr' \in [Receipt -> ReceivingStatus] /\ back' = back
      /\ RowsInv' /\ SerialActiveOnce'
      /\ gr[g] = "NONE" /\ gr' = [gr EXCEPT ![g] = "QC_PENDING"]
      /\ \A u \in Unit : IF u \in U THEN stat[u] = "ABSENT" /\ receipt'[u] = g
                         ELSE stat'[u] = stat[u] /\ receipt'[u] = receipt[u]
  BY <1>1, ReceiveInv
<1>5. TypeOK'
  BY <1>2, <1>4 DEF IInv, TypeOK
<1>6. Aside
  <2>1. \A u \in Unit : /\ stat[u] \in Cased => stat'[u] \in Cased
                        /\ receipt[u] # NoReceipt => receipt'[u] = receipt[u]
    BY <1>4 DEF IInv, RowsInv, Cased
  <2>2. \A r \in Receipt : gr[r] # "NONE" => gr'[r] = gr[r]
    BY <1>4 DEF IInv, TypeOK
  <2> QED BY <1>2, <2>1, <2>2 DEF Aside
<1> QED BY <1>3, <1>4, <1>5, <1>6 DEF IInv

\* Where an inspected unit goes.
LEMMA RouteType ==
    \A outcome : Route(outcome) \in {"PENDING_INSPECTION", "RTV_PENDING", "QUARANTINE"}
BY DEF Route

\* The rows of the receipt leave PENDING_RECEIVING.
LEMMA VerifyInv == ASSUME IInv, NEW g \in Receipt, Verify(g) PROVE IInv' /\ Aside
<1>1. PICK condition \in [Lines(g) -> {"good", "doa", "damaged"}] :
        stat' = Over(stat, [u \in Lines(g) |-> Route(condition[u])])
  BY DEF Verify
<1>2. /\ gr[g] = "QC_PENDING" /\ \A u \in Lines(g) : stat[u] = "PENDING_RECEIVING"
      /\ gr' = [gr EXCEPT ![g] = "INSPECTED"]
      /\ UNCHANGED <<qty, serial, receipt, source, back, rtv, reopened, scrap, call>>
  BY DEF Verify, caseVars
<1> DEFINE new == [u \in Lines(g) |-> Route(condition[u])]
<1>3. Lines(g) \in SUBSET Unit /\ new \in [Lines(g) -> StockStatus]
  BY RouteType DEF Lines, StockStatus
<1>4. /\ stat' \in [Unit -> StockStatus]
      /\ \A u \in Unit : stat'[u] = IF u \in Lines(g) THEN new[u] ELSE stat[u]
  <2>1. stat \in [Unit -> StockStatus]
    BY DEF IInv, TypeOK
  <2> HIDE DEF new
  <2> QED BY <1>1, <1>3, <2>1, OverStatuses DEF new
<1>5. \A u \in Unit : \/ stat'[u] = stat[u]
                      \/ /\ stat[u] = "PENDING_RECEIVING"
                         /\ stat'[u] \in {"PENDING_INSPECTION", "RTV_PENDING", "QUARANTINE"}
  BY <1>2, <1>4, RouteType
<1>6. TypeOK'
  BY <1>2, <1>4 DEF IInv, TypeOK, ReceivingStatus
<1>7. Mild /\ NoneRevived
  BY <1>2, <1>5 DEF Mild, NoneRevived, Active, SerialReleased
<1>8. \A r \in Receipt : gr'[r] = gr[r] \/ (gr[r] = "QC_PENDING" /\ gr'[r] = "INSPECTED")
  BY <1>2 DEF IInv, TypeOK
<1>9. Aside
  BY <1>2, <1>5, <1>8 DEF Aside, Cased
<1> QED BY <1>2, <1>6, <1>7, <1>8, <1>9, QuietStep

\* The corrected serials are free among all rows but those that get them, and the
\* others keep theirs.
LEMMA InspectInv == ASSUME IInv, NEW g \in Receipt, Inspect(g) PROVE IInv' /\ Aside
<1>1. PICK L \in (SUBSET {u \in Lines(g) : stat[u] = "PENDING_RECEIVING"}) \ {{}} :
        /\ \E corrected \in [L -> SerialText] :
             LET fixed == {u \in L : corrected[u] \notin {NoSerial, serial[u]}}
                 new == [u \in fixed |-> corrected[u]]
             IN  SerialsFree(new, fixed) /\ serial' = Over(serial, new)
        /\ \E to \in [L -> {Route(o) : o \in InspectionOutcomes}] : stat' = Over(stat, to)
        /\ \E n \in [L -> 0..MaxQty] : (\A u \in L : n[u] <= qty[u]) /\ qty' = Over(qty, n)
  BY DEF Inspect
<1>2. PICK corrected \in [L -> SerialText] :
        LET fixed == {u \in L : corrected[u] \notin {NoSerial, serial[u]}}
            new == [u \in fixed |-> corrected[u]]
        IN  SerialsFree(new, fixed) /\ serial' = Over(serial, new)
  BY <1>1
<1> DEFINE fixed == {u \in L : corrected[u] \notin {NoSerial, serial[u]}}
           new == [u \in fixed |-> corrected[u]]
<1>3. PICK to \in [L -> {Route(o) : o \in InspectionOutcomes}] : stat' = Over(stat, to)
  BY <1>1
<1>4. PICK n \in [L -> 0..MaxQty] : qty' = Over(qty, n)
  BY <1>1
<1>5. /\ gr[g] \notin {"NONE", "CANCELLED"} /\ gr' = [gr EXCEPT ![g] = "INSPECTED"]
      /\ UNCHANGED <<receipt, source, back, rtv, reopened, scrap, call>>
  BY DEF Inspect, caseVars
<1>6. /\ L \in SUBSET Unit /\ fixed \in SUBSET Unit /\ fixed \subseteq L
      /\ \A u \in L : stat[u] = "PENDING_RECEIVING"
  BY DEF Lines
<1>7. new \in [fixed -> SerialText] /\ DOMAIN new = fixed
  OBVIOUS
<1>8. /\ to \in [L -> StockStatus]
      /\ \A u \in L : to[u] \in {"PENDING_INSPECTION", "RTV_PENDING", "QUARANTINE"}
  BY RouteType DEF StockStatus
<1>9. SerialsFree(new, fixed) /\ serial' = Over(serial, new)
  BY <1>2
<1>10. /\ \A u, v \in fixed : u # v /\ new[u] \in Serial => new[u] # new[v]
       /\ \A u \in fixed, v \in Unit \ fixed : new[u] \in Serial /\ serial[v] = new[u] => ~Active(v)
  BY <1>7, <1>9 DEF SerialsFree
<1> HIDE DEF fixed, new
<1>11. /\ stat' \in [Unit -> StockStatus]
       /\ \A u \in Unit : stat'[u] = IF u \in L THEN to[u] ELSE stat[u]
  <2>1. /\ L \in SUBSET Unit /\ to \in [L -> StockStatus] /\ stat \in [Unit -> StockStatus]
        /\ stat' = Over(stat, to)
    BY <1>3, <1>6, <1>8 DEF IInv, TypeOK
  <2> QED BY ONLY <2>1, OverStatuses
<1>12. qty' \in [Unit -> 0..MaxQty]
  <2>1. /\ L \in SUBSET Unit /\ n \in [L -> 0..MaxQty] /\ qty \in [Unit -> 0..MaxQty]
        /\ qty' = Over(qty, n)
    BY <1>4, <1>6 DEF IInv, TypeOK
  <2> QED BY ONLY <2>1, OverQuantities
<1>13. /\ serial' \in [Unit -> SerialText]
       /\ \A u \in Unit : serial'[u] = IF u \in fixed THEN new[u] ELSE serial[u]
  <2>1. /\ fixed \in SUBSET Unit /\ new \in [fixed -> SerialText] /\ serial \in [Unit -> SerialText]
        /\ serial' = Over(serial, new)
    BY <1>6, <1>7, <1>9 DEF IInv, TypeOK
  <2> QED BY ONLY <2>1, OverSerials
<1>14. TypeOK'
  BY <1>5, <1>11, <1>12, <1>13 DEF IInv, TypeOK, ReceivingStatus
<1>15. \A u \in Unit : \/ u \notin L /\ stat'[u] = stat[u] /\ serial'[u] = serial[u]
                       \/ /\ u \in L /\ stat[u] = "PENDING_RECEIVING"
                          /\ stat'[u] \in {"PENDING_INSPECTION", "RTV_PENDING", "QUARANTINE"}
  BY <1>6, <1>8, <1>11, <1>13
<1>16. \A r \in Receipt : \/ gr'[r] = gr[r]
                          \/ gr[r] \notin {"NONE", "CANCELLED"} /\ gr'[r] = "INSPECTED"
  BY <1>5 DEF IInv, TypeOK
<1>17. RowsInv'
  <2> SUFFICES ASSUME NEW u \in Unit
               PROVE  /\ stat'[u] = "ABSENT" => serial'[u] = NoSerial /\ receipt[u] = NoReceipt
                      /\ receipt[u] # NoReceipt => gr'[receipt[u]] # "NONE"
                      /\ stat'[u] = "CANCELLED" <=>
                           receipt[u] # NoReceipt /\ gr'[receipt[u]] = "CANCELLED"
    BY <1>5 DEF RowsInv
  <2>1. receipt[u] # NoReceipt => \/ gr'[receipt[u]] = gr[receipt[u]]
                                 \/ /\ gr[receipt[u]] \notin {"NONE", "CANCELLED"}
                                    /\ gr'[receipt[u]] = "INSPECTED"
    BY <1>16 DEF IInv, TypeOK
  <2> QED BY <1>15, <2>1 DEF IInv, RowsInv
<1>18. SerialActiveOnce'
  <2> SUFFICES ASSUME NEW u \in Unit, NEW v \in Unit, u # v, Active(u)', Active(v)',
                      serial'[u] \in Serial, serial'[u] = serial'[v]
               PROVE  {u, v} \cap back # {}
    BY <1>5 DEF SerialActiveOnce
  <2>1. \A w \in Unit : Active(w)' => Active(w)
    BY <1>15 DEF Active, SerialReleased
  <2>2. CASE u \notin fixed /\ v \notin fixed
    BY <1>13, <2>1, <2>2 DEF IInv, SerialActiveOnce
  <2>3. CASE u \in fixed \/ v \in fixed
    BY <1>10, <1>13, <2>1, <2>3
  <2> QED BY <2>2, <2>3
<1>19. ScrapInv'
  BY <1>5 DEF IInv, ScrapInv, OpenScrap
<1>20. Aside
  BY <1>5, <1>15, <1>16 DEF Aside, Cased
<1> QED BY <1>5, <1>14, <1>17, <1>18, <1>19, <1>20 DEF IInv

-----------------------------------------------------------------------------
(* Vendor cases *)

\* The statuses a case that is kept has.
LEMMA CaseTypes ==
    ASSUME TypeOK, NEW c \in RtvCase
    PROVE  /\ rtv[c] \in RtvRecord
           /\ OpenRtv(c) <=> rtv[c].at \in {"OPEN"} \union Replaceable
           /\ rtv[c].at # "NONE" => OpenRtv(c) \/ rtv[c].at = "COMPLETED"
BY DEF TypeOK, RtvRecord, OpenRtv, RtvClosed, Replaceable

\* What a forgotten case is.
LEMMA NoRtvType == NoRtv \in RtvRecord /\ NoRtv.at = "NONE" /\ NoRtv.repl = NoUnit
BY DEF NoRtv, RtvRecord

\* Only the rows of the receipt go, and no case is about one of them.
LEMMA ReverseInv == ASSUME IInv, NEW g \in Receipt, Reverse(g) PROVE IInv'
<1>1. /\ gr[g] \notin {"NONE", "CANCELLED"} /\ \A u \in Lines(g) : stat[u] \in Reversible
      /\ gr' = [gr EXCEPT ![g] = "CANCELLED"]
      /\ stat' = [u \in Unit |-> IF u \in Lines(g) THEN "CANCELLED" ELSE stat[u]]
      /\ rtv' = [c \in RtvCase |-> IF rtv[c].repl \in Lines(g) THEN Reopened(c) ELSE rtv[c]]
      /\ UNCHANGED <<qty, serial, receipt, source, scrap, call, back>>
  BY DEF Reverse, Movable
<1>2. reopened' \subseteq Unit
  BY DEF Reverse, IInv, TypeOK
<1>3. rtv' \in [RtvCase -> RtvRecord]
  <2>1. ASSUME NEW c \in RtvCase PROVE Reopened(c) \in RtvRecord /\ rtv[c] \in RtvRecord
    <3>1. rtv[c] \in RtvRecord
      BY CaseTypes DEF IInv
    <3> QED BY <3>1 DEF Reopened, RtvRecord, Replaceable
  <2> QED BY <1>1, <2>1
<1>4. TypeOK'
  <2>1. stat' \in [Unit -> StockStatus] /\ gr' \in [Receipt -> ReceivingStatus]
    BY <1>1 DEF IInv, TypeOK, StockStatus, ReceivingStatus
  <2> QED BY <1>1, <1>2, <1>3, <2>1 DEF IInv, TypeOK
<1>5. RowsInv'
  <2> SUFFICES ASSUME NEW u \in Unit
               PROVE  /\ stat'[u] = "ABSENT" => serial[u] = NoSerial /\ receipt[u] = NoReceipt
                      /\ receipt[u] # NoReceipt => gr'[receipt[u]] # "NONE"
                      /\ stat'[u] = "CANCELLED" <=>
                           receipt[u] # NoReceipt /\ gr'[receipt[u]] = "CANCELLED"
    BY <1>1 DEF RowsInv
  <2>1. CASE receipt[u] = g
    BY <1>1, <2>1, ReceivingAssumption DEF Lines, IInv, TypeOK
  <2>2. CASE receipt[u] # g
    <3>1. stat'[u] = stat[u] /\ (receipt[u] # NoReceipt => gr'[receipt[u]] = gr[receipt[u]])
      BY <1>1, <2>2 DEF Lines, IInv, TypeOK
    <3> QED BY <3>1 DEF IInv, RowsInv
  <2> QED BY <2>1, <2>2
<1>6. SerialActiveOnce'
  <2>1. NoneRevived
    BY <1>1 DEF NoneRevived, Active, SerialReleased
  <2> QED BY <1>1, <2>1, SerialsKept DEF IInv
<1>7. ScrapInv'
  BY <1>1 DEF IInv, ScrapInv, OpenScrap
<1> QED BY <1>4, <1>5, <1>6, <1>7 DEF IInv

\* A reversed replacement re-opens its case and no other: no open case loses its
\* unit, and a case that is completed still has its replacement.
LEMMA ReverseCases ==
    ASSUME IInv, CaseInv, LinkInv, NEW g \in Receipt, Reverse(g)
    PROVE  CaseInv' /\ LinkInv'
<1>1. /\ gr[g] \notin {"NONE", "CANCELLED"} /\ gr' = [gr EXCEPT ![g] = "CANCELLED"]
      /\ stat' = [u \in Unit |-> IF u \in Lines(g) THEN "CANCELLED" ELSE stat[u]]
      /\ rtv' = [c \in RtvCase |-> IF rtv[c].repl \in Lines(g) THEN Reopened(c) ELSE rtv[c]]
      /\ \A u \in Lines(g) : RtvOn(u) = {}
      /\ UNCHANGED <<receipt, source>>
      /\ reopened' = reopened \union
           {u \in Unit : \E c \in RtvCase : rtv[c].unit = u /\ rtv[c].repl \in Lines(g)}
  BY DEF Reverse, Movable
<1>2. ASSUME NEW c \in RtvCase, rtv[c].repl \in Lines(g)
      PROVE  /\ rtv'[c].unit = rtv[c].unit /\ rtv'[c].repl = NoUnit
             /\ rtv[c].unit \in Unit /\ rtv[c].unit \in reopened'
  <2>1. rtv'[c] = [rtv[c] EXCEPT !.repl = NoUnit, !.at = "REPLACEMENT_PENDING"] /\ rtv[c] \in RtvRecord
    BY <1>1, <1>2, CaseTypes DEF Reopened, IInv
  <2>2. rtv[c].repl # NoUnit
    BY <1>2, ReceivingAssumption DEF Lines
  <2>3. rtv[c].unit \in Unit
    BY <2>2 DEF CaseInv, LinkInv
  <2> QED BY <1>1, <1>2, <2>1, <2>3 DEF RtvRecord
<1>3. \A c \in RtvCase : rtv[c].repl \notin Lines(g) => rtv'[c] = rtv[c]
  BY <1>1
<1>4. \A c \in RtvCase : OpenRtv(c) => rtv[c].unit \notin Lines(g)
  BY <1>1 DEF RtvOn
<1>5. \A c \in RtvCase : OpenRtv(c)' /\ rtv'[c].unit \notin reopened' =>
        rtv'[c] = rtv[c] /\ OpenRtv(c) /\ rtv[c].unit \notin reopened
  BY <1>1, <1>2, <1>3 DEF OpenRtv
<1>6. CaseInv'
  <2>1. \A c \in RtvCase : rtv'[c].at # "NONE" => rtv'[c].unit \in Unit
    BY <1>2, <1>3 DEF CaseInv
  <2>2. ASSUME NEW c \in RtvCase, OpenRtv(c)', rtv'[c].unit \notin reopened'
        PROVE  stat'[rtv'[c].unit] \in Cased
    <3>1. rtv'[c] = rtv[c] /\ OpenRtv(c) /\ rtv[c].unit \notin reopened
      BY <1>5, <2>2
    <3>2. rtv[c].unit \in Unit \ Lines(g) /\ stat[rtv[c].unit] \in Cased
      BY <1>4, <3>1, CaseTypes DEF CaseInv, IInv, OpenRtv
    <3> QED BY <1>1, <3>1, <3>2
  <2>3. ASSUME NEW c \in RtvCase, NEW d \in RtvCase, OpenRtv(c)', OpenRtv(d)',
               rtv'[c].unit \notin reopened', rtv'[c].unit = rtv'[d].unit
        PROVE  c = d
    <3>1. /\ rtv'[c] = rtv[c] /\ OpenRtv(c) /\ rtv[c].unit \notin reopened
          /\ rtv'[d] = rtv[d] /\ OpenRtv(d)
      BY <1>5, <2>3
    <3> QED BY <2>3, <3>1 DEF CaseInv
  <2> QED BY <2>1, <2>2, <2>3 DEF CaseInv
<1>7. LinkInv'
  <2>1. \A r \in Receipt : r # g => gr'[r] = gr[r]
    BY <1>1 DEF IInv, TypeOK
  <2>2. ASSUME NEW c \in RtvCase, rtv'[c].repl # NoUnit
        PROVE  /\ rtv'[c].at = "COMPLETED" /\ receipt[rtv'[c].repl] # NoReceipt
               /\ gr'[receipt[rtv'[c].repl]] \notin {"NONE", "CANCELLED"} /\ source[receipt[rtv'[c].repl]] = c
    <3>1. rtv[c].repl \notin Lines(g) /\ rtv'[c] = rtv[c] /\ rtv[c].repl \in Unit
      BY <1>2, <1>3, <2>2, CaseTypes DEF IInv, RtvRecord
    <3>2. receipt[rtv[c].repl] \in Receipt \ {g}
      BY <2>2, <3>1 DEF Lines, LinkInv, IInv, TypeOK
    <3> QED BY <2>1, <2>2, <3>1, <3>2 DEF LinkInv, Stands
  <2>3. ASSUME NEW r \in Receipt
        PROVE  /\ gr'[r] = "NONE" => source[r] = NoCase
               /\ source[r] # NoCase /\ Stands(r)' =>
                    rtv'[source[r]].repl # NoUnit /\ receipt[rtv'[source[r]].repl] = r
    <3>1. CASE r = g
      BY <1>1, <3>1 DEF Stands, IInv, TypeOK
    <3>2. CASE r # g
      <4>1. gr'[r] = gr[r]
        BY <2>1, <3>2
      <4>2. ASSUME source[r] # NoCase, Stands(r)'
            PROVE  rtv'[source[r]].repl # NoUnit /\ receipt[rtv'[source[r]].repl] = r
        <5>1. source[r] \in RtvCase /\ Stands(r)
          BY <4>1, <4>2 DEF Stands, IInv, TypeOK
        <5>2. rtv[source[r]].repl # NoUnit /\ receipt[rtv[source[r]].repl] = r
          BY <4>2, <5>1 DEF LinkInv
        <5> QED BY <1>3, <3>2, <5>1, <5>2 DEF Lines
      <4> QED BY <4>1, <4>2 DEF LinkInv
    <3> QED BY <3>1, <3>2
  <2> QED BY <1>1, <2>2, <2>3 DEF LinkInv, Stands
<1> QED BY <1>6, <1>7

\* A step on a case that neither has nor gets a replacement leaves the links.
LEMMA LinksKept ==
    ASSUME TypeOK, LinkInv, UNCHANGED <<receipt, gr, source>>, NEW c \in RtvCase,
           rtv[c].repl = NoUnit, rtv'[c].repl = NoUnit,
           \A d \in RtvCase \ {c} : rtv'[d] = rtv[d]
    PROVE  LinkInv'
<1>1. \A d \in RtvCase : rtv'[d].repl # NoUnit => d # c /\ rtv'[d] = rtv[d]
  OBVIOUS
<1>2. \A d \in RtvCase : rtv'[d].repl # NoUnit =>
        /\ rtv'[d].at = "COMPLETED" /\ receipt[rtv'[d].repl] # NoReceipt
        /\ gr'[receipt[rtv'[d].repl]] \notin {"NONE", "CANCELLED"} /\ source[receipt[rtv'[d].repl]] = d
  BY <1>1 DEF LinkInv, Stands
<1>3. ASSUME NEW g \in Receipt, source[g] # NoCase, Stands(g)'
      PROVE  rtv'[source[g]].repl # NoUnit /\ receipt[rtv'[source[g]].repl] = g
  <2>1. source[g] \in RtvCase /\ rtv[source[g]].repl # NoUnit /\ receipt[rtv[source[g]].repl] = g
    BY <1>3 DEF LinkInv, Stands, TypeOK
  <2> QED BY <2>1
<1> QED BY <1>2, <1>3 DEF LinkInv, Stands

\* A case over a unit no open case is about, and a row that only changes where a
\* case keeps it.
LEMMA NewCase ==
    ASSUME IInv, CaseInv, LinkInv, NEW c \in RtvCase, NEW u \in Unit, rtv[c].at = "NONE",
           stat' = [stat EXCEPT ![u] = "RTV_PENDING"],
           rtv' = [rtv EXCEPT ![c] = [NoRtv EXCEPT !.at = "OPEN", !.unit = u]],
           UNCHANGED <<qty, serial, lineVars, reopened, scrap, call>>,
           back \subseteq back', back' \subseteq Unit, Active(u) \/ u \in back',
           stat[u] \notin {"ABSENT", "CANCELLED"},
           u \in reopened \/ RtvOn(u) = {}
    PROVE  IInv' /\ CaseInv' /\ LinkInv'
<1> DEFINE new == [NoRtv EXCEPT !.at = "OPEN", !.unit = u]
<1>1. UNCHANGED <<receipt, gr, source>>
  BY DEF lineVars
<1>2. new \in RtvRecord /\ new.at = "OPEN" /\ new.unit = u /\ new.repl = NoUnit
  BY DEF NoRtv, RtvRecord
<1>3. rtv' = [rtv EXCEPT ![c] = new]
  OBVIOUS
<1> HIDE DEF new
<1>4. rtv'[c] = new /\ \A d \in RtvCase \ {c} : rtv'[d] = rtv[d]
  BY <1>3 DEF IInv, TypeOK
<1>5. stat'[u] = "RTV_PENDING" /\ \A v \in Unit \ {u} : stat'[v] = stat[v]
  BY DEF IInv, TypeOK
<1>6. TypeOK'
  <2>1. stat' \in [Unit -> StockStatus] /\ rtv' \in [RtvCase -> RtvRecord]
    BY <1>2, <1>3 DEF IInv, TypeOK, StockStatus
  <2> QED BY <1>1, <2>1 DEF IInv, TypeOK
<1>7. Mild /\ NoneRevived
  BY <1>5 DEF Mild, NoneRevived, Active, SerialReleased
<1>8. IInv'
  BY <1>1, <1>6, <1>7, QuietStep
<1>9. CaseInv'
  <2>1. \A d \in RtvCase : rtv'[d].at # "NONE" => rtv'[d].unit \in Unit
    BY <1>2, <1>4 DEF CaseInv
  <2>2. \A d \in RtvCase \ {c} : OpenRtv(d)' <=> OpenRtv(d)
    BY <1>4 DEF OpenRtv
  <2>3. ASSUME NEW d \in RtvCase, OpenRtv(d)', rtv'[d].unit \notin reopened
        PROVE  stat'[rtv'[d].unit] \in Cased
    <3>1. CASE rtv'[d].unit = u
      BY <1>5, <3>1 DEF Cased
    <3>2. CASE rtv'[d].unit # u
      <4>1. d # c /\ rtv'[d] = rtv[d] /\ OpenRtv(d)
        BY <1>2, <1>4, <2>2, <2>3, <3>2
      <4>2. stat[rtv[d].unit] \in Cased /\ rtv[d].unit \in Unit \ {u}
        BY <2>3, <3>2, <4>1 DEF CaseInv, OpenRtv
      <4> QED BY <1>5, <4>1, <4>2
    <3> QED BY <3>1, <3>2
  <2>4. ASSUME NEW d \in RtvCase, NEW e \in RtvCase, OpenRtv(d)', OpenRtv(e)',
               rtv'[d].unit \notin reopened, rtv'[d].unit = rtv'[e].unit
        PROVE  d = e
    <3>1. CASE rtv'[d].unit = u
      <4>1. \A f \in RtvCase \ {c} : OpenRtv(f)' => rtv'[f].unit # u
        BY <1>4, <2>2, <2>4, <3>1 DEF RtvOn
      <4> QED BY <2>4, <3>1, <4>1
    <3>2. CASE rtv'[d].unit # u
      <4>1. d # c /\ e # c
        BY <1>2, <1>4, <2>4, <3>2
      <4> QED BY <1>4, <2>2, <2>4, <4>1 DEF CaseInv
    <3> QED BY <3>1, <3>2
  <2> QED BY <2>1, <2>3, <2>4 DEF CaseInv
<1>10. LinkInv'
  <2>1. rtv[c].repl = NoUnit
    BY DEF LinkInv
  <2> QED BY <1>1, <1>2, <1>4, <2>1, LinksKept DEF IInv
<1> QED BY <1>8, <1>9, <1>10

\* openRtvCase looks for another open case.
LEMMA OpenCaseInv ==
    ASSUME IInv, CaseInv, LinkInv, NEW c \in RtvCase, NEW u \in Unit, OpenRtvCase(c, u)
    PROVE  IInv' /\ CaseInv' /\ LinkInv'
<1>1. /\ rtv[c].at = "NONE" /\ RtvOn(u) = {} /\ stat[u] \in RtvEligible
      /\ stat' = [stat EXCEPT ![u] = "RTV_PENDING"]
      /\ rtv' = [rtv EXCEPT ![c] = [NoRtv EXCEPT !.at = "OPEN", !.unit = u]]
      /\ UNCHANGED <<qty, serial, lineVars, reopened, scrap, call, back>>
  BY DEF OpenRtvCase, Caseless, Move
<1>2. /\ back \subseteq back' /\ back' \subseteq Unit /\ Active(u)
      /\ stat[u] \notin {"ABSENT", "CANCELLED"}
  BY <1>1 DEF IInv, TypeOK, Active, SerialReleased, RtvEligible
<1> QED BY <1>1, <1>2, NewCase

\* A defective unit comes back from an issue, where no open case keeps it.
LEMMA DefectiveInv ==
    ASSUME IInv, CaseInv, LinkInv, NEW c \in RtvCase, NEW u \in Unit, Defective(c, u)
    PROVE  IInv' /\ CaseInv' /\ LinkInv'
<1>1. /\ rtv[c].at = "NONE" /\ stat[u] = "SHIPPED" /\ back' = back \union {u}
      /\ stat' = [stat EXCEPT ![u] = "RTV_PENDING"]
      /\ rtv' = [rtv EXCEPT ![c] = [NoRtv EXCEPT !.at = "OPEN", !.unit = u]]
      /\ UNCHANGED <<qty, serial, lineVars, reopened, scrap, call>>
  BY DEF Defective, Move
<1>2. back \subseteq back' /\ back' \subseteq Unit /\ u \in back'
  BY <1>1 DEF IInv, TypeOK
<1>3. u \in reopened \/ RtvOn(u) = {}
  BY <1>1 DEF CaseInv, RtvOn, Cased
<1>4. stat[u] \notin {"ABSENT", "CANCELLED"}
  BY <1>1
<1> QED BY <1>1, <1>2, <1>3, <1>4, NewCase

\* A case that is over frees its unit, and no other open case is about it.
LEMMA UpdateRtvInv ==
    ASSUME IInv, CaseInv, LinkInv, NEW c \in RtvCase, NEW to \in RtvStatus, UpdateRtv(c, to)
    PROVE  IInv' /\ CaseInv' /\ LinkInv'
<1> DEFINE u == rtv[c].unit
           new == IF to \in RtvClosed THEN NoRtv
                  ELSE IF to \in Replaceable THEN [rtv[c] EXCEPT !.at = to]
                  ELSE [rtv[c] EXCEPT !.at = "OPEN"]
<1>1. /\ OpenRtv(c)
      /\ rtv' = [rtv EXCEPT ![c] = new] /\ stat' = [stat EXCEPT ![u] = Shipped(u, to)]
      /\ UNCHANGED <<qty, serial, receipt, gr, source, reopened, scrap, call, back>>
  BY DEF UpdateRtv, lineVars
<1>2. rtv[c] \in RtvRecord /\ rtv[c].at # "NONE" /\ rtv[c].at # "COMPLETED"
  BY <1>1, CaseTypes DEF IInv, OpenRtv, RtvClosed
<1>3. u \in Unit /\ rtv[c].repl = NoUnit
  BY <1>2 DEF CaseInv, LinkInv
<1>4. /\ new \in RtvRecord /\ new.repl = NoUnit
      /\ new.at # "NONE" => new.unit = u /\ to \notin RtvClosed
  <2>1. CASE to \in RtvClosed
    BY <2>1, NoRtvType
  <2>2. CASE to \notin RtvClosed /\ to \in Replaceable
    BY <1>2, <1>3, <2>2 DEF RtvRecord, Replaceable
  <2>3. CASE to \notin RtvClosed /\ to \notin Replaceable
    BY <1>2, <1>3, <2>3 DEF RtvRecord
  <2> QED BY <2>1, <2>2, <2>3
<1> HIDE DEF new
<1>5. rtv'[c] = new /\ \A d \in RtvCase \ {c} : rtv'[d] = rtv[d]
  BY <1>1 DEF IInv, TypeOK
<1>6. \A v \in Unit : \/ stat'[v] = stat[v]
                      \/ /\ v = u /\ stat[v] = "RTV_PENDING"
                         /\ \/ stat'[v] = "RTV_SHIPPED"
                            \/ stat'[v] = "DOA" /\ to \in RtvClosed
  BY <1>1 DEF Shipped, IInv, TypeOK, RtvClosed
<1>7. TypeOK'
  <2>1. stat' \in [Unit -> StockStatus]
    <3>1. \A v \in Unit : stat'[v] \in StockStatus
      BY <1>6 DEF IInv, TypeOK, StockStatus
    <3> QED BY <1>1, <3>1 DEF IInv, TypeOK
  <2>2. rtv' \in [RtvCase -> RtvRecord]
    BY <1>1, <1>4 DEF IInv, TypeOK
  <2> QED BY <1>1, <2>1, <2>2 DEF IInv, TypeOK
<1>8. Mild /\ NoneRevived
  BY <1>1, <1>6 DEF Mild, NoneRevived, Active, SerialReleased
<1>9. IInv'
  BY <1>1, <1>7, <1>8, QuietStep
<1>10. CaseInv'
  <2>1. \A d \in RtvCase : rtv'[d].at # "NONE" => rtv'[d].unit \in Unit
    BY <1>3, <1>4, <1>5 DEF CaseInv
  <2>2. ASSUME NEW d \in RtvCase, OpenRtv(d)'
        PROVE  OpenRtv(d) /\ rtv'[d].unit = rtv[d].unit /\ (d = c => to \notin RtvClosed)
    BY <1>1, <1>4, <1>5, <2>2 DEF OpenRtv
  <2>3. ASSUME NEW d \in RtvCase, OpenRtv(d)', rtv'[d].unit \notin reopened
        PROVE  stat'[rtv'[d].unit] \in Cased
    <3>1. stat[rtv[d].unit] \in Cased /\ rtv[d].unit \in Unit
      BY <2>2, <2>3 DEF CaseInv, OpenRtv
    <3>2. rtv[d].unit = u => d = c
      BY <1>1, <2>2, <2>3 DEF CaseInv
    <3> QED BY <1>6, <2>2, <2>3, <3>1, <3>2 DEF Cased
  <2>4. ASSUME NEW d \in RtvCase, NEW e \in RtvCase, OpenRtv(d)', OpenRtv(e)',
               rtv'[d].unit \notin reopened, rtv'[d].unit = rtv'[e].unit
        PROVE  d = e
    BY <2>2, <2>4 DEF CaseInv
  <2> QED BY <1>1, <2>1, <2>3, <2>4 DEF CaseInv
<1>11. LinkInv'
  BY <1>1, <1>3, <1>4, <1>5, LinksKept DEF IInv
<1> QED BY <1>9, <1>10, <1>11

\* The quantity of a replacement.
LEMMA ReplacementReceives ==
    ASSUME IInv, CaseInv, LinkInv, NEW c \in RtvCase, NEW g \in Receipt, NEW v \in Unit,
           ReceiveReplacement(c, g, v)
    PROVE  \E new \in [{v} -> SerialText], n \in [{v} -> 0..MaxQty] : Receive(g, new, n)
<1>1. PICK text \in SerialText :
        Receive(g, [x \in {v} |-> text],
                [x \in {v} |-> IF serial[rtv[c].unit] # NoSerial \/ text # NoSerial
                               THEN 1 ELSE qty[rtv[c].unit]])
  BY DEF ReceiveReplacement
<1>2. rtv[c].unit \in Unit
  BY DEF ReceiveReplacement, Awaiting, Replaceable, CaseInv
<1>3. qty[rtv[c].unit] \in 0..MaxQty /\ 1 \in 0..MaxQty
  BY <1>2, ReceivingAssumption DEF IInv, TypeOK
<1>4. [x \in {v} |-> IF serial[rtv[c].unit] # NoSerial \/ text # NoSerial
                     THEN 1 ELSE qty[rtv[c].unit]] \in [{v} -> 0..MaxQty]
  BY <1>3
<1>5. [x \in {v} |-> text] \in [{v} -> SerialText]
  OBVIOUS
<1> QED BY <1>1, <1>4, <1>5

\* A replacement links its receipt and its case to each other.
LEMMA ReplacementInv ==
    ASSUME IInv, CaseInv, LinkInv, NEW c \in RtvCase, NEW g \in Receipt, NEW v \in Unit,
           ReceiveReplacement(c, g, v)
    PROVE  IInv' /\ CaseInv' /\ LinkInv'
<1> DEFINE new == [rtv[c] EXCEPT !.at = "COMPLETED", !.repl = v]
<1>1. /\ rtv[c].repl = NoUnit /\ rtv[c].at \in Replaceable
      /\ source' = [source EXCEPT ![g] = c]
      /\ rtv' = [rtv EXCEPT ![c] = new] /\ UNCHANGED <<reopened, scrap, call>>
  BY DEF ReceiveReplacement, Awaiting, IInv, TypeOK
<1>2. rtv[c] \in RtvRecord /\ rtv[c].unit \in Unit
  BY <1>1, CaseTypes DEF IInv, CaseInv, Replaceable
<1>3. new \in RtvRecord /\ new.at = "COMPLETED" /\ new.repl = v /\ new.unit = rtv[c].unit
  BY <1>2 DEF RtvRecord
<1> HIDE DEF new
<1>4. rtv'[c] = new /\ \A d \in RtvCase \ {c} : rtv'[d] = rtv[d]
  BY <1>1 DEF IInv, TypeOK
<1>5. /\ stat' \in [Unit -> StockStatus] /\ qty' \in [Unit -> 0..MaxQty]
      /\ serial' \in [Unit -> SerialText]
      /\ receipt' \in [Unit -> Receipt \union {NoReceipt}]
      /\ gr' \in [Receipt -> ReceivingStatus] /\ back' = back
      /\ RowsInv' /\ SerialActiveOnce'
      /\ gr[g] = "NONE" /\ gr' = [gr EXCEPT ![g] = "QC_PENDING"]
      /\ \A u \in Unit : IF u \in {v} THEN stat[u] = "ABSENT" /\ receipt'[u] = g
                         ELSE stat'[u] = stat[u] /\ receipt'[u] = receipt[u]
  <2>1. PICK new1 \in [{v} -> SerialText], n \in [{v} -> 0..MaxQty] : Receive(g, new1, n)
    BY ReplacementReceives
  <2>2. {v} \in SUBSET Unit
    OBVIOUS
  <2> QED BY ONLY IInv, g \in Receipt, <2>1, <2>2, ReceiveInv
<1>6. stat[v] = "ABSENT" /\ receipt'[v] = g /\ receipt[v] = NoReceipt
      /\ \A u \in Unit \ {v} : stat'[u] = stat[u] /\ receipt'[u] = receipt[u]
  BY <1>5 DEF IInv, RowsInv
<1>7. gr'[g] = "QC_PENDING" /\ source'[g] = c
      /\ \A r \in Receipt \ {g} : gr'[r] = gr[r] /\ source'[r] = source[r]
  BY <1>1, <1>5 DEF IInv, TypeOK
<1>8. IInv'
  <2>1. rtv' \in [RtvCase -> RtvRecord] /\ source' \in [Receipt -> RtvCase \union {NoCase}]
    BY <1>1, <1>3 DEF IInv, TypeOK
  <2>2. TypeOK'
    BY <1>1, <1>5, <2>1 DEF IInv, TypeOK
  <2>3. ScrapInv'
    BY <1>1 DEF IInv, ScrapInv, OpenScrap
  <2> QED BY <1>5, <2>2, <2>3 DEF IInv
<1>9. CaseInv'
  <2>1. ASSUME NEW d \in RtvCase, OpenRtv(d)' PROVE d # c /\ rtv'[d] = rtv[d] /\ OpenRtv(d)
    BY <1>3, <1>4, <2>1 DEF OpenRtv, RtvClosed
  <2>2. \A d \in RtvCase : rtv'[d].at # "NONE" => rtv'[d].unit \in Unit
    BY <1>2, <1>3, <1>4 DEF CaseInv
  <2>3. ASSUME NEW d \in RtvCase, OpenRtv(d)', rtv'[d].unit \notin reopened
        PROVE  stat'[rtv'[d].unit] \in Cased
    <3>1. stat[rtv[d].unit] \in Cased /\ rtv[d].unit \in Unit /\ rtv'[d] = rtv[d]
      BY <2>1, <2>3 DEF CaseInv, OpenRtv
    <3> QED BY <1>6, <3>1 DEF Cased
  <2>4. ASSUME NEW d \in RtvCase, NEW e \in RtvCase, OpenRtv(d)', OpenRtv(e)',
               rtv'[d].unit \notin reopened, rtv'[d].unit = rtv'[e].unit
        PROVE  d = e
    BY <2>1, <2>4 DEF CaseInv
  <2> QED BY <1>1, <2>2, <2>3, <2>4 DEF CaseInv
<1>10. LinkInv'
  <2>1. ASSUME NEW d \in RtvCase, rtv'[d].repl # NoUnit
        PROVE  /\ rtv'[d].at = "COMPLETED" /\ receipt'[rtv'[d].repl] # NoReceipt
               /\ gr'[receipt'[rtv'[d].repl]] \notin {"NONE", "CANCELLED"}
               /\ source'[receipt'[rtv'[d].repl]] = d
    <3>1. CASE d = c
      BY <1>3, <1>4, <1>6, <1>7, <3>1, ReceivingAssumption DEF Stands
    <3>2. CASE d # c
      <4>1. rtv'[d] = rtv[d] /\ rtv[d].repl \in Unit
        BY <1>4, <2>1, <3>2, CaseTypes DEF IInv, RtvRecord
      <4>2. /\ rtv[d].at = "COMPLETED" /\ receipt[rtv[d].repl] # NoReceipt
            /\ Stands(receipt[rtv[d].repl]) /\ source[receipt[rtv[d].repl]] = d
        BY <2>1, <4>1 DEF LinkInv
      <4>3. receipt'[rtv[d].repl] = receipt[rtv[d].repl] /\ receipt[rtv[d].repl] \in Receipt \ {g}
        BY <1>5, <1>6, <4>1, <4>2 DEF IInv, TypeOK, Stands
      <4> QED BY <1>7, <4>1, <4>2, <4>3 DEF Stands
    <3> QED BY <3>1, <3>2
  <2>2. ASSUME NEW r \in Receipt
        PROVE  /\ gr'[r] = "NONE" => source'[r] = NoCase
               /\ source'[r] # NoCase /\ Stands(r)' =>
                    rtv'[source'[r]].repl # NoUnit /\ receipt'[rtv'[source'[r]].repl] = r
    <3>1. CASE r = g
      BY <1>3, <1>4, <1>6, <1>7, <3>1, ReceivingAssumption
    <3>2. CASE r # g
      <4>1. gr'[r] = gr[r] /\ source'[r] = source[r]
        BY <1>7, <3>2
      <4>2. ASSUME source[r] # NoCase, Stands(r)
            PROVE  rtv'[source[r]].repl # NoUnit /\ receipt'[rtv'[source[r]].repl] = r
        <5>1. /\ source[r] \in RtvCase /\ rtv[source[r]].repl # NoUnit
              /\ receipt[rtv[source[r]].repl] = r
          BY <4>2 DEF LinkInv, IInv, TypeOK
        <5>2. rtv'[source[r]] = rtv[source[r]] /\ rtv[source[r]].repl \in Unit
          BY <1>1, <1>4, <5>1, CaseTypes DEF IInv, RtvRecord
        <5>3. rtv[source[r]].repl # v
          BY <1>6, <5>1, ReceivingAssumption
        <5> QED BY <1>6, <5>1, <5>2, <5>3
      <4> QED BY <4>1, <4>2 DEF LinkInv, Stands
    <3> QED BY <3>1, <3>2
  <2> QED BY <2>1, <2>2 DEF LinkInv, Stands
<1> QED BY <1>8, <1>9, <1>10

-----------------------------------------------------------------------------

\* Steps that leave vendor cases aside.
LEMMA AsideSteps ==
    ASSUME IInv, LinkInv,
           \/ \E g \in Receipt : Create(g) \/ Inspect(g) \/ Verify(g)
           \/ \E u \in Unit : \/ Putaway(u) \/ Declare(u)
                              \/ Issue(u) \/ Consume(u) \/ ComeBack(u) \/ Split(u)
                              \/ \E to \in ManualStatuses : SetStatus(u, to)
           \/ \E h \in Call, u \in Unit : AskScrap(h, u)
           \/ \E h \in Call, c \in ScrapCase : CreateScrap(h, c)
           \/ \E h \in Call : RefuseScrap(h)
           \/ \E c \in ScrapCase : ApproveScrap(c) \/ RejectScrap(c) \/ Dispose(c)
    PROVE  IInv' /\ Aside
BY CreateInv, InspectInv, VerifyInv, MovesInv, SplitInv, CallsInv, CreateScrapInv, ReviewScrapInv,
   DisposeInv

\* A step that changes nothing.
LEMMA StutterInv == ASSUME IInv, UNCHANGED vars PROVE IInv' /\ Aside
<1>1. UNCHANGED <<stat, qty, serial, receipt, gr, source, rtv, scrap, call, back, reopened>>
  BY DEF vars
<1>2. TypeOK'
  BY <1>1 DEF IInv, TypeOK
<1>3. RowsInv' /\ SerialActiveOnce' /\ ScrapInv'
  BY <1>1 DEF IInv, RowsInv, SerialActiveOnce, Active, ScrapInv, OpenScrap
<1>4. Aside
  BY <1>1 DEF Aside
<1> QED BY <1>2, <1>3, <1>4 DEF IInv

\* The inductive invariant.
All == IInv /\ CaseInv /\ LinkInv

\* Every step preserves it.
LEMMA NextInv == All /\ [Next]_vars => All'
<1> SUFFICES ASSUME IInv, CaseInv, LinkInv, [Next]_vars PROVE IInv' /\ CaseInv' /\ LinkInv'
  BY DEF All
<1>0. TypeOK
  BY DEF IInv
<1>1. CASE UNCHANGED vars
  BY <1>0, <1>1, StutterInv, CasesKept
<1>2. CASE \/ \E g \in Receipt : Create(g) \/ Inspect(g) \/ Verify(g)
           \/ \E u \in Unit : \/ Putaway(u) \/ Declare(u)
                              \/ Issue(u) \/ Consume(u) \/ ComeBack(u) \/ Split(u)
                              \/ \E to \in ManualStatuses : SetStatus(u, to)
           \/ \E h \in Call, u \in Unit : AskScrap(h, u)
           \/ \E h \in Call, c \in ScrapCase : CreateScrap(h, c)
           \/ \E h \in Call : RefuseScrap(h)
           \/ \E c \in ScrapCase : ApproveScrap(c) \/ RejectScrap(c) \/ Dispose(c)
  BY <1>0, <1>2, AsideSteps, CasesKept
<1>3. CASE \/ \E g \in Receipt : Reverse(g)
           \/ \E c \in RtvCase, u \in Unit : OpenRtvCase(c, u) \/ Defective(c, u)
           \/ \E c \in RtvCase, to \in RtvStatus : UpdateRtv(c, to)
           \/ \E c \in RtvCase, g \in Receipt, v \in Unit : ReceiveReplacement(c, g, v)
  BY <1>3, ReverseInv, ReverseCases, OpenCaseInv, DefectiveInv, UpdateRtvInv, ReplacementInv
<1> QED BY <1>1, <1>2, <1>3 DEF Next

-----------------------------------------------------------------------------

\* Rows, receipts and cases stay what they are, however many there are.
THEOREM TypeCorrect == Spec => []TypeOK
<1>1. Init => All
  BY InitInv DEF All
<1>2. All => TypeOK
  BY DEF All, IInv
<1> QED BY <1>1, <1>2, NextInv, PTL DEF Spec

\* assertSerialsFree under the serial locks is enough: a serial is active once,
\* but for units that were issued and came back, which nothing compares.
THEOREM SerialActiveOnceAlways == Spec => []SerialActiveOnce
<1>1. Init => All
  BY InitInv DEF All
<1>2. All => SerialActiveOnce
  BY DEF All, IInv
<1> QED BY <1>1, <1>2, NextInv, PTL DEF Spec

\* A reversed receipt takes all of its rows and no other, and no open case is
\* about one of them but those that a reversed replacement re-opened.
THEOREM ReversedIsGoneAlways == Spec => []ReversedIsGone
<1>1. Init => All
  BY InitInv DEF All
<1>2. All => ReversedIsGone
  BY DEF All, IInv, RowsInv, CaseInv, ReversedIsGone, CaseHasUnit, Cased
<1> QED BY <1>1, <1>2, NextInv, PTL DEF Spec

\* One open case of a kind for a unit: of vendor cases, while none over the unit
\* was re-opened by a reversed replacement.
THEOREM OneOpenCaseAlways == Spec => []OneOpenCase
<1>1. Init => All
  BY InitInv DEF All
<1>2. All => OneOpenCase
  BY DEF All, OneOpenCase, RtvOn, ScrapOn, IInv, ScrapInv, CaseInv
<1> QED BY <1>1, <1>2, NextInv, PTL DEF Spec

\* However replacements are received, reversed and received again, a receipt that
\* stands as a replacement is the one its case is completed by.
THEOREM ReplacedOnceAlways == Spec => []ReplacedOnce
<1>1. Init => All
  BY InitInv DEF All
<1>2. All => ReplacedOnce
  <2> SUFFICES ASSUME All PROVE ReplacedOnce
    OBVIOUS
  <2>1. ASSUME NEW g \in Receipt, source[g] # NoCase, Stands(g)
        PROVE  rtv[source[g]].repl \in Lines(g)
    <3>1. /\ source[g] \in RtvCase /\ rtv[source[g]].repl # NoUnit
          /\ receipt[rtv[source[g]].repl] = g
      BY <2>1 DEF All, LinkInv, IInv, TypeOK
    <3>2. rtv[source[g]].repl \in Unit
      BY <3>1, CaseTypes DEF All, IInv, RtvRecord
    <3> QED BY <3>1, <3>2 DEF Lines
  <2>2. ASSUME NEW c \in RtvCase, rtv[c].repl # NoUnit
        PROVE  /\ rtv[c].at = "COMPLETED"
               /\ \E g \in Receipt : Stands(g) /\ source[g] = c /\ rtv[c].repl \in Lines(g)
    <3>1. rtv[c].repl \in Unit
      BY <2>2, CaseTypes DEF All, IInv, RtvRecord
    <3>2. /\ rtv[c].at = "COMPLETED" /\ receipt[rtv[c].repl] \in Receipt
          /\ Stands(receipt[rtv[c].repl]) /\ source[receipt[rtv[c].repl]] = c
      BY <2>2, <3>1 DEF All, LinkInv, IInv, TypeOK
    <3> QED BY <3>1, <3>2 DEF Lines
  <2> QED BY <2>1, <2>2 DEF ReplacedOnce
<1> QED BY <1>1, <1>2, NextInv, PTL DEF Spec

-----------------------------------------------------------------------------
(* What a disposal takes *)

\* Nobody asks to scrap nothing.
PartInv ==
    /\ \A h \in Call : call[h].unit # NoUnit => call[h].qty >= 1
    /\ \A c \in ScrapCase : scrap[c].at # "NONE" => scrap[c].qty >= 1

\* What DisposedAtMost says of a step.
Sparing == \A u \in Unit : Fewer(u) =>
             Granted(u, IF serial[u] # NoSerial /\ qty[u] > 1 THEN 0 ELSE Taken(u))

\* A step that takes no quantity and closes no row on hand.
LEMMA NothingTaken ==
    ASSUME PartInv, TypeOK, UNCHANGED <<qty, scrap, call>>,
           \A u \in Unit : stat'[u] = "CLOSED" => stat[u] \notin OnHandUncommitted
    PROVE  PartInv' /\ Sparing
<1>1. PartInv'
  BY DEF PartInv
<1>2. ASSUME NEW u \in Unit PROVE ~Fewer(u)
  <2>1. qty'[u] = qty[u] /\ qty[u] \in Nat
    BY ReceivingAssumption DEF TypeOK
  <2> QED BY <2>1 DEF Fewer
<1> QED BY <1>1, <1>2 DEF Sparing

\* A step on scrap cases that leaves the rows alone.
LEMMA OnlyAsked ==
    ASSUME TypeOK, UNCHANGED <<stat, qty>>,
           \A h \in Call : call'[h].unit # NoUnit => call'[h].qty >= 1,
           \A c \in ScrapCase : scrap'[c].at # "NONE" => scrap'[c].qty >= 1
    PROVE  PartInv' /\ Sparing
<1>1. PartInv'
  BY DEF PartInv
<1>2. ASSUME NEW u \in Unit PROVE ~Fewer(u)
  <2>1. qty'[u] = qty[u] /\ qty[u] \in Nat
    BY ReceivingAssumption DEF TypeOK
  <2> QED BY <2>1 DEF Fewer, OnHandUncommitted
<1> QED BY <1>1, <1>2 DEF Sparing

\* Receiving takes nothing.
LEMMA ReceiveTakes ==
    ASSUME TypeOK, PartInv, NEW g \in Receipt, NEW U \in SUBSET Unit, NEW new \in [U -> SerialText],
           NEW n \in [U -> 0..MaxQty], Receive(g, new, n), UNCHANGED <<scrap, call>>
    PROVE  PartInv' /\ Sparing
<1>1. \A u \in Unit : qty'[u] = IF u \in U THEN n[u] ELSE qty[u]
  <2>1. qty \in [Unit -> 0..MaxQty] /\ qty' = Over(qty, n)
    BY DEF TypeOK, Receive
  <2> QED BY <2>1, OverQuantities
<1>2. PartInv'
  BY DEF PartInv
<1>3. DOMAIN new = U
  OBVIOUS
<1>4. /\ \A u \in U : stat[u] = "ABSENT"
      /\ \A u \in Unit \ U : stat'[u] = stat[u]
  BY <1>3 DEF Receive
<1>5. ASSUME NEW u \in Unit PROVE ~Fewer(u)
  <2>1. CASE u \in U
    BY <1>4, <2>1 DEF Fewer, OnHandUncommitted
  <2>2. CASE u \notin U
    <3>1. qty'[u] = qty[u] /\ stat'[u] = stat[u] /\ qty[u] \in Nat
      BY <1>1, <1>4, <2>2, ReceivingAssumption DEF TypeOK
    <3> QED BY <3>1 DEF Fewer, OnHandUncommitted
  <2> QED BY <2>1, <2>2
<1> QED BY <1>2, <1>5 DEF Sparing

\* An inspection counts only what is not on hand yet.
LEMMA InspectTakes ==
    ASSUME TypeOK, PartInv, NEW g \in Receipt, Inspect(g)
    PROVE  PartInv' /\ Sparing
<1>1. PICK L \in (SUBSET {u \in Lines(g) : stat[u] = "PENDING_RECEIVING"}) \ {{}} :
        /\ \E to \in [L -> {Route(o) : o \in InspectionOutcomes}] : stat' = Over(stat, to)
        /\ \E n \in [L -> 0..MaxQty] : (\A u \in L : n[u] <= qty[u]) /\ qty' = Over(qty, n)
  BY DEF Inspect
<1>2. PICK to \in [L -> {Route(o) : o \in InspectionOutcomes}] : stat' = Over(stat, to)
  BY <1>1
<1>3. PICK n \in [L -> 0..MaxQty] : qty' = Over(qty, n)
  BY <1>1
<1>4. L \in SUBSET Unit /\ \A u \in L : stat[u] = "PENDING_RECEIVING"
  BY DEF Lines
<1>5. \A u \in Unit : qty'[u] = IF u \in L THEN n[u] ELSE qty[u]
  <2>1. /\ L \in SUBSET Unit /\ n \in [L -> 0..MaxQty] /\ qty \in [Unit -> 0..MaxQty]
        /\ qty' = Over(qty, n)
    BY <1>3, <1>4 DEF TypeOK
  <2> QED BY ONLY <2>1, OverQuantities
<1>6. \A u \in Unit \ L : stat'[u] = stat[u]
  <2>1. DOMAIN to = L
    OBVIOUS
  <2> QED BY <1>2, <2>1 DEF Over
<1>7. PartInv'
  BY DEF PartInv, Inspect, caseVars
<1>8. ASSUME NEW u \in Unit PROVE ~Fewer(u)
  <2>1. CASE u \in L
    BY <1>4, <2>1 DEF Fewer, OnHandUncommitted
  <2>2. CASE u \notin L
    <3>1. qty'[u] = qty[u] /\ stat'[u] = stat[u] /\ qty[u] \in Nat
      BY <1>5, <1>6, <2>2, ReceivingAssumption DEF TypeOK
    <3> QED BY <3>1 DEF Fewer, OnHandUncommitted
  <2> QED BY <2>1, <2>2
<1> QED BY <1>7, <1>8 DEF Sparing

\* A divided row is not fewer goods.
LEMMA SplitTakes ==
    ASSUME TypeOK, PartInv, NEW u \in Unit, Split(u)
    PROVE  PartInv' /\ Sparing
<1>1. PICK v \in Unit, n \in 1..MaxQty :
        /\ stat[v] = "ABSENT" /\ stat' = [stat EXCEPT ![v] = "AVAILABLE"]
  BY DEF Split
<1>2. PartInv'
  BY DEF Split, caseVars, PartInv
<1>3. stat'[v] = "AVAILABLE" /\ \A x \in Unit \ {v} : stat'[x] = stat[x]
  BY <1>1 DEF TypeOK
<1>4. ASSUME NEW x \in Unit PROVE ~Fewer(x)
  <2>1. stat' # stat
    BY <1>1, <1>3
  <2> QED BY <1>1, <1>3, <2>1 DEF Fewer, OnHandUncommitted
<1> QED BY <1>2, <1>4 DEF Sparing

\* A disposal takes the approved quantity, or a row that is no more than that.
LEMMA DisposeTakes ==
    ASSUME TypeOK, PartInv, NEW c \in ScrapCase, Dispose(c)
    PROVE  PartInv' /\ Sparing
<1> DEFINE u == scrap[c].unit
           k == scrap[c].qty
<1>1. /\ scrap[c].at = "APPROVED" /\ stat[u] \in OnHandUncommitted
      /\ UNCHANGED <<serial, call>> /\ scrap' = [scrap EXCEPT ![c] = NoScrap]
      /\ IF PartOnly(c) THEN qty' = [qty EXCEPT ![u] = @ - k] /\ UNCHANGED stat
         ELSE stat' = [stat EXCEPT ![u] = "CLOSED"] /\ UNCHANGED qty
  BY DEF Dispose, caseVars
<1>2. k \in Nat /\ k >= 1
  BY <1>1, ReceivingAssumption DEF TypeOK, PartInv
<1>3. /\ scrap'[c] = NoScrap /\ NoScrap.at = "NONE"
      /\ \A d \in ScrapCase \ {c} : scrap'[d] = scrap[d]
  BY <1>1 DEF TypeOK, NoScrap
<1>4. \A x \in Unit : qty[x] \in Nat
  BY ReceivingAssumption DEF TypeOK
<1> HIDE DEF u, k
<1>5. ASSUME NEW x \in Unit, Fewer(x)
      PROVE  x = u /\ (IF serial[x] # NoSerial /\ qty[x] > 1 THEN 0 ELSE Taken(x)) <= k
  <2>1. CASE PartOnly(c)
    <3>1. stat' = stat /\ stat'[x] # "CLOSED"
      BY <1>1, <1>5, <2>1 DEF Fewer, OnHandUncommitted
    <3>2. qty'[x] = IF x = u THEN qty[x] - k ELSE qty[x]
      BY <1>1, <2>1 DEF TypeOK
    <3>3. x = u
      <4>1. qty'[x] < qty[x]
        BY <1>5, <3>1 DEF Fewer
      <4> QED BY <1>4, <3>2, <4>1
    <3>4. Taken(x) = k
      BY <1>2, <1>4, <3>1, <3>2, <3>3 DEF Taken
    <3> QED BY <1>2, <3>3, <3>4
  <2>2. CASE ~PartOnly(c)
    <3>1. qty'[x] = qty[x] /\ qty[x] \in Nat
      BY <1>1, <1>4, <2>2
    <3>2. stat'[x] = "CLOSED"
      BY <1>5, <3>1 DEF Fewer
    <3>3. x = u
      <4>1. stat[x] # "CLOSED"
        BY <1>5 DEF Fewer, OnHandUncommitted
      <4> QED BY <1>1, <2>2, <3>2, <4>1 DEF TypeOK
    <3>4. ~(qty[x] > k) \/ serial[x] # NoSerial
      BY <2>2, <3>3 DEF PartOnly, u, k
    <3>5. Taken(x) = qty[x]
      BY <3>2 DEF Taken
    <3> QED BY <1>2, <3>1, <3>3, <3>4, <3>5
  <2> QED BY <2>1, <2>2
<1>6. PartInv'
  <2>1. \A d \in ScrapCase : scrap'[d].at # "NONE" => scrap'[d].qty >= 1
    BY <1>3 DEF PartInv
  <2> QED BY <1>1, <2>1 DEF PartInv
<1>7. ASSUME NEW x \in Unit, Fewer(x)
      PROVE  Granted(x, IF serial[x] # NoSerial /\ qty[x] > 1 THEN 0 ELSE Taken(x))
  <2>1. x = u /\ (IF serial[x] # NoSerial /\ qty[x] > 1 THEN 0 ELSE Taken(x)) <= k
    BY <1>5, <1>7
  <2>2. c \in ScrapOn(x)
    BY <1>1, <2>1 DEF ScrapOn, OpenScrap, ScrapOpen, u
  <2> QED BY <1>1, <1>3, <2>1, <2>2 DEF Granted, k
<1> QED BY <1>6, <1>7 DEF Sparing

\* What is asked for is at least one unit.
LEMMA CreateScrapTakes ==
    ASSUME TypeOK, PartInv, NEW h \in Call, NEW c \in ScrapCase, CreateScrap(h, c)
    PROVE  PartInv' /\ Sparing
<1>1. /\ call[h].unit # NoUnit /\ UNCHANGED <<stat, qty>>
      /\ scrap' = [scrap EXCEPT ![c] =
                    [at |-> "PENDING_REVIEW", unit |-> call[h].unit, qty |-> call[h].qty]]
      /\ call' = [call EXCEPT ![h] = Idle]
  BY DEF CreateScrap
<1>2. call[h].qty >= 1
  BY <1>1 DEF PartInv
<1>3. \A d \in ScrapCase : scrap'[d].at # "NONE" => scrap'[d].qty >= 1
  <2> SUFFICES ASSUME NEW d \in ScrapCase, scrap'[d].at # "NONE" PROVE scrap'[d].qty >= 1
    OBVIOUS
  <2>1. CASE d = c
    <3>1. scrap'[d] = [at |-> "PENDING_REVIEW", unit |-> call[h].unit, qty |-> call[h].qty]
      BY <1>1, <2>1 DEF TypeOK
    <3> QED BY <1>2, <3>1
  <2>2. CASE d # c
    BY <1>1, <2>2 DEF TypeOK, PartInv
  <2> QED BY <2>1, <2>2
<1>4. \A i \in Call : call'[i].unit # NoUnit => call'[i].qty >= 1
  BY <1>1 DEF TypeOK, PartInv, Idle
<1> QED BY <1>1, <1>3, <1>4, OnlyAsked

\* A request is for at least one unit of a row that has it.
LEMMA CallTakes ==
    ASSUME TypeOK, PartInv, NEW h \in Call, RefuseScrap(h) \/ \E u \in Unit : AskScrap(h, u)
    PROVE  PartInv' /\ Sparing
<1>1. UNCHANGED <<stat, qty, scrap>>
  BY DEF RefuseScrap, AskScrap
<1>2. \E rec : /\ call' = [call EXCEPT ![h] = rec]
               /\ rec.unit # NoUnit => rec.qty >= 1
  <2>1. CASE RefuseScrap(h)
    <3>1. call' = [call EXCEPT ![h] = Idle] /\ Idle.unit = NoUnit
      BY <2>1 DEF RefuseScrap, Idle
    <3> QED BY <3>1
  <2>2. ASSUME NEW u \in Unit, AskScrap(h, u)
        PROVE  \E rec : call' = [call EXCEPT ![h] = rec] /\ (rec.unit # NoUnit => rec.qty >= 1)
    <3>1. PICK n \in 1..qty[u] : call' = [call EXCEPT ![h] = [unit |-> u, qty |-> n]]
      BY <2>2 DEF AskScrap
    <3>2. n >= 1
      BY <3>1, ReceivingAssumption DEF TypeOK
    <3>3. [unit |-> u, qty |-> n].qty = n
      OBVIOUS
    <3> QED BY <3>1, <3>2, <3>3
  <2> QED BY <2>1, <2>2
<1>3. PICK rec : call' = [call EXCEPT ![h] = rec] /\ (rec.unit # NoUnit => rec.qty >= 1)
  BY <1>2
<1>4. \A i \in Call : call'[i].unit # NoUnit => call'[i].qty >= 1
  BY <1>3 DEF TypeOK, PartInv
<1>5. \A c \in ScrapCase : scrap'[c].at # "NONE" => scrap'[c].qty >= 1
  BY <1>1 DEF PartInv
<1> QED BY <1>1, <1>4, <1>5, OnlyAsked

\* A review changes no quantity.
LEMMA ReviewTakes ==
    ASSUME TypeOK, PartInv, NEW c \in ScrapCase, ApproveScrap(c) \/ RejectScrap(c)
    PROVE  PartInv' /\ Sparing
<1>1. UNCHANGED <<stat, qty, call>>
  BY DEF ApproveScrap, RejectScrap
<1>2. \A d \in ScrapCase : scrap'[d].at # "NONE" => scrap'[d].qty >= 1
  <2>1. CASE ApproveScrap(c)
    BY <2>1 DEF ApproveScrap, TypeOK, PartInv
  <2>2. CASE RejectScrap(c)
    BY <2>2 DEF RejectScrap, TypeOK, PartInv, NoScrap
  <2> QED BY <2>1, <2>2
<1>3. \A h \in Call : call'[h].unit # NoUnit => call'[h].qty >= 1
  BY <1>1 DEF PartInv
<1> QED BY <1>1, <1>2, <1>3, OnlyAsked

\* Only a disposal takes.
LEMMA NextTakes == ASSUME All, PartInv, Next PROVE PartInv' /\ Sparing
<1>0. TypeOK /\ IInv /\ CaseInv /\ LinkInv
  BY DEF All, IInv
<1>1. ASSUME NEW g \in Receipt, Verify(g) \/ Reverse(g) PROVE PartInv' /\ Sparing
  <2>1. UNCHANGED <<qty, scrap, call>>
    BY <1>1 DEF Verify, Reverse, caseVars
  <2>2. ASSUME NEW u \in Unit, stat'[u] = "CLOSED" PROVE stat[u] = "CLOSED"
    BY <1>1, <2>2 DEF Verify, Reverse, Over, Route
  <2> QED BY <1>0, <2>1, <2>2, NothingTaken DEF OnHandUncommitted
<1>2. ASSUME NEW u \in Unit,
             \/ Putaway(u) \/ Declare(u) \/ Issue(u) \/ Consume(u) \/ ComeBack(u)
             \/ \E to \in ManualStatuses : SetStatus(u, to)
      PROVE  PartInv' /\ Sparing
  <2>1. UNCHANGED <<qty, scrap, call>>
    BY <1>2 DEF Putaway, Declare, Issue, Consume, ComeBack, SetStatus, StockStep, caseVars
  <2>2. ASSUME NEW v \in Unit, stat'[v] = "CLOSED" PROVE stat[v] \in {"CLOSED", "SHIPPED"}
    BY <1>0, <1>2, <2>2 DEF Putaway, Declare, Issue, Consume, ComeBack, SetStatus, ManualStatuses,
       StockStep, Move, TypeOK
  <2> QED BY <1>0, <2>1, <2>2, NothingTaken DEF OnHandUncommitted
<1>3. ASSUME NEW c \in RtvCase, NEW u \in Unit, OpenRtvCase(c, u) \/ Defective(c, u)
      PROVE  PartInv' /\ Sparing
  <2>1. UNCHANGED <<qty, scrap, call>>
    BY <1>3 DEF OpenRtvCase, Defective
  <2>2. ASSUME NEW v \in Unit, stat'[v] = "CLOSED" PROVE stat[v] = "CLOSED"
    BY <1>0, <1>3, <2>2 DEF OpenRtvCase, Defective, Move, TypeOK
  <2> QED BY <1>0, <2>1, <2>2, NothingTaken DEF OnHandUncommitted
<1>4. ASSUME NEW c \in RtvCase, NEW to \in RtvStatus, UpdateRtv(c, to) PROVE PartInv' /\ Sparing
  <2>1. UNCHANGED <<qty, scrap, call>>
    BY <1>4 DEF UpdateRtv
  <2>2. ASSUME NEW v \in Unit, stat'[v] = "CLOSED" PROVE stat[v] = "CLOSED"
    BY <1>0, <1>4, <2>2 DEF UpdateRtv, Shipped, TypeOK
  <2> QED BY <1>0, <2>1, <2>2, NothingTaken DEF OnHandUncommitted
<1>5. ASSUME NEW g \in Receipt, Create(g) PROVE PartInv' /\ Sparing
  <2>1. UNCHANGED <<scrap, call>>
    BY <1>5 DEF Create, caseVars
  <2> QED BY <1>0, <1>5, <2>1, CreateReceives, ReceiveTakes
<1>6. ASSUME NEW c \in RtvCase, NEW g \in Receipt, NEW v \in Unit, ReceiveReplacement(c, g, v)
      PROVE  PartInv' /\ Sparing
  <2>1. UNCHANGED <<scrap, call>>
    BY <1>6 DEF ReceiveReplacement
  <2>2. {v} \in SUBSET Unit
    OBVIOUS
  <2> QED BY <1>0, <1>6, <2>1, <2>2, ReplacementReceives, ReceiveTakes
<1> QED
  BY <1>0, <1>1, <1>2, <1>3, <1>4, <1>5, <1>6, InspectTakes, SplitTakes, DisposeTakes,
     CreateScrapTakes, CallTakes, ReviewTakes DEF Next

\* A disposal takes at most what was approved, and no other step takes goods on
\* hand, for any rows, quantities and cases.
THEOREM DisposedAtMostAlways == Spec => DisposedAtMost
<1>1. Init => All /\ PartInv
  BY InitInv DEF All, Init, PartInv, Idle, NoScrap
<1>2. All /\ PartInv /\ [Next]_vars => PartInv' /\ [Sparing]_vars
  <2>1. CASE Next
    BY <2>1, NextTakes
  <2>2. CASE UNCHANGED vars
    BY <2>2 DEF vars, PartInv
  <2> QED BY <2>1, <2>2
<1>3. [Sparing]_vars =>
        [\A u \in Unit : Fewer(u) =>
           Granted(u, IF serial[u] # NoSerial /\ qty[u] > 1 THEN 0 ELSE Taken(u))]_vars
  BY DEF Sparing
<1> QED BY <1>1, <1>2, <1>3, NextInv, PTL DEF Spec, DisposedAtMost

=============================================================================
