----------------------------- MODULE ScanningProofs -----------------------------
(***************************************************************************)
(* What TLAPS proves of Scanning, for any scans, any number of requests at *)
(* a time, and any number of faults.                                       *)
(***************************************************************************)
EXTENDS Scanning, TLAPS

\* A handler has a result from the moment it has taken its effect or has been
\* refused, and only the scans that change a state get as far as an effect.
HandlersAreSound ==
    \A h \in Handler : LET r == handler[h]
                       IN  /\ r.op \in {"resolve", "apply"} => r.result = "NONE"
                           /\ r.op = "log" => r.result = "SUCCESS"
                           /\ r.op = "record" => r.result \in Result
                           /\ r.op = "apply" => workflow[r.scan] \in Effective

\* The device has been told what is on record, and nothing else.
ToldWhatIsRecorded ==
    \A c \in Scan : \A r \in answers[c] : r = event[c]

\* Whoever is about to record a success has taken the effect.
SuccessIsEarned ==
    /\ SuccessWasApplied
    /\ \A h \in Handler : handler[h].op \in {"log", "record"} /\ handler[h].result = "SUCCESS"
         => LET c == handler[h].scan IN workflow[c] # "VERIFY" => applied[c] >= 1

\* Of a scan that is not torn: one handler works on it, and until it records
\* something the scan has taken effect only if that handler is done with it.
OneAtATime ==
    \A c \in Scan : ~torn[c] =>
      /\ \A g, h \in WorkOn(c) : g = h
      /\ event[c] = "NONE" /\ WorkOn(c) = {} => applied[c] = 0
      /\ \A h \in WorkOn(c) : /\ event[c] = "NONE" /\ applied[c] <= 1
                              /\ handler[h].result # "SUCCESS" => applied[c] = 0

IInv == /\ TypeOK /\ HandlersAreSound /\ ToldWhatIsRecorded /\ SuccessIsEarned
        /\ OneAtATime /\ EffectMatchesRecord

-----------------------------------------------------------------------------

LEMMA InitInv == Init => IInv
<1> SUFFICES ASSUME Init PROVE IInv
  OBVIOUS
<1>1. TypeOK
  BY ScanningAssumption DEF Init, TypeOK, HandlerRecord, Idle, Workflow, Effective
<1>2. /\ HandlersAreSound /\ \A c \in Scan : WorkOn(c) = {}
      /\ \A h \in Handler : handler[h].op = "idle"
  BY DEF Init, HandlersAreSound, Idle, WorkOn
<1> QED
  BY <1>1, <1>2 DEF Init, IInv, ToldWhatIsRecorded, SuccessIsEarned, SuccessWasApplied,
     OneAtATime, EffectMatchesRecord

\* Busy handlers have the records of their scan, the others are idle.
LEMMA Records ==
    ASSUME TypeOK, NEW h \in Handler
    PROVE  \/ handler[h] = Idle /\ handler[h].op = "idle"
           \/ /\ handler[h] # Idle /\ handler[h].op \in {"resolve", "apply", "log", "record"}
              /\ handler[h].scan \in Scan /\ handler[h].result \in Result \union {"NONE"}
BY DEF TypeOK, HandlerRecord, Idle

LEMMA BusyIsRecord ==
    ASSUME NEW op \in {"resolve", "apply", "log", "record"}, NEW c \in Scan,
           NEW r \in Result \union {"NONE"}
    PROVE  /\ Busy(op, c, r) \in HandlerRecord /\ Busy(op, c, r) # Idle
           /\ Busy(op, c, r).op = op /\ Busy(op, c, r).scan = c /\ Busy(op, c, r).result = r
BY DEF Busy, HandlerRecord, Idle

LEMMA ReplayInv ==
    ASSUME IInv, NEW h \in Handler, NEW c \in Scan, Replay(h, c)
    PROVE  IInv'
<1>1. TypeOK' /\ ToldWhatIsRecorded'
  BY DEF Replay, Known, Tell, IInv, TypeOK, ToldWhatIsRecorded
<1> QED
  BY <1>1 DEF Replay, IInv, HandlersAreSound, SuccessIsEarned, SuccessWasApplied,
     OneAtATime, WorkOn, EffectMatchesRecord

LEMMA BeginInv ==
    ASSUME IInv, NEW h \in Handler, NEW c \in Scan, Begin(h, c)
    PROVE  IInv'
<1> DEFINE rec == Busy("resolve", c, "NONE")
<1>1. /\ handler' = [handler EXCEPT ![h] = rec] /\ handler[h] = Idle /\ ~Known(c)
      /\ torn' = [torn EXCEPT ![c] = @ \/ WorkOn(c) # {}]
      /\ UNCHANGED <<workflow, awaits, event, answers, applied, faults, undone>>
  BY DEF Begin
<1>2. /\ rec \in HandlerRecord /\ rec # Idle
      /\ rec.op = "resolve" /\ rec.scan = c /\ rec.result = "NONE"
  BY BusyIsRecord
<1> HIDE DEF rec
<1>3. TypeOK'
  BY <1>1, <1>2 DEF IInv, TypeOK
<1>4. HandlersAreSound' /\ SuccessIsEarned' /\ ToldWhatIsRecorded'
  BY <1>1, <1>2 DEF IInv, TypeOK, HandlersAreSound, SuccessIsEarned, SuccessWasApplied, ToldWhatIsRecorded
<1>5. \A d \in Scan : WorkOn(d)' = IF d = c THEN WorkOn(c) \union {h} ELSE WorkOn(d)
  BY <1>1, <1>2 DEF WorkOn, IInv, TypeOK
<1>6. OneAtATime'
  <2> SUFFICES ASSUME NEW d \in Scan, ~torn'[d]
               PROVE  /\ \A g, k \in WorkOn(d)' : g = k
                      /\ event'[d] = "NONE" /\ WorkOn(d)' = {} => applied'[d] = 0
                      /\ \A k \in WorkOn(d)' :
                           /\ event'[d] = "NONE" /\ applied'[d] <= 1
                           /\ handler'[k].result # "SUCCESS" => applied'[d] = 0
    BY DEF OneAtATime
  <2>1. ~torn[d] /\ (d = c => WorkOn(c) = {})
    BY <1>1 DEF IInv, TypeOK
  <2>2. CASE d = c
    BY <1>1, <1>2, <1>5, <2>1, <2>2 DEF IInv, TypeOK, OneAtATime, Known
  <2>3. CASE d # c
    BY <1>1, <1>2, <1>5, <2>1, <2>3 DEF IInv, TypeOK, OneAtATime, WorkOn
  <2> QED BY <2>2, <2>3
<1>7. EffectMatchesRecord'
  BY <1>1 DEF IInv, TypeOK, EffectMatchesRecord
<1> QED BY <1>3, <1>4, <1>6, <1>7 DEF IInv

\* A step of handler h that leaves its scan and record alone: what its new state
\* has to be, and what it needs for an effect.
Goes(h, rec) ==
    /\ handler[h].op # "idle" /\ handler' = [handler EXCEPT ![h] = rec]
    /\ rec \in HandlerRecord /\ rec # Idle /\ rec.op # "resolve"
    /\ rec.scan = handler[h].scan /\ rec.result \in Result \union {"NONE"}
    /\ UNCHANGED <<workflow, event, answers>>

LEMMA GoesInv ==
    ASSUME IInv, NEW h \in Handler, NEW rec, Goes(h, rec), TypeOK',
           rec.op = "apply" => rec.result = "NONE" /\ workflow[rec.scan] \in Effective,
           rec.op = "log" => rec.result = "SUCCESS",
           rec.op = "record" => rec.result \in Result,
           \A c \in Scan : torn[c] => torn'[c],
           \A c \in Scan : c # rec.scan => applied'[c] = applied[c],
           applied'[rec.scan] >= applied[rec.scan],
           rec.op \in {"log", "record"} /\ rec.result = "SUCCESS" /\ workflow[rec.scan] # "VERIFY"
             => applied'[rec.scan] >= 1,
           ~torn'[rec.scan] =>
             /\ applied'[rec.scan] <= 1
             /\ rec.result # "SUCCESS" => applied'[rec.scan] = 0
    PROVE  IInv'
<1>1. /\ handler[h] # Idle /\ handler[h].scan \in Scan /\ rec.scan \in Scan
      /\ handler[h].scan = rec.scan /\ handler'[h] = rec
      /\ \A k \in Handler \ {h} : handler'[k] = handler[k]
  BY Records DEF IInv, Goes, TypeOK, Idle
<1>2. \A d \in Scan : WorkOn(d)' = WorkOn(d)
  BY <1>1 DEF WorkOn, Goes
<1>3. HandlersAreSound'
  <2> SUFFICES ASSUME NEW k \in Handler
               PROVE  /\ handler'[k].op \in {"resolve", "apply"} => handler'[k].result = "NONE"
                      /\ handler'[k].op = "log" => handler'[k].result = "SUCCESS"
                      /\ handler'[k].op = "record" => handler'[k].result \in Result
                      /\ handler'[k].op = "apply" => workflow[handler'[k].scan] \in Effective
    BY DEF HandlersAreSound, Goes
  <2>1. CASE k = h
    BY <1>1, <2>1 DEF Goes
  <2>2. CASE k # h
    BY <1>1, <2>2 DEF IInv, HandlersAreSound
  <2> QED BY <2>1, <2>2
<1>4. ToldWhatIsRecorded'
  BY DEF Goes, IInv, ToldWhatIsRecorded
<1>5. \A c \in Scan : applied[c] \in Nat /\ applied'[c] \in Nat /\ applied'[c] >= applied[c]
  BY <1>1 DEF IInv, TypeOK
<1>6. SuccessIsEarned'
  <2>1. SuccessWasApplied'
    BY <1>5 DEF Goes, IInv, SuccessIsEarned, SuccessWasApplied
  <2>2. ASSUME NEW k \in Handler, handler'[k].op \in {"log", "record"},
               handler'[k].result = "SUCCESS", workflow[handler'[k].scan] # "VERIFY"
        PROVE  applied'[handler'[k].scan] >= 1
    <3>1. CASE k = h
      BY <1>1, <2>2, <3>1
    <3>2. CASE k # h
      <4>1. handler[k].scan \in Scan
        BY <1>1, <2>2, <3>2, Records DEF IInv
      <4> QED BY <1>1, <1>5, <2>2, <3>2, <4>1 DEF IInv, SuccessIsEarned
    <3> QED BY <3>1, <3>2
  <2> QED BY <2>1, <2>2 DEF SuccessIsEarned, Goes
<1>7. h \in WorkOn(rec.scan)
  BY <1>1 DEF WorkOn
<1>8. OneAtATime'
  <2> SUFFICES ASSUME NEW d \in Scan, ~torn'[d]
               PROVE  /\ \A g, k \in WorkOn(d) : g = k
                      /\ event[d] = "NONE" /\ WorkOn(d) = {} => applied'[d] = 0
                      /\ \A k \in WorkOn(d) :
                           /\ event[d] = "NONE" /\ applied'[d] <= 1
                           /\ handler'[k].result # "SUCCESS" => applied'[d] = 0
    BY <1>2 DEF OneAtATime, Goes
  <2>1. ~torn[d]
    OBVIOUS
  <2>2. CASE d = rec.scan
    BY <1>1, <1>7, <2>1, <2>2 DEF IInv, OneAtATime
  <2>3. CASE d # rec.scan
    <3>1. \A k \in WorkOn(d) : k # h /\ handler'[k] = handler[k]
      BY <1>1, <2>3 DEF WorkOn
    <3> QED BY <2>1, <2>3, <3>1 DEF IInv, OneAtATime
  <2> QED BY <2>2, <2>3
<1>9. EffectMatchesRecord'
  <2> SUFFICES ASSUME NEW d \in Scan, ~torn'[d]
               PROVE  applied'[d] <= 1 /\ (event[d] \in {"ERROR", "DUPLICATE"} => applied'[d] = 0)
    BY DEF EffectMatchesRecord, Goes
  <2>1. ~torn[d]
    OBVIOUS
  <2>2. CASE d = rec.scan
    BY <1>7, <2>1, <2>2 DEF IInv, OneAtATime
  <2>3. CASE d # rec.scan
    BY <2>1, <2>3 DEF IInv, EffectMatchesRecord
  <2> QED BY <2>2, <2>3
<1> QED BY <1>3, <1>4, <1>6, <1>8, <1>9 DEF IInv

LEMMA ResolveInv == ASSUME IInv, NEW h \in Handler, Resolve(h) PROVE IInv'
<1> DEFINE c == handler[h].scan
<1>1. c \in Scan /\ handler[h].op # "idle" /\ h \in WorkOn(c) /\ handler[h].result = "NONE"
  BY Records DEF IInv, Resolve, WorkOn, HandlersAreSound
<1>2. applied[c] \in Nat /\ (~torn[c] => applied[c] = 0)
  BY <1>1 DEF IInv, TypeOK, OneAtATime
<1>3. ASSUME NEW r \in Result, handler' = [handler EXCEPT ![h] = Busy("record", c, r)],
             r = "SUCCESS" => workflow[c] = "VERIFY"
      PROVE  IInv'
  <2> DEFINE rec == Busy("record", c, r)
  <2>1. /\ rec \in HandlerRecord /\ rec # Idle
        /\ rec.op = "record" /\ rec.scan = c /\ rec.result = r
    BY <1>1, BusyIsRecord
  <2> HIDE DEF rec
  <2>2. Goes(h, rec) /\ TypeOK'
    BY <1>1, <1>3, <2>1 DEF Goes, Resolve, IInv, TypeOK, rec
  <2> QED BY <1>1, <1>2, <1>3, <2>1, <2>2, GoesInv DEF Resolve
<1>4. CASE workflow[c] = "VERIFY"
  BY <1>3, <1>4 DEF Resolve, Result
<1>5. CASE workflow[c] # "VERIFY" /\ ~awaits[workflow[c]]
  BY <1>3, <1>5 DEF Resolve, Result, DoneResult
<1>6. CASE workflow[c] # "VERIFY" /\ awaits[workflow[c]]
  <2> DEFINE rec == Busy("apply", c, "NONE")
  <2>1. /\ rec \in HandlerRecord /\ rec # Idle
        /\ rec.op = "apply" /\ rec.scan = c /\ rec.result = "NONE"
    BY <1>1, BusyIsRecord
  <2>2. workflow[c] \in Effective
    BY <1>1, <1>6 DEF IInv, TypeOK, Workflow
  <2>3. handler' = [handler EXCEPT ![h] = rec]
    BY <1>6 DEF Resolve
  <2> HIDE DEF rec
  <2>4. Goes(h, rec) /\ TypeOK'
    BY <1>1, <2>1, <2>3 DEF Goes, Resolve, IInv, TypeOK
  <2> QED BY <1>1, <1>2, <2>1, <2>2, <2>4, GoesInv DEF Resolve
<1> QED BY <1>4, <1>5, <1>6

LEMMA ApplyInv == ASSUME IInv, NEW h \in Handler, Apply(h) PROVE IInv'
<1> DEFINE c == handler[h].scan
           w == workflow[c]
<1>1. /\ c \in Scan /\ handler[h].op # "idle" /\ h \in WorkOn(c) /\ handler[h].result = "NONE"
      /\ w \in Effective
  BY Records DEF IInv, Apply, WorkOn, HandlersAreSound
<1>2. applied[c] \in Nat /\ (~torn[c] => applied[c] = 0)
  BY <1>1 DEF IInv, TypeOK, OneAtATime
<1>3. CASE awaits[w]
  <2> DEFINE op == IF w = "SHIP" THEN "log" ELSE "record"
             rec == Busy(op, c, "SUCCESS")
  <2>1. /\ rec \in HandlerRecord /\ rec # Idle
        /\ rec.op = op /\ rec.scan = c /\ rec.result = "SUCCESS"
    BY <1>1, BusyIsRecord DEF Result
  <2>2. /\ handler' = [handler EXCEPT ![h] = rec] /\ applied[c] < MaxApplied
        /\ awaits' = [awaits EXCEPT ![w] = FALSE]
        /\ applied' = [applied EXCEPT ![c] = @ + 1]
        /\ UNCHANGED <<workflow, event, answers, torn, faults, undone>>
    BY <1>3 DEF Apply
  <2> HIDE DEF rec
  <2>3. op \in {"log", "record"}
    OBVIOUS
  <2> HIDE DEF op
  <2>4. /\ applied'[c] = applied[c] + 1 /\ \A d \in Scan : d # c => applied'[d] = applied[d]
    BY <1>1, <2>2 DEF IInv, TypeOK
  <2>5. TypeOK'
    <3>1. awaits' \in [Effective -> BOOLEAN] /\ handler' \in [Handler -> HandlerRecord]
      BY <1>1, <2>1, <2>2 DEF IInv, TypeOK
    <3>2. applied' \in [Scan -> 0..MaxApplied]
      BY <1>1, <1>2, <2>2, ScanningAssumption DEF IInv, TypeOK
    <3> QED BY <2>2, <3>1, <3>2 DEF IInv, TypeOK
  <2>6. Goes(h, rec)
    BY <1>1, <2>1, <2>2, <2>3 DEF Goes, Result
  <2> QED BY <1>1, <1>2, <2>1, <2>2, <2>3, <2>4, <2>5, <2>6, GoesInv DEF Result
<1>4. CASE ~awaits[w]
  <2> DEFINE rec == Busy("record", c, "ERROR")
  <2>1. /\ rec \in HandlerRecord /\ rec # Idle
        /\ rec.op = "record" /\ rec.scan = c /\ rec.result = "ERROR"
    BY <1>1, BusyIsRecord DEF Result
  <2>2. /\ handler' = [handler EXCEPT ![h] = rec]
        /\ UNCHANGED <<workflow, awaits, event, answers, applied, torn, faults, undone>>
    BY <1>4 DEF Apply, LostRace
  <2> HIDE DEF rec
  <2>3. Goes(h, rec) /\ TypeOK'
    BY <1>1, <2>1, <2>2 DEF Goes, IInv, TypeOK, Result
  <2> QED BY <1>1, <1>2, <2>1, <2>2, <2>3, GoesInv DEF Result
<1> QED BY <1>3, <1>4

LEMMA LogInv == ASSUME IInv, NEW h \in Handler, Log(h) \/ LogFails(h) PROVE IInv'
<1> DEFINE c == handler[h].scan
<1>1. /\ c \in Scan /\ handler[h].op = "log" /\ h \in WorkOn(c) /\ handler[h].result = "SUCCESS"
      /\ handler[h] \in [op : {"resolve", "apply", "log", "record"}, scan : Scan,
                         result : Result \union {"NONE"}]
  BY Records DEF IInv, Log, LogFails, WorkOn, HandlersAreSound, TypeOK, HandlerRecord, Idle
<1>2. applied[c] \in Nat /\ (~torn[c] => applied[c] <= 1) /\ (workflow[c] # "VERIFY" => applied[c] >= 1)
  BY <1>1 DEF IInv, TypeOK, OneAtATime, SuccessIsEarned
<1>3. CASE Log(h)
  <2> DEFINE rec == [handler[h] EXCEPT !.op = "record"]
  <2>1. /\ rec \in HandlerRecord /\ rec # Idle
        /\ rec.op = "record" /\ rec.scan = c /\ rec.result = "SUCCESS"
    BY <1>1 DEF HandlerRecord, Idle
  <2>2. /\ handler' = [handler EXCEPT ![h] = rec]
        /\ UNCHANGED <<workflow, awaits, event, answers, applied, torn, faults, undone>>
    BY <1>3 DEF Log
  <2> HIDE DEF rec
  <2>3. Goes(h, rec) /\ TypeOK'
    BY <1>1, <2>1, <2>2 DEF Goes, IInv, TypeOK, Result
  <2> QED BY <1>1, <1>2, <2>1, <2>2, <2>3, GoesInv DEF Result
<1>4. CASE LogFails(h)
  <2> DEFINE rec == Busy("record", c, "ERROR")
  <2>1. /\ rec \in HandlerRecord /\ rec # Idle
        /\ rec.op = "record" /\ rec.scan = c /\ rec.result = "ERROR"
    BY <1>1, BusyIsRecord DEF Result
  <2>2. /\ handler' = [handler EXCEPT ![h] = rec]
        /\ faults < MaxFaults /\ faults' = faults + 1 /\ torn' = [torn EXCEPT ![c] = TRUE]
        /\ UNCHANGED <<workflow, awaits, event, answers, applied, undone>>
    BY <1>4 DEF LogFails
  <2> HIDE DEF rec
  <2>3. Goes(h, rec) /\ torn'[c] /\ \A d \in Scan : torn[d] => torn'[d]
    BY <1>1, <2>1, <2>2 DEF Goes, Result, IInv, TypeOK
  <2>4. TypeOK'
    <3>1. faults' \in 0..MaxFaults
      BY <2>2, ScanningAssumption DEF IInv, TypeOK
    <3> QED BY <1>1, <2>1, <2>2, <3>1 DEF IInv, TypeOK
  <2> QED BY <1>1, <1>2, <2>1, <2>2, <2>3, <2>4, GoesInv DEF Result
<1> QED BY <1>3, <1>4

LEMMA RecordInv == ASSUME IInv, NEW h \in Handler, Record(h) PROVE IInv'
<1>0. PICK c \in Scan : handler[h].scan = c
  BY Records DEF IInv, Record
<1>1. /\ c \in Scan /\ handler[h].op = "record" /\ h \in WorkOn(c) /\ handler[h].result \in Result
      /\ handler[h].scan = c
  BY <1>0, Records DEF IInv, Record, WorkOn, HandlersAreSound
<1>2. /\ handler' = [handler EXCEPT ![h] = Idle]
      /\ UNCHANGED <<workflow, awaits, applied, torn, faults, undone>>
  BY DEF Record
<1>3. \/ /\ event[c] = "NONE" /\ event' = [event EXCEPT ![c] = handler[h].result]
         /\ \/ answers' = [answers EXCEPT ![c] = @ \union {handler[h].result}]
            \/ answers' = answers
      \/ event[c] # "NONE" /\ event' = event /\ answers' = answers
  BY <1>0 DEF Record, Insertable, Tell
<1>4. TypeOK'
  BY <1>1, <1>2, <1>3 DEF IInv, TypeOK, HandlerRecord
<1>5. \A d \in Scan : \A r \in answers[d] : event[d] = r /\ event[d] # "NONE"
  BY DEF IInv, ToldWhatIsRecorded, TypeOK, Result
<1>6. ToldWhatIsRecorded'
  BY <1>1, <1>3, <1>5 DEF IInv, TypeOK, ToldWhatIsRecorded
<1>7. /\ handler'[h] = Idle /\ handler'[h].op = "idle"
      /\ \A k \in Handler : k # h => handler'[k] = handler[k]
  BY <1>2 DEF IInv, TypeOK, Idle
<1>8. HandlersAreSound'
  BY <1>2, <1>7 DEF IInv, HandlersAreSound
<1>9. SuccessIsEarned'
  <2>1. SuccessWasApplied'
    BY <1>1, <1>2, <1>3 DEF IInv, TypeOK, SuccessIsEarned, SuccessWasApplied
  <2>2. \A k \in Handler : handler'[k].op \in {"log", "record"} => k # h
    BY <1>7
  <2> QED BY <1>2, <1>7, <2>1, <2>2 DEF IInv, SuccessIsEarned
<1>10. /\ WorkOn(c)' = WorkOn(c) \ {h}
       /\ \A d \in Scan : d # c => WorkOn(d)' = WorkOn(d)
  BY <1>1, <1>7 DEF WorkOn
<1>11. \A d \in Scan : d # c => event'[d] = event[d] /\ answers'[d] = answers[d]
  BY <1>1, <1>3 DEF IInv, TypeOK
<1>12. ~torn[c] => event[c] = "NONE" /\ event'[c] = handler[h].result /\ WorkOn(c) = {h}
  BY <1>1, <1>3 DEF IInv, TypeOK, OneAtATime
<1>13. event'[c] # "NONE"
  BY <1>1, <1>3 DEF IInv, TypeOK, Result
<1>14. OneAtATime'
  <2> SUFFICES ASSUME NEW d \in Scan, ~torn[d]
               PROVE  /\ \A g, k \in WorkOn(d)' : g = k
                      /\ event'[d] = "NONE" /\ WorkOn(d)' = {} => applied[d] = 0
                      /\ \A k \in WorkOn(d)' :
                           /\ event'[d] = "NONE" /\ applied[d] <= 1
                           /\ handler'[k].result # "SUCCESS" => applied[d] = 0
    BY <1>2 DEF OneAtATime
  <2>1. CASE d = c
    BY <1>10, <1>12, <1>13, <2>1
  <2>2. CASE d # c
    <3>1. \A k \in WorkOn(d) : k # h /\ handler'[k] = handler[k]
      BY <1>1, <1>7, <2>2 DEF WorkOn
    <3> QED BY <1>10, <1>11, <2>2, <3>1 DEF IInv, OneAtATime
  <2> QED BY <2>1, <2>2
<1>15. EffectMatchesRecord'
  <2> SUFFICES ASSUME NEW d \in Scan, ~torn[d]
               PROVE  applied[d] <= 1 /\ (event'[d] \in {"ERROR", "DUPLICATE"} => applied[d] = 0)
    BY <1>2 DEF EffectMatchesRecord
  <2>1. CASE d = c
    BY <1>1, <1>12, <2>1 DEF IInv, OneAtATime
  <2>2. CASE d # c
    BY <1>11, <2>2 DEF IInv, EffectMatchesRecord
  <2> QED BY <2>1, <2>2
<1> QED BY <1>4, <1>6, <1>8, <1>9, <1>14, <1>15 DEF IInv

LEMMA CrashInv == ASSUME IInv, Crash PROVE IInv'
<1>1. /\ handler' = [h \in Handler |-> Idle] /\ faults < MaxFaults /\ faults' = faults + 1
      /\ torn' = [c \in Scan |-> torn[c] \/ c \in HalfDone]
      /\ UNCHANGED <<workflow, awaits, event, answers, applied, undone>>
  BY DEF Crash
<1>2. \A h \in Handler : handler'[h] = Idle /\ handler'[h].op = "idle"
  BY <1>1 DEF Idle
<1>3. TypeOK'
  <2>1. handler' \in [Handler -> HandlerRecord] /\ torn' \in [Scan -> BOOLEAN]
    BY <1>1 DEF HandlerRecord, IInv, TypeOK
  <2>2. faults' \in 0..MaxFaults
    BY <1>1, ScanningAssumption DEF IInv, TypeOK
  <2> QED BY <1>1, <2>1, <2>2 DEF IInv, TypeOK
<1>4. HandlersAreSound' /\ ToldWhatIsRecorded' /\ SuccessIsEarned'
  BY <1>1, <1>2 DEF IInv, HandlersAreSound, ToldWhatIsRecorded, SuccessIsEarned, SuccessWasApplied
<1>5. \A c \in Scan : WorkOn(c)' = {}
  BY <1>2 DEF WorkOn
<1>6. ASSUME NEW c \in Scan, ~torn'[c], event[c] = "NONE" PROVE applied[c] = 0
  <2>1. ~torn[c] /\ c \notin HalfDone
    BY <1>1, <1>6
  <2>2. \A h \in WorkOn(c) : handler[h].result # "SUCCESS"
    <3> SUFFICES ASSUME NEW h \in WorkOn(c), handler[h].result = "SUCCESS" PROVE FALSE
      OBVIOUS
    <3>1. h \in Handler /\ handler[h].scan = c /\ handler[h].op \in {"log", "record"}
      BY Records DEF WorkOn, IInv, HandlersAreSound
    <3> QED BY <2>1, <3>1 DEF HalfDone
  <2> QED BY <1>6, <2>1, <2>2 DEF IInv, OneAtATime
<1>7. OneAtATime'
  BY <1>1, <1>5, <1>6 DEF OneAtATime
<1>8. EffectMatchesRecord'
  BY <1>1 DEF IInv, TypeOK, EffectMatchesRecord
<1> QED BY <1>3, <1>4, <1>7, <1>8 DEF IInv

LEMMA OthersInv == ASSUME IInv, ComesBack \/ UNCHANGED vars PROVE IInv'
<1>1. TypeOK'
  <2>1. CASE ComesBack
    <3>1. undone' \in 0..MaxUndone
      BY <2>1, ScanningAssumption DEF ComesBack, IInv, TypeOK
    <3> QED BY <2>1, <3>1 DEF ComesBack, IInv, TypeOK, Effective
  <2>2. CASE UNCHANGED vars
    BY <2>2 DEF vars, IInv, TypeOK
  <2> QED BY <2>1, <2>2
<1>2. UNCHANGED <<workflow, event, handler, answers, applied, torn>>
  BY DEF ComesBack, vars
<1> QED
  BY <1>1, <1>2 DEF IInv, HandlersAreSound, ToldWhatIsRecorded, SuccessIsEarned, SuccessWasApplied,
     OneAtATime, WorkOn, EffectMatchesRecord

LEMMA NextInv == IInv /\ [Next]_vars => IInv'
BY ReplayInv, BeginInv, ResolveInv, ApplyInv, LogInv, RecordInv, CrashInv, OthersInv DEF Next

-----------------------------------------------------------------------------

\* Events, handlers, answers and counters stay what they are, however many
\* requests of however many scans are handled at a time.
THEOREM TypeCorrect == Spec => []TypeOK
<1>1. IInv => TypeOK
  BY DEF IInv
<1> QED BY <1>1, InitInv, NextInv, PTL DEF Spec

\* A device is never told two results of one scan: the unique key decides which
\* handler records, and only what is recorded is told.
THEOREM AnswersAgreeAlways == Spec => []AnswersAgree
<1>1. IInv => AnswersAgree
  BY DEF IInv, ToldWhatIsRecorded, AnswersAgree
<1> QED BY <1>1, InitInv, NextInv, PTL DEF Spec

\* A success on record was carried out by that scan, also when other requests of
\* it, or of other scans, wanted the same work.
THEOREM SuccessWasAppliedAlways == Spec => []SuccessWasApplied
<1>1. IInv => SuccessWasApplied
  BY DEF IInv, SuccessIsEarned
<1> QED BY <1>1, InitInv, NextInv, PTL DEF Spec

\* A scan takes effect at most once, and never when it is on record as refused,
\* unless two requests of it overlapped or one failed before the event.
THEOREM EffectMatchesRecordAlways == Spec => []EffectMatchesRecord
<1>1. IInv => EffectMatchesRecord
  BY DEF IInv
<1> QED BY <1>1, InitInv, NextInv, PTL DEF Spec
=================================================================================
