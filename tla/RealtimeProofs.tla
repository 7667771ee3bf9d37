----------------------------- MODULE RealtimeProofs -----------------------------
(***************************************************************************)
(* What TLAPS proves of Realtime, for any number of requests, any debounce *)
(* and any longer poll.  That it gets there is liveness and left to TLC;   *)
(* that it stays there once reached is proved.                             *)
(***************************************************************************)
EXTENDS Realtime, TLAPS

RequestStatus == {"free", "asked", "current", "old"}

LEMMA Bounds ==
    /\ 0 \in 0..Debounce /\ Debounce \in 0..Debounce
    /\ PollEvery \in 0..PollEvery /\ 0 \in 0..MaxEvents
    /\ \A n \in 0..Debounce : n # 0 => n - 1 \in 0..Debounce
    /\ \A n \in 0..PollEvery : n # 0 => n - 1 \in 0..PollEvery
    /\ \A n \in 0..MaxEvents : /\ n > 0 => n - 1 \in 0..MaxEvents
                               /\ n < MaxEvents => n + 1 \in 0..MaxEvents
BY RealtimeAssumption

LEMMA InitTypes == Init => TypeOK
BY Bounds DEF Init, TypeOK, None

LEMMA CacheTypes == TypeOK /\ (BeginRefill \/ Refill \/ Forget) => TypeOK'
BY DEF TypeOK, BeginRefill, Refill, Forget, gatewayVars, timerVars, pageVars, None

LEMMA ChangeTypes ==
    ASSUME TypeOK, ChangePermission \/ Revoke \/ Changes
    PROVE  TypeOK'
<1>1. CASE ChangePermission \/ Revoke
  BY <1>1 DEF TypeOK, ChangePermission, Revoke, cacheVars, gatewayVars, timerVars, pageVars
<1>2. ASSUME NEW announced \in BOOLEAN, Change(announced) PROVE TypeOK'
  <2>1. request' \in [Request -> RequestStatus] /\ fresh' \in BOOLEAN
    BY <1>2 DEF TypeOK, Change, RequestStatus
  <2>2. events' \in 0..MaxEvents
    BY <1>2, Bounds DEF TypeOK, Change
  <2> QED
    BY <1>2, <2>1, <2>2 DEF TypeOK, Change, cacheVars, gatewayVars, timerVars, RequestStatus
<1> QED BY <1>1, <1>2 DEF Changes

\* A connection that is in the room is there: whatever ends it takes it out.
LEMMA ConnectionTypes ==
    ASSUME TypeOK, \/ Handshake \/ Connect \/ Drop \/ BeginRevalidate \/ Revalidate
                   \/ SessionExpired
    PROVE  TypeOK'
<1>1. Validated \in {"yes", "no", "revoked"}
  BY DEF TypeOK, Validated, None
<1>2. CASE Handshake \/ BeginRevalidate
  BY <1>1, <1>2 DEF TypeOK, Handshake, BeginRevalidate, cacheVars, timerVars, pageVars
<1>3. CASE Connect
  BY <1>3 DEF TypeOK, Connect, cacheVars, timerVars, pageVars
<1>4. CASE Revalidate
  <2>1. /\ socket' \in {"up", "stopped"} /\ room' \in BOOLEAN /\ (room' => socket' = "up")
        /\ verdict' = None /\ events' \in {events, 0}
        /\ UNCHANGED <<perm, cacheVars, hidden, timerVars, pageVars>>
    BY <1>4 DEF TypeOK, Revalidate, Rooms
  <2> QED BY <2>1, Bounds DEF TypeOK, cacheVars, timerVars, pageVars
<1>5. CASE Drop \/ SessionExpired
  BY <1>5, Bounds DEF TypeOK, Drop, SessionExpired, cacheVars, timerVars, pageVars
<1> QED BY <1>2, <1>3, <1>4, <1>5

\* No timer runs past its end.
LEMMA TimerTypes ==
    ASSUME TypeOK, DeliverEvent \/ Hide \/ Show \/ Poll \/ Tick
    PROVE  TypeOK'
<1>1. CASE DeliverEvent
  BY <1>1, Bounds DEF TypeOK, DeliverEvent, Fire, cacheVars, gatewayVars, pageVars
<1>2. CASE Hide \/ Show
  <2>1. /\ hidden' \in BOOLEAN /\ wait' \in {wait, Debounce} /\ pollIn' = pollIn
        /\ UNCHANGED <<perm, cacheVars, gatewayVars, events, pageVars>>
    BY <1>2 DEF Hide, Show, Fire, timerVars
  <2> QED BY <2>1, Bounds DEF TypeOK, cacheVars, gatewayVars, pageVars
<1>3. CASE Poll
  BY <1>3, Bounds DEF TypeOK, Poll, Fire, cacheVars, gatewayVars, pageVars
<1>4. CASE Tick
  BY <1>4, Bounds DEF TypeOK, Tick, cacheVars, gatewayVars, pageVars
<1> QED BY <1>1, <1>2, <1>3, <1>4

LEMMA RequestTypes ==
    ASSUME TypeOK, NEW q \in Request, CallBack(q) \/ Serve(q) \/ Fail(q) \/ Answer(q)
    PROVE  TypeOK'
<1>1. CASE CallBack(q)
  BY <1>1, Bounds DEF TypeOK, CallBack, cacheVars, gatewayVars
<1>2. CASE Serve(q) \/ Fail(q)
  BY <1>2 DEF TypeOK, Serve, Fail, cacheVars, gatewayVars, timerVars
<1>3. CASE Answer(q)
  BY <1>3 DEF TypeOK, Answer, cacheVars, gatewayVars, timerVars
<1> QED BY <1>1, <1>2, <1>3

LEMMA NextTypes == TypeOK /\ [Next]_vars => TypeOK'
<1> SUFFICES ASSUME TypeOK, [Next]_vars PROVE TypeOK'
  OBVIOUS
<1>1. CASE UNCHANGED vars
  BY <1>1 DEF vars, TypeOK
<1>2. CASE \E q \in Request : CallBack(q) \/ Serve(q) \/ Fail(q) \/ Answer(q)
  BY <1>2, RequestTypes
<1> QED
  BY <1>1, <1>2, CacheTypes, ChangeTypes, ConnectionTypes, TimerTypes DEF Next

\* Every variable keeps its type: no timer and no queue leaves its range, and only a
\* connection that is up is in the room.
THEOREM TypeCorrect == Spec => []TypeOK
BY InitTypes, NextTypes, PTL DEF Spec

-----------------------------------------------------------------------------
(* What is reached in the end is kept: the safe half of the liveness *)

\* The page shows what there is, and no answer on its way is older.
CaughtUp == fresh /\ \A q \in Request : request[q] # "old"

\* No trace is left of a permission the user does not have any more, or had not.
OutForGood == perm = "no" /\ cache # "yes" /\ refill # "yes" /\ verdict # "yes" /\ ~room
InForGood  == /\ perm = "yes" /\ cache # "no" /\ refill # "no" /\ verdict # "no"
              /\ socket = "up" => room

\* A revoked user without a connection, or one being made.
Gone == perm = "revoked" /\ socket \notin {"shaking", "up"}

\* A handshake carries its verdict, and revocation is never taken back.
VerdictInv ==
    /\ socket = "shaking" => verdict \in {"yes", "no"}
    /\ verdict = "revoked" => perm = "revoked"

\* True at the start,
LEMMA VerdictInit == Init => VerdictInv
BY DEF Init, VerdictInv, None

\* and after every step.
LEMMA VerdictNext == TypeOK /\ VerdictInv /\ [Next]_vars => VerdictInv'
<1> SUFFICES ASSUME TypeOK, VerdictInv, [Next]_vars PROVE VerdictInv'
  OBVIOUS
<1>1. Validated \in {"yes", "no", "revoked"} /\ (Validated = "revoked" => perm = "revoked")
  BY DEF TypeOK, Validated, None
<1>2. CASE UNCHANGED <<socket, verdict>>
  <2>1. perm = "revoked" => perm' = "revoked"
    BY DEF Next, BeginRefill, Refill, Forget, ChangePermission, Revoke, Changes, Change,
       Handshake, Connect, Drop, BeginRevalidate, Revalidate, SessionExpired, DeliverEvent,
       Hide, Show, Poll, Tick, CallBack, Serve, Fail, Answer, vars
  <2> QED BY <1>2, <2>1 DEF VerdictInv
<1>3. CASE Handshake \/ Connect \/ Drop \/ BeginRevalidate \/ Revalidate \/ SessionExpired
  BY <1>1, <1>3 DEF VerdictInv, Handshake, Connect, Drop, BeginRevalidate, Revalidate,
     SessionExpired, None
<1> QED
  BY <1>2, <1>3 DEF Next, BeginRefill, Refill, Forget, ChangePermission, Revoke, Changes, Change,
     DeliverEvent, Hide, Show, Poll, Tick, CallBack, Serve, Fail, Answer, vars, gatewayVars

\* Until the stock changes, a page that has caught up stays so: no answer that
\* is overtaken, no failed request and no late poll puts old numbers back.
THEOREM FreshStays == Spec => [][CaughtUp /\ ~Changes => CaughtUp']_vars
<1>1. TypeOK /\ [Next]_vars => [CaughtUp /\ ~Changes => CaughtUp']_vars
  <2> SUFFICES ASSUME TypeOK, Next, CaughtUp, ~Changes PROVE CaughtUp'
    OBVIOUS
  <2>1. CASE UNCHANGED pageVars
    BY <2>1 DEF CaughtUp, pageVars
  <2>2. ASSUME NEW q \in Request, CallBack(q) \/ Serve(q) \/ Fail(q) \/ Answer(q)
        PROVE  CaughtUp'
    BY <2>2 DEF CaughtUp, TypeOK, CallBack, Serve, Fail, Answer
  <2> QED
    BY <2>1, <2>2 DEF Next, BeginRefill, Refill, Forget, ChangePermission, Revoke, Handshake,
       Connect, Drop, BeginRevalidate, Revalidate, SessionExpired, DeliverEvent, Hide, Show,
       Poll, Tick
<1> QED BY <1>1, TypeCorrect, PTL DEF Spec

\* While the permission stays, a connection on the right side of it stays there
\* once caches and checks have forgotten what was: no check begun earlier and
\* no cache filled later puts it back.
THEOREM RoomsStay ==
    Spec => [][perm' = perm => /\ OutForGood => OutForGood'
                               /\ InForGood => InForGood']_vars
<1>1. TypeOK /\ VerdictInv /\ [Next]_vars =>
        [perm' = perm => /\ OutForGood => OutForGood'
                         /\ InForGood => InForGood']_vars
  <2> SUFFICES ASSUME TypeOK, VerdictInv, Next, perm' = perm
               PROVE  /\ OutForGood => OutForGood'
                      /\ InForGood => InForGood'
    OBVIOUS
  <2>1. Validated = IF perm = "revoked" THEN "revoked" ELSE IF cache # None THEN cache ELSE perm
    BY DEF Validated
  <2>2. CASE UNCHANGED <<cache, refill, socket, room, verdict>>
    BY <2>2 DEF OutForGood, InForGood
  <2>3. CASE BeginRefill \/ Refill \/ Forget
    BY <2>3 DEF BeginRefill, Refill, Forget, OutForGood, InForGood, None, gatewayVars
  <2>4. CASE Handshake \/ BeginRevalidate
    BY <2>1, <2>4 DEF Handshake, BeginRevalidate, OutForGood, InForGood, None, cacheVars, TypeOK
  <2>5. CASE Connect \/ Drop \/ Revalidate \/ SessionExpired
    BY <2>5 DEF Connect, Drop, Revalidate, SessionExpired, Rooms, MayStay, OutForGood, InForGood,
       VerdictInv, None, cacheVars, TypeOK
  <2> QED
    BY <2>2, <2>3, <2>4, <2>5 DEF Next, ChangePermission, Revoke, Changes, Change, DeliverEvent,
       Hide, Show, Poll, Tick, CallBack, Serve, Fail, Answer, cacheVars, gatewayVars
<1> QED BY <1>1, TypeCorrect, VerdictInit, VerdictNext, PTL DEF Spec

\* Revocation is for good: no later handshake connects the user again.
THEOREM GoneStays == Spec => [][Gone => Gone']_vars
<1>1. [Next]_vars => [Gone => Gone']_vars
  <2> SUFFICES ASSUME Next, Gone PROVE Gone'
    OBVIOUS
  <2>1. Validated = "revoked"
    BY DEF Validated, Gone
  <2> QED
    BY <2>1 DEF Gone, Next, BeginRefill, Refill, Forget, ChangePermission, Revoke, Changes, Change,
       Handshake, Connect, Drop, BeginRevalidate, Revalidate, SessionExpired, DeliverEvent,
       Hide, Show, Poll, Tick, CallBack, Serve, Fail, Answer, cacheVars, gatewayVars
<1> QED BY <1>1, PTL DEF Spec

=================================================================================
