------------------------------- MODULE Realtime -------------------------------
(***************************************************************************)
(* How a page that shows stock keeps up with it: RealtimeGateway, the      *)
(* permission cache its checks go through, one client of the gateway       *)
(* (useRealtime), and the page that reads again when it is told to         *)
(* (refreshOccupancy).  One user, one page, one permission, one warehouse. *)
(*                                                                         *)
(* Time is counted in ticks; a timer that is due goes off before the next. *)
(***************************************************************************)
EXTENDS Naturals, FiniteSets

CONSTANTS
    Request,    \* requests of the page that may be under way together
    Debounce,   \* debounceMs, in ticks
    PollEvery,  \* pollMs, in ticks
    MaxEvents   \* the largest number of events on their way

\* A poll that comes before the debounce is over would put it off for ever.
ASSUME RealtimeAssumption ==
    /\ Debounce \in Nat \ {0} /\ PollEvery \in Nat /\ PollEvery > Debounce
    /\ MaxEvents \in Nat \ {0} /\ IsFiniteSet(Request)

VARIABLES
    perm,       \* may the user read stock, by the database?
    cache,      \* what PermissionCacheService has of it
    refill,     \* what a lookup has read and not yet put into the cache
    socket,     \* the connection
    room,       \* the connection is in the room of those who may
    verdict,    \* a check of the connection that is still to be applied
    events,     \* events on their way to the client
    hidden,     \* document.hidden
    wait,       \* ticks until the debounced callback, 0 if there is none
    pollIn,     \* ticks until the next poll
    request,    \* requests for the occupancy under way
    fresh       \* the page shows what is in the database

vars == <<perm, cache, refill, socket, room, verdict, events, hidden, wait, pollIn,
          request, fresh>>
cacheVars == <<cache, refill>>
gatewayVars == <<socket, room, verdict>>
timerVars == <<wait, pollIn>>
pageVars == <<request, fresh>>

None == "none"

TypeOK ==
    /\ perm \in {"yes", "no", "revoked"}
    /\ cache \in {"yes", "no", None} /\ refill \in {"yes", "no", None}
    /\ socket \in {"down", "shaking", "up", "stopped"}
    /\ room \in BOOLEAN /\ (room => socket = "up")
    /\ verdict \in {"yes", "no", "revoked", None}
    /\ events \in 0..MaxEvents
    /\ hidden \in BOOLEAN
    /\ wait \in 0..Debounce /\ pollIn \in 0..PollEvery
    /\ request \in [Request -> {"free", "asked", "current", "old"}]
    /\ fresh \in BOOLEAN

Init ==
    /\ perm = "yes" /\ cache = None /\ refill = None
    /\ socket = "down" /\ room = FALSE /\ verdict = None /\ events = 0
    /\ hidden = FALSE /\ wait = 0 /\ pollIn = PollEvery
    /\ request = [q \in Request |-> "free"] /\ fresh = FALSE

-----------------------------------------------------------------------------
(* PermissionCacheService *)

\* Another check reads the role, and stores what it read later.
BeginRefill ==
    /\ refill = None /\ cache = None /\ perm # "revoked"
    /\ refill' = perm
    /\ UNCHANGED <<perm, cache, gatewayVars, events, hidden, timerVars, pageVars>>

Refill ==
    /\ refill # None
    /\ cache' = refill /\ refill' = None
    /\ UNCHANGED <<perm, gatewayVars, events, hidden, timerVars, pageVars>>

\* Sixty seconds are over, or somebody changed a role.
Forget ==
    /\ cache # None
    /\ cache' = None
    /\ UNCHANGED <<perm, refill, gatewayVars, events, hidden, timerVars, pageVars>>

\* JwtStrategy.validate: the token and the user by the database, what the user
\* may by the cache.
Validated == IF perm = "revoked" THEN "revoked" ELSE IF cache # None THEN cache ELSE perm

-----------------------------------------------------------------------------
(* What administrators do, and the stock *)

ChangePermission ==
    /\ perm # "revoked"
    /\ perm' = IF perm = "yes" THEN "no" ELSE "yes"
    /\ UNCHANGED <<cacheVars, gatewayVars, events, hidden, timerVars, pageVars>>

\* The user logs out elsewhere or is deactivated, or the token expires.
Revoke ==
    /\ perm # "revoked"
    /\ perm' = "revoked"
    /\ UNCHANGED <<cacheVars, gatewayVars, events, hidden, timerVars, pageVars>>

\* The stock changes.  Some changes are not announced: relocations.
Change(announced) ==
    /\ fresh' = FALSE
    /\ request' = [q \in Request |-> IF request[q] = "current" THEN "old" ELSE request[q]]
    /\ IF announced /\ room /\ events < MaxEvents
       THEN events' = events + 1 ELSE UNCHANGED events
    /\ UNCHANGED <<perm, cacheVars, gatewayVars, hidden, timerVars>>

-----------------------------------------------------------------------------
(* The connection *)

\* authenticate.  A client that is refused does not try again.
Handshake ==
    /\ socket = "down"
    /\ IF Validated = "revoked"
       THEN socket' = "stopped" /\ UNCHANGED verdict
       ELSE socket' = "shaking" /\ verdict' = Validated
    /\ UNCHANGED <<perm, cacheVars, room, events, hidden, timerVars, pageVars>>

\* handleConnection.
Connect ==
    /\ socket = "shaking"
    /\ socket' = "up" /\ room' = (verdict = "yes") /\ verdict' = None
    /\ UNCHANGED <<perm, cacheVars, events, hidden, timerVars, pageVars>>

\* The network drops the connection, and what was on its way.
Drop ==
    /\ socket \in {"shaking", "up"}
    /\ socket' = "down" /\ room' = FALSE /\ verdict' = None /\ events' = 0
    /\ UNCHANGED <<perm, cacheVars, hidden, timerVars, pageVars>>

\* revalidateAll, for this connection: checked, and then treated accordingly.
BeginRevalidate ==
    /\ socket = "up" /\ verdict = None
    /\ verdict' = Validated
    /\ UNCHANGED <<perm, cacheVars, socket, room, events, hidden, timerVars, pageVars>>

\* Mutant of Rooms: rooms are left, but none is joined.
RoomsLeft(v) == room /\ v = "yes"

Rooms(v) == v = "yes"

\* Mutant of MayStay: a check that throws is only logged.
MayStayAnyway(v) == TRUE

MayStay(v) == v # "revoked"

Revalidate ==
    /\ socket = "up" /\ verdict # None
    /\ verdict' = None
    /\ IF MayStay(verdict)
       THEN room' = Rooms(verdict) /\ UNCHANGED <<socket, events>>
       ELSE socket' = "stopped" /\ room' = FALSE /\ events' = 0
    /\ UNCHANGED <<perm, cacheVars, hidden, timerVars, pageVars>>

\* The timer of handleConnection, or the client leaves: session:expired.
SessionExpired ==
    /\ socket = "up" /\ perm = "revoked"
    /\ socket' = "stopped" /\ room' = FALSE /\ verdict' = None /\ events' = 0
    /\ UNCHANGED <<perm, cacheVars, hidden, timerVars, pageVars>>

-----------------------------------------------------------------------------
(* useRealtime *)

\* fire: the callback is put off anew.
Fire == wait' = Debounce

DeliverEvent ==
    /\ socket = "up" /\ events > 0
    /\ events' = events - 1 /\ Fire
    /\ UNCHANGED <<perm, cacheVars, gatewayVars, hidden, pollIn, pageVars>>

Hide ==
    /\ ~hidden /\ hidden' = TRUE
    /\ UNCHANGED <<perm, cacheVars, gatewayVars, events, timerVars, pageVars>>

Show ==
    /\ hidden /\ hidden' = FALSE
    /\ Fire
    /\ UNCHANGED <<perm, cacheVars, gatewayVars, events, pollIn, pageVars>>

\* Mutant of PollFires: only a client that is not connected polls.
PollLost == ~hidden /\ socket # "up"

\* A hidden page is not refreshed.
PollFires == ~hidden

Poll ==
    /\ pollIn = 0
    /\ pollIn' = PollEvery
    /\ IF PollFires THEN Fire ELSE UNCHANGED wait
    /\ UNCHANGED <<perm, cacheVars, gatewayVars, events, hidden, pageVars>>

\* The callback is due at the end of this tick, and sends a request.
CallBack(q) ==
    /\ wait = 1 /\ pollIn # 0
    /\ request[q] = "free"
    /\ wait' = 0 /\ pollIn' = pollIn - 1
    /\ request' = [request EXCEPT ![q] = "asked"]
    /\ UNCHANGED <<perm, cacheVars, gatewayVars, events, hidden, fresh>>

Tick ==
    /\ pollIn # 0 /\ wait # 1
    /\ pollIn' = pollIn - 1
    /\ wait' = IF wait = 0 THEN 0 ELSE wait - 1
    /\ UNCHANGED <<perm, cacheVars, gatewayVars, events, hidden, pageVars>>

-----------------------------------------------------------------------------
(* refreshOccupancy *)

\* The server reads the stock.
Serve(q) ==
    /\ request[q] = "asked" /\ perm = "yes"
    /\ request' = [request EXCEPT ![q] = "current"]
    /\ UNCHANGED <<perm, cacheVars, gatewayVars, events, hidden, timerVars, fresh>>

\* A failed refresh leaves the previous numbers on the screen.
Fail(q) ==
    /\ request[q] = "asked"
    /\ request' = [request EXCEPT ![q] = "free"]
    /\ UNCHANGED <<perm, cacheVars, gatewayVars, events, hidden, timerVars, fresh>>

\* Answers may overtake each other: the last one to come is shown.
Answer(q) ==
    /\ request[q] \in {"current", "old"}
    /\ request' = [request EXCEPT ![q] = "free"]
    /\ fresh' = (request[q] = "current")
    /\ UNCHANGED <<perm, cacheVars, gatewayVars, events, hidden, timerVars>>

-----------------------------------------------------------------------------

Changes == \E announced \in BOOLEAN : Change(announced)

Next ==
    \/ BeginRefill \/ Refill \/ Forget
    \/ ChangePermission \/ Revoke \/ Changes
    \/ Handshake \/ Connect \/ Drop \/ BeginRevalidate \/ Revalidate \/ SessionExpired
    \/ DeliverEvent \/ Hide \/ Show \/ Poll \/ Tick
    \/ \E q \in Request : CallBack(q) \/ Serve(q) \/ Fail(q) \/ Answer(q)

\* Time goes on, and intervals and timeouts go off with it; a cache entry
\* expires; a connection is checked again and again.  A request that is
\* answered reaches the page, and the server does not fail for ever.
Fairness ==
    /\ WF_vars(Tick) /\ WF_vars(Poll)
    /\ WF_vars(Refill) /\ WF_vars(Forget)
    /\ WF_vars(BeginRevalidate) /\ WF_vars(Revalidate) /\ WF_vars(Connect)
    /\ \A q \in Request : WF_vars(CallBack(q)) /\ SF_vars(Serve(q)) /\ WF_vars(Answer(q))

Spec == Init /\ [][Next]_vars /\ Fairness

-----------------------------------------------------------------------------
(* Properties *)

\* Once nothing changes any more, a page that is looked at shows what there is:
\* although changes were not announced, events were lost with a connection,
\* answers overtook each other, requests failed, and the gateway gave up.
Settled == <>[][~Changes]_vars /\ <>[](~hidden /\ perm = "yes")
EventuallyFresh == Settled => <>[]fresh

\* "Logout, deactivation or permission removal take effect without waiting for
\* expiry": a connection whose token was revoked is closed.
RevokedDisconnects == perm = "revoked" ~> socket # "up"

\* The rooms follow the permission, in both directions, once it stays as it is:
\* a stale check or a stale cache entry never wins in the end.
RoomsFollow ==
    /\ <>[](perm = "yes") => <>[](socket = "up" => room)
    /\ <>[](perm = "no") => <>[]~room

================================================================================
