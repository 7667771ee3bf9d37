----------------------------- MODULE StockLedger -----------------------------
(***************************************************************************)
(* What the outbound flow promises about quantities, without rows, tasks   *)
(* or statuses: units are free, held for one request, or issued to it.     *)
(* A request holds at most what it asked for, is issued goods at most once *)
(* and only from what it holds, and holds nothing afterwards.              *)
(***************************************************************************)
EXTENDS Integers, Functions

CONSTANTS Req, Want, Total

VARIABLES
    free,    \* units no request holds
    held,    \* units held for each request
    gone,    \* units issued to each request
    done     \* requests whose goods issue is posted

vars == <<free, held, gone, done>>

Init ==
    /\ free = Total
    /\ held = [r \in Req |-> 0]
    /\ gone = [r \in Req |-> 0]
    /\ done = {}

\* Hold n free units for a request that holds none.
Take(r, n) ==
    /\ r \notin done /\ held[r] = 0
    /\ free' = free - n
    /\ held' = [held EXCEPT ![r] = n]
    /\ UNCHANGED <<gone, done>>

\* Give everything back.
GiveBack(r) ==
    /\ free' = free + held[r]
    /\ held' = [held EXCEPT ![r] = 0]
    /\ UNCHANGED <<gone, done>>

\* Issue n of the held units, free the others, once and for all.
Issue(r, n) ==
    /\ r \notin done
    /\ free' = free + held[r] - n
    /\ held' = [held EXCEPT ![r] = 0]
    /\ gone' = [gone EXCEPT ![r] = n]
    /\ done' = done \union {r}

Next ==
    \E r \in Req :
        \/ \E n \in 1..Want[r] : n <= free /\ Take(r, n)
        \/ GiveBack(r)
        \/ \E n \in 0..held[r] : Issue(r, n)

Spec == Init /\ [][Next]_vars
=============================================================================
