------------------------------- MODULE Approval -------------------------------
(***************************************************************************)
(* The approval of a withdrawal request through the approval engine:       *)
(* RequestsService.submit and approve over ApprovalService                 *)
(* ensurePendingInstance, startApproval, decide and getByEntity.           *)
(*                                                                         *)
(* Unlike the stock handlers, approve is no transaction: every query is a  *)
(* step of the handler's own, between which the handlers of other users,   *)
(* the background call of submit, and a restart may come.                  *)
(***************************************************************************)
EXTENDS ApprovalChain, FiniteSets

CONSTANTS
    Call,      \* handlers that run at the same time
    MayFail,   \* approving may fail: stock is short (legacy reservation)
    MayCrash   \* the process may restart

ASSUME ApprovalAssumption == MayFail \in BOOLEAN /\ MayCrash \in BOOLEAN

VARIABLES
    req,   \* WithdrawalRequest.status
    made,  \* creation times handed out to chains so far
    call   \* the running handlers

vars == <<chain, req, made, call>>

Reviewable == {"SUBMITTED", "PENDING_APPROVAL"}
RequestStatus ==
    {"DRAFT", "APPROVED", "REJECTED", "CANCELLED"} \union Reviewable

\* at: the next query of the handler.  by is NoUser for the call submit leaves
\* in the background.  i: the chain, k: its step, extra: the duplicates, as
\* ensurePendingInstance read them; outcome: what decideViaEngine returns.
Point == {"idle", "look", "start", "insert", "relook", "drop",
          "check", "claim", "outcome", "apply"}
Outcome == {"PENDING", "APPROVED", "REJECTED"}
CallRecord ==
    [at : Point, by : User \union {NoUser}, approved : BOOLEAN,
     i : {0} \union Chain, k : Nat, extra : SUBSET Chain, outcome : Outcome]

Idle == [at |-> "idle", by |-> NoUser, approved |-> FALSE, i |-> 0, k |-> 0,
         extra |-> {}, outcome |-> "PENDING"]

TypeOK ==
    /\ chain \in [Chain -> ChainRecord]
    /\ req \in RequestStatus
    /\ made \in 0..MaxChain
    /\ call \in [Call -> CallRecord]

Init ==
    /\ ChainInit
    /\ req = "DRAFT"
    /\ made = 0
    /\ call = [c \in Call |-> Idle]

Goes(c, point) == call' = [call EXCEPT ![c].at = point]
Ends(c) == call' = [call EXCEPT ![c] = Idle]

-----------------------------------------------------------------------------
(* RequestsService: the handlers begin *)

\* submit claims the request and starts a chain without waiting for it.
Submit(c) ==
    /\ call[c].at = "idle"
    /\ req = "DRAFT"
    /\ req' = "SUBMITTED"
    /\ Goes(c, "look")
    /\ UNCHANGED <<chain, made>>

\* Also a rejected request may be cancelled.
Cancel ==
    /\ req # "CANCELLED"
    /\ req' = "CANCELLED"
    /\ UNCHANGED <<chain, made, call>>

\* A requester may reject the own request, not approve it.
Approve(c, u, approved) ==
    /\ call[c].at = "idle"
    /\ req \in Reviewable
    /\ approved => u # Requester
    /\ call' = [call EXCEPT ![c] =
                  [Idle EXCEPT !.at = "look", !.by = u, !.approved = approved]]
    /\ UNCHANGED <<chain, req, made>>

-----------------------------------------------------------------------------
(* ensurePendingInstance *)

Oldest(i, S) == i \in S /\ \A j \in S : i <= j
Newest(i, S) == i \in S /\ \A j \in S : j <= i

\* Mutant of Extras: the chain to keep is dropped with the others.
AllOpen(i) == Open

Extras(i) == Open \ {i}

\* The oldest open chain is kept, and its first pending step will be decided.
Keep(c) ==
    \E i \in Open : \E k \in Steps(i) :
        /\ Oldest(i, Open)
        /\ IsCurrent(i, k)
        /\ IF Open = {i} /\ call[c].by = NoUser
           THEN Ends(c)
           ELSE call' = [call EXCEPT ![c] =
                  [@ EXCEPT !.at = IF Open = {i} THEN "check" ELSE "drop",
                            !.i = i, !.k = k, !.extra = Extras(i)]]

Look(c) ==
    /\ call[c].at = "look"
    /\ IF Open = {} THEN Goes(c, "start") ELSE Keep(c)
    /\ UNCHANGED <<chain, req, made>>

\* createdAt is taken before the row is visible to the others.
Start(c) ==
    /\ call[c].at = "start"
    /\ made < MaxChain
    /\ made' = made + 1
    /\ call' = [call EXCEPT ![c] = [@ EXCEPT !.at = "insert", !.i = made + 1]]
    /\ UNCHANGED <<chain, req>>

Insert(c) ==
    /\ call[c].at = "insert"
    /\ \E rule \in Rules : StartChain(call[c].i, rule)
    /\ Goes(c, "relook")
    /\ UNCHANGED <<req, made>>

\* Without a chain after all, decideViaEngine says PENDING.
Relook(c) ==
    /\ call[c].at = "relook"
    /\ \/ Keep(c)
       \/ /\ Open = {}
          /\ IF call[c].by = NoUser THEN Ends(c) ELSE Goes(c, "apply")
    /\ UNCHANGED <<chain, req, made>>

\* Extras decided since they were read are left alone.
Drop(c) ==
    /\ call[c].at = "drop"
    /\ chain' = Without(call[c].extra \intersect Open)
    /\ IF call[c].by = NoUser THEN Ends(c) ELSE Goes(c, "check")
    /\ UNCHANGED <<req, made>>

-----------------------------------------------------------------------------
(* decide and getByEntity *)

Check(c) ==
    /\ call[c].at = "check"
    /\ LET i == call[c].i  k == call[c].k IN
       IF i \in Open /\ IsCurrent(i, k) /\ MayDecide(i, k, call[c].by, call[c].approved)
       THEN Goes(c, "claim") ELSE Ends(c)
    /\ UNCHANGED <<chain, req, made>>

\* Mutant of Claimable: the instance is not claimed with its step.
ClaimableStep(i, k) == chain[i].steps[k].status = "PENDING"

\* One transaction: a step or an instance decided by another rolls it back.
Claimable(i, k) == i \in Open /\ chain[i].steps[k].status = "PENDING"

Claim(c) ==
    /\ call[c].at = "claim"
    /\ LET i == call[c].i  k == call[c].k IN
       IF Claimable(i, k)
       THEN /\ chain' = Decided(i, k, call[c].by, call[c].approved)
            /\ Goes(c, "outcome")
       ELSE Ends(c) /\ UNCHANGED chain
    /\ UNCHANGED <<req, made>>

\* Mutants of OutcomeOf: the status as it is; all but a rejection approves.
RawOutcome(status) == status
UnlessRejected(status) == IF status \in {"PENDING", "REJECTED"} THEN status ELSE "APPROVED"

\* getByEntity reads the newest chain; approve takes every status but PENDING
\* and APPROVED for a rejection.
OutcomeOf(status) ==
    IF status \in {"PENDING", "APPROVED"} THEN status ELSE "REJECTED"

ReadOutcome(c) ==
    /\ call[c].at = "outcome"
    /\ \E i \in Chain :
         /\ Newest(i, {j \in Chain : chain[j].status # "NONE"})
         /\ call' = [call EXCEPT ![c] =
               [@ EXCEPT !.at = "apply", !.outcome = OutcomeOf(chain[i].status)]]
    /\ UNCHANGED <<chain, req, made>>

-----------------------------------------------------------------------------
(* approve applies the outcome to the request *)

ToStatus(outcome) == IF outcome = "PENDING" THEN "PENDING_APPROVAL" ELSE outcome

\* Mutant of Claimed: the update does not ask for a reviewable status.
ClaimedAnyway(outcome) == ToStatus(outcome)

Claimed(outcome) == IF req \in Reviewable THEN ToStatus(outcome) ELSE req

Apply(c) ==
    /\ call[c].at = "apply"
    /\ req' = Claimed(call[c].outcome)
    /\ Ends(c)
    /\ UNCHANGED <<chain, made>>

\* The engine's decision stands although its effect did not happen.
ApplyFails(c) ==
    /\ MayFail
    /\ call[c].at = "apply"
    /\ call[c].outcome = "APPROVED"
    /\ Ends(c)
    /\ UNCHANGED <<chain, req, made>>

Restart ==
    /\ MayCrash
    /\ call' = [c \in Call |-> Idle]
    /\ UNCHANGED <<chain, req, made>>

Next ==
    \/ \E c \in Call :
         \/ Submit(c)
         \/ \E u \in User, approved \in BOOLEAN : Approve(c, u, approved)
         \/ Look(c) \/ Start(c) \/ Insert(c) \/ Relook(c) \/ Drop(c)
         \/ Check(c) \/ Claim(c) \/ ReadOutcome(c) \/ Apply(c) \/ ApplyFails(c)
    \/ Cancel
    \/ Restart

Spec == Init /\ [][Next]_vars

-----------------------------------------------------------------------------
\* An approved request went through a whole chain: every step approved by
\* another holder of its role and none by the requester, although approve takes
\* the outcome from a chain it reads again after deciding (getByEntity).
ApprovedByTheChain ==
    req = "APPROVED" =>
        \E i \in Chain : chain[i].status = "APPROVED" /\ FullyApproved(i)

\* A request shows as being approved only after somebody decided a step, even
\* when approve gives up because no chain is open any more.
PendingAfterADecision ==
    req = "PENDING_APPROVAL" =>
        \E i \in Chain : \E k \in Steps(i) : chain[i].steps[k].status # "PENDING"

\* Whoever comes late changes nothing: no second verdict replaces the first,
\* and a cancelled request stays so; an approved or a rejected one can only be
\* cancelled.
DecidedOnce ==
    [][/\ req = "CANCELLED" => req' = req
       /\ req \in {"APPROVED", "REJECTED"} => req' \in {req, "CANCELLED"}]_req

\* The engine keeps its promise for every chain of the document.
ImplementsChain == ChainSpec

\* The request has the verdict of its newest chain ("Engine reached a terminal
\* decision -- apply it below"), also after failed attempts and restarts.
FollowsNewestChain ==
    req \in {"APPROVED", "REJECTED"} =>
        \E i \in Chain :
            /\ chain[i].status = req
            /\ \A j \in Chain : j > i => chain[j].status = "NONE"

\* A request is rejected only when somebody rejected a step of it.
RejectedByAChecker ==
    req = "REJECTED" => \E i \in Chain : chain[i].status = "REJECTED"
=============================================================================
