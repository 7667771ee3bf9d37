---------------------------- MODULE ApprovalChain ----------------------------
(***************************************************************************)
(* What the approval engine promises of the chains of one document,        *)
(* whatever its callers do: the steps of a chain are approved in order, by *)
(* different people who hold the step's role and did not raise the         *)
(* document; one rejection ends it; a decided chain never changes; and a   *)
(* chain is dropped only for an older one.                                 *)
(***************************************************************************)
EXTENDS Integers, Sequences

CONSTANTS
    User,       \* accounts that pass the endpoint's approve permission
    NoUser,     \* the actor of a step nobody has decided
    Requester,  \* requestedById
    Rules,      \* the step lists of rules: for each step, who may decide it
    MaxChain    \* bounds the instances of the document

ASSUME ChainAssumption ==
    /\ NoUser \notin User
    /\ Rules \subseteq Seq(SUBSET User) \ {<< >>}
    /\ MaxChain \in Nat

VARIABLE chain  \* ApprovalInstance, in the order of createdAt

Chain == 1..MaxChain
StepStatus == {"PENDING", "APPROVED", "REJECTED"}
ChainStatus == {"NONE", "CANCELLED"} \union StepStatus
StepRecord == [may : SUBSET User, status : StepStatus, actor : User \union {NoUser}]
ChainRecord == [status : ChainStatus, steps : Seq(StepRecord)]

NoChain == [status |-> "NONE", steps |-> << >>]
NewChain(rule) ==
    [status |-> "PENDING",
     steps |-> [k \in 1..Len(rule) |->
                  [may |-> rule[k], status |-> "PENDING", actor |-> NoUser]]]

Steps(i) == 1..Len(chain[i].steps)
Open == {i \in Chain : chain[i].status = "PENDING"}

\* Only the first pending step can be decided.
IsCurrent(i, k) ==
    /\ k \in Steps(i)
    /\ chain[i].steps[k].status = "PENDING"
    /\ \A j \in 1..(k - 1) : chain[i].steps[j].status # "PENDING"

\* Mutant of MayDecide: nobody asks who approved the earlier steps.
MayDecideAgain(i, k, u, approved) ==
    u \in chain[i].steps[k].may /\ (approved => u # Requester)

\* Roles, maker # checker, and one step per person; anyone with the role may
\* reject.
MayDecide(i, k, u, approved) ==
    /\ u \in chain[i].steps[k].may
    /\ approved => /\ u # Requester
                   /\ \A j \in Steps(i) :
                        chain[i].steps[j].status = "APPROVED" =>
                            chain[i].steps[j].actor # u

\* The step, then the instance: finished by a rejection or by its last step.
Verdict(i, k, approved) ==
    IF ~approved THEN "REJECTED"
    ELSE IF k = Len(chain[i].steps) THEN "APPROVED" ELSE "PENDING"

DecidedStep(i, k, u, approved) ==
    [chain[i].steps EXCEPT ![k] =
        [may |-> chain[i].steps[k].may,
         status |-> IF approved THEN "APPROVED" ELSE "REJECTED",
         actor |-> u]]

Decided(i, k, u, approved) ==
    [chain EXCEPT ![i] = [status |-> Verdict(i, k, approved),
                          steps |-> DecidedStep(i, k, u, approved)]]

Without(D) ==
    [i \in Chain |->
       IF i \in D THEN [status |-> "CANCELLED", steps |-> chain[i].steps]
       ELSE chain[i]]

-----------------------------------------------------------------------------
StartChain(i, rule) ==
    /\ chain[i].status = "NONE"
    /\ chain' = [chain EXCEPT ![i] = NewChain(rule)]

Decide(i, k, u, approved) ==
    /\ i \in Open
    /\ IsCurrent(i, k)
    /\ MayDecide(i, k, u, approved)
    /\ chain' = Decided(i, k, u, approved)

DropDuplicates(keep, D) ==
    /\ chain[keep].status # "NONE"
    /\ D \subseteq Open
    /\ \A i \in D : keep < i
    /\ chain' = Without(D)

ChainInit == chain = [i \in Chain |-> NoChain]

ChainNext ==
    \/ \E i \in Chain, rule \in Rules : StartChain(i, rule)
    \/ \E i \in Chain : \E k \in Steps(i), u \in User, approved \in BOOLEAN :
         Decide(i, k, u, approved)
    \/ \E keep \in Chain, D \in SUBSET Chain : DropDuplicates(keep, D)

ChainSpec == ChainInit /\ [][ChainNext]_chain

-----------------------------------------------------------------------------
\* Every step approved, each by another holder of its role, none the requester.
FullyApproved(i) ==
    \A k \in Steps(i) :
        LET s == chain[i].steps[k] IN
        /\ s.status = "APPROVED"
        /\ s.actor \in s.may \ {Requester}
        /\ \A j \in Steps(i) \ {k} : chain[i].steps[j].actor # s.actor

\* The first n steps are approved and the rest not decided.
ApprovedUpTo(i, n) ==
    \A k \in Steps(i) :
        chain[i].steps[k].status = IF k <= n THEN "APPROVED" ELSE "PENDING"

\* A chain's status is what its steps say, so no decision is recorded by half:
\* an open chain is a proper prefix of approvals, an approved one has them all
\* from different people entitled to them, a rejected one ends in its single
\* rejection (decide writes the step and the instance by two guarded updates).
ChainConsistent ==
    \A i \in Chain :
        /\ chain[i].status \in {"PENDING", "CANCELLED"} =>
              \E n \in 0..(Len(chain[i].steps) - 1) : ApprovedUpTo(i, n)
        /\ chain[i].status = "APPROVED" => FullyApproved(i)
        /\ chain[i].status = "REJECTED" =>
              \E n \in Steps(i) :
                 /\ chain[i].steps[n].status = "REJECTED"
                 /\ \A k \in Steps(i) \ {n} :
                      chain[i].steps[k].status =
                          IF k < n THEN "APPROVED" ELSE "PENDING"
=============================================================================
