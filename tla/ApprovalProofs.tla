---------------------------- MODULE ApprovalProofs ----------------------------
(***************************************************************************)
(* What TLAPS proves of ApprovalChain and Approval for any users, rules,   *)
(* number of chains and number of concurrent handlers.                     *)
(***************************************************************************)
EXTENDS Approval, SequenceTheorems, TLAPS

-----------------------------------------------------------------------------
(* One chain *)

ChainType == chain \in [Chain -> ChainRecord]

\* A new chain has the steps of its rule, at least one, none decided.
LEMMA NewChainSteps ==
    ASSUME NEW rule \in Rules
    PROVE  /\ NewChain(rule) \in ChainRecord
           /\ NewChain(rule).status = "PENDING"
           /\ Len(NewChain(rule).steps) \in Nat \ {0}
           /\ \A k \in 1..Len(NewChain(rule).steps) :
                NewChain(rule).steps[k].status = "PENDING"
<1> DEFINE steps == [k \in 1..Len(rule) |->
                       [may |-> rule[k], status |-> "PENDING", actor |-> NoUser]]
<1>1. rule \in Seq(SUBSET User) /\ rule # << >>
  BY ChainAssumption
<1>2. Len(rule) \in Nat \ {0} /\ \A k \in 1..Len(rule) : rule[k] \in SUBSET User
  BY <1>1, LenProperties, EmptySeq
<1>3. steps \in [1..Len(rule) -> StepRecord]
  BY <1>2 DEF StepRecord, StepStatus
<1>4. steps \in Seq(StepRecord)
  BY <1>2, <1>3, SeqDef
<1>5. Len(steps) = Len(rule)
  <2> HIDE DEF steps
  <2>1. Len(steps) \in Nat /\ 1..Len(steps) = 1..Len(rule)
    BY <1>3, <1>4, LenProperties
  <2> QED BY <2>1, <1>2
<1>6. NewChain(rule) = [status |-> "PENDING", steps |-> steps]
  BY DEF NewChain
<1>7. \A k \in 1..Len(rule) : steps[k].status = "PENDING"
  OBVIOUS
<1> QED BY <1>2, <1>4, <1>5, <1>6, <1>7 DEF ChainRecord, ChainStatus, StepStatus

\* A decision writes one step and leaves the others.
LEMMA DecidedSteps ==
    ASSUME ChainType, NEW i \in Chain, NEW k \in Steps(i), NEW u \in User,
           NEW approved \in BOOLEAN
    PROVE  /\ DecidedStep(i, k, u, approved) \in Seq(StepRecord)
           /\ Len(DecidedStep(i, k, u, approved)) = Len(chain[i].steps)
           /\ Len(chain[i].steps) \in Nat
           /\ \A j \in Steps(i) \ {k} :
                DecidedStep(i, k, u, approved)[j] = chain[i].steps[j]
           /\ DecidedStep(i, k, u, approved)[k] =
                [may |-> chain[i].steps[k].may,
                 status |-> IF approved THEN "APPROVED" ELSE "REJECTED",
                 actor |-> u]
<1> DEFINE s == chain[i].steps
           e == [may |-> s[k].may,
                 status |-> IF approved THEN "APPROVED" ELSE "REJECTED",
                 actor |-> u]
<1>1. s \in Seq(StepRecord) /\ k \in 1..Len(s) /\ Len(s) \in Nat
  BY LenProperties DEF ChainType, ChainRecord, Steps
<1>2. s[k] \in StepRecord
  BY <1>1, ElementOfSeq
<1>3. e \in StepRecord
  BY <1>2 DEF StepRecord, StepStatus
<1>5. DecidedStep(i, k, u, approved) = [s EXCEPT ![k] = e]
  BY DEF DecidedStep
<1> HIDE DEF e
<1>6. /\ [s EXCEPT ![k] = e] \in Seq(StepRecord)
      /\ Len([s EXCEPT ![k] = e]) = Len(s)
      /\ \A j \in 1..Len(s) : [s EXCEPT ![k] = e][j] = IF j = k THEN e ELSE s[j]
  BY <1>1, <1>3, ExceptSeq
<1> QED BY <1>1, <1>5, <1>6 DEF e, Steps

\* What one step of the engine does to any chain.
Started(i) ==
    /\ chain[i].status = "NONE"
    /\ chain'[i].status = "PENDING"
    /\ Len(chain'[i].steps) \in Nat \ {0}
    /\ \A k \in 1..Len(chain'[i].steps) : chain'[i].steps[k].status = "PENDING"
DecidedBy(i, k, u, approved) ==
    /\ i \in Open
    /\ IsCurrent(i, k)
    /\ MayDecide(i, k, u, approved)
    /\ chain'[i].status = Verdict(i, k, approved)
    /\ Len(chain'[i].steps) = Len(chain[i].steps)
    /\ \A j \in Steps(i) \ {k} : chain'[i].steps[j] = chain[i].steps[j]
    /\ chain'[i].steps[k] =
         [may |-> chain[i].steps[k].may,
          status |-> IF approved THEN "APPROVED" ELSE "REJECTED",
          actor |-> u]
Dropped(i) ==
    /\ i \in Open
    /\ chain'[i].status = "CANCELLED"
    /\ chain'[i].steps = chain[i].steps

LEMMA ChainStep ==
    ASSUME ChainType, ChainNext
    PROVE  /\ ChainType'
           /\ \A i \in Chain :
                \/ chain'[i] = chain[i]
                \/ Started(i)
                \/ \E k \in Steps(i), u \in User, approved \in BOOLEAN :
                     DecidedBy(i, k, u, approved)
                \/ Dropped(i)
<1>1. ASSUME NEW i \in Chain, NEW rule \in Rules, StartChain(i, rule)
      PROVE  ChainType' /\ Started(i) /\ \A j \in Chain \ {i} : chain'[j] = chain[j]
  BY <1>1, NewChainSteps DEF StartChain, ChainType, Started
<1>2. ASSUME NEW i \in Chain, NEW k \in Steps(i), NEW u \in User, NEW approved \in BOOLEAN,
             Decide(i, k, u, approved)
      PROVE  ChainType' /\ DecidedBy(i, k, u, approved)
               /\ \A j \in Chain \ {i} : chain'[j] = chain[j]
  <2> DEFINE c == [status |-> Verdict(i, k, approved),
                   steps |-> DecidedStep(i, k, u, approved)]
  <2>1. chain' = [chain EXCEPT ![i] = c]
    BY <1>2 DEF Decide, Decided
  <2>2. Verdict(i, k, approved) \in ChainStatus
    BY DEF Verdict, ChainStatus, StepStatus
  <2>3. c \in ChainRecord
    BY <2>2, DecidedSteps DEF ChainRecord
  <2>4. ChainType' /\ chain'[i] = c /\ \A j \in Chain \ {i} : chain'[j] = chain[j]
    BY <2>1, <2>3 DEF ChainType
  <2>5. DecidedBy(i, k, u, approved)
    BY <2>4, <1>2, DecidedSteps DEF DecidedBy, Decide
  <2> QED BY <2>4, <2>5
<1>3. ASSUME NEW keep \in Chain, NEW D \in SUBSET Chain, DropDuplicates(keep, D)
      PROVE  ChainType' /\ \A i \in Chain : chain'[i] = chain[i] \/ Dropped(i)
  BY <1>3 DEF DropDuplicates, Without, ChainType, ChainRecord, ChainStatus, Dropped
<1> QED BY <1>1, <1>2, <1>3 DEF ChainNext

-----------------------------------------------------------------------------
(* Chains are consistent *)

\* An approved step, of a chain in any state, has an approver entitled to it
\* who approved no other step.
SoundSteps(i) ==
    \A k \in Steps(i) :
        chain[i].steps[k].status = "APPROVED" =>
            /\ chain[i].steps[k].actor \in chain[i].steps[k].may \ {Requester}
            /\ \A j \in Steps(i) \ {k} :
                 chain[i].steps[j].status = "APPROVED" =>
                     chain[i].steps[j].actor # chain[i].steps[k].actor

NoSteps(i) == chain[i].status = "NONE" => Steps(i) = {}

ChainInv ==
    ChainType /\ ChainConsistent /\ \A i \in Chain : SoundSteps(i) /\ NoSteps(i)

LEMMA ChainInvInit == ChainInit => ChainInv
<1> SUFFICES ASSUME ChainInit PROVE ChainInv
  OBVIOUS
<1>1. \A i \in Chain : chain[i] = NoChain
  BY DEF ChainInit
<1>2. NoChain \in ChainRecord /\ Len(NoChain.steps) = 0
  BY EmptySeq DEF NoChain, ChainRecord, ChainStatus
<1>3. ChainType
  BY <1>2 DEF ChainInit, ChainType
<1>4. ChainConsistent
  BY <1>1 DEF ChainConsistent, NoChain
<1>5. \A i \in Chain : SoundSteps(i) /\ NoSteps(i)
  BY <1>1, <1>2 DEF SoundSteps, NoSteps, Steps
<1> QED BY <1>3, <1>4, <1>5 DEF ChainInv

\* A decision is on the step after the approved ones.
LEMMA CurrentStep ==
    ASSUME NEW i \in Chain, NEW k \in Steps(i), NEW n \in 0..(Len(chain[i].steps) - 1),
           Len(chain[i].steps) \in Nat, ApprovedUpTo(i, n), IsCurrent(i, k)
    PROVE  k = n + 1
<1>1. n + 1 \in Steps(i) /\ chain[i].steps[n + 1].status = "PENDING"
  BY DEF Steps, ApprovedUpTo
<1>2. ~(k <= n)
  BY DEF ApprovedUpTo, IsCurrent
<1>3. ~(n + 1 < k)
  BY <1>1 DEF IsCurrent, Steps
<1> QED BY <1>2, <1>3 DEF Steps

LEMMA ChainInvStep ==
    ASSUME ChainInv, ChainNext
    PROVE  ChainInv'
<1> DEFINE Fine(i) ==
      /\ chain[i].status \in {"PENDING", "CANCELLED"} =>
            \E n \in 0..(Len(chain[i].steps) - 1) : ApprovedUpTo(i, n)
      /\ chain[i].status = "APPROVED" => FullyApproved(i)
      /\ chain[i].status = "REJECTED" =>
            \E n \in Steps(i) :
               /\ chain[i].steps[n].status = "REJECTED"
               /\ \A k \in Steps(i) \ {n} :
                    chain[i].steps[k].status = IF k < n THEN "APPROVED" ELSE "PENDING"
<1>1. ChainType /\ \A i \in Chain : Fine(i) /\ SoundSteps(i) /\ Len(chain[i].steps) \in Nat
  BY LenProperties DEF ChainInv, ChainConsistent, ChainType, ChainRecord
<1>n. \A i \in Chain : NoSteps(i)'
  BY ChainStep DEF ChainInv, NoSteps, Steps, Started, DecidedBy, Dropped, Verdict
<1> SUFFICES ASSUME NEW i \in Chain PROVE Fine(i)' /\ SoundSteps(i)'
  BY <1>1, <1>n, ChainStep DEF ChainInv, ChainConsistent
<1>2. CASE chain'[i] = chain[i]
  BY <1>1, <1>2 DEF ApprovedUpTo, FullyApproved, SoundSteps, Steps
<1>3. CASE Started(i)
  <2>1. 0 \in 0..(Len(chain'[i].steps) - 1) /\ ApprovedUpTo(i, 0)'
    BY <1>3 DEF Started, ApprovedUpTo, Steps
  <2> QED BY <1>3, <2>1 DEF Started, SoundSteps, Steps
<1>4. CASE Dropped(i)
  <2>1. /\ chain[i].status = "PENDING" /\ chain'[i].status = "CANCELLED"
        /\ chain'[i].steps = chain[i].steps
    BY <1>4 DEF Dropped, Open
  <2>2. SoundSteps(i)'
    BY <1>1, <2>1 DEF SoundSteps, Steps
  <2>3. PICK n \in 0..(Len(chain[i].steps) - 1) : ApprovedUpTo(i, n)
    BY <1>1, <2>1
  <2>4. ApprovedUpTo(i, n)'
    BY <2>1, <2>3 DEF ApprovedUpTo, Steps
  <2> QED BY <2>1, <2>2, <2>4
<1>5. ASSUME NEW k \in Steps(i), NEW u \in User, NEW approved \in BOOLEAN,
             DecidedBy(i, k, u, approved)
      PROVE  Fine(i)' /\ SoundSteps(i)'
  <2> DEFINE len == Len(chain[i].steps)
  <2>0. SoundSteps(i)
    BY <1>1
  <2>1. PICK n \in 0..(len - 1) : ApprovedUpTo(i, n)
    BY <1>1, <1>5 DEF DecidedBy, Open
  <2>2. k = n + 1 /\ len \in Nat /\ Steps(i) = 1..len
    BY <1>1, <1>5, <2>1, CurrentStep DEF DecidedBy, Steps
  <2>3. /\ Steps(i)' = Steps(i) /\ Len(chain'[i].steps) = len
        /\ \A j \in Steps(i) \ {k} : chain'[i].steps[j] = chain[i].steps[j]
    BY <1>5 DEF DecidedBy, Steps
  <2>4. \A j \in Steps(i) \ {k} :
           chain'[i].steps[j].status = IF j < k THEN "APPROVED" ELSE "PENDING"
    BY <2>1, <2>2, <2>3 DEF ApprovedUpTo
  <2>5. CASE ~approved
    <3>1. /\ chain'[i].steps[k].status = "REJECTED"
          /\ chain'[i].status = "REJECTED"
      BY <1>5, <2>5 DEF DecidedBy, Verdict
    <3>2. SoundSteps(i)'
      <4>1. \A j \in Steps(i) : chain'[i].steps[j].status = "APPROVED" =>
                                chain'[i].steps[j] = chain[i].steps[j]
        BY <2>3, <3>1
      <4> QED BY SMTT(30), <2>0, <2>3, <4>1 DEF SoundSteps
    <3> QED BY <2>3, <2>4, <3>1, <3>2
  <2>6. CASE approved
    <3>1. /\ chain'[i].steps[k].status = "APPROVED"
          /\ chain'[i].steps[k].actor = u
          /\ u \in chain'[i].steps[k].may
          /\ u # Requester
          /\ chain'[i].status = IF k = len THEN "APPROVED" ELSE "PENDING"
      BY <1>5, <2>6 DEF DecidedBy, Verdict, MayDecide
    <3>2. \A j \in Steps(i) : chain[i].steps[j].status = "APPROVED" =>
                                chain[i].steps[j].actor # u
      BY <1>5, <2>6 DEF DecidedBy, MayDecide
    <3>3. SoundSteps(i)'
      <4> SUFFICES ASSUME NEW j \in Steps(i), chain'[i].steps[j].status = "APPROVED"
                   PROVE  /\ chain'[i].steps[j].actor \in chain'[i].steps[j].may \ {Requester}
                          /\ \A m \in Steps(i) \ {j} :
                               chain'[i].steps[m].status = "APPROVED" =>
                                 chain'[i].steps[m].actor # chain'[i].steps[j].actor
        BY <2>3 DEF SoundSteps
      <4>1. CASE j = k
        BY <2>3, <3>1, <3>2, <4>1
      <4>2. CASE j # k
        BY <2>0, <2>3, <3>1, <3>2, <4>2 DEF SoundSteps
      <4> QED BY <4>1, <4>2
    <3>4. CASE k = len
      <4>1. \A j \in Steps(i) : chain'[i].steps[j].status = "APPROVED"
        BY <2>2, <2>4, <3>1, <3>4
      <4>2. FullyApproved(i)'
        BY <2>3, <3>3, <4>1 DEF FullyApproved, SoundSteps
      <4> QED BY <3>1, <3>3, <3>4, <4>2
    <3>5. CASE k # len
      <4>1. k \in 0..(len - 1)
        BY <2>2, <3>5
      <4>2. ApprovedUpTo(i, k)'
        BY <2>2, <2>3, <2>4, <3>1 DEF ApprovedUpTo
      <4> QED BY <2>3, <3>1, <3>3, <3>5, <4>1, <4>2
    <3> QED BY <3>4, <3>5
  <2> QED BY <2>5, <2>6
<1> QED BY <1>1, <1>2, <1>3, <1>4, <1>5, ChainStep

-----------------------------------------------------------------------------
(* The inductive invariant of Approval *)

Visible(i) == chain[i].status # "NONE"
SomeDecision ==
    \E i \in Chain : \E k \in Steps(i) : chain[i].steps[k].status # "PENDING"
SomeApproval == \E i \in Chain : chain[i].status = "APPROVED"

\* What a handler has read remains true of the chains until it uses it: a
\* step nobody has claimed since may still be decided by whom it was checked.
ChecksHold(i, k, u, approved) ==
    /\ i \in Chain /\ k \in Steps(i) /\ u \in User
    /\ \A j \in 1..(k - 1) : chain[i].steps[j].status # "PENDING"
    /\ Claimable(i, k) => MayDecide(i, k, u, approved)

CallFacts(c) ==
    LET x == call[c] IN
    /\ x.at = "insert" => /\ x.i \in 1..made
                          /\ chain[x.i].status = "NONE"
    /\ x.at = "relook" => \E j \in Chain : Visible(j)
    /\ x.at = "drop" => /\ x.i \in Chain /\ Visible(x.i)
                        /\ x.k \in Steps(x.i)
                        /\ \A j \in x.extra : x.i < j
    /\ x.at = "check" => /\ x.i \in Chain /\ Visible(x.i)
                         /\ x.k \in Steps(x.i)
                         /\ x.by \in User
    /\ x.at = "claim" => Visible(x.i) /\ ChecksHold(x.i, x.k, x.by, x.approved)
    /\ x.at \in {"outcome", "apply"} => SomeDecision
    /\ x.at # "apply" => x.outcome = "PENDING"
    /\ x.at = "apply" /\ x.outcome = "APPROVED" => SomeApproval

OwnChains ==
    \A c, d \in Call :
        call[c].at = "insert" /\ call[d].at = "insert" /\ call[c].i = call[d].i => c = d

\* A dropped chain has an older one that is not.
DroppedForOlder ==
    \A i \in Chain : chain[i].status = "CANCELLED" =>
        \E j \in 1..(i - 1) : chain[j].status \in StepStatus

Numbered == \A i \in Chain : Visible(i) => i <= made /\ Len(chain[i].steps) # 0

RequestInv ==
    /\ req = "APPROVED" => SomeApproval
    /\ req = "PENDING_APPROVAL" => SomeDecision

IInv ==
    /\ TypeOK
    /\ ChainInv
    /\ \A c \in Call : CallFacts(c)
    /\ OwnChains
    /\ DroppedForOlder
    /\ Numbered
    /\ RequestInv

-----------------------------------------------------------------------------
(* What the steps of the chains preserve *)

LEMMA ChainKeeps ==
    ASSUME ChainInv, ChainNext \/ chain' = chain, NEW i \in Chain, Visible(i)
    PROVE  /\ Visible(i)'
           /\ Steps(i)' = Steps(i) /\ Len(chain'[i].steps) = Len(chain[i].steps)
           /\ \A k \in Steps(i) : chain[i].steps[k].status # "PENDING" =>
                chain'[i].steps[k] = chain[i].steps[k]
           /\ chain[i].status = "APPROVED" => chain'[i].status = "APPROVED"
<1>1. CASE chain'[i] = chain[i]
  BY <1>1 DEF Visible, Steps
<1>2. CASE Dropped(i)
  BY <1>2 DEF Dropped, Open, Visible, Steps
<1>3. ASSUME NEW k \in Steps(i), NEW u \in User, NEW approved \in BOOLEAN,
             DecidedBy(i, k, u, approved)
      PROVE  /\ Visible(i)'
             /\ Steps(i)' = Steps(i) /\ Len(chain'[i].steps) = Len(chain[i].steps)
             /\ \A j \in Steps(i) : chain[i].steps[j].status # "PENDING" =>
                  chain'[i].steps[j] = chain[i].steps[j]
             /\ chain[i].status # "APPROVED"
  BY <1>3 DEF DecidedBy, Verdict, Open, IsCurrent, Visible, Steps
<1> QED BY <1>1, <1>2, <1>3, ChainStep DEF ChainInv, Visible, Started

LEMMA SomeKeeps ==
    ASSUME ChainInv, ChainNext \/ chain' = chain
    PROVE  /\ SomeDecision => SomeDecision'
           /\ SomeApproval => SomeApproval'
<1>1. ASSUME NEW i \in Chain, NEW k \in Steps(i), chain[i].steps[k].status # "PENDING"
      PROVE  SomeDecision'
  <2>1. Visible(i)
    BY <1>1 DEF ChainInv, NoSteps, Visible
  <2> QED BY <1>1, <2>1, ChainKeeps DEF SomeDecision
<1>2. ASSUME NEW i \in Chain, chain[i].status = "APPROVED" PROVE SomeApproval'
  BY <1>2, ChainKeeps DEF SomeApproval, Visible
<1> QED BY <1>1, <1>2 DEF SomeDecision, SomeApproval

LEMMA ChecksKeep ==
    ASSUME ChainInv, ChainNext \/ chain' = chain, NEW i, NEW k, NEW u, NEW approved,
           Visible(i), ChecksHold(i, k, u, approved)
    PROVE  ChecksHold(i, k, u, approved)'
<1>1. i \in Chain /\ k \in Steps(i) /\ u \in User
  BY DEF ChecksHold
<1>2. Len(chain[i].steps) \in Nat /\ k \in 1..Len(chain[i].steps)
  BY <1>1, LenProperties DEF ChainInv, ChainType, ChainRecord, Steps
<1>3. \A j \in 1..(k - 1) : j \in Steps(i)
  BY <1>2 DEF Steps
<1>4. Steps(i)' = Steps(i) /\ \A j \in 1..(k - 1) : chain'[i].steps[j].status # "PENDING"
  BY <1>1, <1>3, ChainKeeps DEF ChecksHold
<1>5. Claimable(i, k)' => MayDecide(i, k, u, approved)'
  <2>1. CASE chain'[i] = chain[i]
    BY <2>1 DEF ChecksHold, Claimable, MayDecide, Open, Steps
  <2>2. CASE Dropped(i)
    BY <2>2 DEF Dropped, Claimable, Open
  <2>3. ASSUME NEW m \in Steps(i), NEW v \in User, NEW yes \in BOOLEAN,
               DecidedBy(i, m, v, yes)
        PROVE  ~Claimable(i, k)'
    <3>1. chain[i].steps[m].status = "PENDING" /\ chain'[i].steps[m].status # "PENDING"
          /\ \A j \in 1..(m - 1) : chain[i].steps[j].status # "PENDING"
      BY <2>3 DEF DecidedBy, IsCurrent
    <3>2. CASE chain[i].steps[k].status # "PENDING"
      BY <3>2, <1>1, ChainKeeps DEF Claimable
    <3>3. CASE chain[i].steps[k].status = "PENDING"
      <4>1. m = k
        BY <3>1, <3>3, <1>2 DEF ChecksHold, Steps
      <4> QED BY <3>1, <4>1 DEF Claimable
    <3> QED BY <3>2, <3>3
  <2> QED BY <2>1, <2>2, <2>3, <1>1, ChainStep DEF ChainInv, Visible, Started
<1> QED BY <1>1, <1>4, <1>5 DEF ChecksHold

\* The other handlers' facts survive a step.
LEMMA CallsKept ==
    ASSUME IInv, ChainNext \/ chain' = chain, NEW d \in Call, call'[d] = call[d],
           made' \in Nat, made <= made',
           call[d].at = "insert" => chain'[call[d].i].status = "NONE"
    PROVE  CallFacts(d)'
<1>1. ChainInv /\ CallFacts(d) /\ made \in Nat
  BY DEF IInv, TypeOK
<1>2. CASE call[d].at = "insert"
  BY <1>1, <1>2 DEF CallFacts
<1>3. CASE call[d].at = "relook"
  BY <1>1, <1>3, ChainKeeps DEF CallFacts
<1>4. CASE call[d].at \in {"drop", "check"}
  BY <1>1, <1>4, ChainKeeps DEF CallFacts
<1>5. CASE call[d].at = "claim"
  <2>1. Visible(call[d].i) /\ ChecksHold(call[d].i, call[d].k, call[d].by, call[d].approved)
    BY <1>1, <1>5 DEF CallFacts
  <2>2. call[d].i \in Chain
    BY <2>1 DEF ChecksHold
  <2>3. ChecksHold(call[d].i, call[d].k, call[d].by, call[d].approved)'
    <3>1. PICK i, k, u, a : /\ i = call[d].i /\ k = call[d].k /\ u = call[d].by
                            /\ a = call[d].approved
      OBVIOUS
    <3>2. ChecksHold(i, k, u, a)'
      BY <1>1, <2>1, <3>1, ChecksKeep
    <3>3. /\ call'[d].i = i /\ call'[d].k = k /\ call'[d].by = u
          /\ call'[d].approved = a
      BY <3>1
    <3> QED BY <3>2, <3>3 DEF ChecksHold, Claimable, MayDecide, Open, Steps
  <2>4. Visible(call[d].i)'
    BY <1>1, <2>1, <2>2, ChainKeeps DEF Visible
  <2>5. call'[d].at = "claim" /\ call'[d].outcome = "PENDING"
    BY <1>1, <1>5 DEF CallFacts
  <2> QED BY <2>3, <2>4, <2>5 DEF CallFacts
<1>6. CASE call[d].at \in {"outcome", "apply"}
  <2>1. /\ SomeDecision'
        /\ call[d].at = "apply" /\ call[d].outcome = "APPROVED" => SomeApproval'
        /\ call[d].at # "apply" => call[d].outcome = "PENDING"
    BY <1>1, <1>6, SomeKeeps DEF CallFacts
  <2> QED BY <1>6, <2>1 DEF CallFacts
<1>7. CASE call[d].at \notin {"insert", "relook", "drop", "check", "claim", "outcome", "apply"}
  BY <1>1, <1>7 DEF CallFacts
<1> QED BY <1>2, <1>3, <1>4, <1>5, <1>6, <1>7

-----------------------------------------------------------------------------
(* Type correctness *)

\* A step of a handler writes its own record.
HandlerStep(c) ==
    \/ Submit(c)
    \/ \E u \in User, approved \in BOOLEAN : Approve(c, u, approved)
    \/ Look(c) \/ Start(c) \/ Insert(c) \/ Relook(c) \/ Drop(c)
    \/ Check(c) \/ Claim(c) \/ ReadOutcome(c) \/ Apply(c) \/ ApplyFails(c)

LEMMA IdleType == Idle \in CallRecord
BY DEF Idle, CallRecord, Point, Outcome

LEMMA GoesType ==
    ASSUME TypeOK, NEW c \in Call, NEW point \in Point, Goes(c, point)
    PROVE  /\ call' \in [Call -> CallRecord]
           /\ \A d \in Call \ {c} : call'[d] = call[d]
           /\ call'[c] = [at |-> point, by |-> call[c].by, approved |-> call[c].approved,
                          i |-> call[c].i, k |-> call[c].k, extra |-> call[c].extra,
                          outcome |-> call[c].outcome]
BY DEF TypeOK, Goes, CallRecord

LEMMA EndsType ==
    ASSUME TypeOK, NEW c \in Call, Ends(c)
    PROVE  /\ call' \in [Call -> CallRecord]
           /\ \A d \in Call \ {c} : call'[d] = call[d]
           /\ call'[c] = Idle
BY IdleType DEF TypeOK, Ends

\* Keep leaves the handler done, or with the oldest open chain, its current
\* step and the younger open ones.
Kept(c) ==
    \/ call'[c] = Idle
    \/ /\ call'[c].i \in Open
       /\ call'[c].k \in Steps(call'[c].i)
       /\ \A j \in call'[c].extra : call'[c].i < j
       /\ call'[c].at = "drop" \/ (call'[c].at = "check" /\ call'[c].by \in User)

LEMMA KeepType ==
    ASSUME TypeOK, NEW c \in Call, Keep(c)
    PROVE  /\ call' \in [Call -> CallRecord]
           /\ \A d \in Call \ {c} : call'[d] = call[d]
           /\ Kept(c)
<1> DEFINE Writes(i, k) ==
        /\ Oldest(i, Open)
        /\ IF Open = {i} /\ call[c].by = NoUser
           THEN Ends(c)
           ELSE call' = [call EXCEPT ![c] =
                  [@ EXCEPT !.at = IF Open = {i} THEN "check" ELSE "drop",
                            !.i = i, !.k = k, !.extra = Extras(i)]]
<1>a. PICK i \in Open : \E k \in Steps(i) : Writes(i, k)
  BY DEF Keep
<1>1. PICK k \in Steps(i) : Writes(i, k)
  BY <1>a
<1>2. CASE Open = {i} /\ call[c].by = NoUser
  BY <1>1, <1>2, EndsType DEF Kept
<1>3. CASE ~(Open = {i} /\ call[c].by = NoUser)
  <2> DEFINE x == [at |-> IF Open = {i} THEN "check" ELSE "drop", by |-> call[c].by,
                   approved |-> call[c].approved, i |-> i, k |-> k,
                   extra |-> Extras(i), outcome |-> call[c].outcome]
  <2>1. call[c] \in CallRecord
    BY DEF TypeOK
  <2>2. i \in Chain /\ k \in Nat /\ Open \subseteq Chain /\ \A j \in Extras(i) : i < j
    BY <1>1 DEF Open, Steps, Chain, Extras, Oldest
  <2>3. x \in CallRecord
    BY <2>1, <2>2 DEF CallRecord, Point, Extras
  <2>4. call' = [call EXCEPT ![c] = x]
    BY <1>1, <1>3, <2>1 DEF CallRecord
  <2>5. /\ call' \in [Call -> CallRecord] /\ call'[c] = x
        /\ \A d \in Call \ {c} : call'[d] = call[d]
    BY <2>3, <2>4 DEF TypeOK
  <2>6. Open = {i} => call[c].by \in User
    BY <2>1, <1>3 DEF CallRecord
  <2> QED BY <1>1, <2>2, <2>5, <2>6 DEF Kept
<1> QED BY <1>2, <1>3

\* The records the other steps write.
LEMMA HandlerType ==
    ASSUME TypeOK, NEW c \in Call, HandlerStep(c)
    PROVE  /\ call' \in [Call -> CallRecord]
           /\ \A d \in Call \ {c} : call'[d] = call[d]
<1> USE DEF Point
<1>1. CASE Submit(c)
  BY <1>1, GoesType DEF Submit
<1>2. ASSUME NEW u \in User, NEW approved \in BOOLEAN, Approve(c, u, approved)
      PROVE  /\ call' \in [Call -> CallRecord]
             /\ \A d \in Call \ {c} : call'[d] = call[d]
  BY <1>2 DEF Approve, TypeOK, CallRecord, Idle, Outcome
<1>3. CASE Look(c)
  BY <1>3, GoesType, KeepType DEF Look
<1>4. CASE Start(c)
  <2>1. made + 1 \in Chain
    BY <1>4, ChainAssumption DEF Start, TypeOK, Chain
  <2> QED BY ZenonT(60), <1>4, <2>1 DEF Start, TypeOK, CallRecord
<1>5. CASE Insert(c)
  BY <1>5, GoesType DEF Insert
<1>6. CASE Relook(c)
  BY <1>6, GoesType, EndsType, KeepType DEF Relook
<1>7. CASE Drop(c)
  BY <1>7, GoesType, EndsType DEF Drop
<1>8. CASE Check(c)
  BY <1>8, GoesType, EndsType DEF Check
<1>9. CASE Claim(c)
  BY <1>9, GoesType, EndsType DEF Claim
<1>10. CASE ReadOutcome(c)
  <2>1. PICK i \in Chain :
          call' = [call EXCEPT ![c] =
            [@ EXCEPT !.at = "apply", !.outcome = OutcomeOf(chain[i].status)]]
    BY <1>10 DEF ReadOutcome
  <2>2. OutcomeOf(chain[i].status) \in Outcome
    BY DEF OutcomeOf, Outcome
  <2> QED BY ZenonT(60), <2>1, <2>2 DEF TypeOK, CallRecord
<1>11. CASE Apply(c) \/ ApplyFails(c)
  BY <1>11, EndsType DEF Apply, ApplyFails
<1> QED BY <1>1, <1>2, <1>3, <1>4, <1>5, <1>6, <1>7, <1>8, <1>9, <1>10, <1>11 DEF HandlerStep

LEMMA HandlerFrame ==
    ASSUME TypeOK, NEW c \in Call, HandlerStep(c)
    PROVE  /\ made' \in 0..MaxChain /\ made <= made'
           /\ req' \in RequestStatus
<1>1. made' = made \/ (made' = made + 1 /\ made < MaxChain)
  BY DEF HandlerStep, Submit, Approve, Look, Start, Insert, Relook, Drop,
     Check, Claim, ReadOutcome, Apply, ApplyFails
<1>2. req' \in RequestStatus
  <2>1. CASE req' = req \/ req' = "SUBMITTED"
    BY <2>1 DEF TypeOK, RequestStatus, Reviewable
  <2>2. CASE Apply(c)
    <3>1. call[c].outcome \in Outcome
      BY DEF TypeOK, CallRecord
    <3> QED BY <2>2, <3>1 DEF Apply, Claimed, ToStatus, Outcome, TypeOK, RequestStatus, Reviewable
  <2> QED BY <2>1, <2>2 DEF HandlerStep, Submit, Approve, Look, Start, Insert, Relook, Drop,
             Check, Claim, ReadOutcome, ApplyFails
<1>3. made \in 0..MaxChain
  BY DEF TypeOK
<1> QED BY <1>1, <1>2, <1>3, ChainAssumption

-----------------------------------------------------------------------------
(* Every step of Approval is one of the chains' or leaves them alone *)

\* The chain a handler inserts is its own.
LEMMA InsertStep ==
    ASSUME IInv, NEW c \in Call, Insert(c)
    PROVE  /\ ChainNext
           /\ call[c].i \in 1..made /\ call[c].i \in Chain
           /\ chain'[call[c].i].status = "PENDING"
           /\ Len(chain'[call[c].i].steps) # 0
           /\ \A i \in Chain \ {call[c].i} : chain'[i] = chain[i]
<1>1. call[c].i \in 1..made /\ call[c].i \in Chain
  BY ChainAssumption DEF IInv, CallFacts, Insert, TypeOK, Chain
<1>2. PICK rule \in Rules : StartChain(call[c].i, rule)
  BY DEF Insert
<1>3. ChainNext
  BY <1>1, <1>2 DEF ChainNext
<1> QED BY <1>1, <1>2, <1>3, NewChainSteps DEF StartChain, IInv, TypeOK

LEMMA ClaimStep ==
    ASSUME IInv, NEW c \in Call, Claim(c), Claimable(call[c].i, call[c].k)
    PROVE  /\ ChainNext
           /\ call[c].i \in Open /\ call[c].k \in Steps(call[c].i)
           /\ \A j \in Chain \ {call[c].i} : chain'[j] = chain[j]
           /\ chain'[call[c].i].steps[call[c].k].status # "PENDING"
           /\ chain'[call[c].i].status \in StepStatus
           /\ Len(chain'[call[c].i].steps) = Len(chain[call[c].i].steps)
<1> DEFINE i == call[c].i
           k == call[c].k
<1>1. ChecksHold(i, k, call[c].by, call[c].approved)
  BY DEF IInv, CallFacts, Claim
<1>2. IsCurrent(i, k) /\ i \in Open /\ MayDecide(i, k, call[c].by, call[c].approved)
  BY <1>1 DEF ChecksHold, IsCurrent, Claimable
<1>3. chain' = Decided(i, k, call[c].by, call[c].approved)
  BY DEF Claim
<1>4. /\ i \in Chain /\ k \in Steps(i) /\ call[c].by \in User
      /\ call[c].approved \in BOOLEAN
  BY <1>1 DEF ChecksHold, IInv, TypeOK, CallRecord
<1>5. Decide(i, k, call[c].by, call[c].approved)
  BY <1>2, <1>3 DEF Decide
<1>6. ChainNext
  BY <1>4, <1>5 DEF ChainNext
<1>7. /\ chain'[i] = [status |-> Verdict(i, k, call[c].approved),
                      steps |-> DecidedStep(i, k, call[c].by, call[c].approved)]
      /\ \A j \in Chain \ {i} : chain'[j] = chain[j]
  BY <1>3, <1>4 DEF Decided, IInv, TypeOK
<1>8. ChainType
  BY DEF IInv, ChainInv
<1>9. /\ chain'[i].steps[k].status # "PENDING"
      /\ Len(chain'[i].steps) = Len(chain[i].steps)
  <2> DEFINE steps == DecidedStep(i, k, call[c].by, call[c].approved)
  <2>1. chain'[i].steps = steps
    BY <1>7
  <2>2. /\ Len(steps) = Len(chain[i].steps)
        /\ steps[k] = [may |-> chain[i].steps[k].may,
                       status |-> IF call[c].approved THEN "APPROVED" ELSE "REJECTED",
                       actor |-> call[c].by]
    BY <1>4, <1>8, DecidedSteps
  <2>3. steps[k].status # "PENDING"
    BY <2>2
  <2> HIDE DEF steps
  <2> QED BY <2>1, <2>2, <2>3
<1>10. chain'[i].status \in StepStatus
  BY <1>7 DEF Verdict, StepStatus
<1> QED BY <1>2, <1>4, <1>6, <1>7, <1>9, <1>10

LEMMA DropStep ==
    ASSUME IInv, NEW c \in Call, Drop(c)
    PROVE  /\ ChainNext
           /\ call[c].i \in Chain /\ Visible(call[c].i)
           /\ \A j \in Chain :
                \/ chain'[j] = chain[j]
                \/ call[c].i < j /\ Dropped(j)
<1> DEFINE D == call[c].extra \intersect Open
<1>1. /\ call[c].i \in Chain /\ Visible(call[c].i)
      /\ \A j \in call[c].extra : call[c].i < j
  BY DEF IInv, CallFacts, Drop
<1>2. D \in SUBSET Chain /\ D \subseteq Open
  BY DEF Open
<1>3. chain' = Without(D)
  BY DEF Drop
<1>4. DropDuplicates(call[c].i, D)
  BY <1>1, <1>2, <1>3 DEF DropDuplicates, Visible
<1>5. ChainNext
  BY <1>1, <1>2, <1>4 DEF ChainNext
<1> QED BY <1>1, <1>2, <1>3, <1>5 DEF Without, Dropped, Visible

LEMMA Refines ==
    ASSUME IInv, [Next]_vars
    PROVE  ChainNext \/ chain' = chain
<1>1. ASSUME NEW c \in Call, Insert(c) \/ Drop(c) PROVE ChainNext
  BY <1>1, InsertStep, DropStep
<1>2. ASSUME NEW c \in Call, Claim(c) PROVE ChainNext \/ chain' = chain
  BY <1>2, ClaimStep DEF Claim
<1> QED BY <1>1, <1>2 DEF Next, Submit, Approve, Look, Start, Relook, Check, ReadOutcome,
           Apply, ApplyFails, Cancel, Restart, vars

-----------------------------------------------------------------------------
(* The facts handlers rely on *)

LEMMA GoesFields ==
    ASSUME IInv, NEW c \in Call, NEW point \in Point, Goes(c, point), call[c].at # "apply"
    PROVE  /\ call'[c].at = point /\ call'[c].by = call[c].by
           /\ call'[c].approved = call[c].approved
           /\ call'[c].i = call[c].i /\ call'[c].k = call[c].k
           /\ call'[c].extra = call[c].extra /\ call'[c].outcome = "PENDING"
<1>1. TypeOK /\ call[c].outcome = "PENDING"
  BY DEF IInv, CallFacts
<1>2. call'[c] = [at |-> point, by |-> call[c].by, approved |-> call[c].approved,
                  i |-> call[c].i, k |-> call[c].k, extra |-> call[c].extra,
                  outcome |-> call[c].outcome]
  BY <1>1, GoesType
<1> QED BY <1>1, <1>2

LEMMA IdleFacts ==
    ASSUME NEW c \in Call, call'[c] = Idle
    PROVE  CallFacts(c)'
BY DEF CallFacts, Idle

LEMMA KeptFacts ==
    ASSUME IInv, NEW c \in Call, Keep(c), call[c].at # "apply", chain' = chain
    PROVE  CallFacts(c)'
<1>1. Kept(c)
  BY KeepType DEF IInv
<1>2. CASE call'[c] = Idle
  BY <1>2, IdleFacts
<1>3. CASE call'[c] # Idle
  <2>1. call'[c].outcome = "PENDING"
    <3>1. call[c] \in CallRecord /\ call[c].outcome = "PENDING"
      BY DEF IInv, TypeOK, CallFacts
    <3>2. ~Ends(c)
      BY <1>3, EndsType DEF IInv
    <3>3. PICK i \in Open : \E k \in Steps(i) :
            call' = [call EXCEPT ![c] =
              [@ EXCEPT !.at = IF Open = {i} THEN "check" ELSE "drop",
                        !.i = i, !.k = k, !.extra = Extras(i)]]
      BY <3>2 DEF Keep
    <3> QED BY <3>1, <3>3 DEF CallRecord, IInv, TypeOK
  <2>2. /\ call'[c].i \in Chain /\ chain[call'[c].i].status = "PENDING"
        /\ call'[c].k \in Steps(call'[c].i)
        /\ \A j \in call'[c].extra : call'[c].i < j
        /\ call'[c].at = "drop" \/ (call'[c].at = "check" /\ call'[c].by \in User)
    BY <1>1, <1>3 DEF Kept, Open
  <2> QED BY <2>1, <2>2 DEF CallFacts, Visible, Steps
<1> QED BY <1>2, <1>3

\* Without an open chain, an existing one was decided: the oldest cannot have
\* been dropped.
LEMMA NoOpenChain ==
    ASSUME IInv, Open = {}, NEW i \in Chain, Visible(i)
    PROVE  SomeDecision
<1>1. PICK j \in Chain : chain[j].status \in {"APPROVED", "REJECTED"}
  <2>1. CASE chain[i].status = "CANCELLED"
    <3>1. PICK j \in 1..(i - 1) : chain[j].status \in StepStatus
      BY <2>1 DEF IInv, DroppedForOlder
    <3>2. j \in Chain
      BY <3>1, ChainAssumption DEF Chain
    <3> QED BY <3>1, <3>2 DEF Open, StepStatus
  <2>2. CASE chain[i].status # "CANCELLED"
    BY <2>2 DEF IInv, TypeOK, ChainRecord, ChainStatus, StepStatus, Visible, Open
  <2> QED BY <2>1, <2>2
<1>2. CASE chain[j].status = "REJECTED"
  BY <1>1, <1>2 DEF IInv, ChainInv, ChainConsistent, SomeDecision
<1>3. CASE chain[j].status = "APPROVED"
  <2>1. Len(chain[j].steps) \in Nat \ {0}
    BY <1>3, LenProperties DEF IInv, Numbered, Visible, TypeOK, ChainRecord
  <2>2. 1 \in Steps(j) /\ FullyApproved(j)
    BY <1>3, <2>1 DEF Steps, IInv, ChainInv, ChainConsistent
  <2> QED BY <2>2 DEF FullyApproved, SomeDecision
<1> QED BY <1>1, <1>2, <1>3

LEMMA OwnFacts ==
    ASSUME IInv, NEW c \in Call, HandlerStep(c)
    PROVE  CallFacts(c)'
<1> USE DEF Point
<1>0. TypeOK /\ CallFacts(c) /\ ChainInv /\ (ChainNext \/ chain' = chain)
  BY Refines DEF IInv, HandlerStep, Next
<1>1. CASE Submit(c)
  <2>1. call'[c].at = "look" /\ call'[c].outcome = "PENDING"
    BY <1>1, GoesFields DEF Submit
  <2> QED BY <2>1 DEF CallFacts
<1>2. ASSUME NEW u \in User, NEW approved \in BOOLEAN, Approve(c, u, approved)
      PROVE  CallFacts(c)'
  <2>1. call'[c].at = "look" /\ call'[c].outcome = "PENDING"
    BY <1>0, <1>2 DEF Approve, TypeOK, Idle
  <2> QED BY <2>1 DEF CallFacts
<1>3. CASE Look(c)
  <2>1. ASSUME Goes(c, "start") PROVE CallFacts(c)'
    <3>1. call'[c].at = "start" /\ call'[c].outcome = "PENDING"
      BY <1>3, <2>1, GoesFields DEF Look
    <3> QED BY <3>1 DEF CallFacts
  <2> QED BY <1>3, <2>1, KeptFacts DEF Look
<1>4. CASE Start(c)
  <2>1. /\ call'[c].at = "insert" /\ call'[c].i = made + 1
        /\ call'[c].outcome = "PENDING"
    <3>1. call[c] \in CallRecord /\ call[c].outcome = "PENDING"
      BY <1>0, <1>4 DEF Start, TypeOK, CallFacts
    <3> QED BY <1>0, <1>4, <3>1 DEF Start, TypeOK, CallRecord
  <2>2. made + 1 \in 1..made' /\ made + 1 \in Chain /\ ~(made + 1 <= made)
    BY <1>0, <1>4, ChainAssumption DEF Start, TypeOK, Chain
  <2>3. chain'[made + 1].status = "NONE"
    BY <1>4, <2>2 DEF Start, IInv, Numbered, Visible
  <2> QED BY <2>1, <2>2, <2>3 DEF CallFacts
<1>5. CASE Insert(c)
  <2>2. call'[c].at = "relook" /\ call'[c].outcome = "PENDING"
    BY <1>5, GoesFields DEF Insert
  <2>3. \E j \in Chain : Visible(j)'
    BY <1>5, InsertStep DEF Visible
  <2> QED BY <2>2, <2>3 DEF CallFacts
<1>6. CASE Relook(c)
  <2>1. ASSUME Open = {}, Goes(c, "apply") PROVE CallFacts(c)'
    <3>1. SomeDecision'
      BY <1>0, <1>6, <2>1, NoOpenChain, SomeKeeps DEF Relook, CallFacts
    <3>2. call'[c].at = "apply" /\ call'[c].outcome = "PENDING"
      <4>1. call[c].at = "relook" /\ Goes(c, "apply") /\ "apply" \in Point
        BY <1>6, <2>1 DEF Relook
      <4> QED BY <4>1, GoesFields
    <3> QED BY <3>1, <3>2 DEF CallFacts
  <2>2. ASSUME Ends(c) PROVE CallFacts(c)'
    BY <2>2, <1>0, EndsType, IdleFacts
  <2> QED BY <1>6, <2>1, <2>2, KeptFacts DEF Relook
<1>7. CASE Drop(c)
  <2>1. ASSUME Ends(c) PROVE CallFacts(c)'
    BY <2>1, <1>0, EndsType, IdleFacts
  <2>2. ASSUME Goes(c, "check"), call[c].by # NoUser PROVE CallFacts(c)'
    <3>1. /\ call'[c].at = "check" /\ call'[c].i = call[c].i
          /\ call'[c].k = call[c].k /\ call'[c].by = call[c].by
          /\ call'[c].outcome = "PENDING" /\ call[c].by \in User
      <4>1. call[c] \in CallRecord /\ call[c].at = "drop"
        BY <1>0, <1>7 DEF TypeOK, Drop
      <4>2. call[c].by \in User
        BY <4>1, <2>2 DEF CallRecord
      <4> QED BY <4>1, <4>2, <2>2, GoesFields
    <3>2. /\ call[c].i \in Chain /\ Visible(call[c].i)
          /\ call[c].k \in Steps(call[c].i)
      BY <1>0, <1>7 DEF Drop, CallFacts
    <3>3. /\ chain'[call[c].i].status # "NONE"
          /\ Len(chain'[call[c].i].steps) = Len(chain[call[c].i].steps)
      BY <1>0, <1>7, <3>2, DropStep DEF Dropped, Visible
    <3> QED BY <3>1, <3>2, <3>3 DEF CallFacts, Visible, Steps
  <2> QED BY <1>7, <2>1, <2>2 DEF Drop
<1>8. CASE Check(c)
  <2> DEFINE i == call[c].i
             k == call[c].k
             u == call[c].by
             a == call[c].approved
  <2>1. ASSUME Ends(c) PROVE CallFacts(c)'
    BY <2>1, <1>0, EndsType, IdleFacts
  <2>2. ASSUME Goes(c, "claim"), IsCurrent(i, k), MayDecide(i, k, u, a)
        PROVE  CallFacts(c)'
    <3>1. ChecksHold(i, k, u, a) /\ Visible(i)
      BY <1>0, <1>8, <2>2 DEF Check, CallFacts, ChecksHold, IsCurrent
    <3>2. /\ call'[c].at = "claim" /\ call'[c].i = i /\ call'[c].k = k
          /\ call'[c].by = u /\ call'[c].approved = a
          /\ call'[c].outcome = "PENDING" /\ chain' = chain
      BY <1>8, <2>2, GoesFields DEF Check
    <3> HIDE DEF i, k, u, a
    <3> QED BY <3>1, <3>2
        DEF CallFacts, ChecksHold, Claimable, MayDecide, Visible, Open, Steps
  <2> QED BY <1>8, <2>1, <2>2 DEF Check
<1>9. CASE Claim(c)
  <2>1. ASSUME Ends(c) PROVE CallFacts(c)'
    BY <2>1, <1>0, EndsType, IdleFacts
  <2>2. ASSUME Claimable(call[c].i, call[c].k), Goes(c, "outcome") PROVE CallFacts(c)'
    <3>1. call[c].i \in Chain /\ call[c].k \in 1..Len(chain'[call[c].i].steps)
      BY <1>9, <2>2, ClaimStep DEF Open, Steps
    <3>2. SomeDecision'
      <4>1. PICK i, k : i = call[c].i /\ k = call[c].k
        OBVIOUS
      <4>2. i \in Chain /\ k \in Steps(i)' /\ chain'[i].steps[k].status # "PENDING"
        BY <1>9, <2>2, <3>1, <4>1, ClaimStep DEF Steps
      <4> QED BY <4>2 DEF SomeDecision
    <3>3. call'[c].at = "outcome" /\ call'[c].outcome = "PENDING"
      BY <1>9, <2>2, GoesFields DEF Claim
    <3> QED BY <3>2, <3>3 DEF CallFacts
  <2> QED BY <1>9, <2>1, <2>2 DEF Claim
<1>10. CASE ReadOutcome(c)
  <2>1. PICK i \in Chain :
          call' = [call EXCEPT ![c] =
            [@ EXCEPT !.at = "apply", !.outcome = OutcomeOf(chain[i].status)]]
    BY <1>10 DEF ReadOutcome
  <2>2. call'[c].at = "apply" /\ call'[c].outcome = OutcomeOf(chain[i].status)
    BY <1>0, <2>1 DEF TypeOK, CallRecord
  <2>3. OutcomeOf(chain[i].status) = "APPROVED" => SomeApproval'
    BY <1>10 DEF OutcomeOf, SomeApproval, ReadOutcome
  <2>4. SomeDecision'
    BY <1>0, <1>10, SomeKeeps DEF CallFacts, ReadOutcome
  <2> QED BY <2>2, <2>3, <2>4 DEF CallFacts
<1>11. CASE Apply(c) \/ ApplyFails(c)
  BY <1>11, <1>0, EndsType, IdleFacts DEF Apply, ApplyFails
<1> QED BY <1>1, <1>2, <1>3, <1>4, <1>5, <1>6, <1>7, <1>8, <1>9, <1>10, <1>11 DEF HandlerStep

-----------------------------------------------------------------------------
(* The invariant is inductive *)

LEMMA InvInit == Init => IInv
<1> SUFFICES ASSUME Init PROVE IInv
  OBVIOUS
<1>1. ChainInv /\ \A i \in Chain : chain[i] = NoChain
  BY ChainInvInit DEF Init, ChainInit
<1>2. TypeOK
  BY <1>1, IdleType, ChainAssumption DEF Init, TypeOK, ChainInv, ChainType, RequestStatus
<1>3. \A c \in Call : CallFacts(c) /\ call[c].at = "idle"
  BY DEF Init, CallFacts, Idle
<1>4. \A i \in Chain : chain[i].status = "NONE"
  BY <1>1 DEF NoChain
<1>5. OwnChains /\ DroppedForOlder /\ Numbered /\ RequestInv
  BY <1>3, <1>4 DEF Init, OwnChains, DroppedForOlder, Numbered, Visible, RequestInv
<1> QED BY <1>1, <1>2, <1>3, <1>5 DEF IInv

LEMMA NoneStays ==
    ASSUME IInv, NEW c \in Call, HandlerStep(c), NEW i \in Chain, chain[i].status = "NONE",
           ~(call[c].at = "insert" /\ call[c].i = i)
    PROVE  chain'[i].status = "NONE"
<1>1. CASE chain' = chain
  BY <1>1
<1>2. CASE Insert(c)
  BY <1>2, InsertStep DEF Insert
<1>3. CASE Claim(c)
  BY <1>3, ClaimStep DEF Claim, Open
<1>4. CASE Drop(c)
  BY <1>4, DropStep DEF Dropped, Open
<1> QED BY <1>1, <1>2, <1>3, <1>4 DEF HandlerStep, Submit, Approve, Look, Start, Relook,
           Check, ReadOutcome, Apply, ApplyFails

LEMMA FactsKept ==
    ASSUME IInv, NEW c \in Call, HandlerStep(c)
    PROVE  \A d \in Call : CallFacts(d)'
<1>1. TypeOK /\ (ChainNext \/ chain' = chain)
  BY Refines DEF IInv, HandlerStep, Next
<1>2. made' \in Nat /\ made <= made'
  BY <1>1, HandlerFrame
<1>3. ASSUME NEW d \in Call \ {c} PROVE CallFacts(d)'
  <2>1. call'[d] = call[d]
    BY <1>1, HandlerType
  <2>2. ASSUME call[d].at = "insert" PROVE chain'[call[d].i].status = "NONE"
    <3>1. /\ call[d].i \in 1..made /\ chain[call[d].i].status = "NONE"
          /\ call[c].at = "insert" => call[c].i # call[d].i
      BY <2>2 DEF IInv, CallFacts, OwnChains
    <3>2. call[d].i \in Chain
      BY <1>1, <3>1, ChainAssumption DEF TypeOK, Chain
    <3> QED BY <3>1, <3>2, NoneStays
  <2> QED BY <1>1, <1>2, <2>1, <2>2, CallsKept
<1> QED BY <1>3, OwnFacts

LEMMA OwnChainsKept ==
    ASSUME IInv, NEW c \in Call, HandlerStep(c)
    PROVE  OwnChains'
<1>1. TypeOK /\ OwnChains /\ \A d \in Call \ {c} : call'[d] = call[d]
  BY HandlerType DEF IInv
<1>2. CASE Start(c)
  <2>1. call'[c].i = made + 1
    BY <1>1, <1>2 DEF Start, TypeOK, CallRecord
  <2>2. \A d \in Call \ {c} : call[d].at = "insert" => call[d].i # made + 1
    BY DEF IInv, CallFacts, TypeOK
  <2> QED BY <1>1, <2>1, <2>2 DEF OwnChains
<1>3. CASE ~Start(c)
  <2>1. call'[c].at # "insert"
    <3>1. ASSUME NEW point \in Point \ {"insert"}, Goes(c, point) PROVE call'[c].at # "insert"
      <4>1. point \in Point /\ point # "insert"
        BY <3>1
      <4>2. TypeOK /\ Goes(c, point)
        BY <1>1, <3>1
      <4>3. call'[c].at = point
        BY <4>2 DEF Goes, TypeOK, CallRecord
      <4> QED BY <4>1, <4>3
    <3>2. ASSUME Ends(c) PROVE call'[c].at # "insert"
      BY <1>1, <3>2, EndsType DEF Idle
    <3>3. ASSUME Keep(c) PROVE call'[c].at # "insert"
      BY <1>1, <3>3, KeepType DEF Kept, Idle
    <3>4. ASSUME NEW u \in User, NEW approved \in BOOLEAN, Approve(c, u, approved)
          PROVE  call'[c].at # "insert"
      BY <1>1, <3>4 DEF Approve, TypeOK, Idle
    <3>5. ASSUME ReadOutcome(c) PROVE call'[c].at # "insert"
      BY <1>1, <3>5 DEF ReadOutcome, TypeOK, CallRecord
    <3>6. {"look", "start", "relook", "check", "claim", "outcome", "apply"}
            \subseteq Point \ {"insert"}
      BY DEF Point
    <3> QED BY <1>3, <3>1, <3>2, <3>3, <3>4, <3>5, <3>6
        DEF HandlerStep, Submit, Look, Insert, Relook, Drop, Check, Claim, Apply, ApplyFails
  <2> QED BY <1>1, <2>1 DEF OwnChains
<1> QED BY <1>2, <1>3

LEMMA ChainsKept ==
    ASSUME IInv, NEW c \in Call, HandlerStep(c)
    PROVE  DroppedForOlder' /\ Numbered'
<1>0. /\ TypeOK /\ DroppedForOlder /\ Numbered
      /\ made \in Nat /\ made' \in Nat /\ made <= made'
  BY HandlerFrame DEF IInv, TypeOK
<1>a. \A i \in Chain : \A j \in 1..(i - 1) : j \in Chain
  BY ChainAssumption DEF Chain
<1>1. CASE chain' = chain
  BY <1>0, <1>1 DEF DroppedForOlder, Numbered, Visible, Chain
<1>2. CASE Insert(c)
  <2> DEFINE n == call[c].i
  <2>1. /\ n \in 1..made /\ n \in Chain /\ chain[n].status = "NONE"
        /\ chain'[n].status = "PENDING" /\ Len(chain'[n].steps) # 0
        /\ \A i \in Chain \ {n} : chain'[i] = chain[i]
    BY <1>2, InsertStep DEF IInv, CallFacts, Insert
  <2> HIDE DEF n
  <2>2. DroppedForOlder'
    BY <1>0, <1>a, <2>1 DEF DroppedForOlder, StepStatus
  <2>3. Numbered'
    BY <1>0, <2>1 DEF Numbered, Visible, Chain
  <2> QED BY <2>2, <2>3
<1>3. CASE Claim(c) /\ Claimable(call[c].i, call[c].k)
  <2> DEFINE n == call[c].i
  <2>1. /\ n \in Chain /\ chain[n].status = "PENDING" /\ chain'[n].status \in StepStatus
        /\ Len(chain'[n].steps) = Len(chain[n].steps)
        /\ \A i \in Chain \ {n} : chain'[i] = chain[i]
    BY <1>3, ClaimStep DEF Open
  <2> HIDE DEF n
  <2>2. DroppedForOlder'
    BY <1>0, <1>a, <2>1 DEF DroppedForOlder, StepStatus
  <2>3. Numbered'
    BY <1>0, <2>1 DEF Numbered, Visible, Chain
  <2> QED BY <2>2, <2>3
<1>4. CASE Drop(c)
  <2> DEFINE n == call[c].i
  <2>1. /\ n \in Chain /\ Visible(n)
        /\ \A j \in Chain : \/ chain'[j] = chain[j]
                            \/ /\ n < j /\ chain[j].status = "PENDING"
                               /\ chain'[j].status = "CANCELLED"
                               /\ chain'[j].steps = chain[j].steps
    BY <1>4, DropStep DEF Dropped, Open
  <2> HIDE DEF n
  <2>2. \E j \in 1..n : chain[j].status \in StepStatus
    <3>1. CASE chain[n].status = "CANCELLED"
      BY <1>0, <2>1, <3>1 DEF DroppedForOlder, Chain
    <3>2. CASE chain[n].status # "CANCELLED"
      BY <1>0, <2>1, <3>2 DEF Visible, TypeOK, ChainRecord, ChainStatus, Chain
    <3> QED BY <3>1, <3>2
  <2>3. PICK j \in 1..n : chain[j].status \in StepStatus
    BY <2>2
  <2>4. j \in Chain /\ chain'[j].status \in StepStatus
    BY <2>1, <2>3, ChainAssumption DEF Chain
  <2>5. DroppedForOlder'
    <3> SUFFICES ASSUME NEW i \in Chain, chain'[i].status = "CANCELLED"
                 PROVE  \E m \in 1..(i - 1) : chain'[m].status \in StepStatus
      BY DEF DroppedForOlder
    <3>1. CASE n < i
      BY <2>1, <2>3, <2>4, <3>1 DEF Chain
    <3>2. CASE ~(n < i)
      <4>1. chain[i].status = "CANCELLED"
        BY <2>1, <3>2
      <4>2. PICK m \in 1..(i - 1) : chain[m].status \in StepStatus
        BY <1>0, <4>1 DEF DroppedForOlder
      <4>3. m \in Chain /\ ~(n < m)
        BY <1>a, <2>1, <3>2, <4>2 DEF Chain
      <4> QED BY <2>1, <4>2, <4>3
    <3> QED BY <3>1, <3>2
  <2>6. Numbered'
    BY <1>0, <2>1 DEF Numbered, Visible, Chain
  <2> QED BY <2>5, <2>6
<1> QED BY <1>1, <1>2, <1>3, <1>4 DEF HandlerStep, Submit, Approve, Look, Start, Relook,
           Check, Claim, ReadOutcome, Apply, ApplyFails

LEMMA RequestKept ==
    ASSUME IInv, NEW c \in Call, HandlerStep(c)
    PROVE  RequestInv'
<1>1. /\ ChainInv /\ RequestInv /\ CallFacts(c) /\ TypeOK
      /\ ChainNext \/ chain' = chain
  BY Refines DEF IInv, HandlerStep, Next
<1>2. /\ SomeDecision => SomeDecision'
      /\ SomeApproval => SomeApproval'
  BY <1>1, SomeKeeps
<1>3. CASE req' = req \/ req' = "SUBMITTED"
  BY <1>1, <1>2, <1>3 DEF RequestInv
<1>4. CASE Apply(c)
  <2>1. SomeDecision /\ (call[c].outcome = "APPROVED" => SomeApproval)
    BY <1>1, <1>4 DEF CallFacts, Apply
  <2>2. call[c].outcome \in Outcome
    BY <1>1 DEF TypeOK, CallRecord
  <2>3. req' = req \/ req' = ToStatus(call[c].outcome)
    BY <1>4 DEF Apply, Claimed
  <2> QED BY <1>1, <1>2, <2>1, <2>2, <2>3 DEF RequestInv, ToStatus, Outcome
<1> QED BY <1>3, <1>4 DEF HandlerStep, Submit, Approve, Look, Start, Insert, Relook, Drop,
           Check, Claim, ReadOutcome, ApplyFails

LEMMA InvStep == IInv /\ [Next]_vars => IInv'
<1> SUFFICES ASSUME IInv, [Next]_vars PROVE IInv'
  OBVIOUS
<1>1. TypeOK /\ ChainInv /\ (ChainNext \/ chain' = chain)
  BY Refines DEF IInv
<1>2. ChainInv'
  <2>1. CASE chain' = chain
    BY <1>1, <2>1 DEF ChainInv, ChainType, ChainConsistent, ApprovedUpTo, FullyApproved,
       SoundSteps, NoSteps, Steps
  <2> QED BY <1>1, <2>1, ChainInvStep
<1>3. ASSUME NEW c \in Call, HandlerStep(c) PROVE IInv'
  <2>1. TypeOK'
    BY <1>1, <1>2, <1>3, HandlerType, HandlerFrame DEF TypeOK, ChainInv, ChainType
  <2> QED BY <1>2, <1>3, <2>1, FactsKept, OwnChainsKept, ChainsKept, RequestKept DEF IInv
<1>4. CASE Cancel
  <2>1. TypeOK' /\ RequestInv'
    BY <1>1, <1>4 DEF Cancel, TypeOK, RequestStatus, RequestInv
  <2>2. \A c \in Call : CallFacts(c)'
    BY <1>4, <1>1, CallsKept DEF Cancel, IInv, TypeOK, CallFacts
  <2>3. OwnChains' /\ DroppedForOlder' /\ Numbered'
    BY <1>4 DEF Cancel, IInv, OwnChains, DroppedForOlder, Numbered, Visible
  <2> QED BY <1>2, <2>1, <2>2, <2>3 DEF IInv
<1>5. CASE Restart
  <2>1. \A c \in Call : call'[c] = Idle
    BY <1>5 DEF Restart
  <2>2. TypeOK'
    BY <1>1, <1>5, IdleType DEF Restart, TypeOK
  <2>3. \A c \in Call : CallFacts(c)'
    BY <2>1, IdleFacts
  <2>4. OwnChains'
    BY <2>1 DEF OwnChains, Idle
  <2>5. DroppedForOlder' /\ Numbered' /\ RequestInv'
    BY <1>5 DEF Restart, IInv, DroppedForOlder, Numbered, Visible, RequestInv, SomeDecision,
       SomeApproval, Steps
  <2> QED BY <1>2, <2>2, <2>3, <2>4, <2>5 DEF IInv
<1>6. CASE UNCHANGED vars
  <2>1. TypeOK' /\ RequestInv'
    BY <1>1, <1>6 DEF vars, TypeOK, IInv, RequestInv, SomeDecision, SomeApproval, Steps
  <2>2. \A c \in Call : CallFacts(c)'
    BY <1>6, <1>1, CallsKept DEF vars, IInv, TypeOK, CallFacts
  <2>3. OwnChains' /\ DroppedForOlder' /\ Numbered'
    BY <1>6 DEF vars, IInv, OwnChains, DroppedForOlder, Numbered, Visible
  <2> QED BY <1>2, <2>1, <2>2, <2>3 DEF IInv
<1> QED BY <1>3, <1>4, <1>5, <1>6 DEF Next, HandlerStep

LEMMA InvAlways == Spec => []IInv
BY InvInit, InvStep, PTL DEF Spec

-----------------------------------------------------------------------------
(* Theorems *)

\* Type correctness.
THEOREM TypeCorrect == Spec => []TypeOK
<1>1. IInv => TypeOK
  BY DEF IInv
<1> QED BY <1>1, InvAlways, PTL

\* Every chain's status is what its steps say, and an approved chain has the
\* approvals of different people entitled to them.
THEOREM ChainConsistentAlways == Spec => []ChainConsistent
<1>1. IInv => ChainConsistent
  BY DEF IInv, ChainInv
<1> QED BY <1>1, InvAlways, PTL

\* An approved request has a fully approved chain.
THEOREM ApprovedByTheChainAlways == Spec => []ApprovedByTheChain
<1>1. IInv => ApprovedByTheChain
  BY DEF IInv, ChainInv, ChainConsistent, RequestInv, SomeApproval, ApprovedByTheChain
<1> QED BY <1>1, InvAlways, PTL

\* A request that shows as being approved has a decided step.
THEOREM PendingAfterADecisionAlways == Spec => []PendingAfterADecision
<1>1. IInv => PendingAfterADecision
  BY DEF IInv, RequestInv, SomeDecision, PendingAfterADecision
<1> QED BY <1>1, InvAlways, PTL

\* The handlers, interleaved query by query, implement the chains' promise.
THEOREM ImplementsChainAlways == Spec => ImplementsChain
<1>1. Init => ChainInit
  BY DEF Init
<1>2. IInv /\ [Next]_vars => [ChainNext]_chain
  BY Refines
<1> QED BY <1>1, <1>2, InvAlways, PTL DEF Spec, ImplementsChain, ChainSpec

\* A verdict is never replaced by another and a cancellation is final; an
\* approved or a rejected request can only be cancelled.
THEOREM DecidedOnceAlways == Spec => DecidedOnce
<1>1. IInv /\ [Next]_vars =>
        [/\ req = "CANCELLED" => req' = req
         /\ req \in {"APPROVED", "REJECTED"} => req' \in {req, "CANCELLED"}]_req
  <2> SUFFICES ASSUME IInv, [Next]_vars, req' # req
               PROVE  /\ req # "CANCELLED"
                      /\ req \in {"APPROVED", "REJECTED"} => req' = "CANCELLED"
    OBVIOUS
  <2>1. Cancel \/ (req \in {"DRAFT"} \union Reviewable)
    BY DEF Next, Submit, Approve, Look, Start, Insert, Relook, Drop, Check, Claim,
           ReadOutcome, Apply, Claimed, ApplyFails, Restart, vars
  <2> QED BY <2>1 DEF Cancel, Reviewable
<1> QED BY <1>1, InvAlways, PTL DEF Spec, DecidedOnce
=============================================================================
