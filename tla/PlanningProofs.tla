----------------------------- MODULE PlanningProofs -----------------------------
(***************************************************************************)
(* What TLAPS proves of Planning and of Templates, for any scenarios,      *)
(* users, templates and running handlers, and any number of runs.          *)
(***************************************************************************)
EXTENDS Planning, Templates, TLAPS

-----------------------------------------------------------------------------
(* Projects: types, and who reviews *)

\* A handler knows what it goes on with: the edit that withdraws an approval,
\* the user who submits or decides, and the run submitted.
HandlersAreSound ==
    \A h \in Call :
      /\ call[h].at = "withdraw" => call[h].to # ""
      /\ call[h].at \in {"submit", "decide"} => call[h].user \in User
      /\ call[h].at = "submit" => call[h].run \in Run

TypeInv == TypeOK /\ HandlersAreSound

\* A plan in review has a submitter, and whoever is about to decide it, with a
\* project nobody has written since, is another and has seen the run in review.
ReviewInv ==
    /\ ReviewedByAnother
    /\ plan = "IN_REVIEW" => submitter # NoUser
    /\ \A h \in Call :
         call[h].at = "decide" /\ call[h].sameProject /\ plan = "IN_REVIEW"
           => call[h].user \notin {submitter, Creator} /\ call[h].run = approved

\* What a step of another handler leaves of handler g.
Kept(g) ==
    /\ call'[g].at = call[g].at /\ call'[g].to = call[g].to /\ call'[g].user = call[g].user
    /\ call'[g].scenario = call[g].scenario /\ call'[g].run = call[g].run
    /\ call'[g].sameProject => call[g].sameProject

\* Handler h is done and the others go on.
Leaves(h) ==
    /\ call' \in [Call -> CallRecord] /\ call'[h] = Idle
    /\ \A g \in Call \ {h} : Kept(g)

\* No handler that submits or decides has the project it read.
AllOutdated(h) ==
    \A g \in Call \ {h} : call'[g].at \in {"submit", "decide"} => ~call'[g].sameProject

LEMMA IdleIsRecord == Idle \in CallRecord /\ Idle.at = "idle" /\ Idle.to = ""
BY DEF Idle, CallRecord

LEMMA ProjectWrittenKeeps ==
    ASSUME TypeOK, NEW g \in Call, NEW rec, rec = ProjectWritten(g)
    PROVE  /\ rec \in CallRecord
           /\ rec.at = call[g].at /\ rec.to = call[g].to /\ rec.user = call[g].user
           /\ rec.scenario = call[g].scenario /\ rec.run = call[g].run
           /\ rec.sameProject => call[g].sameProject
           /\ rec.at \in {"submit", "decide"} => ~rec.sameProject
<1>1. call[g] \in CallRecord
  BY DEF TypeOK
<1> QED BY <1>1 DEF ProjectWritten, CallRecord

LEMMA ScenarioWrittenKeeps ==
    ASSUME TypeOK, NEW g \in Call, NEW s, NEW edit \in BOOLEAN, NEW rec,
           rec = ScenarioWritten(g, s, edit)
    PROVE  /\ rec \in CallRecord
           /\ rec.at = call[g].at /\ rec.to = call[g].to /\ rec.user = call[g].user
           /\ rec.scenario = call[g].scenario /\ rec.run = call[g].run
           /\ rec.sameProject = call[g].sameProject
<1>1. call[g] \in CallRecord
  BY DEF TypeOK
<1>2. \/ rec = call[g]
      \/ rec = [call[g] EXCEPT !.sameScenario = FALSE]
      \/ call[g].at = "calculate" /\ edit /\ rec = [call[g] EXCEPT !.current = FALSE]
  BY DEF ScenarioWritten
<1>3. CASE rec = call[g]
  BY <1>1, <1>3
<1>4. CASE rec = [call[g] EXCEPT !.sameScenario = FALSE]
  BY <1>1, <1>4 DEF CallRecord
<1>5. CASE call[g].at = "calculate" /\ edit /\ rec = [call[g] EXCEPT !.current = FALSE]
  BY <1>1, <1>5 DEF CallRecord
<1> QED BY <1>2, <1>3, <1>4, <1>5

LEMMA EndLeaves == ASSUME TypeOK, NEW h \in Call, End(h) PROVE Leaves(h)
BY IdleIsRecord DEF End, Leaves, Kept, TypeOK

LEMMA EndWithProjectLeaves ==
    ASSUME TypeOK, NEW h \in Call, EndWithProject(h)
    PROVE  Leaves(h) /\ AllOutdated(h)
<1>1. \A g \in Call : call'[g] = IF g = h THEN Idle ELSE ProjectWritten(g)
  BY DEF EndWithProject
<1>2. call' \in [Call -> CallRecord]
  BY IdleIsRecord, ProjectWrittenKeeps DEF EndWithProject
<1>3. \A g \in Call \ {h} : Kept(g)
  BY <1>1, ProjectWrittenKeeps DEF Kept
<1> QED BY <1>1, <1>2, <1>3, ProjectWrittenKeeps DEF Leaves, AllOutdated

LEMMA EndWithScenarioLeaves ==
    ASSUME TypeOK, NEW h \in Call, NEW s, NEW edit \in BOOLEAN, EndWithScenario(h, s, edit)
    PROVE  Leaves(h)
<1>1. \A g \in Call : call'[g] = IF g = h THEN Idle ELSE ScenarioWritten(g, s, edit)
  BY DEF EndWithScenario
<1>2. call' \in [Call -> CallRecord]
  BY IdleIsRecord, ScenarioWrittenKeeps DEF EndWithScenario
<1>3. \A g \in Call \ {h} : Kept(g)
  BY <1>1, ScenarioWrittenKeeps DEF Kept
<1> QED BY <1>1, <1>2, <1>3 DEF Leaves

LEMMA LeavesSound ==
    ASSUME TypeInv, NEW h \in Call, Leaves(h)
    PROVE  call' \in [Call -> CallRecord] /\ HandlersAreSound'
BY IdleIsRecord DEF TypeInv, Leaves, Kept, HandlersAreSound

\* A handler that starts has all it needs.
LEMMA BeginSound ==
    ASSUME TypeInv, NEW h \in Call, NEW rec \in CallRecord, Begin(h, rec),
           rec.at = "withdraw" => rec.to # "",
           rec.at \in {"submit", "decide"} => rec.user \in User,
           rec.at = "submit" => rec.run \in Run
    PROVE  /\ call' \in [Call -> CallRecord] /\ HandlersAreSound'
           /\ call'[h] = rec /\ \A g \in Call \ {h} : call'[g] = call[g]
<1>1. call' \in [Call -> CallRecord]
  BY DEF TypeInv, TypeOK, Begin
<1>2. call'[h] = rec /\ \A g \in Call \ {h} : call'[g] = call[g]
  BY DEF TypeInv, TypeOK, Begin
<1>3. HandlersAreSound'
  BY <1>2 DEF TypeInv, HandlersAreSound
<1> QED BY <1>1, <1>2, <1>3

\* What starts without a decision in mind says nothing about who reviews.
LEMMA BeginReviewed ==
    ASSUME ReviewInv, UNCHANGED projectVars, NEW h \in Call, call'[h].at # "decide",
           \A g \in Call \ {h} : call'[g] = call[g]
    PROVE  ReviewInv'
<1>1. ReviewedByAnother' /\ (plan' = "IN_REVIEW" => submitter' # NoUser)
  BY DEF ReviewInv, ReviewedByAnother, projectVars
<1>2. ASSUME NEW g \in Call, call'[g].at = "decide", call'[g].sameProject, plan' = "IN_REVIEW"
      PROVE  call'[g].user \notin {submitter', Creator} /\ call'[g].run = approved'
  <2>1. call'[g] = call[g] /\ UNCHANGED <<plan, submitter, approved>>
    BY <1>2 DEF projectVars
  <2> QED BY <1>2, <2>1 DEF ReviewInv
<1> QED BY <1>1, <1>2 DEF ReviewInv

-----------------------------------------------------------------------------

LEMMA RunTypes == /\ Run \subseteq Nat \ {0} /\ NoRun \notin Run
                  /\ Free \in RunRecord
BY PlanningAssumption DEF Run, NoRun, Free, RunRecord

\* The starting handlers.
LEMMA BeginEditInv ==
    ASSUME TypeInv, ReviewInv, NEW h \in Call, NEW to \in {"project", "inputs", "baseline"},
           NEW s \in Scenario \union {NoScenario}, BeginEdit(h, to, s)
    PROVE  TypeInv' /\ ReviewInv'
<1> DEFINE rec == [Idle EXCEPT !.at = IF plan = "PLAN_APPROVED" THEN "withdraw" ELSE to,
                               !.to = to, !.scenario = s]
<1>1. rec \in CallRecord /\ rec.at \in {"withdraw", to} /\ rec.to = to
  BY DEF Idle, CallRecord
<1>2. Begin(h, rec) /\ UNCHANGED <<projectVars, scenarioVars, runs>>
  BY DEF BeginEdit
<1> HIDE DEF rec
<1>3. TypeInv'
  BY <1>1, <1>2, BeginSound DEF TypeInv, TypeOK, projectVars, scenarioVars
<1>4. ReviewInv'
  <2>1. call'[h] = rec /\ \A g \in Call \ {h} : call'[g] = call[g]
    BY <1>1, <1>2, BeginSound
  <2>2. call'[h].at # "decide"
    BY <1>1, <2>1
  <2> QED BY <1>2, <2>1, <2>2, BeginReviewed
<1> QED BY <1>3, <1>4

LEMMA BeginDeleteInv ==
    ASSUME TypeInv, ReviewInv, NEW h \in Call, NEW s \in Scenario, BeginDelete(h, s)
    PROVE  TypeInv' /\ ReviewInv'
<1> DEFINE rec == [Idle EXCEPT !.at = "delete", !.scenario = s]
<1>1. rec \in CallRecord /\ rec.at = "delete"
  BY DEF Idle, CallRecord
<1>2. Begin(h, rec) /\ UNCHANGED <<projectVars, scenarioVars, runs>>
  BY DEF BeginDelete
<1> HIDE DEF rec
<1>3. TypeInv'
  BY <1>1, <1>2, BeginSound DEF TypeInv, TypeOK, projectVars, scenarioVars
<1>4. ReviewInv'
  <2>1. call'[h] = rec /\ \A g \in Call \ {h} : call'[g] = call[g]
    BY <1>1, <1>2, BeginSound
  <2>2. call'[h].at # "decide"
    BY <1>1, <2>1
  <2> QED BY <1>2, <2>1, <2>2, BeginReviewed
<1> QED BY <1>3, <1>4

LEMMA BeginCalculateInv ==
    ASSUME TypeInv, ReviewInv, NEW h \in Call, NEW s \in Scenario, BeginCalculate(h, s)
    PROVE  TypeInv' /\ ReviewInv'
<1> DEFINE rec == [Idle EXCEPT !.at = "calculate", !.scenario = s]
<1>1. rec \in CallRecord /\ rec.at = "calculate"
  BY DEF Idle, CallRecord
<1>2. Begin(h, rec) /\ UNCHANGED <<projectVars, scenarioVars, runs>>
  BY DEF BeginCalculate
<1> HIDE DEF rec
<1>3. TypeInv'
  BY <1>1, <1>2, BeginSound DEF TypeInv, TypeOK, projectVars, scenarioVars
<1>4. ReviewInv'
  <2>1. call'[h] = rec /\ \A g \in Call \ {h} : call'[g] = call[g]
    BY <1>1, <1>2, BeginSound
  <2>2. call'[h].at # "decide"
    BY <1>1, <2>1
  <2> QED BY <1>2, <2>1, <2>2, BeginReviewed
<1> QED BY <1>3, <1>4

LEMMA BeginSubmitInv ==
    ASSUME TypeInv, ReviewInv, NEW h \in Call, NEW u \in User, NEW r \in Run, BeginSubmit(h, u, r)
    PROVE  TypeInv' /\ ReviewInv'
<1> DEFINE rec == [Idle EXCEPT !.at = "submit", !.user = u, !.run = r]
<1>1. rec \in CallRecord /\ rec.at = "submit" /\ rec.user = u /\ rec.run = r
  BY DEF Idle, CallRecord
<1>2. Begin(h, rec) /\ UNCHANGED <<projectVars, scenarioVars, runs>>
  BY DEF BeginSubmit
<1> HIDE DEF rec
<1>3. TypeInv'
  BY <1>1, <1>2, BeginSound DEF TypeInv, TypeOK, projectVars, scenarioVars
<1>4. ReviewInv'
  <2>1. call'[h] = rec /\ \A g \in Call \ {h} : call'[g] = call[g]
    BY <1>1, <1>2, BeginSound
  <2>2. call'[h].at # "decide"
    BY <1>1, <2>1
  <2> QED BY <1>2, <2>1, <2>2, BeginReviewed
<1> QED BY <1>3, <1>4

LEMMA BeginDecideInv ==
    ASSUME TypeInv, ReviewInv, NEW h \in Call, NEW u \in User, BeginDecide(h, u)
    PROVE  TypeInv' /\ ReviewInv'
<1> DEFINE rec == [Idle EXCEPT !.at = "decide", !.user = u, !.run = approved]
<1>1. rec \in CallRecord /\ rec.at = "decide" /\ rec.user = u /\ rec.run = approved
  BY DEF Idle, CallRecord, TypeInv, TypeOK
<1>2. /\ Begin(h, rec) /\ UNCHANGED <<projectVars, scenarioVars, runs>>
      /\ u \notin {submitter, Creator}
  BY DEF BeginDecide, MayReview
<1> HIDE DEF rec
<1>3. TypeInv'
  BY <1>1, <1>2, BeginSound DEF TypeInv, TypeOK, projectVars, scenarioVars
<1>4. ReviewInv'
  <2>1. call'[h] = rec /\ \A g \in Call \ {h} : call'[g] = call[g]
    BY <1>1, <1>2, BeginSound
  <2>2. UNCHANGED <<plan, approved, submitter, reviewer>>
    BY <1>2 DEF projectVars
  <2>3. ReviewedByAnother'
    BY <2>2 DEF ReviewInv, ReviewedByAnother
  <2> QED BY <1>1, <1>2, <2>1, <2>2, <2>3 DEF ReviewInv
<1> QED BY <1>3, <1>4

-----------------------------------------------------------------------------
(* The other steps *)

\* What a step owes that only writes scenarios or runs, or only ends.
LEMMA ProjectAloneInv ==
    ASSUME TypeInv, ReviewInv, NEW h \in Call, Leaves(h), UNCHANGED <<projectVars>>,
           exists' \subseteq Scenario, baseline' \subseteq exists', runs' \in [Run -> RunRecord]
    PROVE  TypeInv' /\ ReviewInv'
<1>1. TypeInv'
  BY LeavesSound DEF TypeInv, TypeOK, projectVars
<1>2. \A g \in Call : call'[g].at = "decide" => g # h /\ Kept(g)
  BY IdleIsRecord DEF Leaves
<1>3. ReviewInv'
  BY <1>2 DEF ReviewInv, ReviewedByAnother, Kept, projectVars
<1> QED BY <1>1, <1>3

LEMMA ThrowInv ==
    ASSUME TypeInv, ReviewInv, NEW h \in Call, Throw(h)
    PROVE  TypeInv' /\ ReviewInv'
<1>1. End(h) /\ UNCHANGED <<projectVars, scenarioVars, runs>>
  BY DEF Throw
<1> QED BY <1>1, EndLeaves, ProjectAloneInv DEF TypeInv, TypeOK, scenarioVars

LEMMA WithdrawInv ==
    ASSUME TypeInv, ReviewInv, NEW h \in Call, Withdraw(h)
    PROVE  TypeInv' /\ ReviewInv'
<1> DEFINE rec == [call[h] EXCEPT !.at = call[h].to]
<1>1. /\ plan' = "DRAFT" /\ approved' = NoRun /\ call[h].at = "withdraw"
      /\ call' = [g \in Call |-> IF g = h THEN rec ELSE ProjectWritten(g)]
      /\ UNCHANGED <<submitter, reviewer, scenarioVars, runs>>
  BY DEF Withdraw
<1>2. /\ rec \in CallRecord /\ rec.at \in {"project", "inputs", "baseline"}
  BY ZenonT(60), <1>1 DEF TypeInv, TypeOK, HandlersAreSound, CallRecord
<1> HIDE DEF rec
<1>3. call'[h] = rec /\ \A g \in Call \ {h} : call'[g] = ProjectWritten(g)
  BY <1>1
<1>4. call' \in [Call -> CallRecord]
  BY <1>1, <1>2, ProjectWrittenKeeps DEF TypeInv
<1>5. \A g \in Call \ {h} : Kept(g)
  BY <1>3, ProjectWrittenKeeps DEF Kept, TypeInv
<1>6. HandlersAreSound'
  BY <1>2, <1>3, <1>5 DEF TypeInv, HandlersAreSound, Kept
<1>7. TypeInv'
  BY <1>1, <1>4, <1>6 DEF TypeInv, TypeOK, PlanStatus, scenarioVars
<1>8. ReviewInv'
  BY <1>1 DEF ReviewInv, ReviewedByAnother
<1> QED BY <1>7, <1>8

LEMMA UpdateProjectInv ==
    ASSUME TypeInv, ReviewInv, NEW h \in Call, UpdateProject(h)
    PROVE  TypeInv' /\ ReviewInv'
<1>0. PICK details \in BOOLEAN :
        /\ runs' = [r \in Run |-> [runs[r] EXCEPT !.current = @ /\ ~details]]
        /\ call' = [g \in Call |->
                      IF g = h THEN Idle
                      ELSE IF call[g].at = "calculate"
                      THEN [call[g] EXCEPT !.current = @ /\ ~details]
                      ELSE ProjectWritten(g)]
  BY DEF UpdateProject
<1>1. UNCHANGED <<projectVars, scenarioVars>>
  BY DEF UpdateProject
<1>2. \A g \in Call : call[g] \in CallRecord
  BY DEF TypeInv, TypeOK
<1>3. ASSUME NEW g \in Call, g # h PROVE call'[g] \in CallRecord /\ Kept(g)
  <2>1. CASE call[g].at = "calculate"
    <3>1. call'[g] = [call[g] EXCEPT !.current = call[g].current /\ ~details]
      BY <1>0, <1>3, <2>1
    <3> QED BY <1>2, <3>1 DEF CallRecord, Kept
  <2>2. CASE call[g].at # "calculate"
    BY <1>0, <1>3, <2>2, ProjectWrittenKeeps DEF Kept, TypeInv
  <2> QED BY <2>1, <2>2
<1>4. Leaves(h)
  <2>1. \A g \in Call : call'[g] \in CallRecord
    BY <1>0, <1>3, IdleIsRecord
  <2> QED BY <1>0, <1>3, <2>1 DEF Leaves
<1>5. runs' \in [Run -> RunRecord]
  BY <1>0 DEF TypeInv, TypeOK, RunRecord
<1> QED BY <1>1, <1>4, <1>5, ProjectAloneInv DEF TypeInv, TypeOK, scenarioVars

LEMMA UpdateScenarioInv ==
    ASSUME TypeInv, ReviewInv, NEW h \in Call, UpdateScenario(h)
    PROVE  TypeInv' /\ ReviewInv'
<1>1. runs' \in [Run -> RunRecord]
  BY ZenonT(60) DEF UpdateScenario, Touch, TypeInv, TypeOK, RunRecord
<1>2. Leaves(h)
  BY EndWithScenarioLeaves DEF UpdateScenario, TypeInv
<1> QED BY <1>1, <1>2, ProjectAloneInv DEF UpdateScenario, TypeInv, TypeOK, scenarioVars

LEMMA FindBaselinesInv ==
    ASSUME TypeInv, ReviewInv, NEW h \in Call, FindBaselines(h)
    PROVE  TypeInv' /\ ReviewInv'
<1> DEFINE rec == [call[h] EXCEPT !.baselines = baseline]
<1>1. /\ call' = [call EXCEPT ![h] = rec]
      /\ call[h].at = "baseline" /\ UNCHANGED <<projectVars, scenarioVars, runs>>
  BY DEF FindBaselines
<1>0. rec \in CallRecord /\ rec.at = call[h].at
  <2>1. call[h] \in CallRecord /\ baseline \in SUBSET Scenario
    BY DEF TypeInv, TypeOK
  <2> QED BY <2>1 DEF CallRecord
<1> HIDE DEF rec
<1>2. call'[h].at = "baseline" /\ call' \in [Call -> CallRecord]
  BY <1>0, <1>1 DEF TypeInv, TypeOK
<1>3. \A g \in Call \ {h} : call'[g] = call[g]
  BY <1>1 DEF TypeInv, TypeOK
<1>4. TypeInv'
  BY <1>1, <1>2, <1>3 DEF TypeInv, TypeOK, HandlersAreSound, projectVars, scenarioVars
<1>5. ReviewInv'
  BY <1>1, <1>2, <1>3 DEF ReviewInv, ReviewedByAnother, projectVars
<1> QED BY <1>4, <1>5

LEMMA MakeBaselineInv ==
    ASSUME TypeInv, ReviewInv, NEW h \in Call, MakeBaseline(h)
    PROVE  TypeInv' /\ ReviewInv'
<1>1. runs' \in [Run -> RunRecord]
  BY DEF MakeBaseline, TypeInv, TypeOK, RunRecord
<1>2. Leaves(h)
  BY EndWithScenarioLeaves DEF MakeBaseline, TypeInv
<1>3. baseline' \subseteq exists' /\ exists' \subseteq Scenario
  BY DEF MakeBaseline, SameScenario, TypeInv, TypeOK
<1> QED BY <1>1, <1>2, <1>3, ProjectAloneInv DEF MakeBaseline

LEMMA DeleteScenarioInv ==
    ASSUME TypeInv, ReviewInv, NEW h \in Call, DeleteScenario(h)
    PROVE  TypeInv' /\ ReviewInv'
<1>1. runs' \in [Run -> RunRecord]
  BY RunTypes DEF DeleteScenario, TypeInv, TypeOK
<1>2. Leaves(h)
  BY EndLeaves DEF DeleteScenario, TypeInv
<1>3. baseline' \subseteq exists' /\ exists' \subseteq Scenario
  BY DEF DeleteScenario, TypeInv, TypeOK
<1> QED BY <1>1, <1>2, <1>3, ProjectAloneInv DEF DeleteScenario

LEMMA CalculateInv ==
    ASSUME TypeInv, ReviewInv, NEW h \in Call, Calculate(h)
    PROVE  TypeInv' /\ ReviewInv'
<1>1. runs' \in [Run -> RunRecord]
  <2>1. PICK r \in Run, usable \in BOOLEAN :
          runs' = [runs EXCEPT ![r] = [scenario |-> call[h].scenario, usable |-> usable,
                                       old |-> FALSE, current |-> call[h].current]]
    BY DEF Calculate
  <2>2. [scenario |-> call[h].scenario, usable |-> usable, old |-> FALSE,
         current |-> call[h].current] \in RunRecord
    BY DEF TypeInv, TypeOK, CallRecord, RunRecord
  <2> QED BY <2>1, <2>2 DEF TypeInv, TypeOK
<1>2. Leaves(h)
  BY EndLeaves DEF Calculate, TypeInv
<1> QED BY <1>1, <1>2, ProjectAloneInv DEF Calculate, TypeInv, TypeOK, scenarioVars

LEMMA CreateScenarioInv ==
    ASSUME TypeInv, ReviewInv, NEW s \in Scenario, CreateScenario(s)
    PROVE  TypeInv' /\ ReviewInv'
BY DEF CreateScenario, TypeInv, TypeOK, HandlersAreSound, ReviewInv, ReviewedByAnother, projectVars

\* Steps that write the project: nobody who submits or decides has read it since.
LEMMA ProjectWriteInv ==
    ASSUME TypeInv, NEW h \in Call, EndWithProject(h), UNCHANGED <<scenarioVars, runs>>,
           plan' \in PlanStatus, approved' \in Run \union {NoRun},
           submitter' \in User \union {NoUser}, reviewer' \in User \union {NoUser},
           ReviewedByAnother', plan' = "IN_REVIEW" => submitter' # NoUser
    PROVE  TypeInv' /\ ReviewInv'
<1>1. Leaves(h) /\ AllOutdated(h)
  BY EndWithProjectLeaves DEF TypeInv
<1>2. TypeInv'
  BY <1>1, LeavesSound DEF TypeInv, TypeOK, scenarioVars
<1>3. \A g \in Call : call'[g].at = "decide" => ~call'[g].sameProject
  BY <1>1, IdleIsRecord DEF Leaves, AllOutdated
<1> QED BY <1>2, <1>3 DEF ReviewInv

LEMMA EditProposalInv ==
    ASSUME TypeInv, ReviewInv, NEW h \in Call, EditProposal(h)
    PROVE  TypeInv' /\ ReviewInv'
BY ProjectWriteInv DEF EditProposal, TypeInv, TypeOK, ReviewInv, ReviewedByAnother, projectVars

LEMMA SubmitInv ==
    ASSUME TypeInv, ReviewInv, NEW h \in Call, Submit(h)
    PROVE  TypeInv' /\ ReviewInv'
<1>1. /\ plan' = "IN_REVIEW" /\ approved' \in Run /\ submitter' \in User /\ reviewer' = NoUser
      /\ EndWithProject(h) /\ UNCHANGED <<scenarioVars, runs>>
  BY DEF Submit, TypeInv, HandlersAreSound
<1>2. ReviewedByAnother' /\ submitter' # NoUser
  BY <1>1, RunTypes, PlanningAssumption DEF ReviewedByAnother
<1> QED BY <1>1, <1>2, ProjectWriteInv DEF PlanStatus

LEMMA DecideInv ==
    ASSUME TypeInv, ReviewInv, NEW h \in Call, Decide(h)
    PROVE  TypeInv' /\ ReviewInv'
<1>1. /\ plan = "IN_REVIEW" /\ plan' \in {"PLAN_APPROVED", "PLAN_REJECTED"}
      /\ reviewer' = call[h].user /\ call[h].user \in User
      /\ call[h].user \notin {submitter, Creator}
      /\ UNCHANGED <<approved, submitter, scenarioVars, runs>> /\ EndWithProject(h)
  BY DEF Decide, SameProject, TypeInv, HandlersAreSound, ReviewInv
<1>2. ReviewedByAnother'
  BY <1>1, PlanningAssumption DEF ReviewedByAnother, ReviewInv
<1> QED BY <1>1, <1>2, ProjectWriteInv DEF PlanStatus, TypeInv, TypeOK

LEMMA ReopenArchiveInv ==
    ASSUME TypeInv, ReviewInv, NEW h \in Call, Reopen(h) \/ Archive(h)
    PROVE  TypeInv' /\ ReviewInv'
<1>1. /\ plan' \in {"DRAFT", "ARCHIVED"} /\ approved' \in {approved, NoRun}
      /\ EndWithProject(h) /\ UNCHANGED <<submitter, reviewer, scenarioVars, runs>>
  BY DEF Reopen, Archive, Unapproved
<1>2. ReviewedByAnother'
  BY <1>1 DEF ReviewedByAnother
<1> QED BY <1>1, <1>2, ProjectWriteInv DEF PlanStatus, TypeInv, TypeOK

LEMMA InitReview == Init => TypeInv /\ ReviewInv
<1> SUFFICES ASSUME Init PROVE TypeInv /\ ReviewInv
  OBVIOUS
<1>1. TypeInv
  BY PlanningAssumption, RunTypes, IdleIsRecord
     DEF Init, TypeInv, TypeOK, HandlersAreSound, PlanStatus, Idle
<1>2. ReviewInv
  BY DEF Init, ReviewInv, ReviewedByAnother
<1> QED BY <1>1, <1>2

LEMMA NextReview == TypeInv /\ ReviewInv /\ [Next]_vars => TypeInv' /\ ReviewInv'
<1> SUFFICES ASSUME TypeInv, ReviewInv, [Next]_vars PROVE TypeInv' /\ ReviewInv'
  OBVIOUS
<1>1. CASE UNCHANGED vars
  BY <1>1 DEF vars, projectVars, scenarioVars, TypeInv, TypeOK, HandlersAreSound, ReviewInv,
     ReviewedByAnother
<1>2. ASSUME NEW h \in Call,
             \/ BeginUpdateProject(h)
             \/ \E s \in Scenario : \/ BeginUpdateScenario(h, s) \/ BeginMakeBaseline(h, s)
                                    \/ BeginDelete(h, s) \/ BeginCalculate(h, s)
             \/ \E u \in User : BeginDecide(h, u) \/ \E r \in Run : BeginSubmit(h, u, r)
      PROVE  TypeInv' /\ ReviewInv'
  BY <1>2, BeginEditInv, BeginDeleteInv, BeginCalculateInv, BeginDecideInv, BeginSubmitInv
     DEF BeginUpdateProject, BeginUpdateScenario, BeginMakeBaseline
<1>3. ASSUME NEW h \in Call,
             \/ Withdraw(h) \/ UpdateProject(h) \/ EditProposal(h)
             \/ UpdateScenario(h) \/ FindBaselines(h) \/ MakeBaseline(h) \/ DeleteScenario(h)
             \/ Calculate(h) \/ Submit(h) \/ Decide(h) \/ Reopen(h) \/ Archive(h) \/ Throw(h)
      PROVE  TypeInv' /\ ReviewInv'
  BY <1>3, WithdrawInv, UpdateProjectInv, EditProposalInv, UpdateScenarioInv, FindBaselinesInv,
     MakeBaselineInv, DeleteScenarioInv, CalculateInv, SubmitInv, DecideInv, ReopenArchiveInv,
     ThrowInv
<1> QED BY <1>1, <1>2, <1>3, CreateScenarioInv DEF Next

-----------------------------------------------------------------------------

\* Statuses, users, runs and handlers of a project stay what they are, however
\* many handlers are at work.
THEOREM TypeCorrect == Spec => []TypeOK
<1>1. TypeInv => TypeOK
  BY DEF TypeInv
<1> QED BY <1>1, InitReview, NextReview, PTL DEF Spec

\* Nobody decides on a plan they submitted or wrote, and what is in review names
\* a run: the version that transition compares carries the checks that
\* submitForReview and decide made before it.
THEOREM ReviewedByAnotherAlways == Spec => []ReviewedByAnother
<1>1. ReviewInv => ReviewedByAnother
  BY DEF ReviewInv
<1> QED BY <1>1, InitReview, NextReview, PTL DEF Spec

\* The run a decision is about is the one its reviewer's handler looked at.
THEOREM DecidesWhatWasCheckedAlways == Spec => DecidesWhatWasChecked
<1>1. TypeInv /\ ReviewInv /\ [Next]_vars
      => [plan = "IN_REVIEW" /\ plan' \in {"PLAN_APPROVED", "PLAN_REJECTED"}
          => /\ \E h \in Call : /\ call[h].at = "decide" /\ call'[h].at = "idle"
                                /\ call[h].run = approved
             /\ approved' = approved]_vars
  <2> SUFFICES ASSUME TypeInv, ReviewInv, Next, plan = "IN_REVIEW",
                      plan' \in {"PLAN_APPROVED", "PLAN_REJECTED"}
               PROVE  /\ \E h \in Call : /\ call[h].at = "decide" /\ call'[h].at = "idle"
                                         /\ call[h].run = approved
                      /\ approved' = approved
    OBVIOUS
  <2>1. PICK h \in Call : Decide(h)
    BY ZenonT(60) DEF Next, BeginUpdateProject, Withdraw, UpdateProject, EditProposal, UpdateScenario,
       FindBaselines, MakeBaseline, DeleteScenario, Calculate, Submit, Reopen, Archive,
       Throw, BeginUpdateScenario, BeginMakeBaseline, BeginDelete, BeginCalculate, BeginDecide,
       BeginSubmit, BeginEdit, Begin, CreateScenario, projectVars
  <2>2. /\ call[h].at = "decide" /\ call[h].run = approved /\ approved' = approved
        /\ EndWithProject(h)
    BY <2>1 DEF Decide, SameProject, ReviewInv
  <2>3. call'[h].at = "idle"
    BY <2>2, IdleIsRecord DEF EndWithProject
  <2> QED BY <2>2, <2>3
<1> QED BY <1>1, InitReview, NextReview, PTL DEF Spec, DecidesWhatWasChecked

-----------------------------------------------------------------------------
(* Templates *)

\* What has been replaced, and what somebody is about to replace, was confirmed
\* once: it is never a draft again, and the row is not given away; a template
\* that is no draft any more has retired what it replaces.
ReplacedInv ==
    /\ TemplatesTypeOK /\ ReplacedIsRetired
    /\ \A t \in Existing : template[t].replaces # NoTemplate
         => template[template[t].replaces].status # "DRAFT" /\ template[t].replaces # t
    /\ \A h \in Handler : handler[h].op = "create" /\ handler[h].of # NoTemplate
         => template[handler[h].of].status # "DRAFT"
    /\ \A h \in Handler : handler[h].op = "remove" => handler[h].of \in Template

LEMMA RowTypes == /\ NoRow \in RowRecord /\ NoRow.status = "NONE" /\ NoRow.replaces = NoTemplate
                  /\ NoWork \in WorkRecord /\ NoWork.op = "idle" /\ NoWork.of = NoTemplate
BY DEF NoRow, RowRecord, NoWork, WorkRecord

LEMMA TemplatesInitInv == TemplatesInit => ReplacedInv
<1> SUFFICES ASSUME TemplatesInit PROVE ReplacedInv
  OBVIOUS
<1>1. TemplatesTypeOK
  BY RowTypes DEF TemplatesInit, TemplatesTypeOK
<1>2. Existing = {} /\ \A h \in Handler : handler[h].op = "idle"
  BY RowTypes DEF TemplatesInit, Existing
<1> QED BY <1>1, <1>2 DEF ReplacedInv, ReplacedIsRetired

LEMMA BeginSaveInv ==
    ASSUME ReplacedInv, NEW h \in Handler, NEW a \in Author, NEW old \in Template \union {NoTemplate},
           BeginSave(h, a, old)
    PROVE  ReplacedInv'
<1> DEFINE work == [op |-> "create", author |-> a, of |-> old]
<1>1. /\ handler' = [handler EXCEPT ![h] = work] /\ template' = template
      /\ old # NoTemplate => template[old].status = "CONFIRMED"
  BY DEF BeginSave
<1>2. work \in WorkRecord /\ work.op = "create" /\ work.of = old
  BY DEF WorkRecord
<1> HIDE DEF work
<1>3. handler'[h] = work /\ \A g \in Handler \ {h} : handler'[g] = handler[g]
  BY <1>1 DEF ReplacedInv, TemplatesTypeOK
<1>4. TemplatesTypeOK'
  BY <1>1, <1>2 DEF ReplacedInv, TemplatesTypeOK
<1> QED BY <1>1, <1>2, <1>3, <1>4 DEF ReplacedInv, ReplacedIsRetired, Existing

LEMMA BeginRemoveInv ==
    ASSUME ReplacedInv, NEW h \in Handler, NEW t \in Template, BeginRemove(h, t)
    PROVE  ReplacedInv'
<1> DEFINE work == [op |-> "remove", author |-> NoAuthor, of |-> t]
<1>1. handler' = [handler EXCEPT ![h] = work] /\ template' = template
  BY DEF BeginRemove
<1>2. work \in WorkRecord /\ work.op = "remove" /\ work.of = t
  BY DEF WorkRecord
<1> HIDE DEF work
<1>3. handler'[h] = work /\ \A g \in Handler \ {h} : handler'[g] = handler[g]
  BY <1>1 DEF ReplacedInv, TemplatesTypeOK
<1>4. TemplatesTypeOK'
  BY <1>1, <1>2 DEF ReplacedInv, TemplatesTypeOK
<1> QED BY <1>1, <1>2, <1>3, <1>4 DEF ReplacedInv, ReplacedIsRetired, Existing

\* The new draft has a row nobody refers to.
LEMMA SaveInv ==
    ASSUME ReplacedInv, NEW h \in Handler, NEW t \in Template, Save(h, t)
    PROVE  ReplacedInv'
<1> DEFINE row == [status |-> "DRAFT", author |-> handler[h].author, replaces |-> handler[h].of]
<1>1. /\ handler[h].op = "create" /\ Unreferenced(t)
      /\ template' = [template EXCEPT ![t] = row] /\ handler' = [handler EXCEPT ![h] = NoWork]
  BY DEF Save
<1>2. /\ row \in RowRecord /\ row.status = "DRAFT" /\ row.replaces = handler[h].of
      /\ handler[h].of \in Template \union {NoTemplate}
  BY DEF ReplacedInv, TemplatesTypeOK, WorkRecord, RowRecord
<1> HIDE DEF row
<1>3. /\ template'[t] = row /\ \A o \in Template \ {t} : template'[o] = template[o]
      /\ handler'[h] = NoWork /\ \A g \in Handler \ {h} : handler'[g] = handler[g]
  BY <1>1 DEF ReplacedInv, TemplatesTypeOK
<1>4. TemplatesTypeOK'
  BY <1>1, <1>2, RowTypes DEF ReplacedInv, TemplatesTypeOK
<1>5. /\ \A g \in Handler : handler[g].of # t
      /\ \A o \in Existing : template[o].replaces # t
      /\ Existing' = Existing \union {t}
  BY <1>1, <1>2, <1>3 DEF Unreferenced, Existing
<1>6. \A o \in Template : template[o].replaces \in Template \union {NoTemplate}
  BY DEF ReplacedInv, TemplatesTypeOK, RowRecord
<1>7. ReplacedIsRetired'
  <2> SUFFICES ASSUME NEW o \in Existing', template'[o].status # "DRAFT",
                      template'[o].replaces # NoTemplate
               PROVE  template'[template'[o].replaces].status \notin {"DRAFT", "CONFIRMED"}
    BY DEF ReplacedIsRetired
  <2>1. o \in Existing /\ o # t /\ template'[o] = template[o]
    BY <1>2, <1>3, <1>5 DEF Existing
  <2>2. template[o].replaces \in Template \ {t}
    BY <1>5, <1>6, <2>1 DEF Existing
  <2> QED BY <1>3, <2>1, <2>2 DEF ReplacedInv, ReplacedIsRetired
<1>8. ASSUME NEW o \in Existing', template'[o].replaces # NoTemplate
      PROVE  template'[template'[o].replaces].status # "DRAFT" /\ template'[o].replaces # o
  <2>1. CASE o = t
    BY <1>1, <1>2, <1>3, <1>5, <1>8, <2>1 DEF ReplacedInv
  <2>2. CASE o # t
    <3>1. o \in Existing /\ template'[o] = template[o] /\ template[o].replaces \in Template \ {t}
      BY <1>3, <1>5, <1>6, <1>8, <2>2 DEF Existing
    <3> QED BY <1>3, <1>8, <3>1 DEF ReplacedInv
  <2> QED BY <2>1, <2>2
<1>9. ASSUME NEW g \in Handler, handler'[g].op = "create", handler'[g].of # NoTemplate
      PROVE  template'[handler'[g].of].status # "DRAFT"
  <2>1. g # h /\ handler'[g] = handler[g]
    BY <1>3, <1>9, RowTypes
  <2>2. handler[g].of \in Template \ {t}
    BY <1>5, <1>9, <2>1 DEF ReplacedInv, TemplatesTypeOK, WorkRecord
  <2> QED BY <1>3, <1>9, <2>1, <2>2 DEF ReplacedInv
<1>10. \A g \in Handler : handler'[g].op = "remove" => handler'[g].of \in Template
  BY <1>3, RowTypes DEF ReplacedInv
<1> QED BY <1>4, <1>7, <1>8, <1>9, <1>10 DEF ReplacedInv

\* A step that writes no new row and makes nothing a draft.
LEMMA StatusStepInv ==
    ASSUME ReplacedInv, TemplatesTypeOK', UNCHANGED handler,
           \A o \in Template : /\ template'[o].replaces = template[o].replaces
                               /\ o \in Existing' => o \in Existing
                               /\ template'[o].status = "DRAFT" => template[o].status = "DRAFT",
           ReplacedIsRetired'
    PROVE  ReplacedInv'
<1>1. \A o \in Template : template[o].replaces \in Template \union {NoTemplate}
  BY DEF ReplacedInv, TemplatesTypeOK, RowRecord
<1>2. \A g \in Handler : handler[g].of \in Template \union {NoTemplate}
  BY DEF ReplacedInv, TemplatesTypeOK, WorkRecord
<1>3. \A o \in Existing' : template'[o].replaces # NoTemplate
        => template'[template'[o].replaces].status # "DRAFT" /\ template'[o].replaces # o
  BY <1>1 DEF ReplacedInv, Existing
<1>4. \A g \in Handler : handler'[g].op = "create" /\ handler'[g].of # NoTemplate
        => template'[handler'[g].of].status # "DRAFT"
  BY <1>2 DEF ReplacedInv
<1> QED BY <1>3, <1>4 DEF ReplacedInv

LEMMA ConfirmInv ==
    ASSUME ReplacedInv, NEW t \in Template, NEW u \in Author, Confirm(t, u)
    PROVE  ReplacedInv'
<1>1. /\ template[t].status = "DRAFT" /\ handler' = handler
      /\ template' = [o \in Template |->
                        IF o = t THEN [template[o] EXCEPT !.status = "CONFIRMED"]
                        ELSE IF o \in Retired(t) THEN [template[o] EXCEPT !.status = "RETIRED"]
                        ELSE template[o]]
  BY DEF Confirm
<1>2. \A o \in Template : template[o] \in RowRecord
  BY DEF ReplacedInv, TemplatesTypeOK
<1>3. ASSUME NEW o \in Template
      PROVE  /\ template'[o] \in RowRecord /\ template'[o].replaces = template[o].replaces
             /\ template'[o].status = IF o = t THEN "CONFIRMED"
                                      ELSE IF o \in Retired(t) THEN "RETIRED"
                                      ELSE template[o].status
  BY <1>1, <1>2 DEF RowRecord
<1>4. TemplatesTypeOK'
  BY <1>1, <1>3 DEF ReplacedInv, TemplatesTypeOK
<1>5. \A o \in Template : o \in Existing' => o \in Existing
  BY <1>1, <1>3 DEF Existing, Retired
<1>6. ReplacedIsRetired'
  <2> SUFFICES ASSUME NEW o \in Existing', template'[o].status # "DRAFT",
                      template'[o].replaces # NoTemplate
               PROVE  template'[template'[o].replaces].status \notin {"DRAFT", "CONFIRMED"}
    BY DEF ReplacedIsRetired
  <2> DEFINE r == template[o].replaces
  <2>1. o \in Existing /\ o \in Template /\ template'[o].replaces = r /\ r # NoTemplate
    BY <1>3, <1>5 DEF Existing
  <2>2. r \in Template /\ template[r].status # "DRAFT" /\ r # t
    BY <1>1, <1>2, <2>1 DEF ReplacedInv, RowRecord
  <2>3. template'[r].status \in {"RETIRED", template[r].status}
    BY <1>3, <2>2
  <2>4. CASE o = t
    BY <1>3, <2>1, <2>2, <2>4 DEF Retired
  <2>5. CASE o # t
    <3>1. template[o].status # "DRAFT"
      BY <1>3, <2>1, <2>5 DEF Retired
    <3> QED BY <2>1, <2>3, <3>1 DEF ReplacedInv, ReplacedIsRetired
  <2> QED BY <2>4, <2>5
<1> QED BY <1>1, <1>3, <1>4, <1>5, <1>6, StatusStepInv

LEMMA RetireInv == ASSUME ReplacedInv, NEW t \in Template, Retire(t) PROVE ReplacedInv'
<1>1. /\ template[t].status = "CONFIRMED" /\ handler' = handler
      /\ template' = [template EXCEPT ![t] = [template[t] EXCEPT !.status = "RETIRED"]]
  BY DEF Retire
<1>2. \A o \in Template : template[o] \in RowRecord
  BY DEF ReplacedInv, TemplatesTypeOK
<1>3. ASSUME NEW o \in Template
      PROVE  /\ template'[o] \in RowRecord /\ template'[o].replaces = template[o].replaces
             /\ template'[o].status = IF o = t THEN "RETIRED" ELSE template[o].status
  BY <1>1, <1>2 DEF RowRecord, ReplacedInv, TemplatesTypeOK
<1>4. TemplatesTypeOK'
  BY <1>1, <1>3 DEF ReplacedInv, TemplatesTypeOK
<1>5. \A o \in Template : o \in Existing' => o \in Existing
  BY <1>1, <1>3 DEF Existing
<1>6. ReplacedIsRetired'
  BY <1>1, <1>2, <1>3, <1>5 DEF ReplacedInv, ReplacedIsRetired, Existing, RowRecord
<1> QED BY <1>1, <1>3, <1>4, <1>5, <1>6, StatusStepInv

LEMMA RemoveInv == ASSUME ReplacedInv, NEW h \in Handler, Remove(h) PROVE ReplacedInv'
<1>0. PICK t \in Template : handler[h].of = t
  BY DEF Remove, ReplacedInv
<1>1. template' = [template EXCEPT ![t] = NoRow] /\ handler' = [handler EXCEPT ![h] = NoWork]
  BY <1>0 DEF Remove
<1>2. /\ template'[t] = NoRow /\ \A o \in Template \ {t} : template'[o] = template[o]
      /\ handler'[h] = NoWork /\ \A g \in Handler \ {h} : handler'[g] = handler[g]
  BY <1>1 DEF ReplacedInv, TemplatesTypeOK
<1>3. TemplatesTypeOK'
  BY <1>1, RowTypes DEF ReplacedInv, TemplatesTypeOK
<1>4. \A o \in Template : template[o].replaces \in Template \union {NoTemplate}
  BY DEF ReplacedInv, TemplatesTypeOK, RowRecord
<1>5. \A o \in Existing' : o \in Existing /\ o \in Template \ {t} /\ template'[o] = template[o]
  BY <1>2, RowTypes DEF Existing
<1>6. \A o \in Template : template'[o].status \in {template[o].status, "NONE"}
  BY <1>2, RowTypes
<1>7. ReplacedIsRetired'
  BY <1>4, <1>5, <1>6 DEF ReplacedInv, ReplacedIsRetired
<1>8. \A o \in Existing' : template'[o].replaces # NoTemplate
        => template'[template'[o].replaces].status # "DRAFT" /\ template'[o].replaces # o
  BY <1>4, <1>5, <1>6 DEF ReplacedInv
<1>9. ASSUME NEW g \in Handler, handler'[g].op = "create", handler'[g].of # NoTemplate
      PROVE  template'[handler'[g].of].status # "DRAFT"
  <2>1. handler'[g] = handler[g] /\ handler[g].of \in Template
    BY <1>2, <1>9, RowTypes DEF ReplacedInv, TemplatesTypeOK, WorkRecord
  <2> QED BY <1>6, <1>9, <2>1 DEF ReplacedInv
<1>10. \A g \in Handler : handler'[g].op = "remove" => handler'[g].of \in Template
  BY <1>2, RowTypes DEF ReplacedInv
<1> QED BY <1>3, <1>7, <1>8, <1>9, <1>10 DEF ReplacedInv

LEMMA TemplatesNextInv == ReplacedInv /\ [TemplatesNext]_templateVars => ReplacedInv'
<1>1. ASSUME ReplacedInv, UNCHANGED templateVars PROVE ReplacedInv'
  BY <1>1 DEF templateVars, ReplacedInv, TemplatesTypeOK, ReplacedIsRetired, Existing
<1> QED
  BY <1>1, BeginSaveInv, BeginRemoveInv, SaveInv, ConfirmInv, RetireInv, RemoveInv DEF TemplatesNext

\* Rows and handlers of the templates stay what they are.
THEOREM TemplatesTypeCorrect == TemplatesSpec => []TemplatesTypeOK
<1>1. ReplacedInv => TemplatesTypeOK
  BY DEF ReplacedInv
<1> QED BY <1>1, TemplatesInitInv, TemplatesNextInv, PTL DEF TemplatesSpec

\* A template and the one that replaced it are never offered together: confirm
\* retires in its transaction what it replaces, and what is replaced was confirmed
\* when the draft was made and is never a draft again.
THEOREM ReplacedIsRetiredAlways == TemplatesSpec => []ReplacedIsRetired
<1>1. ReplacedInv => ReplacedIsRetired
  BY DEF ReplacedInv
<1> QED BY <1>1, TemplatesInitInv, TemplatesNextInv, PTL DEF TemplatesSpec

=================================================================================
