-------------------------------- MODULE Planning --------------------------------
(***************************************************************************)
(* One operational project of PlanningService: its plan review, scenarios  *)
(* and calculation runs.                                                   *)
(*                                                                         *)
(* A handler reads the project (and a scenario), checks, and writes later. *)
(* Only some of the writes are guarded by the version that was read: such  *)
(* a write goes through exactly if nobody wrote the row since, which the   *)
(* flags sameProject and sameScenario of a handler say.                    *)
(***************************************************************************)
EXTENDS Naturals

CONSTANTS
    Scenario, Baseline, NoScenario,
    User, Creator, NoUser,
    Call,    \* handlers that run at the same time
    MaxRuns  \* bound: runs kept at a time

ASSUME PlanningAssumption ==
    /\ Baseline \in Scenario /\ NoScenario \notin Scenario
    /\ Creator \in User /\ NoUser \notin User
    /\ MaxRuns \in Nat \ {0}

VARIABLES
    plan, approved, submitter, reviewer,  \* PlanningProject
    exists, baseline,                     \* PlanningScenario
    runs,                                 \* PlanningRun, in the order of runNumber
    call                                  \* the running handlers

projectVars == <<plan, approved, submitter, reviewer>>
scenarioVars == <<exists, baseline>>
vars == <<projectVars, scenarioVars, runs, call>>

PlanStatus == {"DRAFT", "IN_REVIEW", "PLAN_APPROVED", "PLAN_REJECTED", "ARCHIVED"}
LockedForEdit == {"IN_REVIEW", "ARCHIVED"}
Run == 1..MaxRuns
NoRun == 0

\* usable: not INSUFFICIENT_DATA; old: the scenario was updated after the run's
\* creation; current: calculated from what scenario and project still say.
RunRecord == [scenario : Scenario \union {NoScenario}, usable : BOOLEAN,
              old : BOOLEAN, current : BOOLEAN]
Free == [scenario |-> NoScenario, usable |-> FALSE, old |-> FALSE, current |-> FALSE]

\* at: what the handler does next; baselines: those its transaction clears.
CallRecord ==
    [at : {"idle", "withdraw", "project", "inputs", "baseline", "delete", "calculate",
           "submit", "decide"},
     to : {"", "project", "inputs", "baseline"},
     user : User \union {NoUser}, scenario : Scenario \union {NoScenario},
     run : Run \union {NoRun}, baselines : SUBSET Scenario,
     sameProject : BOOLEAN, sameScenario : BOOLEAN, current : BOOLEAN]
Idle == [at |-> "idle", to |-> "", user |-> NoUser, scenario |-> NoScenario, run |-> NoRun,
         baselines |-> {}, sameProject |-> TRUE, sameScenario |-> TRUE,
         current |-> TRUE]

TypeOK ==
    /\ plan \in PlanStatus
    /\ approved \in Run \union {NoRun}
    /\ submitter \in User \union {NoUser} /\ reviewer \in User \union {NoUser}
    /\ exists \subseteq Scenario /\ baseline \subseteq exists
    /\ runs \in [Run -> RunRecord]
    /\ call \in [Call -> CallRecord]

\* createProject: a draft with its baseline scenario.
Init ==
    /\ plan = "DRAFT" /\ approved = NoRun
    /\ submitter = NoUser /\ reviewer = NoUser
    /\ exists = {Baseline} /\ baseline = {Baseline}
    /\ runs = [r \in Run |-> Free]
    /\ call = [h \in Call |-> Idle]

-----------------------------------------------------------------------------

RunsOf(s) == {r \in Run : runs[r].scenario = s}

\* Handler h goes on with record rec.
Begin(h, rec) ==
    /\ call[h].at = "idle"
    /\ call' = [call EXCEPT ![h] = rec]

\* Handler g as the project row, or scenario s, is written under it: only what
\* it still compares or stores is kept track of.
ProjectWritten(g) ==
    IF call[g].at \in {"submit", "decide"} THEN [call[g] EXCEPT !.sameProject = FALSE] ELSE call[g]

ScenarioWritten(g, s, edit) ==
    IF call[g].scenario # s THEN call[g]
    ELSE IF call[g].to \in {"inputs", "baseline"} THEN [call[g] EXCEPT !.sameScenario = FALSE]
    ELSE IF call[g].at = "calculate" /\ edit THEN [call[g] EXCEPT !.current = FALSE]
    ELSE call[g]

EndWithProject(h) == call' = [g \in Call |-> IF g = h THEN Idle ELSE ProjectWritten(g)]

EndWithScenario(h, s, edit) ==
    call' = [g \in Call |-> IF g = h THEN Idle ELSE ScenarioWritten(g, s, edit)]

Touch(s, edit) ==
    runs' = [r \in Run |-> IF runs[r].scenario # s THEN runs[r]
                           ELSE [runs[r] EXCEPT !.old = TRUE, !.current = @ /\ ~edit]]

End(h) == call' = [call EXCEPT ![h] = Idle]

\* The handler throws.
Throw(h) ==
    /\ call[h].at # "idle"
    /\ End(h)
    /\ UNCHANGED <<projectVars, scenarioVars, runs>>

\* beforeEdit, on what was read: go on, or withdraw the approval first.
BeginEdit(h, to, s) ==
    /\ plan \notin LockedForEdit
    /\ Begin(h, [Idle EXCEPT !.at = IF plan = "PLAN_APPROVED" THEN "withdraw" ELSE to,
                             !.to = to, !.scenario = s])
    /\ UNCHANGED <<projectVars, scenarioVars, runs>>

\* Whatever the status has become.
Withdraw(h) ==
    /\ call[h].at = "withdraw"
    /\ plan' = "DRAFT" /\ approved' = NoRun
    /\ call' = [g \in Call |-> IF g = h THEN [call[g] EXCEPT !.at = call[g].to]
                               ELSE ProjectWritten(g)]
    /\ UNCHANGED <<submitter, reviewer, scenarioVars, runs>>

-----------------------------------------------------------------------------
(* Projects and scenarios *)

BeginUpdateProject(h) == BeginEdit(h, "project", NoScenario)

\* Guarded by the version that is there by now.  The details may be inputs of the
\* calculation (dates, currency, warehouse) or not (name, priority): no scenario
\* is updated, so no run gets old.
UpdateProject(h) ==
    /\ call[h].at = "project"
    /\ \E details \in BOOLEAN :
         /\ runs' = [r \in Run |-> [runs[r] EXCEPT !.current = @ /\ ~details]]
         /\ call' = [g \in Call |->
                       IF g = h THEN Idle
                       ELSE IF call[g].at = "calculate"
                       THEN [call[g] EXCEPT !.current = @ /\ ~details]
                       ELSE ProjectWritten(g)]
    /\ UNCHANGED <<projectVars, scenarioVars>>

\* updateProject with a proposal text only.
EditProposal(h) ==
    /\ plan # "ARCHIVED" /\ call[h].at = "idle"
    /\ EndWithProject(h)
    /\ UNCHANGED <<projectVars, scenarioVars, runs>>

CreateScenario(s) ==
    /\ plan # "ARCHIVED" /\ s \notin exists
    /\ exists' = exists \union {s}
    /\ UNCHANGED <<projectVars, baseline, runs, call>>

SameScenario(h) == call[h].sameScenario /\ call[h].scenario \in exists

\* updateScenario, of the inputs.
BeginUpdateScenario(h, s) == s \in exists /\ BeginEdit(h, "inputs", s)

UpdateScenario(h) ==
    LET s == call[h].scenario
    IN  /\ call[h].at = "inputs"
        /\ SameScenario(h)
        /\ Touch(s, TRUE)
        /\ EndWithScenario(h, s, TRUE)
        /\ UNCHANGED <<projectVars, scenarioVars>>

\* updateScenario with isBaseline.  The transaction's first statement finds the
\* baselines of its moment and may wait for their rows; then s becomes one.
BeginMakeBaseline(h, s) == s \in exists \ baseline /\ BeginEdit(h, "baseline", s)

FindBaselines(h) ==
    /\ call[h].at = "baseline" /\ call[h].baselines = {}
    /\ call' = [call EXCEPT ![h].baselines = baseline]
    /\ UNCHANGED <<projectVars, scenarioVars, runs>>

MakeBaseline(h) ==
    LET s == call[h].scenario
    IN  /\ call[h].at = "baseline" /\ call[h].baselines # {}
        /\ SameScenario(h)
        /\ baseline' = (baseline \ call[h].baselines) \union {s}
        /\ runs' = [r \in Run |-> [runs[r] EXCEPT
                      !.old = @ \/ runs[r].scenario \in {s} \union (baseline \cap call[h].baselines)]]
        /\ EndWithScenario(h, s, FALSE)
        /\ UNCHANGED <<projectVars, exists>>

Deletable(s) == s \in exists \ baseline /\ RunsOf(s) = {}

BeginDelete(h, s) ==
    /\ Deletable(s)
    /\ Begin(h, [Idle EXCEPT !.at = "delete", !.scenario = s])
    /\ UNCHANGED <<projectVars, scenarioVars, runs>>

\* The delete is not guarded, and takes the scenario's runs with it.
DeleteScenario(h) ==
    LET s == call[h].scenario
    IN  /\ call[h].at = "delete" /\ s \in exists
        /\ exists' = exists \ {s} /\ baseline' = baseline \ {s}
        /\ runs' = [r \in Run |-> IF runs[r].scenario = s THEN Free ELSE runs[r]]
        /\ End(h)
        /\ UNCHANGED <<projectVars>>

-----------------------------------------------------------------------------
(* Calculation *)

\* Reads project, scenario and warehouse data.
BeginCalculate(h, s) ==
    /\ plan # "ARCHIVED" /\ s \in exists
    /\ Begin(h, [Idle EXCEPT !.at = "calculate", !.scenario = s])
    /\ UNCHANGED <<projectVars, scenarioVars, runs>>

\* The run is stored later, with the next number.
Calculate(h) ==
    LET s == call[h].scenario
    IN  /\ call[h].at = "calculate" /\ s \in exists
        /\ \E r \in Run, usable \in BOOLEAN :
             /\ \A later \in r..MaxRuns : runs[later] = Free
             /\ r > 1 => runs[r - 1] # Free
             /\ runs' = [runs EXCEPT ![r] =
                           [scenario |-> s, usable |-> usable, old |-> FALSE,
                            current |-> call[h].current]]
        /\ End(h)
        /\ UNCHANGED <<projectVars, scenarioVars>>

-----------------------------------------------------------------------------
(* Review *)

FreshRun(r) ==
    /\ runs[r].usable /\ ~runs[r].old
    /\ \A later \in RunsOf(runs[r].scenario) : later <= r

\* Mutant of SameProject: the version is not compared, only the status.
OnlyStatus(h, from) == plan \in from

\* transition: guarded by the version and the status that were read.
SameProject(h, from) == call[h].sameProject /\ plan \in from

BeginSubmit(h, u, r) ==
    /\ plan \in {"DRAFT", "PLAN_REJECTED"}
    /\ FreshRun(r)
    /\ Begin(h, [Idle EXCEPT !.at = "submit", !.user = u, !.run = r])
    /\ UNCHANGED <<projectVars, scenarioVars, runs>>

Submit(h) ==
    /\ call[h].at = "submit"
    /\ SameProject(h, {"DRAFT", "PLAN_REJECTED"})
    /\ plan' = "IN_REVIEW" /\ approved' = call[h].run
    /\ submitter' = call[h].user /\ reviewer' = NoUser
    /\ EndWithProject(h)
    /\ UNCHANGED <<scenarioVars, runs>>

\* Mutant of MayReview: only the submitter is excluded.
NotSubmitter(u) == u # submitter

MayReview(u) == u \notin {submitter, Creator}

BeginDecide(h, u) ==
    /\ plan = "IN_REVIEW" /\ approved # NoRun
    /\ MayReview(u)
    /\ FreshRun(approved)
    /\ Begin(h, [Idle EXCEPT !.at = "decide", !.user = u, !.run = approved])
    /\ UNCHANGED <<projectVars, scenarioVars, runs>>

Decide(h) ==
    /\ call[h].at = "decide"
    /\ SameProject(h, {"IN_REVIEW"})
    /\ plan' \in {"PLAN_APPROVED", "PLAN_REJECTED"}
    /\ reviewer' = call[h].user
    /\ EndWithProject(h)
    /\ UNCHANGED <<approved, submitter, scenarioVars, runs>>

\* The approved run that goes with a status reached by reopening or archiving.
Unapproved(status) == IF status = "DRAFT" THEN NoRun ELSE approved

\* reopen and archive: nothing but the guarded row is read.
Reopen(h) ==
    /\ call[h].at = "idle" /\ plan # "DRAFT"
    /\ plan' = "DRAFT" /\ approved' = Unapproved("DRAFT")
    /\ EndWithProject(h)
    /\ UNCHANGED <<submitter, reviewer, scenarioVars, runs>>

Archive(h) ==
    /\ call[h].at = "idle" /\ plan # "ARCHIVED"
    /\ plan' = "ARCHIVED" /\ approved' = Unapproved("ARCHIVED")
    /\ EndWithProject(h)
    /\ UNCHANGED <<submitter, reviewer, scenarioVars, runs>>

-----------------------------------------------------------------------------

Next ==
    \/ \E h \in Call :
         \/ BeginUpdateProject(h) \/ Withdraw(h) \/ UpdateProject(h) \/ EditProposal(h)
         \/ UpdateScenario(h) \/ FindBaselines(h) \/ MakeBaseline(h) \/ DeleteScenario(h)
         \/ Calculate(h) \/ Submit(h) \/ Decide(h) \/ Reopen(h) \/ Archive(h) \/ Throw(h)
         \/ \E s \in Scenario : \/ BeginUpdateScenario(h, s) \/ BeginMakeBaseline(h, s)
                                \/ BeginDelete(h, s) \/ BeginCalculate(h, s)
         \/ \E u \in User : BeginDecide(h, u) \/ \E r \in Run : BeginSubmit(h, u, r)
    \/ \E s \in Scenario : CreateScenario(s)

Spec == Init /\ [][Next]_vars

-----------------------------------------------------------------------------
(* Properties *)

\* Whatever handlers interleave: a plan in review or approved names a run, and
\* an approved or rejected one was reviewed by neither its submitter nor its author.
ReviewedByAnother ==
    /\ plan \in {"IN_REVIEW", "PLAN_APPROVED"} => approved # NoRun
    /\ plan \in {"PLAN_APPROVED", "PLAN_REJECTED"} =>
         reviewer # NoUser /\ submitter # NoUser /\ reviewer \notin {submitter, Creator}

\* A plan leaves review by the decision of a handler whose freshness check looked
\* at the run that was submitted: nothing is swapped in between.
DecidesWhatWasChecked ==
    [][plan = "IN_REVIEW" /\ plan' \in {"PLAN_APPROVED", "PLAN_REJECTED"}
       => /\ \E h \in Call : /\ call[h].at = "decide" /\ call'[h].at = "idle"
                             /\ call[h].run = approved
          /\ approved' = approved]_vars

\* "Submit needs a run calculated from the current inputs", "Editing an approved
\* plan withdraws the approval": the run of a plan in review or approved was
\* calculated from what its scenario and project say now.  Not so: freshRun
\* compares the run with the scenario's updatedAt, which a change of the project's
\* dates, currency or warehouse leaves alone, and an edit or a calculation that
\* began earlier is written beside the review.
ApprovedIsCurrent ==
    plan \in {"IN_REVIEW", "PLAN_APPROVED"} => runs[approved].usable /\ runs[approved].current

=================================================================================
