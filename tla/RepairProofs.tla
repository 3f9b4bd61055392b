---------------------------- MODULE RepairProofs ----------------------------
(***************************************************************************)
(* Proofs about RepairLoop, for any tests, findings, number of iterations  *)
(* and commits: what an approval says about the workspace that is left.    *)
(***************************************************************************)
EXTENDS RepairLoop, TLAPS

Assumptions ==
  /\ MarkerOf \in [Test -> Marker] /\ Snapshots \subseteq Snapshot
  /\ Trouble \subseteq {"unrunnable", "failed_infra"} /\ Issues \subseteq Issue
  /\ MaxIterations \in Nat \ {0} /\ MaxMoves \in Nat /\ NoRepo \notin Snapshot

\* The two kinds of issue take different ways through the stage, and only a repair of
\* code is tested.
Routed ==
  /\ step \in {"docs_repair", "validate"} => issue.docs
  /\ step \in {"baseline", "repair", "verify", "merge"} => ~issue.docs
  /\ step \in {"synthesis", "docs_repair", "baseline"} => repair = "none"
  /\ step \in {"merge", "validate"} => repair # "none"
  /\ step = "verify" => repair = "completed"
  /\ issue.docs \/ repair = "none" => qa = NoQa
  /\ step # "done" => verdict = "none"

BaselineReported ==
  baseline.status = "failed" =>
    base \in Snapshot /\ baseline.markers \in Printed(base.fails)

\* A completed repair leaves a repository; verify is about the one just made.
Repaired ==
  /\ repair = "completed" => workspace \in Snapshot
  /\ step = "verify" => made = iteration

\* The improvement over the baseline that a grade stands for.
Improves ==
  /\ baseline.status \in {"failed", "failed_infra"}
  /\ baseline.status = "failed" =>
       /\ Markers(workspace.fails) \subseteq Markers(base.fails) \union SetupLines
       /\ Markers(workspace.fails) \subseteq baseline.markers
       /\ Markers(workspace.fails) # baseline.markers
       /\ SetupLines = {} => Markers(workspace.fails) # Markers(base.fails)

\* Once the loop has ended with a completed repair, the QA is about its workspace.
QaReported ==
  step \in {"merge", "judge", "done"} /\ ~issue.docs /\ repair = "completed" =>
    /\ qa.of = made
    /\ qa.status = "passed" => workspace.fails = {}
    /\ qa.status = "failed" /\ qa.quality = "improved" => Improves

\* What an execution that counts as completed rests on.
Judged ==
  step \in {"judge", "done"} /\ execution.status = "completed" =>
    IF issue.docs
    THEN repair = "completed" /\ DocsStatus(issue, workspace.docs) = "completed"
    ELSE /\ repair # "none"
         /\ Merged(repair, qa) = "completed" /\ execution.quality = qa.quality

Decided == step = "done" => (Approved <=> execution.status = "completed")

IInv ==
  TypeOK /\ Routed /\ BaselineReported /\ Repaired /\ QaReported /\ Judged /\ Decided

-----------------------------------------------------------------------------
LEMMA AssumptionsHold == Assumptions
BY MarkerAssumption, SnapshotsAssumption, TroubleAssumption, IssuesAssumption,
   MaxIterationsAssumption, MaxMovesAssumption, NoRepoAssumption DEF Assumptions

\* A test that fails leaves one of the lines.
LEMMA MarkersType ==
  ASSUME Assumptions, NEW tests \in SUBSET Test
  PROVE  Markers(tests) \subseteq Marker
BY DEF Markers, Assumptions

\* A report has a status and lines; a QA that ran reports the failures there are.
LEMMA ReportFacts ==
  ASSUME Assumptions, NEW s, NEW r \in QaReports(s)
  PROVE  /\ r \in [status : QaStatus, markers : SUBSET Marker]
         /\ r.status = "passed" => s.fails = {}
         /\ r.status = "failed" => r.markers \in Printed(s.fails)
BY DEF QaReports, QaStatus, Assumptions

\* A grade is a quality, and "improved" means strictly fewer lines than a broken baseline.
LEMMA GradeFacts ==
  ASSUME NEW before, NEW r
  PROVE  /\ Grade(before, r) \in Quality
         /\ Grade(before, r) = "improved" =>
              /\ before.status \in {"failed", "failed_infra"}
              /\ r.markers \subseteq before.markers /\ r.markers # before.markers
BY DEF Grade, Quality

\* The merge never needs a status of its own.
LEMMA MergedType ==
  ASSUME NEW r, NEW q
  PROVE  Merged(r, q) \in {"completed", "blocked", "failed_infra"}
BY DEF Merged

\* Findings that a docs remediation counts as cleared are known, and not its targets.
LEMMA DocsStatusFacts ==
  ASSUME NEW i, NEW found
  PROVE  /\ DocsStatus(i, found) \in {"missing_docs", "completed"}
         /\ DocsStatus(i, found) = "completed" => found \subseteq i.known \ i.target
BY DEF DocsStatus

-----------------------------------------------------------------------------
LEMMA InitIInv ==
  ASSUME Assumptions, Init
  PROVE  IInv
<1>1. TypeOK
  BY DEF Init, TypeOK, Assumptions, NotRun, NoQa, QaStatus, Quality
<1>2. Routed /\ BaselineReported /\ Repaired /\ QaReported /\ Judged /\ Decided
  BY DEF Init, Routed, BaselineReported, Repaired, QaReported, Judged, Decided, NotRun
<1> QED BY <1>1, <1>2 DEF IInv

\* The repair stage leaves a status, and a repository if it completed.
LEMMA StageFacts ==
  ASSUME Assumptions, TypeOK, RunRepairStage
  PROVE  /\ repair' \in {"not_configured", "completed", "blocked", "failed_infra"}
         /\ workspace' \in Snapshot \union {NoRepo}
         /\ made' \in 0..MaxIterations
         /\ repair' = "completed" => workspace' \in Snapshot /\ made' = iteration
<1>1. CASE RepairRefused
  BY <1>1 DEF RepairRefused, TypeOK
<1>2. CASE RepairUnprepared
  BY <1>2 DEF RepairUnprepared, TypeOK, Assumptions
<1>3. CASE AgentRan
  BY <1>3 DEF AgentRan, TypeOK, Assumptions
<1> QED BY <1>1, <1>2, <1>3 DEF RunRepairStage

-----------------------------------------------------------------------------
(* One lemma per action.                                                   *)

LEMMA UpstreamStep ==
  ASSUME Assumptions, IInv, Upstream
  PROVE  IInv'
<1>1. TypeOK'
  BY DEF IInv, Upstream, TypeOK, Assumptions
<1>2. (Routed /\ BaselineReported /\ Repaired /\ QaReported /\ Judged /\ Decided)'
  BY DEF IInv, Upstream, Routed, BaselineReported, Repaired, QaReported, Improves, Judged,
         Decided, Approved
<1> QED BY <1>1, <1>2 DEF IInv

LEMMA SynthesiseStep ==
  ASSUME Assumptions, IInv, Synthesise
  PROVE  IInv'
<1>1. TypeOK'
  BY DEF IInv, Synthesise, TypeOK, Quality
<1>2. (Routed /\ BaselineReported /\ Repaired)'
  BY DEF IInv, Synthesise, Routed, BaselineReported, Repaired
<1>3. (QaReported /\ Judged /\ Decided)'
  BY DEF IInv, Synthesise, Routed, QaReported, Judged, Decided, TypeOK
<1> QED BY <1>1, <1>2, <1>3 DEF IInv

LEMMA BaselineStep ==
  ASSUME Assumptions, IInv, Baseline
  PROVE  IInv'
<1>1. /\ baseline' \in [status : QaStatus, markers : SUBSET Marker]
      /\ BaselineReported'
      /\ base' \in Snapshot \union {NoRepo}
  <2>1. CASE baseline' \in QaReports(source) /\ base' = source
    BY <2>1, ReportFacts DEF IInv, TypeOK, BaselineReported
  <2>2. CASE baseline' = [status |-> "failed_infra", markers |-> {}] /\ base' = base
    BY <2>2 DEF IInv, TypeOK, BaselineReported, QaStatus
  <2> QED BY <2>1, <2>2 DEF Baseline
<1>2. TypeOK'
  BY <1>1 DEF IInv, Baseline, TypeOK
<1>3. (Routed /\ Repaired /\ QaReported /\ Judged /\ Decided)'
  BY DEF IInv, Baseline, Routed, Repaired, QaReported, Judged, Decided
<1> QED BY <1>1, <1>2, <1>3 DEF IInv

LEMMA RepairStep ==
  ASSUME Assumptions, IInv, Repair
  PROVE  IInv'
<1>1. /\ repair' \in {"not_configured", "completed", "blocked", "failed_infra"}
      /\ workspace' \in Snapshot \union {NoRepo}
      /\ made' \in 0..MaxIterations
      /\ repair' = "completed" => workspace' \in Snapshot /\ made' = iteration
  BY StageFacts DEF IInv, Repair
<1>2. TypeOK'
  BY <1>1 DEF IInv, Repair, TypeOK
<1>3. (Routed /\ BaselineReported /\ Repaired)'
  BY <1>1 DEF IInv, Repair, Routed, BaselineReported, Repaired
<1>4. (QaReported /\ Judged /\ Decided)'
  BY <1>1 DEF IInv, Repair, QaReported, Judged, Decided
<1> QED BY <1>2, <1>3, <1>4 DEF IInv

LEMMA VerifyStep ==
  ASSUME Assumptions, IInv, Verify
  PROVE  IInv'
<1>1. PICK r \in QaReports(workspace) :
        /\ qa' = [status |-> r.status, quality |-> Grade(baseline, r), of |-> iteration]
        /\ IF r.status = "failed" /\ MayRepeat(iteration)
           THEN step' = "repair" /\ iteration' = iteration + 1
           ELSE step' = "merge" /\ UNCHANGED iteration
  BY DEF Verify
<1>2. /\ r \in [status : QaStatus, markers : SUBSET Marker]
      /\ r.status = "passed" => workspace.fails = {}
      /\ r.status = "failed" => r.markers \in Printed(workspace.fails)
  BY ReportFacts
<1>3. /\ Grade(baseline, r) \in Quality
      /\ Grade(baseline, r) = "improved" =>
           /\ baseline.status \in {"failed", "failed_infra"}
           /\ r.markers \subseteq baseline.markers /\ r.markers # baseline.markers
  BY GradeFacts
<1>4. iteration' \in 1..MaxIterations
  BY <1>1 DEF IInv, TypeOK, MayRepeat, Assumptions
<1>5. qa' \in [status : QaStatus, quality : Quality, of : 0..MaxIterations]
  BY <1>1, <1>2, <1>3 DEF IInv, TypeOK, Assumptions
<1>6. TypeOK'
  BY <1>1, <1>4, <1>5 DEF IInv, Verify, TypeOK
<1>7. (Routed /\ BaselineReported /\ Repaired)'
  BY <1>1 DEF IInv, Verify, Routed, BaselineReported, Repaired
<1>8. QaReported'
  <2>1. qa'.of = made /\ (qa'.status = "passed" => workspace.fails = {})
    BY <1>1, <1>2 DEF IInv, Repaired, Verify
  <2>2. ASSUME qa'.status = "failed", qa'.quality = "improved"
        PROVE  Improves
    <3>1. r.status = "failed" /\ Grade(baseline, r) = "improved"
      BY <1>1, <2>2
    <3>2. PICK lines \in SUBSET SetupLines : r.markers = Markers(workspace.fails) \union lines
      BY <1>2, <3>1 DEF Printed
    <3>3. r.markers \subseteq baseline.markers /\ r.markers # baseline.markers
      BY <1>3, <3>1
    <3>4. ASSUME baseline.status = "failed", NEW before \in SUBSET SetupLines,
                 baseline.markers = Markers(base.fails) \union before
          PROVE  Improves
      BY <1>3, <3>1, <3>2, <3>3, <3>4 DEF Improves
    <3> QED BY <1>3, <3>1, <3>4 DEF IInv, BaselineReported, Improves, Printed
  <2>3. Improves => Improves'
    BY DEF Verify, Improves
  <2> QED BY <2>1, <2>2, <2>3 DEF QaReported, Verify
<1>9. (Judged /\ Decided)'
  BY <1>1 DEF Judged, Decided
<1> QED BY <1>6, <1>7, <1>8, <1>9 DEF IInv

LEMMA MergeStep ==
  ASSUME Assumptions, IInv, Merge
  PROVE  IInv'
<1>1. TypeOK'
  <2>1. execution' \in [status : {"none", "completed", "blocked", "missing_docs",
                                  "failed_infra"}, quality : Quality]
    BY MergedType DEF IInv, Merge, TypeOK
  <2> QED BY <2>1 DEF IInv, Merge, TypeOK
<1>2. (Routed /\ BaselineReported /\ Repaired)'
  BY DEF IInv, Merge, Routed, BaselineReported, Repaired
<1>3. QaReported'
  BY DEF IInv, Merge, QaReported, Improves
<1>4. (Judged /\ Decided)'
  BY DEF IInv, Merge, Routed, Judged, Decided
<1> QED BY <1>1, <1>2, <1>3, <1>4 DEF IInv

LEMMA DocsRepairStep ==
  ASSUME Assumptions, IInv, DocsRepair
  PROVE  IInv'
<1>1. /\ repair' \in {"not_configured", "completed", "blocked", "failed_infra"}
      /\ workspace' \in Snapshot \union {NoRepo}
      /\ made' \in 0..MaxIterations
      /\ repair' = "completed" => workspace' \in Snapshot
  BY StageFacts DEF IInv, DocsRepair
<1>2. TypeOK'
  BY <1>1 DEF IInv, DocsRepair, TypeOK
<1>3. (Routed /\ BaselineReported /\ Repaired /\ QaReported /\ Judged /\ Decided)'
  BY <1>1 DEF IInv, DocsRepair, Routed, BaselineReported, Repaired, QaReported, Judged,
              Decided
<1> QED BY <1>2, <1>3 DEF IInv

LEMMA ValidateStep ==
  ASSUME Assumptions, IInv, Validate
  PROVE  IInv'
<1>1. /\ execution' \in [status : {"none", "completed", "blocked", "missing_docs",
                                   "failed_infra"}, quality : Quality]
      /\ execution'.status = "completed" =>
           repair = "completed" /\ DocsStatus(issue, workspace.docs) = "completed"
  <2>1. CASE repair = "completed"
    BY <2>1, DocsStatusFacts DEF Validate, Quality
  <2>2. CASE repair # "completed"
    BY <2>2 DEF Validate, Quality
  <2> QED BY <2>1, <2>2
<1>2. TypeOK'
  BY <1>1 DEF IInv, Validate, TypeOK
<1>3. (Routed /\ BaselineReported /\ Repaired)'
  BY DEF IInv, Validate, Routed, BaselineReported, Repaired
<1>4. issue.docs /\ issue' = issue /\ repair' = repair /\ workspace' = workspace
  BY DEF IInv, Validate, Routed
<1>5. (QaReported /\ Judged /\ Decided)'
  BY <1>1, <1>4 DEF Validate, QaReported, Judged, Decided
<1> QED BY <1>2, <1>3, <1>5 DEF IInv

LEMMA JudgeStep ==
  ASSUME Assumptions, IInv, Judge
  PROVE  IInv'
<1>1. TypeOK'
  BY DEF IInv, Judge, TypeOK
<1>2. (Routed /\ BaselineReported /\ Repaired)'
  BY DEF IInv, Judge, Routed, BaselineReported, Repaired
<1>3. (QaReported /\ Judged)'
  BY DEF IInv, Judge, QaReported, Improves, Judged
<1>4. Decided'
  BY DEF Judge, Decided, Approved
<1> QED BY <1>1, <1>2, <1>3, <1>4 DEF IInv

LEMMA StutterStep ==
  ASSUME IInv, UNCHANGED vars
  PROVE  IInv'
BY DEF IInv, vars, TypeOK, Routed, BaselineReported, Repaired, QaReported, Improves, Judged,
       Decided, Approved

\* The invariant holds in every state a stage can reach.
THEOREM Invariance == Spec => []IInv
<1>1. Init => IInv
  BY AssumptionsHold, InitIInv
<1>2. IInv /\ [Next]_vars => IInv'
  <2> SUFFICES ASSUME IInv, [Next]_vars PROVE IInv'
    OBVIOUS
  <2>1. CASE Upstream
    BY <2>1, AssumptionsHold, UpstreamStep
  <2>2. CASE Synthesise
    BY <2>2, AssumptionsHold, SynthesiseStep
  <2>3. CASE Baseline
    BY <2>3, AssumptionsHold, BaselineStep
  <2>4. CASE Repair
    BY <2>4, AssumptionsHold, RepairStep
  <2>5. CASE Verify
    BY <2>5, AssumptionsHold, VerifyStep
  <2>6. CASE Merge
    BY <2>6, AssumptionsHold, MergeStep
  <2>7. CASE DocsRepair
    BY <2>7, AssumptionsHold, DocsRepairStep
  <2>8. CASE Validate
    BY <2>8, AssumptionsHold, ValidateStep
  <2>9. CASE Judge
    BY <2>9, AssumptionsHold, JudgeStep
  <2>10. CASE UNCHANGED vars
    BY <2>10, StutterStep
  <2> QED
    BY <2>1, <2>2, <2>3, <2>4, <2>5, <2>6, <2>7, <2>8, <2>9, <2>10 DEF Next, Proceed
<1> QED BY <1>1, <1>2, PTL DEF Spec

-----------------------------------------------------------------------------
(* What follows from the invariant.                                        *)

\* Whoever is approved has a completed execution, and what that rests on.
LEMMA ApprovedFacts ==
  ASSUME IInv, Approved
  PROVE  /\ step = "done"
         /\ issue.docs => repair = "completed" /\ DocsStatus(issue, workspace.docs) = "completed"
         /\ ~issue.docs => /\ repair # "none" /\ Merged(repair, qa) = "completed"
                           /\ execution.quality = qa.quality
<1>1. step = "done"
  BY DEF IInv, Routed, Approved
<1>2. execution.status = "completed"
  BY <1>1 DEF IInv, Decided
<1> QED BY <1>1, <1>2 DEF IInv, Judged

\* Every reachable state is well typed; above all, no round beyond MaxIterations is begun.
THEOREM RepairTypeCorrect == Spec => []TypeOK
<1>1. IInv => TypeOK
  BY DEF IInv
<1> QED BY <1>1, Invariance, PTL

\* An approval that is not owed to a broken baseline is of a workspace that passes.
THEOREM ApprovedPasses == Spec => []ApprovedWorkspacePasses
<1>1. IInv => ApprovedWorkspacePasses
  <2> SUFFICES ASSUME IInv, Approved, ~issue.docs, execution.quality # "improved"
               PROVE  repair = "completed" /\ qa.of = made /\ workspace.fails = {}
    BY DEF ApprovedWorkspacePasses
  <2>1. repair = "completed" /\ qa.status = "passed"
    BY ApprovedFacts DEF Merged
  <2> QED BY <2>1, ApprovedFacts DEF IInv, QaReported
<1> QED BY <1>1, Invariance, PTL

\* A repair approved with failing tests shows strictly fewer failure lines than the QA of
\* the unrepaired clone did, and none but those of its tests and of the setup.
THEOREM ApprovedImproves == Spec => []ImprovesOnBaseline
<1>1. IInv => ImprovesOnBaseline
  <2> SUFFICES ASSUME IInv, Approved, repair = "completed", qa.status = "failed"
               PROVE  Improves
    BY DEF ImprovesOnBaseline, Improves
  <2>1. ~issue.docs
    BY DEF IInv, Routed, NoQa
  <2>2. qa.quality = "improved"
    BY <2>1, ApprovedFacts DEF Merged
  <2> QED BY <2>1, <2>2, ApprovedFacts DEF IInv, QaReported
<1> QED BY <1>1, Invariance, PTL

\* An approved docs remediation leaves known findings only, and none it was to clear.
THEOREM ApprovedDocsCleared == Spec => []DocsCleared
<1>1. IInv => DocsCleared
  BY ApprovedFacts, DocsStatusFacts DEF DocsCleared
<1> QED BY <1>1, Invariance, PTL

\* What the stage comes to is an outcome that Workflow takes in one step.
THEOREM OutcomesForeseen == Spec => []OutcomeForeseen
<1>1. IInv => OutcomeForeseen
  <2> SUFFICES ASSUME IInv, step = "done"
               PROVE  Outcome \in Outcomes
    BY DEF OutcomeForeseen
  <2>1. Approved => repair # "none" /\ (issue.docs => repair = "completed")
    BY ApprovedFacts
  <2>2. /\ Outcome.repair \in {"none", "completed", "incomplete"}
        /\ Outcome.qa \in BOOLEAN /\ Outcome.approved \in BOOLEAN
    BY DEF Outcome, Approved
  <2>3. Outcome.repair = "none" => ~Outcome.qa /\ ~Outcome.approved
    BY <2>1 DEF Outcome
  <2>4. Outcome.repair = "incomplete" /\ ~Outcome.qa => ~Outcome.approved
    BY <2>1 DEF Outcome
  <2>5. Outcome \in [repair : {"none", "completed", "incomplete"}, qa : BOOLEAN,
                     approved : BOOLEAN]
    BY <2>2 DEF Outcome
  <2> QED BY <2>3, <2>4, <2>5 DEF Outcomes
<1> QED BY <1>1, Invariance, PTL
=============================================================================
