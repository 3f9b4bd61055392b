----------------------------- MODULE RepairLoop -----------------------------
(***************************************************************************)
(* One implement stage (_run_local_implementation_flow in coordinator.py): *)
(* read the documented contract, then either repair the documentation and  *)
(* read it again, or repair the code in a bounded loop with QA, where the  *)
(* last QA is compared with the QA of an unrepaired clone; and judge.      *)
(*                                                                         *)
(* A repository state is the tests its QA command would fail and the       *)
(* findings its documentation would raise.  QA is judged by its output:    *)
(* the lines pytest prints for failures, several of which may look alike,  *)
(* and those like them among what the setup commands print before.         *)
(***************************************************************************)
EXTENDS Naturals, ImplementOutcome

CONSTANTS
  Test, Marker,
  MarkerOf,        \* the line a failing test leaves in the QA output
  SetupLines,      \* such lines that the documented setup may print, or not
  Finding,         \* documentation findings
  Snapshots,       \* repository states considered (all, or a bound)
  Trouble,         \* how QA may fail to reach the tests (all ways, or a bound)
  Issues,          \* issues considered (all, or a bound)
  MaxIterations,   \* repairs per implement (2 in orchestration.py)
  MaxMoves,        \* bound: commits others make to the source repository
  NoRepo

Snapshot == [fails : SUBSET Test, docs : SUBSET Finding]

\* A docs-remediation issue tracks the findings it is to clear and those known already.
Issue == [docs : BOOLEAN, target : SUBSET Finding, known : SUBSET Finding]

ASSUME MarkerAssumption == MarkerOf \in [Test -> Marker]
ASSUME SetupLinesAssumption == SetupLines \subseteq Marker
ASSUME SnapshotsAssumption == Snapshots \subseteq Snapshot
ASSUME TroubleAssumption == Trouble \subseteq {"unrunnable", "failed_infra"}
ASSUME IssuesAssumption == Issues \subseteq Issue
ASSUME MaxIterationsAssumption == MaxIterations \in Nat \ {0}
ASSUME MaxMovesAssumption == MaxMoves \in Nat
ASSUME NoRepoAssumption == NoRepo \notin Snapshot

VARIABLES
  issue,       \* the issue being repaired
  configured,  \* whether a repair agent is configured
  source,      \* the target repository
  moves,       \* commits made to it meanwhile (bounds the model)
  step,
  iteration,   \* of the repair, from 1
  workspace,   \* repair-workspace/repo
  made,        \* the iteration that left it as it is; 0: an earlier implement
  base,        \* what the baseline clone held (observed by properties only)
  baseline,    \* the baseline QA: its status and what it printed
  repair,      \* status of the last repair
  qa,          \* the last QA of a repaired workspace
  execution,   \* status and quality of the execution result
  verdict

vars == <<issue, configured, source, moves, step, iteration, workspace, made, base,
          baseline, repair, qa, execution, verdict>>

QaStatus == {"not_run", "passed", "failed", "unrunnable", "failed_infra"}
Quality  == {"none", "green", "improved", "degraded"}

NotRun == [status |-> "not_run", markers |-> {}]
NoQa   == [status |-> "not_run", quality |-> "none", of |-> 0]

Init ==
  /\ issue \in Issues
  /\ configured \in BOOLEAN
  /\ source \in Snapshots
  /\ moves = 0
  /\ step = "synthesis"
  /\ iteration = 1
  /\ workspace \in Snapshots \union {NoRepo}
  /\ made = 0
  /\ base = NoRepo
  /\ baseline = NotRun
  /\ repair = "none"
  /\ qa = NoQa
  /\ execution = [status |-> "none", quality |-> "none"]
  /\ verdict = "none"

\* Somebody commits to the repository the clones are made of.
Upstream ==
  /\ moves < MaxMoves
  /\ step \notin {"judge", "done"}
  /\ moves' = moves + 1
  /\ source' \in Snapshots \ {source}
  /\ UNCHANGED <<issue, configured, step, iteration, workspace, made, base, baseline,
                 repair, qa, execution, verdict>>

-----------------------------------------------------------------------------
(* What a QA run may report on a repository state, and how it is graded.   *)

Markers(tests) == { MarkerOf[t] : t \in tests }

\* What a test command that ran leaves in the output, together with the setup before it.
Printed(tests) == { Markers(tests) \union lines : lines \in SUBSET SetupLines }

\* A test command that ran tells failing tests apart by their lines only. One that did
\* not get that far may have printed anything.
QaReports(s) ==
  { r \in [status : {"passed", "failed"} \union Trouble, markers : SUBSET Marker] :
      /\ r.status = "passed" => s.fails = {}
      /\ r.status = "failed" => s.fails # {}
      /\ r.status \in {"passed", "failed"} => r.markers \in Printed(s.fails) }

\* Slip: no fewer failures than before are enough.
GradeUnchanged(before, r) ==
  IF before.status \in {"failed", "failed_infra"} /\ r.markers \subseteq before.markers
    THEN "improved"
  ELSE IF r.status = "passed" THEN "green" ELSE "degraded"

\* The baseline counts as broken only if its tests failed or could not be set up.
Grade(before, r) ==
  IF before.status \in {"failed", "failed_infra"}
     /\ r.markers \subseteq before.markers /\ r.markers # before.markers
    THEN "improved"
  ELSE IF r.status = "passed" THEN "green" ELSE "degraded"

-----------------------------------------------------------------------------
(* The contract, the baseline and the repair.                              *)

\* The documentation of the working copy; without a usable contract, and for any but
\* a docs-remediation issue, nothing is repaired.
Synthesise ==
  /\ step = "synthesis"
  /\ \/ /\ execution' = [status |-> "failed_infra", quality |-> "none"]
        /\ step' = "judge"
     \/ IF issue.docs
        THEN step' = "docs_repair" /\ UNCHANGED execution
        ELSE IF source.docs = {}
        THEN step' = "baseline" /\ UNCHANGED execution
        ELSE /\ execution' = [status |-> "missing_docs", quality |-> "none"]
             /\ step' = "judge"
  /\ UNCHANGED <<issue, configured, source, moves, iteration, workspace, made, base,
                 baseline, repair, qa, verdict>>

Baseline ==
  /\ step = "baseline"
  /\ \/ /\ baseline' \in QaReports(source)
        /\ base' = source
     \/ /\ baseline' = [status |-> "failed_infra", markers |-> {}]
        /\ UNCHANGED base
  /\ step' = "repair"
  /\ UNCHANGED <<issue, configured, source, moves, iteration, workspace, made, repair, qa,
                 execution, verdict>>

\* RepairStage.execute. The stage may refuse before it touches the workspace, fail to
\* make a fresh clone, or run the agent, which may change anything and yet not finish.
RepairRefused ==
  /\ repair' \in {"failed_infra"} \union (IF configured THEN {} ELSE {"not_configured"})
  /\ UNCHANGED <<workspace, made>>

RepairUnprepared ==
  /\ configured
  /\ repair' = "failed_infra"
  /\ workspace' \in {NoRepo, source}
  /\ made' = iteration

AgentRan ==
  /\ configured
  /\ repair' \in {"completed", "blocked", "failed_infra"}
  /\ workspace' \in Snapshots \union (IF repair' = "completed" THEN {} ELSE {NoRepo})
  /\ made' = iteration

RunRepairStage == RepairRefused \/ RepairUnprepared \/ AgentRan

\* A repair that did not complete ends the loop, with the QA of the iteration before.
Repair ==
  /\ step = "repair"
  /\ RunRepairStage
  /\ step' = IF repair' = "completed" THEN "verify" ELSE "merge"
  /\ UNCHANGED <<issue, configured, source, moves, iteration, base, baseline, qa,
                 execution, verdict>>

\* Slip: one round too many.
MayRepeatOnce(i) == i <= MaxIterations

MayRepeat(i) == i < MaxIterations

\* Slip: the rounds are not counted.
VerifyUncounted ==
  /\ step = "verify"
  /\ \E r \in QaReports(workspace) :
       /\ qa' = [status |-> r.status, quality |-> Grade(baseline, r), of |-> iteration]
       /\ step' = IF r.status = "failed" THEN "repair" ELSE "merge"
  /\ UNCHANGED <<issue, configured, source, moves, iteration, workspace, made, base,
                 baseline, repair, execution, verdict>>

\* Failing tests are fed back to the agent while there are iterations left.
Verify ==
  /\ step = "verify"
  /\ \E r \in QaReports(workspace) :
       /\ qa' = [status |-> r.status, quality |-> Grade(baseline, r), of |-> iteration]
       /\ IF r.status = "failed" /\ MayRepeat(iteration)
          THEN step' = "repair" /\ iteration' = iteration + 1
          ELSE step' = "merge" /\ UNCHANGED iteration
  /\ UNCHANGED <<issue, configured, source, moves, workspace, made, base, baseline,
                 repair, execution, verdict>>

\* Slip: a QA that could not run is as good as one that passed.
MergedTrusting(r, q) ==
  IF r = "completed" /\ q.status \in {"passed", "unrunnable"} THEN "completed"
  ELSE IF q.status \in {"failed", "failed_infra"} THEN
    IF q.quality = "improved" THEN "completed"
    ELSE IF q.status = "failed_infra" THEN "failed_infra" ELSE "blocked"
  ELSE IF r = "failed_infra" THEN "failed_infra" ELSE "blocked"

\* merge_execution_result
Merged(r, q) ==
  IF r = "completed" /\ q.status = "passed" THEN "completed"
  ELSE IF q.status \in {"failed", "unrunnable", "failed_infra"} THEN
    IF q.quality = "improved" THEN "completed"
    ELSE IF q.status = "failed_infra" THEN "failed_infra" ELSE "blocked"
  ELSE IF r = "failed_infra" THEN "failed_infra" ELSE "blocked"

Merge ==
  /\ step = "merge"
  /\ execution' = [status |-> Merged(repair, qa), quality |-> qa.quality]
  /\ step' = "judge"
  /\ UNCHANGED <<issue, configured, source, moves, iteration, workspace, made, base,
                 baseline, repair, qa, verdict>>

-----------------------------------------------------------------------------
(* Docs remediation: one repair, and the documentation is read again.      *)

DocsRepair ==
  /\ step = "docs_repair"
  /\ RunRepairStage
  /\ step' = "validate"
  /\ UNCHANGED <<issue, configured, source, moves, iteration, base, baseline, qa,
                 execution, verdict>>

\* Slip: only what the issue tracked is looked at.
DocsStatusOnTarget(i, found) ==
  IF found \intersect i.target # {} THEN "missing_docs" ELSE "completed"

\* An issue that tracks nothing is to clear whatever is found.
DocsStatus(i, found) ==
  LET target == IF i.target = {} THEN found ELSE i.target
  IN  IF found \intersect target # {} \/ ~(found \subseteq target \union i.known)
      THEN "missing_docs" ELSE "completed"

\* Slip: the repaired documentation is judged however the repair ended.
ValidateAnyway ==
  /\ step = "validate"
  /\ execution' = [status |-> IF workspace = NoRepo THEN "failed_infra"
                              ELSE DocsStatus(issue, workspace.docs),
                   quality |-> "none"]
  /\ step' = "judge"
  /\ UNCHANGED <<issue, configured, source, moves, iteration, workspace, made, base,
                 baseline, repair, qa, verdict>>

\* evaluate_docs_remediation_validation, merge_docs_remediation_execution_result
Validate ==
  /\ step = "validate"
  /\ execution' = [status |-> CASE repair = "completed" -> DocsStatus(issue, workspace.docs)
                                [] repair = "failed_infra" -> "failed_infra"
                                [] OTHER -> "blocked",
                   quality |-> "none"]
  /\ step' = "judge"
  /\ UNCHANGED <<issue, configured, source, moves, iteration, workspace, made, base,
                 baseline, repair, qa, verdict>>

-----------------------------------------------------------------------------
\* evaluate_run and apply_governance: an issue that got here has a runnable intake.
Judge ==
  /\ step = "judge"
  /\ verdict' = IF execution.status = "completed" THEN "approved" ELSE "blocked"
  /\ step' = "done"
  /\ UNCHANGED <<issue, configured, source, moves, iteration, workspace, made, base,
                 baseline, repair, qa, execution>>

Proceed ==
  Synthesise \/ Baseline \/ Repair \/ Verify \/ Merge \/ DocsRepair \/ Validate \/ Judge

Next == Proceed \/ Upstream

\* Every tool the stage runs is run to its end.
Spec == Init /\ [][Next]_vars /\ WF_vars(Proceed)
-----------------------------------------------------------------------------
(* Properties.                                                             *)

TypeOK ==
  /\ issue \in Issue /\ configured \in BOOLEAN
  /\ source \in Snapshot /\ base \in Snapshot \union {NoRepo}
  /\ workspace \in Snapshot \union {NoRepo}
  /\ moves \in 0..MaxMoves /\ iteration \in 1..MaxIterations /\ made \in 0..MaxIterations
  /\ step \in {"synthesis", "baseline", "repair", "verify", "merge", "docs_repair",
               "validate", "judge", "done"}
  /\ baseline \in [status : QaStatus, markers : SUBSET Marker]
  /\ repair \in {"none", "not_configured", "completed", "blocked", "failed_infra"}
  /\ qa \in [status : QaStatus, quality : Quality, of : 0..MaxIterations]
  /\ execution \in [status : {"none", "completed", "blocked", "missing_docs", "failed_infra"},
                   quality : Quality]
  /\ verdict \in {"none", "approved", "blocked"}

Approved == verdict = "approved"

\* A code repair approved on its own merits, not for improving on a broken baseline,
\* leaves a workspace that was tested as it stands and fails no test, however many
\* rounds it took (run_repair_qa_loop, merge_execution_result).
ApprovedWorkspacePasses ==
  Approved /\ ~issue.docs /\ execution.quality # "improved" =>
    repair = "completed" /\ qa.of = made /\ workspace.fails = {}

\* A completed repair approved although its tests still fail shows strictly fewer
\* failure lines than the QA of the unrepaired clone did, where that ran, and none that is
\* not of the clone's tests or of the setup; without lines of the setup, strictly fewer
\* than the clone's tests (_finalize_qa_result). Commits made meanwhile do not matter.
ImprovesOnBaseline ==
  Approved /\ repair = "completed" /\ qa.status = "failed" =>
    /\ baseline.status \in {"failed", "failed_infra"}
    /\ baseline.status = "failed" =>
         /\ Markers(workspace.fails) \subseteq Markers(base.fails) \union SetupLines
         /\ Markers(workspace.fails) \subseteq baseline.markers
         /\ Markers(workspace.fails) # baseline.markers
         /\ SetupLines = {} => Markers(workspace.fails) # Markers(base.fails)

\* An approved docs remediation leaves documentation without any finding the issue
\* was opened for, and without any that was not known before
\* (evaluate_docs_remediation_scope).
DocsCleared ==
  Approved /\ issue.docs =>
    repair = "completed" /\ workspace.docs \subseteq issue.known \ issue.target

\* Whatever the stage comes to is one of the outcomes the workflow is prepared for; in
\* particular nothing is approved without either a completed repair or QA results.
Outcome ==
  [ repair   |-> IF repair \in {"none", "completed"} THEN repair ELSE "incomplete",
    qa       |-> repair # "none" /\ ~issue.docs,
    approved |-> Approved ]

OutcomeForeseen == step = "done" => Outcome \in Outcomes

\* The stage always comes to a verdict: repair and QA take turns a bounded number of
\* times, whatever the agent and the tests do.
Concludes == <>(step = "done")

\* docs/architecture.md: the final QA is run against the repaired workspace. The QA an
\* approval rests on is about the workspace that publishing would push.
FinalQaIsOfWorkspace ==
  Approved /\ ~issue.docs => qa.of = made

\* docs/architecture.md: governance blocks when QA evidence is unrunnable or missing.
UnrunnableQaBlocks ==
  Approved /\ ~issue.docs => qa.status \in {"passed", "failed"}
=============================================================================
