------------------------------ MODULE Workflow ------------------------------
(***************************************************************************)
(* The staged workflow of precision-squad: RunStore keeps one directory    *)
(* of artifacts per run, and operators issue CLI commands that read and    *)
(* write those artifacts.  `repair issue` runs the whole chain             *)
(*                                                                         *)
(*   create issue -> review issue -> plan -> review plan -> implement      *)
(*                -> publish                                               *)
(*                                                                         *)
(* either fresh, as a plain retry, or resumed at a stage from the copied   *)
(* artifacts of an earlier run; the other commands run one stage.          *)
(* (RunCoordinator in coordinator.py, RunStore in run_store.py.)           *)
(*                                                                         *)
(* A step of the model ends at a write another command could observe, and  *)
(* an operator's process may die between any two steps.  What implement    *)
(* computes inside is the subject of RepairLoop: here it is one step that  *)
(* rebuilds the workspace and yields one of Outcomes.                      *)
(***************************************************************************)
EXTENDS Naturals, Sequences, ImplementOutcome

CONSTANTS
  RunId,          \* the identifiers runs may be given
  Operator,       \* the processes that issue commands
  GoodPlan,       \* plans that review plan approves
  ThinPlan,       \* valid plans without a retrieval-surface summary
  Intakes,        \* the intakes new runs may be given (all, or a bound)
  MaxAttempts,    \* the retry cap (3 in coordinator.py)
  Commands,       \* the commands the operators use
  MaxCommands,    \* bound: commands issued in a behaviour
  MayCrash,       \* whether a process may die between two steps
  NoRun, NoPlan

Plan == GoodPlan \union ThinPlan

AllCommands == {"create_issue", "review_issue", "plan", "review_plan",
                "implement", "publish_run", "repair_issue"}

ASSUME MaxAttemptsAssumption == MaxAttempts \in Nat \ {0}
ASSUME MaxCommandsAssumption == MaxCommands \in Nat
ASSUME CommandsAssumption == Commands \subseteq AllCommands
ASSUME IntakesAssumption == Intakes \subseteq {"runnable", "rejected", "blocked"}
ASSUME MayCrashAssumption == MayCrash \in BOOLEAN
ASSUME NoRunAssumption == NoRun \notin RunId
ASSUME NoPlanAssumption == NoPlan \notin Plan
ASSUME PlanKindsAssumption == GoodPlan \intersect ThinPlan = {}

VARIABLES
  store,      \* store[r]: what run r's directory holds
  job,        \* job[p]: the command operator p is running, and how far it is
  prs,        \* draft PRs opened on GitHub
  parent,     \* parent[r]: the run r retries (observed by properties only)
  issued      \* number of commands issued so far (bounds the model)

vars == <<store, job, prs, parent, issued>>

-----------------------------------------------------------------------------
(* What a run directory holds.                                             *)

\* "rejected": runnable, and a comment on the issue names a rejected pull request
\* that publishing is to update instead of opening another.
Intake == {"runnable", "rejected", "blocked"}
Review == {"none", "approved", "changes_requested", "blocked"}

\* plan-review.json. The plan that was reviewed is not recorded by the code;
\* `of` remembers it for the properties.
PlanReview == [verdict : Review, of : Plan \union {NoPlan}]

\* judged: the stored verdict is about it; partial: the copying of it is under way, or
\* was cut short.
Workspace == {"none", "partial", "unjudged", "judged"}

RunDir ==
  [ attempt       : Nat,               \* run-record.json; 0: no such run
    intake        : Intake,            \* issue-intake.json
    draft         : BOOLEAN,           \* issue-draft.json exists
    issueReview   : Review,            \* issue-review.json
    plan          : Plan \union {NoPlan},  \* approved-plan.json
    planReview    : PlanReview,
    repair        : {"none", "completed", "incomplete", "escalated"},
    qa            : BOOLEAN,           \* qa-result.json exists
    verdict       : {"none", "approved", "blocked"},  \* governance-verdict.json
    dlog          : SUBSET Nat,        \* attempts with a decision log
    workspace     : Workspace,         \* repair-workspace
    publishPlan   : {"none", "draft_pr", "update_pr", "issue"},
    publishResult : {"none", "dry_run", "published"} ]

EmptyDir ==
  [ attempt |-> 0, intake |-> "blocked", draft |-> FALSE,
    issueReview |-> "none", plan |-> NoPlan,
    planReview |-> [verdict |-> "none", of |-> NoPlan],
    repair |-> "none", qa |-> FALSE, verdict |-> "none", dlog |-> {},
    workspace |-> "none", publishPlan |-> "none", publishResult |-> "none" ]

Exists(r) == store[r].attempt > 0

\* create_run: the record always starts at attempt 1.
NewDir(i) == [EmptyDir EXCEPT !.attempt = 1, !.intake = i, !.draft = TRUE]

-----------------------------------------------------------------------------
(* The two planning reviews are functions of the stored artifacts.         *)

\* Slip: a run is not reviewed twice.
IssueVerdictOnce(d) ==
  IF ~d.draft \/ d.issueReview # "none" THEN "blocked"
  ELSE IF d.intake = "blocked" THEN "changes_requested"
  ELSE "approved"

IssueVerdict(d) ==
  IF ~d.draft THEN "blocked"
  ELSE IF d.intake = "blocked" THEN "changes_requested"
  ELSE "approved"

\* Slip: a verdict of the post-publish review's vocabulary.
PlanVerdictRejects(d) ==
  IF d.issueReview # "approved" \/ d.plan = NoPlan THEN "blocked"
  ELSE IF d.plan \in ThinPlan THEN "rejected"
  ELSE "approved"

PlanVerdict(d) ==
  IF d.issueReview # "approved" \/ d.plan = NoPlan THEN "blocked"
  ELSE IF d.plan \in ThinPlan THEN "changes_requested"
  ELSE "approved"

IssueReviewed(d) == [d EXCEPT !.issueReview = IssueVerdict(d)]
PlanReviewed(d)  ==
  [d EXCEPT !.planReview = [verdict |-> PlanVerdict(d), of |-> d.plan]]

\* write_gated_approved_plan
PlanGate(d) == d.issueReview = "approved"

\* Slip: any stored plan will do.
ImplementGateOnPlan(d) == d.plan # NoPlan

\* require_plan_review_for_implement
ImplementGate(d) == d.plan # NoPlan /\ d.planReview.verdict = "approved"

-----------------------------------------------------------------------------
(* Retry and resume.                                                       *)

ResumeStage == {"review_issue", "plan", "review_plan", "implement",
                "publish", "review_impl"}

\* Slip: from the last stage back, so that a review is copied before what it rests on.
PreservedBackwards ==
  [ stage \in ResumeStage |->
      CASE stage = "review_issue" -> <<"draft">>
        [] stage = "plan"         -> <<"issueReview", "draft">>
        [] stage = "review_plan"  -> <<"plan", "issueReview", "draft">>
        [] OTHER                  -> <<"planReview", "plan", "issueReview", "draft">> ]

\* The artifacts a resumed run copies from its source, in copying order. The workspace
\* is a directory tree: begun at "tree", whole at "workspace".
Preserved ==
  [ stage \in ResumeStage |->
      CASE stage = "review_issue" -> <<"draft">>
        [] stage = "plan"         -> <<"draft", "issueReview">>
        [] stage = "review_plan"  -> <<"draft", "issueReview", "plan">>
        [] stage = "implement"    -> <<"draft", "issueReview", "plan", "planReview">>
        [] stage = "publish"      -> <<"draft", "issueReview", "plan", "planReview", "repair",
                                       "qa", "verdict", "dlog", "tree", "workspace">>
        [] stage = "review_impl"  -> <<"draft", "issueReview", "plan", "planReview",
                                       "publishPlan", "publishResult">> ]

\* What the source run must hold before a retry may resume at a stage. Of the workspace
\* only that the directory is there; the number of a pull request is known only when the
\* run updated an existing one.
MayResume(d, stage) ==
  /\ stage = "review_issue" => d.draft
  /\ stage \in {"plan", "review_plan", "publish"} => d.issueReview = "approved"
  /\ stage \in {"review_plan", "implement", "publish", "review_impl"} => d.plan # NoPlan
  /\ stage \in {"implement", "publish"} => d.planReview.verdict = "approved"
  /\ stage = "publish" =>
       /\ d.draft /\ d.qa
       /\ d.repair = "completed" /\ d.verdict = "approved"
       /\ d.attempt \in d.dlog
       /\ d.workspace # "none"
  /\ stage = "review_impl" =>
       d.publishPlan = "update_pr" /\ d.publishResult = "published"

\* What the chain loads back from the copies before it enters a stage.
CopiesLoad(d, stage) ==
  /\ stage \in {"plan", "review_plan", "implement", "publish"} => d.issueReview # "none"
  /\ stage \in {"implement", "publish"} => d.planReview.verdict # "none"
  /\ stage = "publish" => d.verdict = "approved" /\ d.repair = "completed"
  /\ stage = "review_impl" => d.publishPlan # "none" /\ d.publishResult # "none"

-----------------------------------------------------------------------------
(* Commands in progress.                                                   *)

NoOutcome == [repair |-> "none", qa |-> FALSE, approved |-> FALSE]
Reloaded  == [repair |-> "completed", qa |-> TRUE, approved |-> TRUE]

Step == ResumeStage \union
        {"idle", "write_issue_review", "write_plan", "write_plan_review",
         "number", "escalate", "no_intake", "materialise", "report",
         "repair", "record", "judge", "execute", "result"}

Job == [ step    : Step,
         run     : RunId \union {NoRun},
         src     : RunId \union {NoRun},      \* the run a resume copies from
         from    : ResumeStage,               \* where the chain starts
         plan    : Plan \union {NoPlan},      \* the plan to persist, or that was read
         found   : Review,                    \* the verdict a stage by hand is to store
         publish : BOOLEAN,                   \* --publish
         chain   : BOOLEAN,                   \* `repair issue`, not one stage
         n       : Nat,                       \* attempt to record; artifacts copied
         outcome : Outcomes ]

Idle == [ step |-> "idle", run |-> NoRun, src |-> NoRun, from |-> "review_issue",
          plan |-> NoPlan, found |-> "none", publish |-> FALSE, chain |-> FALSE, n |-> 0,
          outcome |-> NoOutcome ]

At(p, step) == job[p].step = step
Go(p, step) == job' = [job EXCEPT ![p].step = step]
Stop(p)     == job' = [job EXCEPT ![p] = Idle]
Begin(p, j) == job' = [job EXCEPT ![p] = j]

Write(r, d) == store' = [store EXCEPT ![r] = d]

\* A command is issued by an operator who is free.
Issue(p, command) ==
  /\ At(p, "idle")
  /\ command \in Commands
  /\ issued < MaxCommands
  /\ issued' = issued + 1

\* A blocked intake is reported at once, without any stage.
Entry(i, stage) == IF i = "blocked" THEN "report" ELSE stage

Init ==
  /\ store = [r \in RunId |-> EmptyDir]
  /\ job = [p \in Operator |-> Idle]
  /\ prs = {}
  /\ parent = [r \in RunId |-> NoRun]
  /\ issued = 0

-----------------------------------------------------------------------------
(* Commands that run one stage.                                            *)

CreateIssue(p) ==
  /\ Issue(p, "create_issue")
  /\ \E r \in RunId, i \in Intakes : ~Exists(r) /\ Write(r, NewDir(i))
  /\ UNCHANGED <<job, prs, parent>>

\* The planning stages load the artifacts and decide, and write what they decided later,
\* whatever was written to the run in between.
ReviewIssue(p, r) ==
  /\ Issue(p, "review_issue")
  /\ Exists(r)
  /\ Begin(p, [Idle EXCEPT !.step = "write_issue_review", !.run = r,
                           !.found = IssueVerdict(store[r])])
  /\ UNCHANGED <<store, prs, parent>>

WriteIssueReview(p) ==
  LET r == job[p].run
  IN  /\ At(p, "write_issue_review")
      /\ Write(r, [store[r] EXCEPT !.issueReview = job[p].found])
      /\ Stop(p)
      /\ UNCHANGED <<prs, parent, issued>>

PlanRun(p, r, pl) ==
  /\ Issue(p, "plan")
  /\ Exists(r) /\ PlanGate(store[r])
  /\ Begin(p, [Idle EXCEPT !.step = "write_plan", !.run = r, !.plan = pl])
  /\ UNCHANGED <<store, prs, parent>>

WritePlan(p) ==
  LET r == job[p].run
  IN  /\ At(p, "write_plan")
      /\ Write(r, [store[r] EXCEPT !.plan = job[p].plan])
      /\ Stop(p)
      /\ UNCHANGED <<prs, parent, issued>>

ReviewPlan(p, r) ==
  /\ Issue(p, "review_plan")
  /\ Exists(r)
  /\ Begin(p, [Idle EXCEPT !.step = "write_plan_review", !.run = r,
                           !.plan = store[r].plan, !.found = PlanVerdict(store[r])])
  /\ UNCHANGED <<store, prs, parent>>

WritePlanReview(p) ==
  LET r == job[p].run
  IN  /\ At(p, "write_plan_review")
      /\ Write(r, [store[r] EXCEPT !.planReview = [verdict |-> job[p].found,
                                                   of |-> job[p].plan]])
      /\ Stop(p)
      /\ UNCHANGED <<prs, parent, issued>>

ImplementRun(p, r) ==
  /\ Issue(p, "implement")
  /\ Exists(r) /\ ImplementGate(store[r])
  /\ Begin(p, [Idle EXCEPT !.step = "repair", !.run = r])
  /\ UNCHANGED <<store, prs, parent>>

\* `publish run` executes the stored publish plan unless its result is stored.
PublishRun(p, r) ==
  /\ Issue(p, "publish_run")
  /\ Exists(r)
  /\ store[r].publishPlan # "none" /\ store[r].publishResult # "published"
  /\ Begin(p, [Idle EXCEPT !.step = "execute", !.run = r, !.publish = TRUE])
  /\ UNCHANGED <<store, prs, parent>>

-----------------------------------------------------------------------------
(* `repair issue`: fresh, as a plain retry, or resumed at a stage.         *)

Fresh(p, r, i, pl, publish) ==
  /\ Issue(p, "repair_issue")
  /\ ~Exists(r)
  /\ Write(r, NewDir(i))
  /\ Begin(p, [Idle EXCEPT !.step = Entry(i, "review_issue"), !.run = r, !.plan = pl,
                           !.publish = publish, !.chain = TRUE])
  /\ UNCHANGED <<prs, parent>>

\* Slip: one attempt too many.
ExhaustedLate(n) == n > MaxAttempts + 1

\* Past the cap a retry is escalated to a human instead.
Exhausted(n) == n > MaxAttempts

\* The plan of a retry: the one given, else the source run's, which must exist.
Carried(src, pl) == IF pl = NoPlan THEN store[src].plan ELSE pl

Retry(p, src, r, i, pl, publish) ==
  /\ Issue(p, "repair_issue")
  /\ Exists(src) /\ Carried(src, pl) # NoPlan
  /\ ~Exists(r)
  /\ Write(r, NewDir(i))
  /\ parent' = [parent EXCEPT ![r] = src]
  /\ LET n == store[src].attempt + 1
     IN  Begin(p, [Idle EXCEPT !.step = IF Exhausted(n) THEN "escalate" ELSE "number",
                               !.run = r, !.plan = Carried(src, pl), !.n = n,
                               !.publish = publish, !.chain = TRUE])
  /\ UNCHANGED prs

\* A resumed retry takes the source's intake; the caller passes none.
Resume(p, src, r, stage, pl, publish) ==
  /\ Issue(p, "repair_issue")
  /\ Exists(src) /\ MayResume(store[src], stage)
  /\ stage # "review_issue" => Carried(src, pl) # NoPlan
  /\ ~Exists(r)
  /\ LET n == store[src].attempt + 1
     IN  IF Exhausted(n)
         THEN /\ Begin(p, [Idle EXCEPT !.step = "no_intake"])
              /\ UNCHANGED <<store, parent>>
         ELSE /\ Write(r, [EmptyDir EXCEPT !.attempt = n, !.intake = store[src].intake])
              /\ parent' = [parent EXCEPT ![r] = src]
              /\ Begin(p, [Idle EXCEPT
                   !.step = "materialise", !.run = r, !.src = src, !.from = stage,
                   !.plan = IF stage = "review_issue" THEN pl
                            ELSE IF stage = "plan" THEN Carried(src, pl) ELSE NoPlan,
                   !.publish = publish, !.chain = TRUE])
  /\ UNCHANGED prs

RepairIssue(p) ==
  \E pl \in Plan \union {NoPlan}, publish \in BOOLEAN, r \in RunId :
    \/ \E i \in Intakes : Fresh(p, r, i, pl, publish)
    \/ \E src \in RunId, i \in Intakes : Retry(p, src, r, i, pl, publish)
    \/ \E src \in RunId, stage \in ResumeStage : Resume(p, src, r, stage, pl, publish)

\* Slip: the attempt is counted in memory only.
NumberAttemptUnsaved(p) ==
  /\ At(p, "number")
  /\ Go(p, Entry(store[job[p].run].intake, "review_issue"))
  /\ UNCHANGED <<store, prs, parent, issued>>

\* The retried run is renumbered only after it was created.
NumberAttempt(p) ==
  LET r == job[p].run
  IN  /\ At(p, "number")
      /\ Write(r, [store[r] EXCEPT !.attempt = job[p].n])
      /\ Go(p, Entry(store[r].intake, "review_issue"))
      /\ UNCHANGED <<prs, parent, issued>>

\* Past the cap: the plan is kept, nothing is repaired, the issue is told.
Escalate(p) ==
  LET r == job[p].run
  IN  /\ At(p, "escalate")
      /\ Write(r, [store[r] EXCEPT !.attempt = job[p].n, !.plan = job[p].plan,
                                   !.repair = "escalated", !.verdict = "blocked",
                                   !.publishPlan = "issue"])
      /\ Go(p, "execute")
      /\ UNCHANGED <<prs, parent, issued>>

\* The workspace is in parts until the last file is copied. One that an implement rebuilt
\* under the copying is a mixture.
CopyTree(d, from, a) ==
  IF a = "tree"
  THEN [d EXCEPT !.workspace = IF from.workspace = "none" THEN @ ELSE "partial"]
  ELSE [d EXCEPT !.workspace = CASE @ = "partial" -> from.workspace
                                 [] @ = "judged"  -> "unjudged"
                                 [] OTHER         -> @]

\* Slip: the decision log keeps the attempt of the run it came from.
CopyArtifactAsIs(d, from, a) ==
  CASE a \in {"tree", "workspace"} -> CopyTree(d, from, a)
    [] OTHER                      -> [d EXCEPT ![a] = from[a]]

\* Copying stops with the process: what was copied stays, a prefix of Preserved.
\* Reviews are rewritten to the new run, the decision log to the new attempt.
CopyArtifact(d, from, a) ==
  CASE a = "dlog" ->
         [d EXCEPT !.dlog = IF from.attempt \in from.dlog THEN {d.attempt} ELSE {}]
    [] a \in {"tree", "workspace"} -> CopyTree(d, from, a)
    [] OTHER                       -> [d EXCEPT ![a] = from[a]]

\* Nothing is copied over a tree that is there (shutil.copytree).
InTheWay(d, from, a) == a = "tree" /\ d.workspace # "none" /\ from.workspace # "none"

Materialise(p) ==
  LET j == job[p]
      kept == Preserved[j.from]
  IN  /\ At(p, "materialise")
      /\ j.n < Len(kept)
      /\ IF InTheWay(store[j.run], store[j.src], kept[j.n + 1])
         THEN Stop(p) /\ UNCHANGED store
         ELSE /\ Write(j.run, CopyArtifact(store[j.run], store[j.src], kept[j.n + 1]))
              /\ job' = [job EXCEPT ![p].n = j.n + 1]
      /\ UNCHANGED <<prs, parent, issued>>

Enter(p) ==
  LET j == job[p]
      d == store[j.run]
  IN  /\ At(p, "materialise")
      /\ j.n = Len(Preserved[j.from])
      /\ IF d.intake # "blocked" /\ ~CopiesLoad(d, j.from)
         THEN Stop(p)
         ELSE job' = [job EXCEPT ![p].step = Entry(d.intake, j.from), ![p].src = NoRun,
                                 ![p].n = 0,
                                 ![p].outcome = IF j.from = "publish" THEN Reloaded
                                                ELSE NoOutcome]
      /\ UNCHANGED <<store, prs, parent, issued>>

ReportBlocked(p) ==
  LET r == job[p].run
  IN  /\ At(p, "report")
      /\ Write(r, [store[r] EXCEPT !.verdict = "blocked", !.publishPlan = "issue"])
      /\ Go(p, "execute")
      /\ UNCHANGED <<prs, parent, issued>>

-----------------------------------------------------------------------------
(* The stages of the chain: each goes on only with an approval.  They load *)
(* and write as the commands above do.  Here a stage is one step: its run  *)
(* has the draft by then, nothing changes the verdict on the issue once    *)
(* the draft is there, and what else could change between the two is what  *)
(* LeftAlone, or DraftFirst and PlannedOnce, leave out below.              *)

ChainReviewIssue(p) ==
  LET r == job[p].run
  IN  /\ At(p, "review_issue")
      /\ Write(r, IssueReviewed(store[r]))
      /\ IF IssueVerdict(store[r]) = "approved" THEN Go(p, "plan") ELSE Stop(p)
      /\ UNCHANGED <<prs, parent, issued>>

ChainPlan(p) ==
  LET r  == job[p].run
      pl == job[p].plan
  IN  /\ At(p, "plan")
      /\ IF pl # NoPlan /\ ~PlanGate(store[r])
         THEN Stop(p) /\ UNCHANGED store
         ELSE /\ Write(r, IF pl = NoPlan THEN store[r] ELSE [store[r] EXCEPT !.plan = pl])
              /\ Go(p, "review_plan")
      /\ UNCHANGED <<prs, parent, issued>>

ChainReviewPlan(p) ==
  LET r == job[p].run
  IN  /\ At(p, "review_plan")
      /\ Write(r, PlanReviewed(store[r]))
      /\ IF PlanVerdict(store[r]) = "approved" THEN Go(p, "implement") ELSE Stop(p)
      /\ UNCHANGED <<prs, parent, issued>>

ChainImplement(p) ==
  /\ At(p, "implement")
  /\ IF ImplementGate(store[job[p].run]) THEN Go(p, "repair") ELSE Stop(p)
  /\ UNCHANGED <<store, prs, parent, issued>>

-----------------------------------------------------------------------------
(* Implement: rebuild the workspace, record the evidence, judge it.        *)

Repair(p) ==
  LET r == job[p].run
  IN  /\ At(p, "repair")
      /\ \E o \in Outcomes :
           /\ job' = [job EXCEPT ![p].outcome = o,
                                 ![p].step = IF o.repair = "none" THEN "judge" ELSE "record"]
           /\ Write(r, IF o.repair = "none" THEN store[r]
                       ELSE [store[r] EXCEPT !.workspace = "unjudged"])
      /\ UNCHANGED <<prs, parent, issued>>

\* repair-result.json, the decision log of a completed repair, the QA results.
RecordRepair(p) ==
  LET r == job[p].run
      d == store[r]
      o == job[p].outcome
  IN  /\ At(p, "record")
      /\ Write(r, [d EXCEPT !.repair = o.repair, !.qa = d.qa \/ o.qa,
                            !.dlog = IF o.repair = "completed"
                                     THEN d.dlog \union {d.attempt} ELSE d.dlog])
      /\ Go(p, "judge")
      /\ UNCHANGED <<prs, parent, issued>>

\* Governance approves a runnable issue whose evaluation succeeded; a completed
\* repair also needs its decision log on disk.
Approves(d, o) ==
  /\ d.intake # "blocked"
  /\ o.approved
  /\ o.repair = "completed" => d.attempt \in d.dlog

\* Slip: the verdict is acted on before it is stored.
JudgeUnsaved(p) ==
  LET r == job[p].run
      d == store[r]
      o == job[p].outcome
  IN  /\ At(p, "judge")
      /\ IF Approves(d, o) /\ job[p].chain
         THEN Go(p, "publish") /\ UNCHANGED store
         ELSE /\ Stop(p)
              /\ Write(r, [d EXCEPT !.verdict = IF Approves(d, o) THEN "approved"
                                                ELSE "blocked"])
      /\ UNCHANGED <<prs, parent, issued>>

Judge(p) ==
  LET r == job[p].run
      d == store[r]
      o == job[p].outcome
  IN  /\ At(p, "judge")
      /\ Write(r, [d EXCEPT !.verdict = IF Approves(d, o) THEN "approved" ELSE "blocked",
                            !.workspace = IF d.workspace \in {"none", "partial"} THEN @
                                          ELSE IF o.repair = "none" THEN "unjudged"
                                          ELSE "judged"])
      /\ IF Approves(d, o) /\ job[p].chain THEN Go(p, "publish") ELSE Stop(p)
      /\ UNCHANGED <<prs, parent, issued>>

-----------------------------------------------------------------------------
(* Publish.                                                                *)

ChainPublish(p) ==
  LET r == job[p].run
      d == store[r]
  IN  /\ At(p, "publish")
      /\ IF Approves(d, job[p].outcome)
         THEN /\ Write(r, [d EXCEPT !.publishPlan = IF d.intake = "rejected"
                                                    THEN "update_pr" ELSE "draft_pr"])
              /\ Go(p, "execute")
         ELSE /\ Write(r, [d EXCEPT !.verdict = "blocked"])
              /\ Stop(p)
      /\ UNCHANGED <<prs, parent, issued>>

PlansPr(d) == d.publishPlan \in {"draft_pr", "update_pr"}

\* The draft PR is pushed from the stored workspace, without which nothing is done. Part of
\* a tree is as good as the whole, if it is enough for git.
Execute(p) ==
  LET r == job[p].run
      d == store[r]
  IN  /\ At(p, "execute")
      /\ IF job[p].publish /\ PlansPr(d)
         THEN \/ d.workspace \in {"none", "partial"} /\ Stop(p) /\ UNCHANGED prs
              \/ /\ d.workspace # "none"
                 /\ prs' = prs \union {[run |-> r, verdict |-> d.verdict,
                                         judged |-> d.workspace = "judged",
                                         logged |-> d.repair = "completed"
                                                      => d.attempt \in d.dlog]}
                 /\ Go(p, "result")
         ELSE Go(p, "result") /\ UNCHANGED prs
      /\ UNCHANGED <<store, parent, issued>>

RecordResult(p) ==
  LET r == job[p].run
  IN  /\ At(p, "result")
      /\ Write(r, [store[r] EXCEPT !.publishResult = IF job[p].publish
                                                     THEN "published" ELSE "dry_run"])
      /\ IF job[p].chain /\ job[p].publish /\ PlansPr(store[r])
         THEN Go(p, "review_impl") ELSE Stop(p)
      /\ UNCHANGED <<prs, parent, issued>>

\* The review of the published PR touches none of these artifacts.
ChainReviewImpl(p) ==
  /\ At(p, "review_impl")
  /\ Stop(p)
  /\ UNCHANGED <<store, prs, parent, issued>>

-----------------------------------------------------------------------------
\* The process ends between two steps: killed, or by an error of a step.
Crash(p) ==
  /\ MayCrash
  /\ ~At(p, "idle")
  /\ Stop(p)
  /\ UNCHANGED <<store, prs, parent, issued>>

StageCommand(p) ==
  \/ CreateIssue(p)
  \/ \E r \in RunId : \/ ReviewIssue(p, r)
                      \/ \E pl \in Plan : PlanRun(p, r, pl)
                      \/ ReviewPlan(p, r)
                      \/ ImplementRun(p, r)
                      \/ PublishRun(p, r)

Advance(p) ==
  \/ WriteIssueReview(p) \/ WritePlan(p) \/ WritePlanReview(p)
  \/ NumberAttempt(p) \/ Escalate(p) \/ Materialise(p) \/ Enter(p) \/ ReportBlocked(p)
  \/ ChainReviewIssue(p) \/ ChainPlan(p) \/ ChainReviewPlan(p) \/ ChainImplement(p)
  \/ Repair(p) \/ RecordRepair(p) \/ Judge(p)
  \/ ChainPublish(p) \/ Execute(p) \/ RecordResult(p) \/ ChainReviewImpl(p)

Next == \E p \in Operator : StageCommand(p) \/ RepairIssue(p) \/ Advance(p) \/ Crash(p)

Spec == Init /\ [][Next]_vars

\* Nothing in the code keeps two operators apart. These are the steps of operators who
\* keep off each other's runs: the run a command works on and the one it copies from are
\* written by that command alone, and its run is not retried before it is through.
LeftAlone ==
  \A p \in Operator : ~At(p, "idle") /\ UNCHANGED job[p] =>
    \A r \in RunId \intersect {job[p].run, job[p].src} : UNCHANGED store[r]

NotRetried ==
  \A p \in Operator : ~At(p, "idle") /\ UNCHANGED job[p] =>
    \A r \in RunId : parent[r] # job[p].run => parent'[r] # job[p].run

SpecApart == Init /\ [][Next /\ LeftAlone /\ NotRetried]_vars

\* Nothing makes `review issue` wait for the draft of a run that is still being copied.
\* What it decides then ("blocked") it may write over the approved review that was copied
\* meanwhile. These are the steps of operators who review no issue before its draft.
DraftFirst ==
  \A p \in Operator :
    ~At(p, "write_issue_review") /\ At(p, "write_issue_review")' => store[job'[p].run].draft

SpecDraftFirst == Init /\ [][Next /\ DraftFirst]_vars

\* Nor does a resume look further than that there is a workspace to publish from. These
\* are the steps of operators who publish no run anew whose copying was cut short there.
WholeSource ==
  \A p \in Operator :
    ~At(p, "materialise") /\ At(p, "materialise")' /\ job'[p].from = "publish" =>
      store[job'[p].src].workspace # "partial"

SpecWhole == Init /\ [][Next /\ LeftAlone /\ NotRetried /\ WholeSource]_vars

\* Nor does anything keep `plan` from replacing a plan, reviewed or not. These are the
\* steps of operators who write a plan only where there is none, and not into the run
\* that somebody's chain is working on.
ChainOn(p, r) ==
  job[p].chain /\ job[p].run = r /\ job[p].step \notin {"idle", "no_intake"}

PlannedOnce ==
  \A r \in RunId : Exists(r) /\ store'[r].plan # store[r].plan =>
    /\ store[r].plan = NoPlan
    /\ \A p \in Operator : ChainOn(p, r) => job'[p] # job[p]

SpecPlannedOnce == Init /\ [][Next /\ DraftFirst /\ PlannedOnce]_vars

-----------------------------------------------------------------------------
(* Properties.                                                             *)

TypeOK ==
  /\ store \in [RunId -> RunDir]
  /\ job \in [Operator -> Job]
  /\ prs \subseteq [run : RunId, verdict : {"none", "approved", "blocked"},
                    judged : BOOLEAN, logged : BOOLEAN]
  /\ parent \in [RunId -> RunId \union {NoRun}]
  /\ issued \in 0..MaxCommands

\* The planning gates fall in order, whatever commands are used and at whatever
\* step processes die, as long as no issue is reviewed before its draft is there
\* (DraftFirst): a plan review stands approved only over an approved issue
\* review and a stored plan, an issue review only over a draft and a runnable
\* intake (run_store.py write_gated_approved_plan, coordinator.py
\* _derive_plan_review, and the order in which copy_retry_artifacts copies).
GateOrder ==
  \A r \in RunId :
    /\ store[r].planReview.verdict = "approved" =>
         store[r].issueReview = "approved" /\ store[r].plan # NoPlan
    /\ store[r].issueReview = "approved" =>
         store[r].draft /\ store[r].intake # "blocked"

\* Nothing is ever repaired for an issue that was not runnable, reviewed and
\* planned: every implement in progress works on a run that has all three, also
\* when another operator writes to the run meanwhile (implement_run). Under
\* DraftFirst.
ImplementsReviewedIssue ==
  \A p \in Operator :
    job[p].step \in {"repair", "record", "judge"} =>
      LET d == store[job[p].run]
      IN  d.intake # "blocked" /\ d.issueReview = "approved" /\ d.plan # NoPlan

\* A pull request is never planned, and so never opened, for a run past the retry
\* cap: an escalated run stays with its human even when its stages are
\* run again by hand or it is itself resumed (repair_issue, _handle_escalation).
DraftPrWithinCap ==
  \A r \in RunId :
    PlansPr(store[r]) => store[r].attempt \in 1..MaxAttempts

\* A retried run counts one attempt more than the run it retries by the time its
\* first stage is done, although its record is first written with attempt 1
\* (create_run, then write_run_record).
LineageCounted ==
  \A r \in RunId :
    parent[r] # NoRun /\ store[r].issueReview # "none" =>
      store[r].attempt = store[parent[r]].attempt + 1

\* However a chain came to publish, by its own implement or on artifacts copied
\* from an earlier run, its own directory holds the approved verdict, a workspace
\* that verdict is about, and the decision log of its own attempt. For runs left
\* alone, and under WholeSource.
EvidenceFollowsRun ==
  \A p \in Operator :
    At(p, "publish") =>
      LET d == store[job[p].run]
      IN  /\ d.verdict = "approved" /\ d.workspace = "judged"
          /\ d.repair = "completed" => d.attempt \in d.dlog

\* What is pushed is what was judged, and it was approved, also when the process
\* dies after planning and `publish run` finishes the work. (True of `repair issue`
\* and `publish run` on runs left alone, under WholeSource; not once `implement` is
\* run again by hand.)
PublishedAsJudged ==
  \A pr \in prs : pr.judged /\ pr.verdict = "approved"

\* An approved issue review is never withdrawn: later copies and reviews of the same
\* run come to the same verdict, also one that was decided before and is written late
\* (_derive_issue_review reads the intake and the draft). Under DraftFirst: without the
\* draft the verdict is "blocked", whatever is copied before it is written.
IssueApprovalStands ==
  [][\A r \in RunId : store[r].issueReview = "approved" => store'[r].issueReview = "approved"]_vars

\* The workflow as the gates of StageGates sees it.
Cleared(d) ==
  (IF d.issueReview = "approved" THEN {"issue"} ELSE {})
    \union (IF d.planReview.verdict = "approved" THEN {"plan"} ELSE {})
    \union (IF d.verdict = "approved" THEN {"verdict"} ELSE {})
    \union (IF PlansPr(d) THEN {"publish"} ELSE {})

Building == { r \in RunId : \E p \in Operator :
                job[p].run = r /\ job[p].step \in {"repair", "record", "judge"} }

Gates == INSTANCE StageGates WITH cleared <- [r \in RunId |-> Cleared(store[r])],
                                  building <- Building

\* Every step of every command clears at most one gate, in order, from an earned or
\* an inherited approval (run_store.py's require_ functions, coordinator.py). For runs
\* left alone: a chain plans its pull request on the approval it remembers, which
\* another operator's verdict may have replaced in the directory.
ImplementsGates == Gates!Spec

\* Without the reviewed issue a run is past no gate: no plan of it is approved, no
\* verdict on it and no pull request of it stands, whoever wrote what in which order. Under
\* DraftFirst.
NothingWithoutIssue == Gates!IssueFirst

\* The two planning gates alone, and the building they open to.
Planning == INSTANCE StageGates
              WITH cleared <- [r \in RunId |-> Cleared(store[r]) \intersect {"issue", "plan"}],
                   building <- Building

\* However many operators work on the same runs, the planning stages keep their promise:
\* an implement begins only at a moment when the plan of its run stands approved, over
\* the approved issue, and each write moves at most one of the two reviews
\* (require_plan_review_for_implement, write_gated_approved_plan). Under DraftFirst.
ImplementsPlanning == Planning!Spec

\* An approved plan review is about the plan the run has, through copies cut short and
\* other operators' reviews (write_gated_approved_plan, copy_retry_artifacts). True under
\* PlannedOnce: the review does not name the plan it is about, and no plan withdraws it.
ApprovalIsOfPlan ==
  \A r \in RunId :
    store[r].planReview.verdict = "approved" => store[r].planReview.of = store[r].plan

\* And so an implement begins on the plan that was reviewed, whichever command begins it,
\* on a run of its own or of a chain that somebody else has under way.
BuildsReviewedPlan ==
  [][\A p \in Operator :
       ~At(p, "repair") /\ At(p, "repair")' =>
         LET d == store[job'[p].run]
         IN  d.planReview.verdict = "approved" /\ d.planReview.of = d.plan]_vars

\* docs/staged-command-surface.md: publish is invoked only when the governance
\* verdict is approved.
PublishOnlyWhenApproved ==
  \A pr \in prs : pr.verdict = "approved"

\* docs/architecture.md: the plan review is approved before implement consumes that
\* plan for the same run.
ReviewedPlanIsConsumed ==
  \A p \in Operator :
    At(p, "repair") =>
      LET d == store[job[p].run]
      IN  d.planReview.verdict = "approved" /\ d.planReview.of = d.plan
=============================================================================
