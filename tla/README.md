# A TLA+ model of precision-squad

precision-squad takes a GitHub issue through a chain of stages to a draft pull request: it
creates a *run*, reviews the issue, takes an approved plan, reviews the plan, has an agent
repair a clone of the repository under QA, judges the result, publishes it, and reviews what it
published. Every stage reads and writes JSON artifacts in the run's directory; every command is
a process of its own; there is no lock, no transaction and no server.

The modules here model that program from its source (`src/precision_squad/`), TLC checks them on
small instances, and TLAPS proves part of them for every value of their constants.

## 1. The system

| Component | State it keeps | Operations | What makes it correct |
|---|---|---|---|
| **Run coordinator** (`coordinator.py`) | none in memory between commands; all in the run directory | create issue, review issue, persist plan, review plan, implement, publish, repair issue (the chain; fresh, retried, or resumed at a stage), escalation | stages only on the approvals before them; retries counted and capped; what is published was judged |
| **Run store** (`run_store.py`, `models.py`) | one directory per run: run-record, issue-intake, issue-draft, issue-review, approved-plan, plan-review, execution/repair/qa/evaluation results, governance-verdict, decision-log.attempt-N, publish-plan, publish-result, impl-review, the workspaces | create_run, create_retry_run, copy_retry_artifacts, write/load of each artifact, the two gates | a directory is never in a state a later stage misreads, whatever was cut short |
| **Stage reviews** (`coordinator.py`, `stage_contracts.py`) | issue-review.json, plan-review.json | derive verdict and findings from stored artifacts | the same artifacts give the same verdict |
| **Repair loop, adapter, QA** (`repair/*.py`) | baseline and repair workspace, QA logs | baseline QA, repair, QA, up to two rounds, merge of results | an approval is about the workspace that exists, and no worse than the baseline |
| **Docs executor and remediation** (`executor.py`, `docs_remediation.py`, `docs_policy.py`) | execution contract, findings | extract the documented contract; compare findings with those an issue tracks | a docs repair clears what it was to clear and breaks nothing else |
| **Governance** (`governance.py`) | none | evaluate_run, apply_governance | approved only on a runnable intake and a successful evaluation |
| **Intake and rerun context** (`intake.py`, `rerun_context.py`) | none | assess an issue; find the rejected pull request in its comments | a blocked issue is never repaired |
| **Publishing** (`publishing.py`, `publish_executor.py`) | publish workspace, branch, pull request, comment, follow-up issue | build_publish_plan, execute_publish_plan | one side effect per run; no duplicates; resumable |
| **Post-publish review** (`post_publish_review.py`) | impl-review.json, issue comment, reopened issue | run_impl_review (provenance, two agents, head SHA) | a verdict is about the head it names |
| **Post-review automation** (`publishing.py`) | PR and issue on GitHub | mark ready, merge, close, one retry each | what is reported is what was done; no step before the ones it goes over |
| **GitHub client, transport** (`github_client.py`, `github_transport.py`) | cached transport or error | REST/gh/MCP calls; choice of transport | a fallback does not repeat a write |
| **Command line, configuration** (`cli.py`, `config.py`, `env.py`) | none | arguments, checks before a command | the coordinator gets what it relies on |
| **Bootstrap, deployment** (`bootstrap.py`, `deploy/`) | the skill, the configuration, the metadata of a bootstrap | check prerequisites and ownership, write templates, record outcomes | nobody's own files are overwritten; a refusal writes nothing; a repetition disturbs nothing |

Interaction: the CLI calls the coordinator, which calls the other parts through its dependency
objects; parts share state only through the run directory and GitHub. The hard behaviour is
therefore in the *order of artifacts on disk*: two operators on one run, a process that dies
between two writes, a run resumed from copies of another, a command repeated after the world has
moved on. `PROJECT.json` lists these hazards line by line under `hazards`.

## 2. The modules

```
StageGates    the gates: abstract      ImplementOutcome    what implement can come to     Landing: abstract
    |                                    |         |                               |
    +------------ Workflow --------------+     RepairLoop    Publication    PostReview    ProjectSetup
                     |                             |              |             |              |
              WorkflowProofs                 RepairProofs  PublicationProofs PostReviewProofs ProjectSetupProofs
                     |
                GateProofs                     (MC<module>: the instances of <module> for TLC)
                /        \
        ChainProofs   OwnRunProofs
```

### Workflow

`store[r]` is the directory of run `r`, one field per artifact the later stages look at
(`attempt = 0`: no directory). `job[p]` is the command that operator `p` has under way: the step
it is about to take, the run it works on, the run it copies from, and what it keeps in memory
(plan, attempt, outcome of implement). `prs` collects the pull requests opened, each with what
the directory said when it was pushed. `parent` and the field `planReview.of` are history: the
code keeps neither, only properties look at them.

| Actions | Code |
|---|---|
| `CreateIssue`, `ReviewIssue`, `PlanRun`, `ReviewPlan`, `ImplementRun`, `PublishRun` | the single-stage commands of `cli.py` and the coordinator's methods |
| `WriteIssueReview`, `WritePlan`, `WritePlanReview` | what the planning stages store, decided before |
| `Fresh`, `Retry`, `Resume` (together `RepairIssue`) | the three ways into `repair_issue` |
| `NumberAttempt`, `Escalate`, `ReportBlocked` | renumbering after `create_run`, `_handle_escalation`, the blocked-intake path |
| `Materialise`, `Enter` | `copy_retry_artifacts`, one artifact per step and the workspace in two; loading the copies |
| `ChainReviewIssue` … `ChainReviewImpl` | the stages of `_resume_or_run_repair_chain` |
| `Repair`, `RecordRepair`, `Judge` | implement: workspace rebuilt; repair, decision log, QA written; verdict |
| `Execute`, `RecordResult` | the effect on GitHub; `publish-result.json` |
| `Crash` | the process ends, by a kill or by an error of a step |

A step ends at a write that another command could observe, so that a behaviour interleaves
operators exactly where processes can. A planning stage run by hand reads and decides in one step
(`ReviewIssue`, `PlanRun`, `ReviewPlan`) and writes in another (`WriteIssueReview`, `WritePlan`,
`WritePlanReview`), whatever was written to the run in between. The planning stages of a chain do
the same in the code and are one step each here: the chain reviews its issue with the draft on disk,
after which no write changes the verdict, and what else another operator could change between its
reading and its writing is what the terms below leave out. `workflow_cap` and the violations, over
plain `Spec`, do not depend on that gap.

A workspace is a directory tree. Its copying is two steps (`CopyTree`): `partial` once it is begun,
whole at the end; a process that dies in between leaves `partial`, which the code does not tell from
a whole one. If somebody rebuilds the source's workspace under the copying, the copy is a mixture,
which no verdict is about.

JSON parsing and validation are reduced to whether an artifact is there and what the next stage
reads in it; plans are model values, of which `ThinPlan`s are valid but fail review.

### StageGates

The promise of the workflow without artifacts or commands: a run clears the gates `issue`,
`plan`, `verdict`, `publish` one at a time over the gates before, and comes by a verdict only by
building under a cleared plan or by inheriting one from a run that has it. `Workflow` meets it
in two forms (`INSTANCE StageGates WITH …`):

* `ImplementsPlanning`, the first two gates and the building they open to, for any number of
  operators on the same runs, as long as no issue is reviewed before its draft is there.
* `ImplementsGates`, all four, for operators who leave each other's runs alone. Otherwise a chain
  plans its pull request on the approval it holds in memory, although another operator's
  `implement` may have written `blocked` meanwhile (a hazard at `coordinator.py:791`).

### How operators use the program

Nothing in the code keeps operators apart, makes them wait, or keeps plans from being replaced, so
`Spec` does not either. These terms say what else is promised if the operators see to it themselves.
Each keeps `Next` and leaves out steps:

| Terms | The operators keep to | In the code |
|---|---|---|
| `DraftFirst` (`SpecDraftFirst`) | no issue is reviewed by hand before the draft of its run is there | `create_retry_run` records a run before anything is copied into it, and `review issue` asks for the record alone |
| `PlannedOnce` (`SpecPlannedOnce`, with `DraftFirst`) | a plan is written where there is none, and not into the run that somebody's chain works on | `persist_approved_plan_for_planning` overwrites, and withdraws no review |
| `LeftAlone`, `NotRetried` (`SpecApart`) | a run that a command works on or copies from is written by that command alone, and is not retried before the command is through | no lock on a run's directory; a retry takes any run |
| `WholeSource` (`SpecWhole`, with the two before) | nobody publishes anew a run whose workspace was copied in part | a resume at `publish` asks only whether `repair-workspace/repo` is a directory |

The first holds of everybody who does without `review issue` by hand (`ChainsDraftFirst`), the second
of everybody who does without `plan` (`ChainsPlanOnce`), the third of a single operator by itself
(`AloneIsApart`). The fourth holds of nobody by itself: one operator, one kill and two resumes
suffice to publish half a tree. What becomes of the promises without the terms is shown by
`workflow_replanned` and `workflow_unapproved` and told in section 5.

### RepairLoop

One implement stage from the contract to the verdict. A repository state is the set of tests
that fail in it and the set of findings its documentation raises. QA reports a status and the
failure lines it printed; `MarkerOf` gives the line of a test, and two tests may share one, since
`_failure_signature` compares lines. The log it reads them from has the output of the setup commands
too: `Printed` adds any of `SetupLines`, or none, each time QA runs. A QA command that never reached
the tests (`Trouble`) may have printed anything. `made` is the iteration that last touched the workspace and `base` what
the baseline clone held; both are history. `Upstream` is somebody committing to the repository
the clones are made from. The repair stage can refuse, fail to clone, or run the agent, which may
leave any workspace whether it completes or not. At the end, `OutcomeForeseen` says that what
came out is one of the `Outcomes` with which `Workflow` models the stage as a single step, so
the abstraction of one module is a checked property of the other.

### Publication

What `Workflow` models as two steps, publishing and the review after it, taken apart into the
calls of GitHub, with a GitHub that remembers. A branch is the set of its commits; nobody
rewinds a branch, so the set stands for the head and a push is a fast-forward iff it takes
nothing away. `plan[r]` is what the stored publish plan asks for: a new pull request, an update
of the rejected one (number 1, on branch `Old`), a follow-up issue about a docs blocker, or a message
(a follow-up about side issues, a comment). `repo[r]` is what the repair
workspace was cloned with: the branch of the rejected pull request, or, if the lookup failed
without anybody noticing, only the default branch. `job[p]` is the process of an operator.

| Actions | Code |
|---|---|
| `Arrive` | a run reaches publishing, with `_resolve_rerun_branch` behind it |
| `PublishRun`, `ReviewImpl`, `ResumeReview` | `publish_run`, `review_impl`, the resume at `review impl` |
| `Prepare`, `Push`, `Open`, `Update`, `Record` | `_publish_draft_pull_request` and what `publish_run` writes |
| `Look`, `Create` | a docs blocker: `find_open_docs_remediation_issue`, `create_issue` |
| `Post` | anything else, which has no fingerprint: posted anew each time, and never looked for |
| `Fetch`, `Check`, `Diff`, `Judge` | `run_impl_review`: head, body and provenance, the diff for the agents, the verdict |
| `Tell`, `Save` | comment and reopening; `impl-review.json` and its mirror |
| `PushByOthers`, `Crash` | anybody else's commits; a process that fails or is killed |

`review.seen`, the diff that the agents read, and `maker`, the run that published, are history.
Taken together as one step: the comment with the reopening, the two artifacts of a review, the
copies of a resume, marking a pull request ready with the update of its body. A preview (dry
run) is not told apart from no publication. The model assumes that GitHub refuses a second pull
request for a branch, that all runs with a docs blocker report the same one, and that the repository has
fewer than the 100 open issues one page of the search returns.

A run whose process died between `Push` and `Record` can never be published again: publishing
anew makes another commit of the same workspace, which is no fast-forward. The model shows it, and
no document promises otherwise.

### PostReview

`apply_post_review_automation` and the calls under it. `job[p]` is a caller of it: the operation
it is at and whether one answer of that operation was lost. GitHub is a pull request and an
issue; `late` holds requests that were given up and may still be carried out. `carried`, `conflict`
and `misread` are history.

| Actions | Code |
|---|---|
| `Apply` | the early returns, the client, the first operation |
| `Succeeds`, `Refuses`, `RefusalMisread`, `LosesAnswer` (together `Advance`) | one call of one operation, with `_execute_with_retry` behind it |
| `LateArrival`, `Others`, `Exit` | a request that outlives its timeout; people; the caller's process ends |
| `Select`, `transport` | `_resolve_github_transport` and the cache of it in the process |

What a refusal becomes depends on the transport. gh exits with a status and the words of GitHub are
in the error (`Refuses`); of a merge, "already merged" and every 409 then count as merged. An MCP
tool that is refused may raise, which is the same; or it returns a result, whose error flag
`_call_mcp_tool` does not look at. If the text of that result is JSON, or there is none, the
refusal is taken for success (`RefusalMisread`). If it is plain text, `json.loads` fails, the
automation ends with that error, and no word of GitHub's is seen: that is one of the ways of
`LosesAnswer`, which ends in `failed` like every other failure. Nothing is assumed of which
refusal GitHub chooses, but that it calls only a merged pull request "already merged".

Marking a pull request ready is taken at its word (a PATCH of `draft`). The retry is
looked for in the words of an error, and gh's errors have none of them: under `cli` an answer that
is lost ends the automation. Nothing in `src/` but the tests calls the function, so the model
lets any process call it, and call it again.

### Landing

What `PostReview` promises, without calls, answers, repetitions or transports: an approved change
lands in three steps (the pull request made ready, merged, the issue closed), each over the ones
before and each possibly taken more than once. A step may be `believed` taken without having been
(the 409 of a merge, a refusal misread), the next one may go over it, and only those who counted
all three are told that the change has landed. People may do to the pull request and the issue what
they like, but leave merging to the automation. `Promise == INSTANCE Landing WITH landed <- carried,
believed <- Counted \ carried, …` and `ImplementsLanding == Promise!Spec`. Over gh a reported success
rests on no belief but that of a 409; `SuccessIsDone` says so.

### ProjectSetup

`precision-squad-bootstrap-skill` and the files it shares with people and with `install-skill`.
`file[f]` is what a file has in it, as far as the code tells contents apart: by a marker or by being
there. A file is also taken for bootstrap's own if the names `.precision-squad` and `bootstrap` are
both on its path (`Names`), where the project itself may lie `below` either. Writing a file is two
steps, `Empty` and `Fill`, since a process may be killed in between.

| Actions | Code |
|---|---|
| `Begin`, `CheckConfig`, `CheckSkill` | prerequisites and the root configuration; the ownership of the two files, all before the first write |
| `Empty`, `Fill`, `Die` | `write_managed_surface` and the metadata, twice; a kill or an error |
| `People`, `InstallSkill` | anybody else, at any time, within a bootstrap too |

`fresh`, `touched` and `wrote` are history. The order of the writes and the texts and names the
ownership rests on are the code's.

## 3. What TLC checks

Passing runs (all finish in under two minutes with two workers):

| Run | Instance | Shows |
|---|---|---|
| `workflow_race` | 2 operators under `SpecPlannedOnce`, 2 runs, cap 2, 2 good plans, 3 of `repair issue`, `review issue`, `plan`, `review plan`, `implement` | `GateOrder`: the planning gates stay in order, with stages that decide and write apart and chains resumed by copies that others meet half done. `IssueApprovalStands`: an approved issue review is never withdrawn. `NothingWithoutIssue`: no plan review, verdict or planned pull request stands over an issue that was not approved. `ImplementsReviewedIssue`: no implement works on a run that lacks intake, issue review or plan. `ImplementsPlanning`: refinement of the two planning gates of StageGates. `ApprovalIsOfPlan`: an approved plan review is about the plan the run has. `BuildsReviewedPlan`: an implement begins on the plan that was reviewed, also by hand on the run of somebody's chain |
| `workflow_cap` | 2 operators without any terms, 3 runs, cap 1, 3 commands of every kind, crashes | `DraftPrWithinCap`: no way round the retry cap |
| `workflow_apart` | 2 operators under `LeftAlone`, `NotRetried` and `WholeSource` (action constraints over `Spec`), 3 runs, cap 3, 3 of `repair issue` and `publish run`, every intake, a good and a thin plan, crashes | `LineageCounted`: attempts count up along a lineage although the record is first written as attempt 1. `EvidenceFollowsRun`: a chain that comes to publish has its own verdict, judged and whole workspace and decision log, also on copied artifacts. `PublishedAsJudged`: what is pushed is what was judged and approved, also when `publish run` finishes after a crash. `ImplementsGates`: refinement of StageGates |
| `publication` | 2 operators, 2 runs, 3 commands, 3 commits by whomever, crashes | `FreshApprovalIsOfHead`: as long as a pull request has the head an approval was recorded for, its diff is the one the agents read. `ObjectionReported`: a review on record that did not approve was reported on the issue. `PublishedIsPushed`: what a run has published stays in the pull request, whoever else pushes onto its branch. `FollowUpsBounded`: no more follow-up issues about the docs blocker than processes that looked at the same time |
| `repair_loop` | 3 tests with 2 failure lines, 1 line of the setup, 2 findings, 2 iterations, 1 foreign commit, all troubles | `ApprovedWorkspacePasses`, `ImprovesOnBaseline`, `DocsCleared`, `OutcomeForeseen`, and the liveness property `Concludes` |
| `post_review` | 2 callers, 2 calls, either transport, one of them changing | `SuccessIsDone`: over gh a reported success was one, through lost answers, repetitions and requests that arrive late, but for a 409; over MCP it was one but for refusals misread. `ClosedAfterMerge`: no issue is closed beside a pull request that was not merged, or taken for merged. `ImplementsLanding`: refinement of Landing. `Concludes` (liveness) |
| `project_setup` | 5 bootstraps and deeds of others | `RefusedWroteNothing`, `DoneIsInstalled`, `Idempotent`, `UsersFilesKept`: what a bootstrap may do to files, whoever writes them meanwhile (files excepted whose path has both of bootstrap's names) |

`LineageCounted` is about the chain commands, or about processes that do not die: if one dies
between creating a retried run and renumbering it, single-stage commands can carry that run on as
attempt 1. `workflow_apart` checks the first case; `LineageIsCounted` (section 4) is about both.
`PublishedAsJudged` is also about the chain and `publish run` alone; `workflow_unapproved` below
shows why.

Runs that TLC must find violated. Each states what the repository says of itself:

| Run | Property | What the code does |
|---|---|---|
| `workflow_unapproved` | `PublishOnlyWhenApproved` | `publish run` executes a stored plan without reading the verdict, which a second `implement` may have turned to blocked |
| `workflow_replanned` | `ReviewedPlanIsConsumed` | a plan review names the run, not the plan; `plan` can replace the plan after it |
| `repair_stale` | `FinalQaIsOfWorkspace` | a second repair that fails after wiping the workspace is approved on the QA of the first |
| `repair_unrunnable` | `UnrunnableQaBlocks` | QA that prints no failure line counts as better than a failing baseline, even if it could not run |
| `publication_resume` | `ResumedReviewPasses` | a resumed `review impl` is always blocked: the pull request names the run that published it, the check asks for the new one |

**Bounds.** Two runs are a run and its retry, the longest relation the code looks at; longer
lineages arise since a crashed or finished run can be retried again. What happens past the cap
needs one run more than the cap, and one more to retry or resume the escalated run:
`workflow_cap` has three runs and a cap of 1 (the code's cap of 3 differs only in length, and
`CapHolds` below is about every cap). With that cap no retry works and no resume copies; both do in
`workflow_race`, where the cap is 2, and in `workflow_apart`, where it is the code's 3. That a
workspace is copied in part, and what was copied is copied again, takes three runs: `workflow_apart`
has them. Its state constraint `LastToPublish` bounds what is done with the third: it is made by an
operator who works alone by then, to publish anew what an earlier run has. Two
operators with three commands between them suffice for one to disturb another in mid-stage, or for
one to retry or resume what the other left, and the third command to meet both. `workflow_race`
has no crashes, as a copy cut short is no other state for the second operator than a copy in
progress, which it meets at every step. In
RepairLoop two iterations are the code's own bound; three tests with two lines are the least at
which fixing one test and breaking another can look like progress; `Snapshots` leaves out only
states with both failing tests and findings, which no single run of the stage tells apart. In
Publication three commands are the least with which a third follow-up issue could appear after
two, and three commits let one run, the other and a stranger push onto one branch.
In PostReview two callers with two calls allow one to repeat what another, or a request that
comes late, has done. In ProjectSetup the longest story that matters has a bootstrap that is killed,
a deed before and one within the next bootstrap, and a third; five steps leave room for it.
`CHECK_DEADLOCK` is off as all these systems stop when their commands are used up or the verdict
is in. `RunSymmetry`, `RaceSymmetry`, `PlanSymmetry` (good plans too) and
`Interchangeable` permute runs and operators, which nothing orders.

**Fairness.** Workflow, Publication and ProjectSetup have none: a command is a process that may die at any time and nobody
restarts it, so only safety is claimed. RepairLoop assumes `WF_vars(Proceed)`: the stage is a
sequential program and goes on as long as the tools it calls (git, the agent, the QA shell)
return. The code gives them no timeout, so this is an assumption about the tools. PostReview assumes `WF_vars(Advance(p))` of each caller:
a call of GitHub is answered or given up in the end. The code sets no timeout there either, so
this is an assumption about the network and gh. What the property adds is that the retries come to
an end.

**Slips.** A definition preceded by a comment `Slip:` is not part of the specification. It is a
version of the definition after it with a plausible mistake, and stands there to show that the
property named with it in `PROJECT.json` (`mutants`) would notice.

## 4. What is proved

The results about `Workflow` hold for any sets of runs, operators and plans, any cap and any bound
on commands, with processes dying anywhere.

* `WorkflowProofs!TypeCorrect`: `Spec => []TypeOK`. The invariant is `TInv == TypeOK /\ Working`,
  where `Working` says that a job under way names existing identifiers for the run it works on and
  the run it copies from; without it a step that writes `store[job[p].run]` could leave the
  function's type. The proof has one lemma per group of actions.
* `GateProofs!GatesInOrder`, `ImplementsReviewed`, `ApprovalStands`: `GateOrder`,
  `ImplementsReviewedIssue` and `IssueApprovalStands` of `SpecDraftFirst`. They are not inductive
  alone. `GInv` adds that each directory is `Sound` (the gates, and that a planned pull request stands
  over an approved issue review), that each job is entitled to what it is about to do (`JobOK`), and
  that no two jobs copy into one directory (`Apart`). The heart is `Copying`: a resumed run copies a
  prefix of an ordered list, its source keeps the approvals the copy relies on, and so no prefix, at
  whatever point it is cut short, shows a review without what was reviewed. `Keeps` collects what a
  write may never take from a directory; `WriteGInv` turns it into preservation of `GInv`, and
  each action then has only to show that its write `Keeps`. A review of the issue that was decided
  before it is written needs one more fact, `Current`: what it is about to write is what it would
  decide now. That is where `DraftFirst` is used, and nowhere else: a draft and an intake that are
  there do not change, so that a verdict decided on them stays the verdict. `ChainsDraftFirst`: without
  `review issue` by hand every behaviour of `Spec` is one of `SpecDraftFirst`.

* `RepairProofs!RepairTypeCorrect`, `ApprovedPasses`, `ApprovedImproves`, `ApprovedDocsCleared`,
  `OutcomesForeseen`: every safety property of `RepairLoop`, for any tests, any lines they leave,
  any findings, any number of rounds and of foreign commits. The invariant `IInv` says which of the
  two ways through the stage is taken (`Routed`), what each QA reported and about which workspace
  (`BaselineReported`, `Repaired`, `QaReported`), and what a completed execution rests on
  (`Judged`); the properties look at approvals only and say nothing of how one came about. One
  lemma per action; `ApprovedFacts` is what the theorems share.

* `GateProofs!PlanningImplementsGates`, `IssueComesFirst`: `ImplementsPlanning` and
  `NothingWithoutIssue` of `SpecDraftFirst`, from the same invariant. A step writes
  one run and moves at most one of its planning reviews (`Shape`, `OneGate`), and its process begins
  to build, stops building or does neither (`Moves`): a process begins only where it reads the
  approval in the same step. These two facts, one lemma per group of actions, are the whole
  simulation, and `BeginsToBuild` below uses them again.
* `OwnRunProofs!CapHolds`: `DraftPrWithinCap`, for any cap and any number of operators. `HInv` says
  that only chains are at the steps that only chains take. `CInv` adds that a chain past `number`
  works on a run whose attempt is within the cap (`ChainOK`), and `Separate`, that no two chains
  share a run: a run's number is changed by the chain that created it and by nobody else.
* `OwnRunProofs!ApprovalsAreOfPlans`, `ReviewedPlanIsBuilt`: `ApprovalIsOfPlan` and
  `BuildsReviewedPlan` of `SpecPlannedOnce`. `ApprovalIsOfPlan` is not inductive, since a copied
  review is about the source's plan. `PInv` adds what a job knows of plans (`PlanKnown`): the run of a
  chain has no plan before the chain writes it, and while a chain copies it has none or the source's
  own, according to how many artifacts have come over. The source's plan cannot change meanwhile,
  because it is there (`Copying` of `GInv`) and a plan that is there stays; nor can the run's, because
  no other chain has that run (`Separate`). `ChainsPlanOnce` shows where the premise bites: without
  `plan` among the commands every behaviour of `SpecDraftFirst` is one of `SpecPlannedOnce`, so the
  command that `workflow_replanned` uses is the only one that can part an approval from its plan. A
  plan or a review that was decided before it is written is covered too: `PlanKnown` says that the
  plan a review is about to be written of is still there.
* `ChainProofs!ApartImplementsGates`: `ImplementsGates`, for operators who leave each other's runs
  alone. Each action is a step of `StageGates` under the mapping, or a stutter. Two facts that are
  not in `GInv` are needed, and `RInv` has them: a verdict stands over an approved issue review
  (`Founded`), and the job knows what the gate it opens next rests on (`Ready`), which nobody else's
  step takes away (`OthersReady`).
* `ChainProofs!LineageIsCounted`: `LineageCounted` of `SpecApart`; `EvidenceIsOwn`,
  `PublicationWasJudged`: `EvidenceFollowsRun` and `PublishedAsJudged` of `SpecWhole`. `KInv` says of a
  run that an approved verdict comes with the workspace it judged, or part of one that is being copied
  or was, unless somebody is just judging it by hand (`Fits`);
  that it counts from the run it retries, unless its number is being settled or was left unsettled by
  a process that died (`Counted`); and that a child and its parent both exist (`Descends`). With the
  chain and `publish run` alone it adds that a planned pull request with a workspace has its approval
  (`Planned`). `Knows` says what a job has found out or copied so far: most of all how far into the
  list of artifacts a resume has come, as the workspace is copied last and the verdict before it,
  and that a run yet to be numbered has no child, which would have counted from the wrong number.
  `KInv` holds whatever is resumed from. `WInv` adds what `WholeSource` is for: what a chain publishes,
  or copies to publish, is whole (`Carries`), and with the chain and `publish run` alone no run with a
  planned pull request has part of a workspace.
* `ChainProofs!WorkflowImplementsGates`, `AloneIsApart`: a single operator keeps off everybody's
  runs, since whoever is at a step of a command leaves it (`AdvanceMoves`); so the refinement and
  `LineageCounted` hold of plain `Spec` for one operator, and evidence and publication of `Spec` under
  `WholeSource`, which one operator can break as well as several.
* `PublicationProofs`: the type invariant and the four properties of `Publication`, for any runs,
  any operators and commits. The invariant is local: what each run has recorded (`RunOK`) and what
  each process has seen of the branch (`Publishing`, `Reviewing`), which survives other people's
  pushes as branches only grow. `FollowUpsStayBounded` counts instead: `Budget` says that the
  follow-up issues and the processes about to create one are no more than the operators, since a
  process gets there only while it sees no issue. It is about the docs blocker, the only follow-up the
  code looks for before it creates one.
* `PostReviewProofs`: `SuccessIsDone` and `ClosedAfterMerge` from what the operation a caller is at says of
  those before it (`Behind`: carried out, or counted for a 409 or a refusal misread), and what the pull
  request says of the requests that were carried out (`GitHubOK`). `PostReviewImplementsLanding` takes the same
  invariant; what had to be added is that a request still on its way (`late`) was due when it was
  made and is due when it arrives (`Due`), for steps of `Landing` are never taken out of order.
* `ProjectSetupProofs`: all properties of `ProjectSetup`, from what each step of a bootstrap may
  take for granted of the files before it (`Orderly`, `Checked`, `SeenTo`, `StillFresh`), for any
  number of bootstraps and deeds.

The assumptions are the `ASSUME`s of the modules: naturals are naturals, the
placeholders are not identifiers or repositories, the two kinds of plan are disjoint, every test
leaves a line, the operators of `Publication` are finitely many, and the sets that bound an instance
are of the kind they bound. Some theorems about `Workflow` assume more, in their statements:

* `DraftFirst` (`GatesInOrder`, `ImplementsReviewed`, `ApprovalStands`, `PlanningImplementsGates`,
  `IssueComesFirst`): a `review issue` begun before the draft is copied writes `blocked` over the
  approved review that was copied meanwhile.
* `LeftAlone` (`ApartImplementsGates`), `SpecApart` (`LineageIsCounted`). With other operators,
  one can retry a run that another has yet to renumber, and the verdict that one chain remembers can
  be replaced under it by another's.
* `SpecWhole` (`EvidenceIsOwn`, `PublicationWasJudged`): part of a workspace is as good as the whole to
  a resume at `publish`.
* `NoLeftovers`, that is `ByChain` (`repair issue` and `publish run` only) or no process dying
  (`LineageIsCounted`, `EvidenceIsOwn`): `implement` by hand writes a verdict for a run that a process
  left with the number 1.
* `ByChain` (`PublicationWasJudged`): `implement` by hand makes a workspace that is not what an older
  verdict is about (`workflow_unapproved`).
* `SpecPlannedOnce` (`ApprovalsAreOfPlans`, `ReviewedPlanIsBuilt`; `workflow_replanned`).

Only model-checked: the liveness properties (`Concludes` of RepairLoop and of PostReview), which
are beyond this prover, and the violations.

## 5. What is not modelled

* Issue comments that publish a blocked run: one call, which `Workflow` has as part of a step.
* The wording of findings, summaries, prompts and bodies; parsing and validation of JSON beyond
  present or absent; how documents are scanned for commands; argument parsing, `.env` files, the
  dry run and the confirmation of bootstrap (neither writes).
* Who approves a merge, and which head is merged: the automation merges whatever the pull request
  has by then, and no caller exists that would have promised otherwise.

What reading the code for the models brought up, and no property states, since no document of the
repository promises otherwise or the two sides are texts that the models do not have:

* `create_retry_run` records a run (`run_store.py:172`) before `copy_retry_artifacts` fills it, and
  `review issue` asks for the record alone. One that reads the run before its draft has come decides
  `blocked`, and writes that after the approved `issue-review.json` was copied in
  (`coordinator.py:378`): a run with an approved plan review over a blocked issue review, which
  `implement`, looking at the plan review only, would build. `DraftFirst` leaves this out.
* A process killed within `shutil.copytree` (`run_store.py:209`) leaves part of a workspace beside the
  approved verdict that was copied before it. The next resume at `publish` takes any directory for a
  workspace (`coordinator.py:1532`), copies the part, and pushes what nobody judged.
  `WholeSource` leaves this out.
* `_call_mcp_tool` (`github_client.py:133`) does not look at the error flag of a tool's result. A
  refusal that is JSON or empty counts as success, of any of the three operations of the automation:
  the issue is closed after a merge that was refused. In a refusal in plain text the words `409` and
  `already been merged`, which `merge_pull_request` looks for, are lost, so that over MCP a repeated
  merge may be reported failed although the pull request is merged.
* A follow-up issue about side issues (`publishing.py:132`) has no fingerprint, and
  `execute_publish_plan` searches only for one (`publish_executor.py:48`): every run blocked over side
  issues, and every publication of it repeated after a crash, creates another.
* The failure lines by which repairs are compared are read from a log with the output of the setup
  commands in it (`qa.py:306`): a setup that prints such a line at the baseline only makes an unchanged
  workspace an improvement. `ImprovesOnBaseline` says what remains: fewer lines than the baseline's
  log, and fewer than its tests where the setup prints none.
* A resume whose attempt is past the cap is escalated with an intake the CLI never loaded
  (`coordinator.py:541`; `cli.py:393` says a resume needs none): the command ends with an
  `AttributeError`, after the run's directory was made. `Workflow` has it as the step `no_intake`.
* Retrying the *same* first run again and again always counts attempt 2, so that the cap
  bounds the length of a lineage and not the number of runs of an issue.
* A run driven by single-stage commands never has the `publish-plan.json` that `publish run`
  wants. The model has both guards; it is a capability that is missing, not a wrong state.
* A rerun looks in the comments for the title of an older review flow (`rerun_context.py:28`), and
  `post_publish_review.py:953` posts rejections under another: a pull request rejected by
  `review impl` is never found again, though the skill (`deploy/templates.py`) and
  `docs/archive/operator-skill.md:254` promise that its feedback is inherited.
* Errors of choosing a client (no token, no transport) leave `apply_post_review_automation` as
  exceptions, although it returns every other failure as a result: `raised` in PostReview.
* A 409 that is a conflict is taken for a merge, and the issue is closed; a request to close that
  arrives late closes an issue somebody has reopened.
* A bootstrap killed between emptying a file and filling it leaves an empty file with no marker
  (`writer.py:164`), which every later bootstrap refuses to touch. So does the skill that
  `install-skill` copies, which has no marker either.
* Any directory called `bootstrap` on its path makes the configuration bootstrap's own, and one called
  `.precision-squad` besides makes the skill too (`writer.py:61`).
* The configuration that bootstrap writes sends runs to `.precision-squad/.precision-squad/runs`,
  as a relative path is taken from the directory of the file (`config.py:192`), and has no tables for
  `review plan` and `review impl`, which therefore look in `.precision-squad/runs`, where the commands
  before them did not write, although `docs/staged-command-surface.md` has them follow on the same run
  (`docs/architecture.md:59` names the directory). The configuration is not modelled.

## 6. Plan

1. *Workflow, StageGates*, their proofs, the refinements – done, for one operator and for several.
2. *RepairLoop* and its proofs – done.
3. *Publication* and its proofs – done.
4. *PostReview*, *Landing*, *ProjectSetup* and their proofs – done.
5. Left to prove: an abstract specification of *Publication*, as Landing is of PostReview, and its
   refinement; that `LineageIsCounted` needs both conditions of *SpecApart*.
6. Left to model: the chain's planning stages with their reading and their writing apart, under plain
   `Spec`; the configuration a command takes its runs directory from; the search for follow-up issues
   beyond its first page; the parsing of comments, if intake and rerun context become a module of
   their own; the docs executor's contract extraction as operators on documents, which would make the
   contract of RepairLoop a result instead of an input.
