--------------------------- MODULE WorkflowProofs ---------------------------
(***************************************************************************)
(* Theorems about Workflow, for any sets of runs, operators and plans, any *)
(* commands and any retry cap.                                             *)
(***************************************************************************)
EXTENDS Workflow, TLAPS

-----------------------------------------------------------------------------
(* Helpers keep run directories well formed.                               *)

LEMMA NewDirType ==
  ASSUME NEW i \in Intakes
  PROVE  NewDir(i) \in RunDir
  BY IntakesAssumption DEF NewDir, EmptyDir, RunDir, PlanReview, Review, Intake, Workspace

LEMMA EmptyDirType == EmptyDir \in RunDir
  BY DEF EmptyDir, RunDir, PlanReview, Review, Intake, Workspace

LEMMA ResumedType ==
  ASSUME NEW n \in Nat, NEW i \in Intake
  PROVE  [EmptyDir EXCEPT !.attempt = n, !.intake = i] \in RunDir
  BY DEF EmptyDir, RunDir, PlanReview, Review, Workspace

LEMMA ReviewedType ==
  ASSUME NEW d \in RunDir
  PROVE  IssueReviewed(d) \in RunDir /\ PlanReviewed(d) \in RunDir
  BY DEF IssueReviewed, PlanReviewed, IssueVerdict, PlanVerdict, RunDir, PlanReview, Review

Artifact == {"draft", "issueReview", "plan", "planReview", "repair", "qa", "verdict",
             "dlog", "tree", "workspace", "publishPlan", "publishResult"}

LEMMA PreservedOrder ==
  ASSUME NEW stage \in ResumeStage
  PROVE  /\ Len(Preserved[stage]) \in 1..10
         /\ stage # "review_issue" => Len(Preserved[stage]) >= 2
         /\ Len(Preserved[stage]) >= 3 => stage \notin {"review_issue", "plan"}
         /\ \A k \in 1..Len(Preserved[stage]) :
              /\ Preserved[stage][k] \in Artifact
              /\ k = 1 => Preserved[stage][k] = "draft"
              /\ k = 2 => Preserved[stage][k] = "issueReview"
              /\ k = 3 => Preserved[stage][k] = "plan"
              /\ k = 4 => Preserved[stage][k] = "planReview"
              /\ k > 4 => Preserved[stage][k] \notin
                             {"draft", "issueReview", "plan", "planReview"}
  <1>1. CASE stage = "review_issue"
    <2>1. Preserved[stage] = <<"draft">>
      BY <1>1 DEF Preserved, ResumeStage
    <2>2. /\ Len(Preserved[stage]) = 1
          /\ Preserved[stage][1] = "draft"
      BY <2>1
    <2> QED BY <1>1, <2>2 DEF Artifact
  <1>2. CASE stage = "plan"
    <2>1. Preserved[stage] = <<"draft", "issueReview">>
      BY <1>2 DEF Preserved, ResumeStage
    <2>2. /\ Len(Preserved[stage]) = 2
          /\ Preserved[stage][1] = "draft" /\ Preserved[stage][2] = "issueReview"
      BY <2>1
    <2> QED BY <1>2, <2>2 DEF Artifact
  <1>3. CASE stage = "review_plan"
    <2>1. Preserved[stage] = <<"draft", "issueReview", "plan">>
      BY <1>3 DEF Preserved, ResumeStage
    <2>2. /\ Len(Preserved[stage]) = 3
          /\ Preserved[stage][1] = "draft" /\ Preserved[stage][2] = "issueReview" /\ Preserved[stage][3] = "plan"
      BY <2>1
    <2> QED BY <1>3, <2>2 DEF Artifact
  <1>4. CASE stage = "implement"
    <2>1. Preserved[stage] = <<"draft", "issueReview", "plan", "planReview">>
      BY <1>4 DEF Preserved, ResumeStage
    <2>2. /\ Len(Preserved[stage]) = 4
          /\ Preserved[stage][1] = "draft" /\ Preserved[stage][2] = "issueReview" /\ Preserved[stage][3] = "plan"
          /\ Preserved[stage][4] = "planReview"
      BY <2>1
    <2> QED BY <1>4, <2>2 DEF Artifact
  <1>5. CASE stage = "publish"
    <2>1. Preserved[stage] = <<"draft", "issueReview", "plan", "planReview",
                                 "repair", "qa", "verdict", "dlog", "tree", "workspace">>
      BY <1>5 DEF Preserved, ResumeStage
    <2>2. /\ Len(Preserved[stage]) = 10
          /\ Preserved[stage][1] = "draft" /\ Preserved[stage][2] = "issueReview" /\ Preserved[stage][3] = "plan"
          /\ Preserved[stage][4] = "planReview" /\ Preserved[stage][5] = "repair" /\ Preserved[stage][6] = "qa"
          /\ Preserved[stage][7] = "verdict" /\ Preserved[stage][8] = "dlog" /\ Preserved[stage][9] = "tree"
          /\ Preserved[stage][10] = "workspace"
      BY <2>1
    <2> QED BY <1>5, <2>2 DEF Artifact
  <1>6. CASE stage = "review_impl"
    <2>1. Preserved[stage] = <<"draft", "issueReview", "plan", "planReview",
                                 "publishPlan", "publishResult">>
      BY <1>6 DEF Preserved, ResumeStage
    <2>2. /\ Len(Preserved[stage]) = 6
          /\ Preserved[stage][1] = "draft" /\ Preserved[stage][2] = "issueReview" /\ Preserved[stage][3] = "plan"
          /\ Preserved[stage][4] = "planReview" /\ Preserved[stage][5] = "publishPlan" /\ Preserved[stage][6] = "publishResult"
      BY <2>1
    <2> QED BY <1>6, <2>2 DEF Artifact
  <1> QED BY <1>1, <1>2, <1>3, <1>4, <1>5, <1>6 DEF ResumeStage

LEMMA WorkspaceType ==
  ASSUME NEW d \in RunDir, NEW w \in Workspace
  PROVE  [d EXCEPT !.workspace = w] \in RunDir
  BY DEF RunDir

\* Copying the tree, in its two steps, changes the workspace alone.
LEMMA TreeCopied ==
  ASSUME NEW d \in RunDir, NEW from \in RunDir, NEW a
  PROVE  \E w \in Workspace : CopyTree(d, from, a) = [d EXCEPT !.workspace = w]
  <1>1. d.workspace \in Workspace /\ from.workspace \in Workspace
    BY DEF RunDir
  <1>2. CASE a = "tree"
    <2> DEFINE w == IF from.workspace = "none" THEN d.workspace ELSE "partial"
    <2>1. w \in Workspace  BY <1>1 DEF Workspace
    <2>2. CopyTree(d, from, a) = [d EXCEPT !.workspace = w]  BY <1>2 DEF CopyTree
    <2> QED BY <2>1, <2>2
  <1>3. CASE a # "tree"
    <2> DEFINE w == CASE d.workspace = "partial" -> from.workspace
                      [] d.workspace = "judged"  -> "unjudged"
                      [] OTHER                   -> d.workspace
    <2>1. w \in Workspace  BY <1>1 DEF Workspace
    <2>2. CopyTree(d, from, a) = [d EXCEPT !.workspace = w]  BY <1>3 DEF CopyTree
    <2> QED BY <2>1, <2>2
  <1> QED BY <1>2, <1>3

LEMMA CopyType ==
  ASSUME NEW d \in RunDir, NEW from \in RunDir, NEW a \in Artifact
  PROVE  CopyArtifact(d, from, a) \in RunDir
  <1>1. CASE a = "dlog" BY <1>1 DEF CopyArtifact, RunDir
  <1>2. CASE a \in {"tree", "workspace"}
    <2>1. PICK w \in Workspace : CopyArtifact(d, from, a) = [d EXCEPT !.workspace = w]
      BY <1>2, TreeCopied DEF CopyArtifact
    <2> QED BY <2>1, WorkspaceType
  <1>3. CASE a \notin {"dlog", "tree", "workspace"}
    <2> DEFINE e == [d EXCEPT ![a] = from[a]]
    <2>1. CopyArtifact(d, from, a) = e BY <1>3 DEF CopyArtifact
    <2>2. e \in RunDir BY <1>3 DEF RunDir, Artifact
    <2> QED BY <2>1, <2>2
  <1> QED BY <1>1, <1>2, <1>3

-----------------------------------------------------------------------------
(* Type correctness. A job in progress always has a run, and one that is   *)
(* copying has the run it copies from.                                     *)

Working ==
  \A p \in Operator :
    /\ job[p].step \notin {"idle", "no_intake"} => job[p].run \in RunId
    /\ job[p].step = "materialise" => job[p].src \in RunId

TInv == TypeOK /\ Working

LEMMA WriteType ==
  ASSUME store \in [RunId -> RunDir], NEW r \in RunId, NEW d \in RunDir, Write(r, d)
  PROVE  /\ store' \in [RunId -> RunDir]
         /\ store'[r] = d
         /\ \A s \in RunId : s # r => store'[s] = store[s]
  BY DEF Write

LEMMA IdleType == Idle \in Job
  BY DEF Idle, Job, Step, ResumeStage, Review, Outcomes, NoOutcome

LEMMA StopType ==
  ASSUME TInv, NEW p \in Operator, Stop(p)
  PROVE  job' \in [Operator -> Job] /\ Working'
  <1>1. Idle.step = "idle"  BY DEF Idle
  <1> QED BY <1>1, IdleType DEF TInv, TypeOK, Working, Stop

LEMMA GoType ==
  ASSUME TInv, NEW p \in Operator, NEW step \in Step \ {"idle", "no_intake", "materialise"},
         job[p].step \notin {"idle", "no_intake"}, Go(p, step)
  PROVE  job' \in [Operator -> Job] /\ Working'
  BY DEF TInv, TypeOK, Working, Go, Job

LEMMA BeginType ==
  ASSUME TInv, NEW p \in Operator, NEW j \in Job,
         j.step \notin {"idle", "no_intake"} => j.run \in RunId,
         j.step = "materialise" => j.src \in RunId,
         Begin(p, j)
  PROVE  job' \in [Operator -> Job] /\ Working'
  BY DEF TInv, TypeOK, Working, Begin

LEMMA JobUnchanged ==
  ASSUME TInv, UNCHANGED job
  PROVE  job' \in [Operator -> Job] /\ Working'
  BY DEF TInv, TypeOK, Working

LEMMA InitTInv == Init => TInv
  <1> SUFFICES ASSUME Init PROVE TInv
    OBVIOUS
  <1>1. TypeOK
    BY EmptyDirType, IdleType, MaxCommandsAssumption DEF Init, TypeOK
  <1>2. Working
    BY DEF Init, Working, Idle
  <1> QED BY <1>1, <1>2 DEF TInv

LEMMA IssueType ==
  ASSUME issued \in 0..MaxCommands, NEW p \in Operator, NEW c, Issue(p, c)
  PROVE  issued' \in 0..MaxCommands
  BY MaxCommandsAssumption DEF Issue

-----------------------------------------------------------------------------
(* Each action preserves TInv.                                             *)

LEMMA StageCommandTInv ==
  ASSUME TInv, NEW p \in Operator, StageCommand(p)
  PROVE  TInv'
  <1> USE DEF TInv, TypeOK
  <1>1. CASE CreateIssue(p)
    <2>1. PICK r \in RunId, i \in Intakes : Write(r, NewDir(i))
      BY <1>1 DEF CreateIssue
    <2> QED BY <1>1, <2>1, NewDirType, WriteType, IssueType, JobUnchanged DEF CreateIssue
  <1>2. ASSUME NEW r \in RunId, ReviewIssue(p, r) PROVE TInv'
    <2> DEFINE j == [Idle EXCEPT !.step = "write_issue_review", !.run = r,
                                 !.found = IssueVerdict(store[r])]
    <2>1. IssueVerdict(store[r]) \in Review
      BY DEF IssueVerdict, Review
    <2>2. j \in Job /\ j.step = "write_issue_review" /\ j.run = r
      BY <2>1, IdleType DEF Job, Step
    <2>3. job' \in [Operator -> Job] /\ Working'
      <3> HIDE DEF j
      <3> QED BY <1>2, <2>2, BeginType DEF ReviewIssue, j
    <2> QED BY <1>2, <2>3, IssueType DEF ReviewIssue
  <1>3. ASSUME NEW r \in RunId, NEW pl \in Plan, PlanRun(p, r, pl) PROVE TInv'
    <2> DEFINE j == [Idle EXCEPT !.step = "write_plan", !.run = r, !.plan = pl]
    <2>1. j \in Job /\ j.step = "write_plan" /\ j.run = r
      BY IdleType DEF Job, Step
    <2>2. job' \in [Operator -> Job] /\ Working'
      <3> HIDE DEF j
      <3> QED BY <1>3, <2>1, BeginType DEF PlanRun, j
    <2> QED BY <1>3, <2>2, IssueType DEF PlanRun
  <1>4. ASSUME NEW r \in RunId, ReviewPlan(p, r) PROVE TInv'
    <2> DEFINE j == [Idle EXCEPT !.step = "write_plan_review", !.run = r,
                                 !.plan = store[r].plan, !.found = PlanVerdict(store[r])]
    <2>1. PlanVerdict(store[r]) \in Review /\ store[r].plan \in Plan \union {NoPlan}
      BY DEF PlanVerdict, Review, RunDir
    <2>2. j \in Job /\ j.step = "write_plan_review" /\ j.run = r
      BY <2>1, IdleType DEF Job, Step
    <2>3. job' \in [Operator -> Job] /\ Working'
      <3> HIDE DEF j
      <3> QED BY <1>4, <2>2, BeginType DEF ReviewPlan, j
    <2> QED BY <1>4, <2>3, IssueType DEF ReviewPlan
  <1>5. ASSUME NEW r \in RunId, ImplementRun(p, r) PROVE TInv'
    <2> DEFINE j == [Idle EXCEPT !.step = "repair", !.run = r]
    <2>1. j \in Job /\ j.step = "repair" /\ j.run = r
      BY IdleType DEF Job, Step
    <2>2. job' \in [Operator -> Job] /\ Working'
      <3> HIDE DEF j
      <3> QED BY <1>5, <2>1, BeginType DEF ImplementRun, j
    <2> QED BY <1>5, <2>2, IssueType DEF ImplementRun
  <1>6. ASSUME NEW r \in RunId, PublishRun(p, r) PROVE TInv'
    <2> DEFINE j == [Idle EXCEPT !.step = "execute", !.run = r, !.publish = TRUE]
    <2>1. j \in Job /\ j.step = "execute" /\ j.run = r
      BY IdleType DEF Job, Step
    <2>2. job' \in [Operator -> Job] /\ Working'
      <3> HIDE DEF j
      <3> QED BY <1>6, <2>1, BeginType DEF PublishRun, j
    <2> QED BY <1>6, <2>2, IssueType DEF PublishRun
  <1> QED BY <1>1, <1>2, <1>3, <1>4, <1>5, <1>6 DEF StageCommand

\* What a stage by hand has decided is written later.
LEMMA StageWriteTInv ==
  ASSUME TInv, NEW p \in Operator,
         WriteIssueReview(p) \/ WritePlan(p) \/ WritePlanReview(p)
  PROVE  TInv'
  <1> USE DEF TInv, TypeOK
  <1>1. PICK r, d, v, pl : r = job[p].run /\ d = store[r] /\ v = job[p].found /\ pl = job[p].plan
    OBVIOUS
  <1>2. r \in RunId /\ d \in RunDir /\ v \in Review /\ pl \in Plan \union {NoPlan}
    BY <1>1 DEF WriteIssueReview, WritePlan, WritePlanReview, At, Working, Job
  <1>3. PICK e :
          /\ e \in {[d EXCEPT !.issueReview = v], [d EXCEPT !.plan = pl],
                    [d EXCEPT !.planReview = [verdict |-> v, of |-> pl]]}
          /\ Write(r, e)
    BY <1>1 DEF WriteIssueReview, WritePlan, WritePlanReview
  <1>4. e \in RunDir
    BY <1>2, <1>3 DEF RunDir, PlanReview
  <1>5. Stop(p) /\ UNCHANGED <<prs, parent, issued>>
    BY DEF WriteIssueReview, WritePlan, WritePlanReview
  <1> QED BY <1>2, <1>3, <1>4, <1>5, WriteType, StopType

LEMMA EntryType ==
  ASSUME NEW i \in Intake, NEW stage \in ResumeStage \union {"report"}
  PROVE  Entry(i, stage) \in Step \ {"idle", "no_intake", "materialise", "number", "escalate"}
  BY DEF Entry, Step, ResumeStage

LEMMA RepairIssueTInv ==
  ASSUME TInv, NEW p \in Operator, RepairIssue(p)
  PROVE  TInv'
  <1> USE DEF TInv, TypeOK
  <1>1. PICK pl \in Plan \union {NoPlan}, publish \in BOOLEAN, r \in RunId :
          \/ \E i \in Intakes : Fresh(p, r, i, pl, publish)
          \/ \E src \in RunId, i \in Intakes : Retry(p, src, r, i, pl, publish)
          \/ \E src \in RunId, stage \in ResumeStage : Resume(p, src, r, stage, pl, publish)
    BY DEF RepairIssue
  <1>2. ASSUME NEW i \in Intakes, Fresh(p, r, i, pl, publish) PROVE TInv'
    <2> DEFINE j == [Idle EXCEPT !.step = Entry(i, "review_issue"), !.run = r, !.plan = pl,
                                 !.publish = publish, !.chain = TRUE]
    <2>1. Entry(i, "review_issue") \in Step \ {"materialise"}
      BY EntryType, IntakesAssumption DEF ResumeStage, Intake
    <2>2. j \in Job /\ j.step # "materialise" /\ j.run = r
      BY <2>1, IdleType DEF Job
    <2>3. job' \in [Operator -> Job] /\ Working'
      <3>1. Begin(p, j)  BY <1>2 DEF Fresh
      <3> HIDE DEF j
      <3> QED BY <2>2, <3>1, BeginType
    <2> QED BY <1>2, <2>3, IssueType, NewDirType, WriteType DEF Fresh
  <1>3. ASSUME NEW src \in RunId, NEW i \in Intakes, Retry(p, src, r, i, pl, publish)
        PROVE  TInv'
    <2> DEFINE n == store[src].attempt + 1
               j == [Idle EXCEPT !.step = IF Exhausted(n) THEN "escalate" ELSE "number",
                                 !.run = r, !.plan = Carried(src, pl), !.n = n,
                                 !.publish = publish, !.chain = TRUE]
    <2>1. n \in Nat /\ Carried(src, pl) \in Plan \union {NoPlan}
      BY DEF Carried, RunDir
    <2>2. j \in Job /\ j.step # "materialise" /\ j.run = r
      <3> HIDE DEF n
      <3> QED BY <2>1, IdleType DEF Job, Step
    <2>3. job' \in [Operator -> Job] /\ Working'
      <3>1. Begin(p, j)  BY <1>3 DEF Retry
      <3> HIDE DEF j
      <3> QED BY <2>2, <3>1, BeginType
    <2>4. parent' \in [RunId -> RunId \union {NoRun}]
      BY <1>3 DEF Retry
    <2> QED BY <1>3, <2>3, <2>4, IssueType, NewDirType, WriteType DEF Retry
  <1>4. ASSUME NEW src \in RunId, NEW stage \in ResumeStage,
               Resume(p, src, r, stage, pl, publish)
        PROVE  TInv'
    <2> DEFINE n == store[src].attempt + 1
               d == [EmptyDir EXCEPT !.attempt = n, !.intake = store[src].intake]
               plan == IF stage = "review_issue" THEN pl
                       ELSE IF stage = "plan" THEN Carried(src, pl) ELSE NoPlan
               j == [Idle EXCEPT
                   !.step = "materialise", !.run = r, !.src = src, !.from = stage,
                   !.plan = plan, !.publish = publish, !.chain = TRUE]
    <2>1. CASE Exhausted(n)
      <3> DEFINE k == [Idle EXCEPT !.step = "no_intake"]
      <3>1. Begin(p, k) /\ UNCHANGED <<store, parent>>
        BY <1>4, <2>1 DEF Resume
      <3>2. k \in Job /\ k.step = "no_intake"
        BY IdleType DEF Job, Step
      <3>3. job' \in [Operator -> Job] /\ Working'
        <4> HIDE DEF k
        <4> QED BY <3>1, <3>2, BeginType
      <3> QED BY <1>4, <3>1, <3>3, IssueType DEF Resume
    <2>2. CASE ~Exhausted(n)
      <3>1. /\ Write(r, d)
            /\ parent' = [parent EXCEPT ![r] = src]
            /\ Begin(p, j)
        BY <1>4, <2>2 DEF Resume
      <3>2. d \in RunDir
        <4>1. n \in Nat /\ store[src].intake \in Intake  BY DEF RunDir
        <4> QED BY <4>1, ResumedType
      <3>3. plan \in Plan \union {NoPlan}
        BY DEF Carried, RunDir
      <3>4. j \in Job /\ j.run = r /\ j.src = src
        <4> HIDE DEF plan
        <4> QED BY <3>3, IdleType DEF Job, Step
      <3>5. job' \in [Operator -> Job] /\ Working'
        <4> HIDE DEF j
        <4> QED BY <3>1, <3>4, BeginType
      <3>6. store' \in [RunId -> RunDir]
        <4> HIDE DEF d
        <4> QED BY <3>1, <3>2, WriteType
      <3> QED BY <1>4, <3>1, <3>5, <3>6, IssueType DEF Resume
    <2> QED BY <2>1, <2>2
  <1> QED BY <1>1, <1>2, <1>3, <1>4

LEMMA ClosedType ==
  ASSUME NEW d \in RunDir, NEW n \in Nat, NEW pl \in Plan \union {NoPlan}
  PROVE  /\ [d EXCEPT !.verdict = "blocked", !.publishPlan = "issue"] \in RunDir
         /\ [d EXCEPT !.attempt = n, !.plan = pl, !.repair = "escalated",
                      !.verdict = "blocked", !.publishPlan = "issue"] \in RunDir
  BY DEF RunDir

\* Two updates of a job in one step, as Materialise, Enter and Repair make them.
LEMMA UpdateType ==
  ASSUME TInv, NEW p \in Operator, NEW step \in Step \ {"idle", "no_intake"},
         NEW n \in Nat, NEW o \in Outcomes, job[p].run \in RunId
  PROVE  /\ [job[p] EXCEPT !.n = n] \in Job
         /\ [job[p] EXCEPT !.step = step, !.src = NoRun, !.n = n, !.outcome = o] \in Job
         /\ [job[p] EXCEPT !.outcome = o, !.step = step] \in Job
  BY DEF TInv, TypeOK, Job

LEMMA RetryStepTInv ==
  ASSUME TInv, NEW p \in Operator,
         \/ NumberAttempt(p) \/ Escalate(p) \/ Materialise(p) \/ Enter(p) \/ ReportBlocked(p)
  PROVE  TInv'
  <1> USE DEF TInv, TypeOK
  <1> DEFINE r == job[p].run
             d == store[r]
  <1>1. CASE NumberAttempt(p)
    <2>1. r \in RunId  BY <1>1 DEF NumberAttempt, At, Working
    <2>2. [d EXCEPT !.attempt = job[p].n] \in RunDir  BY <2>1 DEF RunDir, Job
    <2>3. Entry(d.intake, "review_issue") \in Step \ {"idle", "no_intake", "materialise"}
      BY <2>1, EntryType DEF RunDir, ResumeStage
    <2> QED BY <1>1, <2>1, <2>2, <2>3, WriteType, GoType DEF NumberAttempt, At
  <1>2. CASE Escalate(p)
    <2>1. r \in RunId  BY <1>2 DEF Escalate, At, Working
    <2>2. [d EXCEPT !.attempt = job[p].n, !.plan = job[p].plan, !.repair = "escalated",
                    !.verdict = "blocked", !.publishPlan = "issue"] \in RunDir
      <3>1. d \in RunDir /\ job[p].n \in Nat /\ job[p].plan \in Plan \union {NoPlan}
        BY <2>1 DEF Job
      <3> QED BY <3>1, ClosedType
    <2> QED BY <1>2, <2>1, <2>2, WriteType, GoType DEF Escalate, At, Step
  <1>3. CASE Materialise(p)
    <2> DEFINE src == store[job[p].src]
               a == Preserved[job[p].from][job[p].n + 1]
    <2>1. r \in RunId /\ job[p].src \in RunId  BY <1>3 DEF Materialise, At, Working
    <2>2. job[p].from \in ResumeStage /\ job[p].n \in Nat  BY DEF Job
    <2>3. a \in Artifact
      BY <1>3, <2>2, PreservedOrder DEF Materialise
    <2>4. CASE InTheWay(d, src, a)
      BY <1>3, <2>4, StopType DEF Materialise
    <2>5. CASE ~InTheWay(d, src, a)
      <3>1. CopyArtifact(d, src, a) \in RunDir
        BY <2>1, <2>3, CopyType
      <3> DEFINE j == [job[p] EXCEPT !.n = job[p].n + 1]
      <3>2. Write(r, CopyArtifact(d, src, a)) /\ Begin(p, j)
        BY <1>3, <2>5 DEF Materialise, Begin
      <3>3. j \in Job  BY <2>1, <2>2 DEF Job
      <3>4. j.run \in RunId /\ j.src \in RunId  BY <2>1 DEF Job
      <3>5. job' \in [Operator -> Job] /\ Working'
        <4> HIDE DEF j
        <4> QED BY <3>2, <3>3, <3>4, BeginType
      <3> QED BY <1>3, <2>1, <3>1, <3>2, <3>5, WriteType DEF Materialise
    <2> QED BY <2>4, <2>5
  <1>4. CASE Enter(p)
    <2>1. r \in RunId  BY <1>4 DEF Enter, At, Working
    <2>2. job' \in [Operator -> Job] /\ Working'
      <3>1. CASE d.intake # "blocked" /\ ~CopiesLoad(d, job[p].from)
        BY <1>4, <3>1, StopType DEF Enter
      <3>2. CASE ~(d.intake # "blocked" /\ ~CopiesLoad(d, job[p].from))
        <4>1. Entry(d.intake, job[p].from) \in Step \ {"idle", "no_intake", "materialise"}
          BY <2>1, EntryType DEF RunDir, Job
        <4>2. Reloaded \in Outcomes /\ NoOutcome \in Outcomes
          BY DEF Reloaded, NoOutcome, Outcomes
        <4>3. job' = [job EXCEPT ![p].step = Entry(d.intake, job[p].from),
                                 ![p].src = NoRun, ![p].n = 0,
                                 ![p].outcome = IF job[p].from = "publish" THEN Reloaded
                                                ELSE NoOutcome]
          BY <1>4, <3>2 DEF Enter
        <4> DEFINE step == Entry(d.intake, job[p].from)
                   o == IF job[p].from = "publish" THEN Reloaded ELSE NoOutcome
                   j == [job[p] EXCEPT !.step = step, !.src = NoRun, !.n = 0, !.outcome = o]
        <4>4. Begin(p, j)  BY <4>3 DEF Begin
        <4>5. step \in Step \ {"idle", "no_intake"} /\ o \in Outcomes  BY <4>1, <4>2
        <4>6. j \in Job /\ j.step = step /\ j.run \in RunId
          <5> HIDE DEF step, o
          <5> QED BY <2>1, <4>5, UpdateType DEF Job
        <4> HIDE DEF j
        <4> QED BY <4>1, <4>4, <4>6, BeginType
      <3> QED BY <3>1, <3>2
    <2> QED BY <1>4, <2>2 DEF Enter
  <1>5. CASE ReportBlocked(p)
    <2>1. r \in RunId  BY <1>5 DEF ReportBlocked, At, Working
    <2>2. [d EXCEPT !.verdict = "blocked", !.publishPlan = "issue"] \in RunDir
      <3>1. d \in RunDir /\ 0 \in Nat /\ NoPlan \in Plan \union {NoPlan}
        BY <2>1
      <3> HIDE DEF d
      <3> QED BY <3>1, ClosedType
    <2> QED BY <1>5, <2>1, <2>2, WriteType, GoType DEF ReportBlocked, At, Step
  <1> QED BY <1>1, <1>2, <1>3, <1>4, <1>5

LEMMA ChainStepTInv ==
  ASSUME TInv, NEW p \in Operator,
         \/ ChainReviewIssue(p) \/ ChainPlan(p) \/ ChainReviewPlan(p) \/ ChainImplement(p)
  PROVE  TInv'
  <1> USE DEF TInv, TypeOK
  <1> DEFINE r == job[p].run
             d == store[r]
  <1>0. job[p].step \notin {"idle", "no_intake"} /\ r \in RunId
    BY DEF ChainReviewIssue, ChainPlan, ChainReviewPlan, ChainImplement, At, Working
  <1>1. CASE ChainReviewIssue(p)
    <2>1. IssueReviewed(d) \in RunDir  BY <1>0, ReviewedType
    <2> QED BY <1>0, <1>1, <2>1, WriteType, GoType, StopType
            DEF ChainReviewIssue, Step, ResumeStage
  <1>2. CASE ChainPlan(p)
    <2> DEFINE e == IF job[p].plan = NoPlan THEN d ELSE [d EXCEPT !.plan = job[p].plan]
    <2>1. e \in RunDir  BY <1>0 DEF RunDir, Job
    <2>2. CASE job[p].plan # NoPlan /\ ~PlanGate(d)
      BY <1>2, <2>2, StopType DEF ChainPlan
    <2>3. CASE ~(job[p].plan # NoPlan /\ ~PlanGate(d))
      <3>1. Write(r, e) /\ Go(p, "review_plan")  BY <1>2, <2>3 DEF ChainPlan
      <3> HIDE DEF e
      <3> QED BY <1>0, <1>2, <2>1, <3>1, WriteType, GoType DEF ChainPlan, Step, ResumeStage
    <2> QED BY <2>2, <2>3
  <1>3. CASE ChainReviewPlan(p)
    <2>1. PlanReviewed(d) \in RunDir  BY <1>0, ReviewedType
    <2> QED BY <1>0, <1>3, <2>1, WriteType, GoType, StopType
            DEF ChainReviewPlan, Step, ResumeStage
  <1>4. CASE ChainImplement(p)
    BY <1>0, <1>4, GoType, StopType DEF ChainImplement, Step
  <1> QED BY <1>1, <1>2, <1>3, <1>4

LEMMA RecordedType ==
  ASSUME NEW d \in RunDir, NEW o \in Outcomes
  PROVE  [d EXCEPT !.repair = o.repair, !.qa = d.qa \/ o.qa,
                   !.dlog = IF o.repair = "completed"
                            THEN d.dlog \union {d.attempt} ELSE d.dlog] \in RunDir
  <1>1. o.repair \in {"none", "completed", "incomplete"} /\ o.qa \in BOOLEAN
    BY DEF Outcomes
  <1>2. d.qa \in BOOLEAN /\ d.dlog \in SUBSET Nat /\ d.attempt \in Nat
    BY DEF RunDir
  <1> DEFINE q == d.qa \/ o.qa
             l == IF o.repair = "completed" THEN d.dlog \union {d.attempt} ELSE d.dlog
  <1>3. q \in BOOLEAN /\ l \in SUBSET Nat
    BY <1>1, <1>2
  <1>4. ASSUME NEW qa \in BOOLEAN, NEW log \in SUBSET Nat
        PROVE  [d EXCEPT !.repair = o.repair, !.qa = qa, !.dlog = log] \in RunDir
    BY <1>1 DEF RunDir
  <1>5. [d EXCEPT !.repair = o.repair, !.qa = q, !.dlog = l] \in RunDir
    <2> HIDE DEF q, l
    <2> QED BY <1>3, <1>4
  <1> QED BY <1>5

LEMMA ImplementStepTInv ==
  ASSUME TInv, NEW p \in Operator, Repair(p) \/ RecordRepair(p) \/ Judge(p)
  PROVE  TInv'
  <1> USE DEF TInv, TypeOK
  <1> DEFINE r == job[p].run
             d == store[r]
  <1>0. job[p].step \notin {"idle", "no_intake"} /\ r \in RunId
    BY DEF Repair, RecordRepair, Judge, At, Working
  <1>1. CASE Repair(p)
    <2>1. PICK o \in Outcomes :
            /\ job' = [job EXCEPT ![p].outcome = o,
                                  ![p].step = IF o.repair = "none" THEN "judge" ELSE "record"]
            /\ Write(r, IF o.repair = "none" THEN d ELSE [d EXCEPT !.workspace = "unjudged"])
      BY <1>1 DEF Repair
    <2> DEFINE e == IF o.repair = "none" THEN d ELSE [d EXCEPT !.workspace = "unjudged"]
               step == IF o.repair = "none" THEN "judge" ELSE "record"
               j == [job[p] EXCEPT !.outcome = o, !.step = step]
    <2>2. e \in RunDir
      <3>1. d \in RunDir  BY <1>0
      <3> HIDE DEF d
      <3> QED BY <3>1, WorkspaceType DEF Workspace
    <2>3. store' \in [RunId -> RunDir]
      <3> HIDE DEF e
      <3> QED BY <1>0, <2>1, <2>2, WriteType DEF e
    <2>4. j \in Job /\ j.step \notin {"idle", "no_intake", "materialise"} /\ j.run \in RunId
      BY <1>0 DEF Job, Step
    <2>5. Begin(p, j)  BY <2>1 DEF Begin
    <2>6. job' \in [Operator -> Job] /\ Working'
      <3> HIDE DEF j
      <3> QED BY <2>4, <2>5, BeginType
    <2> QED BY <1>1, <2>3, <2>6 DEF Repair
  <1>2. CASE RecordRepair(p)
    <2> DEFINE o == job[p].outcome
    <2>1. o \in Outcomes /\ d \in RunDir  BY <1>0 DEF Job
    <2>2. [d EXCEPT !.repair = o.repair, !.qa = d.qa \/ o.qa,
                    !.dlog = IF o.repair = "completed"
                             THEN d.dlog \union {d.attempt} ELSE d.dlog] \in RunDir
      <3> HIDE DEF d, o
      <3> QED BY <2>1, RecordedType
    <2> QED BY <1>0, <1>2, <2>2, WriteType, GoType DEF RecordRepair, Step
  <1>3. CASE Judge(p)
    <2> DEFINE o == job[p].outcome
               v == IF Approves(d, o) THEN "approved" ELSE "blocked"
               w == IF d.workspace \in {"none", "partial"} THEN d.workspace
                    ELSE IF o.repair = "none" THEN "unjudged" ELSE "judged"
    <2>1. [d EXCEPT !.verdict = v, !.workspace = w] \in RunDir
      <3>1. d \in RunDir /\ v \in {"none", "approved", "blocked"}
              /\ w \in Workspace
        BY <1>0 DEF Workspace
      <3> HIDE DEF d, v, w
      <3> QED BY <3>1 DEF RunDir
    <2> QED BY <1>0, <1>3, <2>1, WriteType, GoType, StopType DEF Judge, Step, ResumeStage
  <1> QED BY <1>1, <1>2, <1>3

LEMMA PublishStepTInv ==
  ASSUME TInv, NEW p \in Operator,
         \/ ChainPublish(p) \/ Execute(p) \/ RecordResult(p) \/ ChainReviewImpl(p) \/ Crash(p)
  PROVE  TInv'
  <1> USE DEF TInv, TypeOK
  <1> DEFINE r == job[p].run
             d == store[r]
  <1>1. CASE ChainPublish(p)
    <2>0. job[p].step \notin {"idle", "no_intake"} /\ r \in RunId
      BY <1>1 DEF ChainPublish, At, Working
    <2>1. CASE Approves(d, job[p].outcome)
      <3> DEFINE e == [d EXCEPT !.publishPlan = IF d.intake = "rejected"
                                                THEN "update_pr" ELSE "draft_pr"]
      <3>1. Write(r, e) /\ Go(p, "execute")  BY <1>1, <2>1 DEF ChainPublish
      <3>2. e \in RunDir  BY <2>0 DEF RunDir
      <3> HIDE DEF e
      <3> QED BY <1>1, <2>0, <3>1, <3>2, WriteType, GoType DEF ChainPublish, Step
    <2>2. CASE ~Approves(d, job[p].outcome)
      <3>1. [d EXCEPT !.verdict = "blocked"] \in RunDir  BY <2>0 DEF RunDir
      <3> QED BY <1>1, <2>0, <2>2, <3>1, WriteType, StopType DEF ChainPublish
    <2> QED BY <2>1, <2>2
  <1>2. CASE Execute(p)
    <2>0. job[p].step \notin {"idle", "no_intake"} /\ r \in RunId
      BY <1>2 DEF Execute, At, Working
    <2> DEFINE pr == [run |-> r, verdict |-> d.verdict, judged |-> d.workspace = "judged",
                      logged |-> d.repair = "completed" => d.attempt \in d.dlog]
    <2>1. pr \in [run : RunId, verdict : {"none", "approved", "blocked"},
                  judged : BOOLEAN, logged : BOOLEAN]
      BY <2>0 DEF RunDir
    <2>2. prs' = prs \/ prs' = prs \union {pr}  BY <1>2 DEF Execute
    <2>3. job' \in [Operator -> Job] /\ Working'
      BY <1>2, <2>0, GoType, StopType DEF Execute, Step
    <2> HIDE DEF pr
    <2> QED BY <1>2, <2>1, <2>2, <2>3 DEF Execute
  <1>3. CASE RecordResult(p)
    <2>0. job[p].step \notin {"idle", "no_intake"} /\ r \in RunId
      BY <1>3 DEF RecordResult, At, Working
    <2>1. [d EXCEPT !.publishResult = IF job[p].publish THEN "published" ELSE "dry_run"]
            \in RunDir
      BY <2>0 DEF RunDir
    <2> QED BY <1>3, <2>0, <2>1, WriteType, GoType, StopType DEF RecordResult, Step, ResumeStage
  <1>4. CASE ChainReviewImpl(p) \/ Crash(p)
    BY <1>4, StopType DEF ChainReviewImpl, Crash
  <1> QED BY <1>1, <1>2, <1>3, <1>4

LEMMA StepTInv == TInv /\ [Next]_vars => TInv'
  <1> SUFFICES ASSUME TInv, [Next]_vars PROVE TInv'
    OBVIOUS
  <1>1. CASE UNCHANGED vars
    BY <1>1 DEF vars, TInv, TypeOK, Working
  <1>2. ASSUME NEW p \in Operator, StageCommand(p) \/ RepairIssue(p) \/ Advance(p) \/ Crash(p)
        PROVE  TInv'
    BY <1>2, StageCommandTInv, StageWriteTInv, RepairIssueTInv, RetryStepTInv, ChainStepTInv,
       ImplementStepTInv, PublishStepTInv DEF Advance
  <1> QED BY <1>1, <1>2 DEF Next

\* Type correctness: whatever the operators do and wherever processes die, a run
\* directory never holds a value its readers do not know.
THEOREM TypeCorrect == Spec => []TypeOK
  <1>1. TInv => TypeOK  BY DEF TInv
  <1> QED BY InitTInv, StepTInv, <1>1, PTL DEF Spec
=============================================================================
