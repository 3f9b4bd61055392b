----------------------------- MODULE GateProofs -----------------------------
(***************************************************************************)
(* The planning gates of Workflow hold for any number of operators, with   *)
(* processes dying anywhere.  What has to be shown besides the gates is    *)
(* that nothing a resumed run relies on is taken back while it copies,     *)
(* that no other process copies into the same directory, and that a review *)
(* of the issue, decided in one step and written in another, is written as *)
(* it would be decided then.  The last holds of operators who review no    *)
(* issue before its draft (DraftFirst), or keep off each other's runs.     *)
(***************************************************************************)
EXTENDS WorkflowProofs

-----------------------------------------------------------------------------
(* The inductive invariant.                                                *)

Sound(d) ==
  /\ d.planReview.verdict = "approved" => d.issueReview = "approved" /\ d.plan # NoPlan
  /\ d.issueReview = "approved" => d.draft /\ d.intake # "blocked" /\ d.attempt > 0
  /\ PlansPr(d) => d.issueReview = "approved"

\* What job j may rely on while it copies, in store S.
Copying(S, j) ==
  LET d == S[j.run]
      s == S[j.src]
  IN  /\ s.attempt > 0 /\ j.src # j.run /\ d.intake = s.intake
      /\ j.n = 0 => ~d.draft
      /\ j.from # "review_issue" =>
           /\ s.issueReview = "approved"
           /\ j.n >= 1 => d.draft
           /\ j.n >= 2 => d.issueReview = "approved"
      /\ Len(Preserved[j.from]) >= 3 =>
           /\ s.plan # NoPlan
           /\ j.n >= 3 => d.plan # NoPlan

Approved(d) == d.issueReview = "approved" /\ d.plan # NoPlan

JobOK(S, j) ==
  /\ j.step \notin {"idle", "no_intake"} => S[j.run].attempt > 0
  /\ j.step \in {"number", "escalate"} => j.n > 0
  /\ j.step \in {"escalate", "write_plan"} => j.plan # NoPlan
  /\ j.step = "write_plan" => S[j.run].issueReview = "approved"
  /\ j.step = "write_plan_review" /\ j.found = "approved" => Approved(S[j.run])
  /\ j.step \in {"repair", "record", "judge", "publish"} => Approved(S[j.run])
  /\ j.step = "materialise" => Copying(S, j)

Apart ==
  \A p, q \in Operator :
    p # q /\ At(p, "materialise") /\ At(q, "materialise") => job[p].run # job[q].run

GInv ==
  /\ \A r \in RunId : Sound(store[r])
  /\ \A p \in Operator : JobOK(store, job[p])
  /\ Apart

\* What a review of the issue is about to write is what it would decide now.
Current ==
  \A p \in Operator :
    At(p, "write_issue_review") => job[p].found = IssueVerdict(store[job[p].run])

\* An approved issue review is still approved after the step, and nothing the verdict on
\* an issue that has its draft is drawn from has changed.
Stands ==
  \A r \in RunId :
    /\ store[r].issueReview = "approved" => store'[r].issueReview = "approved"
    /\ Exists(r) => /\ store[r].draft => store'[r].draft
                    /\ store'[r].intake = store[r].intake

-----------------------------------------------------------------------------
(* A write to a run other processes may hold keeps what they rely on.      *)

Keeps(d, e) ==
  /\ e.attempt > 0
  /\ e.intake = d.intake
  /\ d.draft => e.draft
  /\ d.issueReview = "approved" => e.issueReview = "approved"
  /\ d.plan # NoPlan => e.plan # NoPlan
  /\ Sound(e)

LEMMA JobKept ==
  ASSUME NEW S \in [RunId -> RunDir], NEW T \in [RunId -> RunDir], NEW j \in Job,
         j.step \notin {"idle", "no_intake"} => j.run \in RunId,
         j.step = "materialise" => j.src \in RunId,
         \A r \in RunId : S[r].attempt > 0 => Keeps(S[r], T[r]),
         j.step = "materialise" => T[j.run].draft = S[j.run].draft,
         JobOK(S, j)
  PROVE  JobOK(T, j)
  <1>1. CASE j.step \in {"idle", "no_intake"}
    BY <1>1 DEF JobOK
  <1>2. CASE j.step \notin {"idle", "no_intake"}
    <2>1. Keeps(S[j.run], T[j.run])
      BY <1>2 DEF JobOK
    <2>2. j.step = "materialise" => Copying(T, j)
      <3>1. SUFFICES ASSUME j.step = "materialise" PROVE Copying(T, j)
        OBVIOUS
      <3>2. Copying(S, j) /\ Keeps(S[j.src], T[j.src])
        BY <3>1 DEF JobOK, Copying
      <3> QED BY <2>1, <3>1, <3>2 DEF Copying, Keeps
    <2> QED BY <1>2, <2>1, <2>2 DEF JobOK, Approved, Keeps
  <1> QED BY <1>1, <1>2

\* Process p writes directory e to run r, and nobody's copying is touched.
LEMMA WriteGInv ==
  ASSUME TInv, TInv', GInv, NEW p \in Operator, NEW r \in RunId, NEW e \in RunDir,
         Write(r, e),
         Exists(r) => Keeps(store[r], e) /\ e.draft = store[r].draft,
         Sound(e),
         \A q \in Operator : q # p => job'[q] = job[q],
         JobOK(store', job'[p]),
         \A q \in Operator :
           q # p /\ job'[p].step = "materialise" /\ job[q].step = "materialise" =>
             job'[p].run # job[q].run
  PROVE  GInv' /\ Stands
  <1>0. /\ store \in [RunId -> RunDir] /\ store' \in [RunId -> RunDir]
        /\ job \in [Operator -> Job]
    BY DEF TInv, TypeOK
  <1>1. store'[r] = e /\ \A s \in RunId : s # r => store'[s] = store[s]
    BY <1>0, WriteType
  <1>2. \A s \in RunId : Sound(store'[s])
    BY <1>1 DEF GInv
  <1>3. \A s \in RunId : Exists(s) => Keeps(store[s], store'[s]) /\ store'[s].draft = store[s].draft
    BY <1>1, <1>2 DEF Keeps, Exists
  <1>4. ASSUME NEW q \in Operator, q # p PROVE JobOK(store', job'[q])
    <2>1. job'[q] = job[q] /\ JobOK(store, job[q]) /\ job[q] \in Job
      BY <1>0, <1>4 DEF GInv
    <2>2. /\ job[q].step \notin {"idle", "no_intake"} => job[q].run \in RunId
          /\ job[q].step = "materialise" => job[q].src \in RunId
      BY DEF TInv, Working
    <2>3. job[q].step = "materialise" => store'[job[q].run].draft = store[job[q].run].draft
      BY <1>3, <2>1, <2>2 DEF JobOK, Exists
    <2> QED BY <1>0, <1>3, <2>1, <2>2, <2>3, JobKept DEF Exists
  <1>5. Apart'
    BY DEF GInv, Apart, At
  <1>6. Stands
    BY <1>3 DEF Stands, GInv, Sound, Keeps, Exists
  <1> QED BY <1>2, <1>4, <1>5, <1>6 DEF GInv

LEMMA QuietGInv ==
  ASSUME TInv, TInv', GInv, NEW p \in Operator, UNCHANGED store,
         \A q \in Operator : q # p => job'[q] = job[q],
         JobOK(store, job'[p]), job'[p].step # "materialise"
  PROVE  GInv' /\ Stands
  BY DEF GInv, Apart, At, Stands

LEMMA InitGInv == Init => GInv
  <1> SUFFICES ASSUME Init PROVE GInv
    OBVIOUS
  <1>1. \A r \in RunId : Sound(store[r])
    BY DEF Init, Sound, EmptyDir, PlansPr
  <1>2. \A p \in Operator : job[p].step = "idle"
    BY DEF Init, Idle
  <1>3. (\A p \in Operator : JobOK(store, job[p])) /\ Apart
    BY <1>2 DEF JobOK, Apart, At
  <1> QED BY <1>1, <1>3 DEF GInv

LEMMA IdleJobOK ==
  ASSUME NEW S, NEW j, j.step \in {"idle", "no_intake"}
  PROVE  JobOK(S, j)
  BY DEF JobOK

LEMMA ReviewedKeeps ==
  ASSUME NEW d \in RunDir, Sound(d), d.attempt > 0
  PROVE  /\ Keeps(d, IssueReviewed(d)) /\ IssueReviewed(d).draft = d.draft
         /\ Keeps(d, PlanReviewed(d)) /\ PlanReviewed(d).draft = d.draft
  BY DEF RunDir, PlanReview, Sound, Keeps, IssueReviewed, PlanReviewed, IssueVerdict,
         PlanVerdict, PlansPr

LEMMA PlannedKeeps ==
  ASSUME NEW d \in RunDir, Sound(d), d.attempt > 0, NEW pl \in Plan
  PROVE  Keeps(d, [d EXCEPT !.plan = pl])
  BY NoPlanAssumption DEF RunDir, Sound, Keeps, PlansPr

LEMMA GoFields ==
  ASSUME TInv, NEW p \in Operator, NEW step, Go(p, step)
  PROVE  /\ job'[p].step = step /\ job'[p].run = job[p].run
         /\ \A q \in Operator : q # p => job'[q] = job[q]
  BY DEF TInv, TypeOK, Go, Job

LEMMA StopFields ==
  ASSUME TInv, NEW p \in Operator, Stop(p)
  PROVE  /\ job'[p].step = "idle"
         /\ \A q \in Operator : q # p => job'[q] = job[q]
  BY DEF TInv, TypeOK, Stop, Idle

LEMMA StageCommandGInv ==
  ASSUME TInv, TInv', GInv, NEW p \in Operator, StageCommand(p)
  PROVE  GInv' /\ Stands
  <1>0. /\ store \in [RunId -> RunDir] /\ job \in [Operator -> Job]
        /\ \A r \in RunId : store[r] \in RunDir /\ Sound(store[r])
        /\ JobOK(store, job[p])
        /\ job[p].step = "idle"
    BY DEF TInv, TypeOK, GInv, StageCommand, CreateIssue, ReviewIssue, PlanRun, ReviewPlan,
           ImplementRun, PublishRun, Issue, At
  <1>1. CASE CreateIssue(p)
    <2>1. PICK r \in RunId, i \in Intakes : ~Exists(r) /\ Write(r, NewDir(i))
      BY <1>1 DEF CreateIssue
    <2>2. NewDir(i) \in RunDir /\ Sound(NewDir(i))
      BY NewDirType DEF NewDir, EmptyDir, Sound, PlansPr
    <2>3. \A q \in Operator : job'[q] = job[q]
      BY <1>1 DEF CreateIssue
    <2> QED BY <1>0, <2>1, <2>2, <2>3, WriteGInv, IdleJobOK
  <1>2. ASSUME NEW r \in RunId, ReviewIssue(p, r) PROVE GInv' /\ Stands
    <2>1. /\ job'[p].step = "write_issue_review" /\ job'[p].run = r
          /\ \A q \in Operator : q # p => job'[q] = job[q]
          /\ UNCHANGED store /\ store[r].attempt > 0
      BY <1>0, <1>2, IdleType DEF ReviewIssue, Begin, Job, Exists
    <2> QED BY <2>1, QuietGInv DEF JobOK
  <1>3. ASSUME NEW r \in RunId, NEW pl \in Plan, PlanRun(p, r, pl) PROVE GInv' /\ Stands
    <2>1. /\ job'[p].step = "write_plan" /\ job'[p].run = r /\ job'[p].plan = pl
          /\ \A q \in Operator : q # p => job'[q] = job[q]
          /\ UNCHANGED store /\ store[r].attempt > 0
          /\ store[r].issueReview = "approved" /\ pl # NoPlan
      BY <1>0, <1>3, IdleType, NoPlanAssumption DEF PlanRun, PlanGate, Begin, Job, Exists
    <2> QED BY <2>1, QuietGInv DEF JobOK
  <1>4. ASSUME NEW r \in RunId, ReviewPlan(p, r) PROVE GInv' /\ Stands
    <2>1. /\ job'[p].step = "write_plan_review" /\ job'[p].run = r
          /\ job'[p].found = PlanVerdict(store[r])
          /\ \A q \in Operator : q # p => job'[q] = job[q]
          /\ UNCHANGED store /\ store[r].attempt > 0
      BY <1>0, <1>4, IdleType DEF ReviewPlan, Begin, Job, Exists
    <2>2. PlanVerdict(store[r]) = "approved" => Approved(store[r])
      BY DEF PlanVerdict, Approved
    <2> QED BY <2>1, <2>2, QuietGInv DEF JobOK
  <1>5. ASSUME NEW r \in RunId, ImplementRun(p, r) PROVE GInv' /\ Stands
    <2>1. /\ job'[p].step = "repair" /\ job'[p].run = r
          /\ \A q \in Operator : q # p => job'[q] = job[q]
          /\ UNCHANGED store
      BY <1>0, <1>5, IdleType DEF ImplementRun, Begin, Job
    <2>2. Approved(store[r]) /\ store[r].attempt > 0
      BY <1>0, <1>5 DEF ImplementRun, ImplementGate, Sound, Approved, Exists
    <2> QED BY <2>1, <2>2, QuietGInv DEF JobOK
  <1>6. ASSUME NEW r \in RunId, PublishRun(p, r) PROVE GInv' /\ Stands
    <2>1. /\ job'[p].step = "execute" /\ job'[p].run = r
          /\ \A q \in Operator : q # p => job'[q] = job[q]
          /\ UNCHANGED store /\ store[r].attempt > 0
      BY <1>0, <1>6, IdleType DEF PublishRun, Begin, Job, Exists
    <2> QED BY <2>1, QuietGInv DEF JobOK
  <1> QED BY <1>1, <1>2, <1>3, <1>4, <1>5, <1>6 DEF StageCommand

\* A stage by hand writes what it decided, of which the gates rely on what still holds.
LEMMA StageWriteGInv ==
  ASSUME TInv, TInv', GInv, Current, NEW p \in Operator,
         WriteIssueReview(p) \/ WritePlan(p) \/ WritePlanReview(p)
  PROVE  GInv' /\ Stands
  <1>1. PICK r, d, v, pl :
          r = job[p].run /\ d = store[r] /\ v = job[p].found /\ pl = job[p].plan
    OBVIOUS
  <1>2. /\ job[p].step \in {"write_issue_review", "write_plan", "write_plan_review"}
        /\ r \in RunId /\ d \in RunDir /\ Sound(d) /\ d.attempt > 0
        /\ v \in Review /\ pl \in Plan \union {NoPlan}
        /\ JobOK(store, job[p])
    BY <1>1 DEF TInv, TypeOK, Working, GInv, JobOK, Job, WriteIssueReview, WritePlan,
                WritePlanReview, At
  <1>3. Stop(p)
    BY DEF WriteIssueReview, WritePlan, WritePlanReview
  <1>4. PICK e \in RunDir : Write(r, e) /\ Keeps(d, e) /\ e.draft = d.draft
    <2>1. CASE WriteIssueReview(p)
      <3>1. v = IssueVerdict(d)
        BY <1>1, <2>1 DEF Current, WriteIssueReview
      <3>2. Write(r, IssueReviewed(d))
        BY <1>1, <2>1, <3>1 DEF WriteIssueReview, IssueReviewed
      <3> QED BY <1>2, <3>2, ReviewedType, ReviewedKeeps
    <2>2. CASE WritePlan(p)
      <3>1. pl \in Plan
        BY <1>1, <1>2, <2>2 DEF JobOK, WritePlan, At
      <3>2. Write(r, [d EXCEPT !.plan = pl])
        BY <1>1, <2>2 DEF WritePlan
      <3>3. [d EXCEPT !.plan = pl] \in RunDir /\ [d EXCEPT !.plan = pl].draft = d.draft
        BY <1>2, <3>1 DEF RunDir
      <3> QED BY <1>2, <3>1, <3>2, <3>3, PlannedKeeps
    <2>3. CASE WritePlanReview(p)
      <3>1. v = "approved" => Approved(d)
        BY <1>1, <1>2, <2>3 DEF JobOK, WritePlanReview, At
      <3>2. PICK e : e = [d EXCEPT !.planReview = [verdict |-> v, of |-> pl]]
        OBVIOUS
      <3>3. Write(r, e)
        BY <1>1, <2>3, <3>2 DEF WritePlanReview
      <3>4. e \in RunDir
        BY <1>2, <3>2 DEF RunDir, PlanReview
      <3>5. /\ e.attempt = d.attempt /\ e.intake = d.intake /\ e.draft = d.draft
            /\ e.issueReview = d.issueReview /\ e.plan = d.plan
            /\ e.publishPlan = d.publishPlan /\ e.planReview.verdict = v
        BY <1>2, <3>2 DEF RunDir
      <3>6. Keeps(d, e)
        BY <1>2, <3>1, <3>5 DEF Keeps, Sound, Approved, PlansPr
      <3> QED BY <3>3, <3>4, <3>5, <3>6
    <2> QED BY <2>1, <2>2, <2>3
  <1> QED BY <1>1, <1>2, <1>3, <1>4, StopFields, WriteGInv, IdleJobOK DEF Keeps

\* A source that may be resumed at a stage holds what the stage copies.
LEMMA ResumableSource ==
  ASSUME NEW s \in RunDir, Sound(s), NEW stage \in ResumeStage, MayResume(s, stage)
  PROVE  /\ stage # "review_issue" => s.issueReview = "approved"
         /\ Len(Preserved[stage]) >= 3 => s.plan # NoPlan
  BY PreservedOrder DEF MayResume, Sound, ResumeStage, PlansPr

LEMMA RepairIssueGInv ==
  ASSUME TInv, TInv', GInv, NEW p \in Operator, RepairIssue(p)
  PROVE  GInv' /\ Stands
  <1>0. /\ store \in [RunId -> RunDir] /\ job \in [Operator -> Job]
        /\ \A s \in RunId : store[s] \in RunDir /\ Sound(store[s])
    BY DEF TInv, TypeOK, GInv
  <1>1. PICK pl \in Plan \union {NoPlan}, publish \in BOOLEAN, r \in RunId :
          \/ \E i \in Intakes : Fresh(p, r, i, pl, publish)
          \/ \E src \in RunId, i \in Intakes : Retry(p, src, r, i, pl, publish)
          \/ \E src \in RunId, stage \in ResumeStage : Resume(p, src, r, stage, pl, publish)
    BY DEF RepairIssue
  <1>2. ASSUME NEW i \in Intakes, Fresh(p, r, i, pl, publish) PROVE GInv' /\ Stands
    <2>1. /\ ~Exists(r) /\ Write(r, NewDir(i))
          /\ \A q \in Operator : q # p => job'[q] = job[q]
          /\ job'[p].step = Entry(i, "review_issue") /\ job'[p].run = r
      BY <1>0, <1>2, IdleType DEF Fresh, Begin, Job
    <2>2. NewDir(i) \in RunDir /\ Sound(NewDir(i)) /\ NewDir(i).attempt = 1
      BY NewDirType DEF NewDir, EmptyDir, Sound, PlansPr
    <2>3. job'[p].step \in {"review_issue", "report"}
      BY <2>1 DEF Entry
    <2>4. store'[r].attempt = 1
      BY <1>0, <2>1, <2>2, WriteType
    <2>5. JobOK(store', job'[p])
      BY <2>1, <2>3, <2>4 DEF JobOK
    <2> QED BY <2>1, <2>2, <2>3, <2>5, WriteGInv
  <1>3. ASSUME NEW src \in RunId, NEW i \in Intakes, Retry(p, src, r, i, pl, publish)
        PROVE  GInv' /\ Stands
    <2>1. /\ ~Exists(r) /\ Write(r, NewDir(i))
          /\ \A q \in Operator : q # p => job'[q] = job[q]
          /\ job'[p].step \in {"number", "escalate"} /\ job'[p].run = r
          /\ job'[p].n = store[src].attempt + 1 /\ job'[p].plan = Carried(src, pl)
          /\ Carried(src, pl) # NoPlan
      BY <1>0, <1>3, IdleType DEF Retry, Begin, Job
    <2>2. NewDir(i) \in RunDir /\ Sound(NewDir(i)) /\ NewDir(i).attempt = 1
      BY NewDirType DEF NewDir, EmptyDir, Sound, PlansPr
    <2>3. store'[r].attempt = 1
      BY <1>0, <2>1, <2>2, WriteType
    <2>4. job'[p].n > 0
      BY <1>0, <2>1 DEF RunDir
    <2>5. JobOK(store', job'[p])
      BY <2>1, <2>3, <2>4 DEF JobOK
    <2> QED BY <2>1, <2>2, <2>5, WriteGInv
  <1>4. ASSUME NEW src \in RunId, NEW stage \in ResumeStage,
               Resume(p, src, r, stage, pl, publish)
        PROVE  GInv' /\ Stands
    <2>1. CASE Exhausted(store[src].attempt + 1)
      <3>1. /\ \A q \in Operator : q # p => job'[q] = job[q]
            /\ job'[p].step = "no_intake" /\ UNCHANGED store
        BY <1>0, <1>4, <2>1, IdleType DEF Resume, Begin, Job
      <3> QED BY <3>1, QuietGInv, IdleJobOK
    <2>2. CASE ~Exhausted(store[src].attempt + 1)
      <3> DEFINE e == [EmptyDir EXCEPT !.attempt = store[src].attempt + 1,
                                       !.intake = store[src].intake]
      <3>1. /\ Exists(src) /\ MayResume(store[src], stage) /\ ~Exists(r) /\ Write(r, e)
            /\ \A q \in Operator : q # p => job'[q] = job[q]
            /\ job'[p].step = "materialise" /\ job'[p].run = r /\ job'[p].src = src
            /\ job'[p].from = stage /\ job'[p].n = 0
        <4> DEFINE j == [Idle EXCEPT
                     !.step = "materialise", !.run = r, !.src = src, !.from = stage,
                     !.plan = IF stage = "review_issue" THEN pl
                              ELSE IF stage = "plan" THEN Carried(src, pl) ELSE NoPlan,
                     !.publish = publish, !.chain = TRUE]
        <4>1. /\ Exists(src) /\ MayResume(store[src], stage) /\ ~Exists(r) /\ Write(r, e)
              /\ Begin(p, j)
          BY <1>4, <2>2 DEF Resume
        <4>2. /\ j.step = "materialise" /\ j.run = r /\ j.src = src /\ j.from = stage
              /\ j.n = 0
          BY DEF Idle
        <4> HIDE DEF j, e
        <4> QED BY <1>0, <4>1, <4>2 DEF Begin
      <3>2. store[src].attempt \in Nat /\ store[src].intake \in Intake
        BY <1>0 DEF RunDir
      <3>3. /\ e \in RunDir /\ Sound(e) /\ e.attempt > 0
            /\ e.intake = store[src].intake /\ ~e.draft
        <4> DEFINE n == store[src].attempt + 1
                   i == store[src].intake
        <4>1. n \in Nat /\ n > 0 /\ i \in Intake  BY <3>2
        <4> HIDE DEF n, i
        <4>2. [EmptyDir EXCEPT !.attempt = n, !.intake = i] \in RunDir
          BY <4>1, ResumedType
        <4> QED BY <4>1, <4>2 DEF n, i, EmptyDir, Sound, PlansPr
      <3> HIDE DEF e
      <3>4. store'[r] = e /\ src # r /\ store'[src] = store[src]
        BY <1>0, <3>1, <3>3, WriteType
      <3>5. /\ stage # "review_issue" => store[src].issueReview = "approved"
            /\ Len(Preserved[stage]) >= 3 => store[src].plan # NoPlan
        BY <1>0, <3>1, ResumableSource
      <3>6. JobOK(store', job'[p])
        <4>1. Copying(store', job'[p])
          BY <3>1, <3>3, <3>4, <3>5 DEF Copying, Exists
        <4> QED BY <3>1, <3>3, <3>4, <4>1 DEF JobOK
      <3>7. \A q \in Operator : job[q].step = "materialise" => job[q].run # r
        BY <3>1 DEF GInv, JobOK, Exists
      <3> QED BY <3>1, <3>3, <3>6, <3>7, WriteGInv
    <2> QED BY <2>1, <2>2
  <1> QED BY <1>1, <1>2, <1>3, <1>4

\* A step that writes the run of a job and leaves the job at a step that relies on
\* nothing, or on the approvals.
LEMMA AdvanceGInv ==
  ASSUME TInv, TInv', GInv, NEW p \in Operator,
         job[p].step \notin {"idle", "no_intake"},
         NEW e \in RunDir, Write(job[p].run, e),
         Keeps(store[job[p].run], e), e.draft = store[job[p].run].draft,
         \A q \in Operator : q # p => job'[q] = job[q],
         job'[p].step = "idle" \/ job'[p].run = job[p].run,
         job'[p].step \notin {"number", "escalate", "materialise", "write_plan",
                             "write_plan_review"},
         job'[p].step \in {"repair", "record", "judge", "publish"} => Approved(e)
  PROVE  GInv' /\ Stands
  <1>1. job[p].run \in RunId /\ Exists(job[p].run)
    BY DEF TInv, Working, GInv, JobOK, Exists
  <1>2. store'[job[p].run] = e
    BY <1>1, WriteType DEF TInv, TypeOK
  <1>3. JobOK(store', job'[p])
    BY <1>2 DEF JobOK, Keeps
  <1> QED BY <1>1, <1>3, WriteGInv DEF Keeps

\* The same without a write.
LEMMA RestGInv ==
  ASSUME TInv, TInv', GInv, NEW p \in Operator, UNCHANGED store,
         job[p].step \notin {"idle", "no_intake"},
         \A q \in Operator : q # p => job'[q] = job[q],
         job'[p].step = "idle" \/ job'[p].run = job[p].run,
         job'[p].step \notin {"number", "escalate", "materialise", "write_plan",
                             "write_plan_review"},
         job'[p].step \in {"repair", "record", "judge", "publish"} =>
           Approved(store[job[p].run])
  PROVE  GInv' /\ Stands
  <1>1. store[job[p].run].attempt > 0
    BY DEF GInv, JobOK
  <1>2. JobOK(store, job'[p])
    BY <1>1 DEF JobOK
  <1> QED BY <1>2, QuietGInv

LEMMA EscalatedKeeps ==
  ASSUME NEW d \in RunDir, Sound(d), NEW n \in Nat, n > 0, NEW pl \in Plan
  PROVE  LET e == [d EXCEPT !.attempt = n, !.plan = pl, !.repair = "escalated",
                            !.verdict = "blocked", !.publishPlan = "issue"]
         IN  Keeps(d, e) /\ e.draft = d.draft
  BY NoPlanAssumption DEF RunDir, Sound, Keeps, PlansPr

LEMMA ClosedKeeps ==
  ASSUME NEW d \in RunDir, Sound(d), d.attempt > 0
  PROVE  LET e == [d EXCEPT !.verdict = "blocked", !.publishPlan = "issue"]
         IN  e \in RunDir /\ Keeps(d, e) /\ e.draft = d.draft
  BY DEF RunDir, Sound, Keeps, PlansPr

LEMMA RetryStepGInv ==
  ASSUME TInv, TInv', GInv, NEW p \in Operator,
         NumberAttempt(p) \/ Escalate(p) \/ Enter(p) \/ ReportBlocked(p)
  PROVE  GInv' /\ Stands
  <1> DEFINE r == job[p].run
             d == store[r]
  <1>0. /\ job[p].step \notin {"idle", "no_intake"}
        /\ r \in RunId /\ job[p] \in Job
        /\ d \in RunDir /\ Sound(d) /\ d.attempt > 0
        /\ JobOK(store, job[p])
    BY DEF TInv, TypeOK, Working, GInv, JobOK, NumberAttempt, Escalate, Enter, ReportBlocked, At
  <1>1. CASE NumberAttempt(p)
    <2> DEFINE e == [d EXCEPT !.attempt = job[p].n]
               step == Entry(d.intake, "review_issue")
    <2>1. Write(r, e) /\ Go(p, step)
      BY <1>1 DEF NumberAttempt
    <2>2. job[p].n \in Nat /\ job[p].n > 0
      BY <1>0, <1>1 DEF NumberAttempt, At, JobOK, Job
    <2>3. e \in RunDir /\ Keeps(d, e) /\ e.draft = d.draft
      <3>1. e \in RunDir  BY <1>0, <2>2 DEF RunDir
      <3>2. Keeps(d, e) /\ e.draft = d.draft
        <4> DEFINE n == job[p].n
        <4>1. n \in Nat /\ n > 0  BY <2>2
        <4> HIDE DEF n, d
        <4> QED BY <1>0, <4>1 DEF RunDir, Sound, Keeps, PlansPr, n
      <3> QED BY <3>1, <3>2
    <2>4. step \in {"review_issue", "report"}
      BY DEF Entry
    <2> HIDE DEF e, step
    <2> QED BY <1>0, <2>1, <2>3, <2>4, GoFields, AdvanceGInv
  <1>2. CASE Escalate(p)
    <2> DEFINE n == job[p].n
               pl == job[p].plan
               e == [d EXCEPT !.attempt = n, !.plan = pl, !.repair = "escalated",
                              !.verdict = "blocked", !.publishPlan = "issue"]
    <2>1. Write(r, e) /\ Go(p, "execute")
      BY <1>2 DEF Escalate
    <2>2. n \in Nat /\ n > 0 /\ pl \in Plan
      BY <1>0, <1>2 DEF Escalate, At, JobOK, Job
    <2>3. e \in RunDir /\ Keeps(d, e) /\ e.draft = d.draft
      <3> HIDE DEF n, pl, d
      <3> QED BY <1>0, <2>2, ClosedType, EscalatedKeeps
    <2> HIDE DEF e
    <2> QED BY <1>0, <2>1, <2>3, GoFields, AdvanceGInv
  <1>3. CASE Enter(p)
    <2>1. CASE d.intake # "blocked" /\ ~CopiesLoad(d, job[p].from)
      <3>1. Stop(p) /\ UNCHANGED store  BY <1>3, <2>1 DEF Enter
      <3> QED BY <1>0, <3>1, StopFields, RestGInv
    <2>2. CASE ~(d.intake # "blocked" /\ ~CopiesLoad(d, job[p].from))
      <3>1. /\ job'[p].step = Entry(d.intake, job[p].from) /\ job'[p].run = r
            /\ \A q \in Operator : q # p => job'[q] = job[q]
            /\ UNCHANGED store
        BY <1>0, <1>3, <2>2 DEF Enter, TInv, TypeOK, Job
      <3>2. job'[p].step \in ResumeStage \union {"report"}
        BY <1>0, <3>1 DEF Entry, Job
      <3>3. job'[p].step = "publish" => Approved(d)
        <4>1. SUFFICES ASSUME job'[p].step = "publish" PROVE Approved(d)
          OBVIOUS
        <4>2. job[p].from = "publish"  BY <3>1, <4>1 DEF Entry
        <4>3. Len(Preserved["publish"]) = 10
          BY DEF Preserved, ResumeStage
        <4>4. job[p].n = 10 /\ Copying(store, job[p])
          BY <1>0, <1>3, <4>2, <4>3 DEF Enter, At, JobOK
        <4> QED BY <4>2, <4>3, <4>4 DEF Copying, Approved
      <3> QED BY <1>0, <3>1, <3>2, <3>3, RestGInv DEF ResumeStage
    <2> QED BY <2>1, <2>2
  <1>4. CASE ReportBlocked(p)
    <2> DEFINE e == [d EXCEPT !.verdict = "blocked", !.publishPlan = "issue"]
    <2>1. Write(r, e) /\ Go(p, "execute")
      BY <1>4 DEF ReportBlocked
    <2>2. e \in RunDir /\ Keeps(d, e) /\ e.draft = d.draft
      <3> HIDE DEF d
      <3> QED BY <1>0, ClosedKeeps
    <2> HIDE DEF e
    <2> QED BY <1>0, <2>1, <2>2, GoFields, AdvanceGInv
  <1> QED BY <1>1, <1>2, <1>3, <1>4

LEMMA ChainStepGInv ==
  ASSUME TInv, TInv', GInv, NEW p \in Operator,
         \/ ChainReviewIssue(p) \/ ChainPlan(p) \/ ChainReviewPlan(p) \/ ChainImplement(p)
  PROVE  GInv' /\ Stands
  <1> DEFINE r == job[p].run
             d == store[r]
             pl == job[p].plan
  <1>0. /\ job[p].step \notin {"idle", "no_intake"}
        /\ r \in RunId /\ job[p] \in Job
        /\ d \in RunDir /\ Sound(d) /\ d.attempt > 0
    BY DEF TInv, TypeOK, Working, GInv, JobOK, ChainReviewIssue, ChainPlan, ChainReviewPlan,
           ChainImplement, At
  <1>1. CASE ChainReviewIssue(p)
    <2> DEFINE e == IssueReviewed(d)
    <2>1. Write(r, e) /\ (Go(p, "plan") \/ Stop(p))
      BY <1>1 DEF ChainReviewIssue
    <2>2. e \in RunDir /\ Keeps(d, e) /\ e.draft = d.draft
      BY <1>0, ReviewedType, ReviewedKeeps
    <2> HIDE DEF e
    <2> QED BY <1>0, <2>1, <2>2, GoFields, StopFields, AdvanceGInv
  <1>2. CASE ChainPlan(p)
    <2>1. CASE pl # NoPlan /\ ~PlanGate(d)
      <3>1. Stop(p) /\ UNCHANGED store  BY <1>2, <2>1 DEF ChainPlan
      <3> QED BY <1>0, <3>1, StopFields, RestGInv
    <2>2. CASE ~(pl # NoPlan /\ ~PlanGate(d))
      <3> DEFINE e == IF pl = NoPlan THEN d ELSE [d EXCEPT !.plan = pl]
      <3>1. Write(r, e) /\ Go(p, "review_plan")  BY <1>2, <2>2 DEF ChainPlan
      <3>2. e \in RunDir /\ Keeps(d, e) /\ e.draft = d.draft
        <4>1. CASE pl = NoPlan
          BY <1>0, <4>1 DEF Keeps
        <4>2. CASE pl # NoPlan
          <5>1. pl \in Plan  BY <1>0, <4>2 DEF Job
          <5>2. [d EXCEPT !.plan = pl] \in RunDir /\ [d EXCEPT !.plan = pl].draft = d.draft
            <6> HIDE DEF d, pl
            <6> QED BY <1>0, <5>1 DEF RunDir
          <5> QED BY <1>0, <4>2, <5>1, <5>2, PlannedKeeps
        <4> QED BY <4>1, <4>2
      <3> HIDE DEF e
      <3> QED BY <1>0, <3>1, <3>2, GoFields, AdvanceGInv
    <2> QED BY <2>1, <2>2
  <1>3. CASE ChainReviewPlan(p)
    <2> DEFINE e == PlanReviewed(d)
    <2>1. Write(r, e) /\ (Go(p, "implement") \/ Stop(p))
      BY <1>3 DEF ChainReviewPlan
    <2>2. e \in RunDir /\ Keeps(d, e) /\ e.draft = d.draft
      BY <1>0, ReviewedType, ReviewedKeeps
    <2> HIDE DEF e
    <2> QED BY <1>0, <2>1, <2>2, GoFields, StopFields, AdvanceGInv
  <1>4. CASE ChainImplement(p)
    <2>1. CASE ImplementGate(d)
      <3>1. Go(p, "repair") /\ UNCHANGED store  BY <1>4, <2>1 DEF ChainImplement
      <3>2. Approved(d)  BY <1>0, <2>1 DEF ImplementGate, Sound, Approved
      <3> QED BY <1>0, <3>1, <3>2, GoFields, RestGInv
    <2>2. CASE ~ImplementGate(d)
      <3>1. Stop(p) /\ UNCHANGED store  BY <1>4, <2>2 DEF ChainImplement
      <3> QED BY <1>0, <3>1, StopFields, RestGInv
    <2> QED BY <2>1, <2>2
  <1> QED BY <1>1, <1>2, <1>3, <1>4

\* Implementing and publishing write nothing the gates rest on.
LEMMA EvidenceKeeps ==
  ASSUME NEW d \in RunDir, NEW e \in RunDir, Sound(d), d.attempt > 0,
         e.attempt = d.attempt, e.intake = d.intake, e.draft = d.draft,
         e.issueReview = d.issueReview, e.plan = d.plan, e.planReview = d.planReview,
         PlansPr(e) => PlansPr(d) \/ d.issueReview = "approved"
  PROVE  Keeps(d, e) /\ (Approved(d) => Approved(e))
  BY DEF Keeps, Sound, Approved

LEMMA ImplementStepGInv ==
  ASSUME TInv, TInv', GInv, NEW p \in Operator, Repair(p) \/ RecordRepair(p) \/ Judge(p)
  PROVE  GInv' /\ Stands
  <1> DEFINE r == job[p].run
             d == store[r]
             o == job[p].outcome
  <1>0. /\ job[p].step \notin {"idle", "no_intake"}
        /\ r \in RunId /\ job[p] \in Job
        /\ d \in RunDir /\ Sound(d) /\ d.attempt > 0 /\ Approved(d)
    BY DEF TInv, TypeOK, Working, GInv, JobOK, Repair, RecordRepair, Judge, At
  <1>1. PICK e \in RunDir :
          /\ Write(r, e)
          /\ e.attempt = d.attempt /\ e.intake = d.intake /\ e.draft = d.draft
          /\ e.issueReview = d.issueReview /\ e.plan = d.plan /\ e.planReview = d.planReview
          /\ PlansPr(e) => PlansPr(d)
    <2> DEFINE e == store'[r]
    <2>1. e \in RunDir  BY <1>0 DEF TInv, TypeOK
    <2>2. CASE Repair(p)
      <3>1. Write(r, d) \/ Write(r, [d EXCEPT !.workspace = "unjudged"])
        BY <2>2 DEF Repair
      <3> QED BY <1>0, <2>1, <3>1 DEF Write, TInv, TypeOK, RunDir, PlansPr
    <2>3. CASE RecordRepair(p)
      <3> DEFINE qa == d.qa \/ o.qa
                 dlog == IF o.repair = "completed" THEN d.dlog \union {d.attempt} ELSE d.dlog
                 c == [d EXCEPT !.repair = o.repair, !.qa = qa, !.dlog = dlog]
      <3>1. Write(r, c)  BY <2>3 DEF RecordRepair
      <3>2. /\ c.attempt = d.attempt /\ c.intake = d.intake /\ c.draft = d.draft
            /\ c.issueReview = d.issueReview /\ c.plan = d.plan
            /\ c.planReview = d.planReview /\ c.publishPlan = d.publishPlan
        <4> HIDE DEF qa, dlog, d
        <4> QED BY <1>0 DEF RunDir
      <3> HIDE DEF c
      <3>3. e = c  BY <1>0, <3>1 DEF Write, TInv, TypeOK
      <3> QED BY <2>1, <3>1, <3>2, <3>3 DEF PlansPr
    <2>4. CASE Judge(p)
      <3> DEFINE v == IF Approves(d, o) THEN "approved" ELSE "blocked"
                 w == IF d.workspace \in {"none", "partial"} THEN d.workspace
                      ELSE IF o.repair = "none" THEN "unjudged" ELSE "judged"
                 c == [d EXCEPT !.verdict = v, !.workspace = w]
      <3>1. Write(r, c)  BY <2>4 DEF Judge
      <3>2. /\ c.attempt = d.attempt /\ c.intake = d.intake /\ c.draft = d.draft
            /\ c.issueReview = d.issueReview /\ c.plan = d.plan
            /\ c.planReview = d.planReview /\ c.publishPlan = d.publishPlan
        <4> HIDE DEF v, w, d
        <4> QED BY <1>0 DEF RunDir
      <3> HIDE DEF c
      <3>3. e = c  BY <1>0, <3>1 DEF Write, TInv, TypeOK
      <3> QED BY <2>1, <3>1, <3>2, <3>3 DEF PlansPr
    <2> QED BY <2>2, <2>3, <2>4
  <1>2. Keeps(d, e) /\ Approved(e)
    BY <1>0, <1>1, EvidenceKeeps
  <1>3. /\ \A q \in Operator : q # p => job'[q] = job[q]
        /\ job'[p].step = "idle" \/ job'[p].run = r
        /\ job'[p].step \in {"idle", "record", "judge", "publish"}
    <2>1. CASE Repair(p)
      BY <2>1 DEF Repair, TInv, TypeOK, Job
    <2>2. CASE RecordRepair(p) \/ Judge(p)
      <3>1. Go(p, "judge") \/ Go(p, "publish") \/ Stop(p)
        BY <2>2 DEF RecordRepair, Judge
      <3> QED BY <3>1, GoFields, StopFields
    <2> QED BY <2>1, <2>2
  <1> HIDE DEF d
  <1> QED BY <1>0, <1>1, <1>2, <1>3, AdvanceGInv DEF d

LEMMA PublishStepGInv ==
  ASSUME TInv, TInv', GInv, NEW p \in Operator,
         \/ ChainPublish(p) \/ Execute(p) \/ RecordResult(p) \/ ChainReviewImpl(p) \/ Crash(p)
  PROVE  GInv' /\ Stands
  <1> DEFINE r == job[p].run
             d == store[r]
  <1>1. CASE ChainPublish(p)
    <2>0. /\ job[p].step \notin {"idle", "no_intake"} /\ r \in RunId
          /\ d \in RunDir /\ Sound(d) /\ d.attempt > 0 /\ Approved(d)
      BY <1>1 DEF TInv, TypeOK, Working, GInv, JobOK, ChainPublish, At
    <2> DEFINE plan == IF d.intake = "rejected" THEN "update_pr" ELSE "draft_pr"
               c == [d EXCEPT !.publishPlan = plan]
               b == [d EXCEPT !.verdict = "blocked"]
    <2>1. (Write(r, c) /\ Go(p, "execute")) \/ (Write(r, b) /\ Stop(p))
      BY <1>1 DEF ChainPublish
    <2>2. /\ c \in RunDir /\ b \in RunDir
          /\ Keeps(d, c) /\ c.draft = d.draft
          /\ Keeps(d, b) /\ b.draft = d.draft
      <3>1. plan \in {"draft_pr", "update_pr"}  OBVIOUS
      <3> HIDE DEF d, plan
      <3> QED BY <2>0, <3>1 DEF RunDir, Keeps, Sound, Approved, PlansPr
    <2> HIDE DEF c, b
    <2> QED BY <2>0, <2>1, <2>2, GoFields, StopFields, AdvanceGInv
  <1>2. CASE Execute(p)
    <2>1. job[p].step \notin {"idle", "no_intake"} /\ UNCHANGED store
            /\ (Go(p, "result") \/ Stop(p))
      BY <1>2 DEF Execute, At
    <2> QED BY <2>1, GoFields, StopFields, RestGInv
  <1>3. CASE RecordResult(p)
    <2>0. /\ job[p].step \notin {"idle", "no_intake"} /\ r \in RunId
          /\ d \in RunDir /\ Sound(d) /\ d.attempt > 0
      BY <1>3 DEF TInv, TypeOK, Working, GInv, JobOK, RecordResult, At
    <2> DEFINE v == IF job[p].publish THEN "published" ELSE "dry_run"
               c == [d EXCEPT !.publishResult = v]
    <2>1. Write(r, c) /\ (Go(p, "review_impl") \/ Stop(p))
      BY <1>3 DEF RecordResult
    <2>2. c \in RunDir /\ Keeps(d, c) /\ c.draft = d.draft
      <3>1. v \in {"published", "dry_run"}  OBVIOUS
      <3> HIDE DEF d, v
      <3> QED BY <2>0, <3>1 DEF RunDir, Keeps, Sound, PlansPr
    <2> HIDE DEF c
    <2> QED BY <2>0, <2>1, <2>2, GoFields, StopFields, AdvanceGInv
  <1>4. CASE ChainReviewImpl(p) \/ Crash(p)
    <2>1. UNCHANGED store /\ Stop(p)
      BY <1>4 DEF ChainReviewImpl, Crash
    <2> QED BY <2>1, StopFields, QuietGInv, IdleJobOK
  <1> QED BY <1>1, <1>2, <1>3, <1>4

-----------------------------------------------------------------------------
(* Copying.                                                                *)

\* One artifact copied: the fields it may and may not change.
LEMMA CopyFields ==
  ASSUME NEW d \in RunDir, NEW s \in RunDir, NEW a \in Artifact
  PROVE  LET e == CopyArtifact(d, s, a)
         IN  /\ e \in RunDir
             /\ e.attempt = d.attempt /\ e.intake = d.intake
             /\ e.draft = IF a = "draft" THEN s.draft ELSE d.draft
             /\ e.issueReview = IF a = "issueReview" THEN s.issueReview ELSE d.issueReview
             /\ e.plan = IF a = "plan" THEN s.plan ELSE d.plan
             /\ e.planReview = IF a = "planReview" THEN s.planReview ELSE d.planReview
             /\ e.publishPlan = IF a = "publishPlan" THEN s.publishPlan ELSE d.publishPlan
  <1>1. CopyArtifact(d, s, a) \in RunDir
    BY CopyType
  <1>2. CASE a = "dlog"
    BY <1>1, <1>2 DEF CopyArtifact, RunDir
  <1>3. CASE a \in {"tree", "workspace"}
    <2>1. PICK w : CopyArtifact(d, s, a) = [d EXCEPT !.workspace = w]
      BY <1>3, TreeCopied DEF CopyArtifact
    <2> QED BY <1>1, <1>3, <2>1 DEF RunDir
  <1>4. CASE a \notin {"dlog", "tree", "workspace"}
    BY <1>1, <1>4 DEF CopyArtifact, RunDir, Artifact
  <1> QED BY <1>2, <1>3, <1>4

LEMMA CopyVerdict ==
  ASSUME NEW d \in RunDir, NEW s \in RunDir, NEW a \in Artifact, a # "verdict"
  PROVE  CopyArtifact(d, s, a).verdict = d.verdict
  <1>1. CASE a \in {"tree", "workspace"}
    <2>1. PICK w : CopyArtifact(d, s, a) = [d EXCEPT !.workspace = w]
      BY <1>1, TreeCopied DEF CopyArtifact
    <2> QED BY <2>1 DEF RunDir
  <1>2. CASE a \notin {"tree", "workspace"}
    BY <1>2 DEF CopyArtifact, RunDir, Artifact
  <1> QED BY <1>1, <1>2

Copies(p) ==
  ~InTheWay(store[job[p].run], store[job[p].src], Preserved[job[p].from][job[p].n + 1])

LEMMA CopyGInv ==
  ASSUME TInv, TInv', GInv, NEW p \in Operator, Materialise(p), Copies(p)
  PROVE  GInv' /\ Stands
  <1> DEFINE j == job[p]
             d == store[j.run]
             s == store[j.src]
             a == Preserved[j.from][j.n + 1]
             e == CopyArtifact(d, s, a)
  <1>1. /\ j \in Job /\ j.step = "materialise" /\ j.run \in RunId /\ j.src \in RunId
        /\ d \in RunDir /\ s \in RunDir /\ Sound(d) /\ Sound(s)
        /\ d.attempt > 0 /\ Copying(store, j)
    BY DEF TInv, TypeOK, Working, GInv, JobOK, Materialise, At
  <1>2. /\ j.n \in Nat /\ j.from \in ResumeStage /\ j.n < Len(Preserved[j.from])
        /\ Write(j.run, e)
        /\ \A q \in Operator : q # p => job'[q] = job[q]
        /\ job'[p] = [j EXCEPT !.n = j.n + 1]
    BY <1>1 DEF Materialise, Copies, TInv, TypeOK, Job
  <1>3. /\ a \in Artifact
        /\ a = "draft" => j.n = 0
        /\ j.n = 0 => a = "draft"
        /\ j.n = 1 => a = "issueReview"
        /\ j.n = 2 => a = "plan"
        /\ j.n = 3 => a = "planReview"
        /\ j.n > 3 => a \notin {"draft", "issueReview", "plan", "planReview"}
        /\ j.n >= 1 => j.from # "review_issue"
    <2>1. j.n + 1 \in 1..Len(Preserved[j.from])
      BY <1>2, PreservedOrder
    <2>2. j.n >= 1 => j.from # "review_issue"
      <3>1. Len(Preserved["review_issue"]) = 1
        BY DEF Preserved, ResumeStage
      <3> QED BY <1>2, <3>1
    <2> QED BY <1>2, <2>1, <2>2, PreservedOrder
  <1>4. /\ e \in RunDir
        /\ e.attempt = d.attempt /\ e.intake = d.intake
        /\ e.draft = IF a = "draft" THEN s.draft ELSE d.draft
        /\ e.issueReview = IF a = "issueReview" THEN s.issueReview ELSE d.issueReview
        /\ e.plan = IF a = "plan" THEN s.plan ELSE d.plan
        /\ e.planReview = IF a = "planReview" THEN s.planReview ELSE d.planReview
        /\ e.publishPlan = IF a = "publishPlan" THEN s.publishPlan ELSE d.publishPlan
    <2>1. d \in RunDir /\ s \in RunDir /\ a \in Artifact  BY <1>1, <1>3
    <2> HIDE DEF d, s, a
    <2> QED BY <2>1, CopyFields
  <1> HIDE DEF e, a
  <1>5. store'[j.run] = e /\ store'[j.src] = s /\ j.src # j.run
    BY <1>1, <1>2, <1>4, WriteType DEF TInv, TypeOK, Copying
  <1>6. /\ s.attempt > 0 /\ d.intake = s.intake
        /\ j.n = 0 => ~d.draft
        /\ j.n >= 1 => s.issueReview = "approved" /\ d.draft
        /\ j.n >= 2 => d.issueReview = "approved"
        /\ j.n >= 2 => s.plan # NoPlan
        /\ j.n >= 3 => d.plan # NoPlan
    BY <1>1, <1>2, <1>3 DEF Copying
  <1>7. Keeps(d, e)
    <2>1. CASE j.n = 0
      <3>1. a = "draft"  BY <1>3, <2>1
      <3>2. d.issueReview # "approved"  BY <1>1, <1>6, <2>1 DEF Sound
      <3> QED BY <1>1, <1>4, <1>6, <2>1, <3>1, <3>2 DEF Keeps, Sound, PlansPr
    <2>2. CASE j.n = 1
      <3>1. a = "issueReview"  BY <1>3, <2>2
      <3> QED BY <1>1, <1>4, <1>6, <2>2, <3>1 DEF Keeps, Sound, PlansPr
    <2>3. CASE j.n = 2
      <3>1. a = "plan"  BY <1>3, <2>3
      <3> QED BY <1>1, <1>4, <1>6, <2>3, <3>1 DEF Keeps, Sound, PlansPr
    <2>4. CASE j.n >= 3
      <3>1. a \notin {"draft", "issueReview", "plan"}
        <4>1. j.n = 3 \/ j.n > 3  BY <1>2, <2>4
        <4> HIDE DEF j
        <4> QED BY <1>3, <4>1
      <3>2. /\ e.draft = d.draft /\ e.issueReview = d.issueReview /\ e.plan = d.plan
            /\ d.issueReview = "approved" /\ d.plan # NoPlan
        BY <1>2, <1>4, <1>6, <2>4, <3>1
      <3> HIDE DEF d, s, j
      <3> QED BY <1>1, <1>4, <3>2 DEF Keeps, Sound, PlansPr
    <2> QED BY <1>2, <2>1, <2>2, <2>3, <2>4
  <1>8. Copying(store', job'[p])
    <2>1. job'[p].run = j.run /\ job'[p].src = j.src /\ job'[p].from = j.from
            /\ job'[p].n = j.n + 1
      BY <1>1, <1>2 DEF Job
    <2>2. j.from # "review_issue" => s.issueReview = "approved" /\ s.draft
      BY <1>1 DEF Copying, Sound
    <2>3. /\ j.from # "review_issue" => e.draft
          /\ j.from # "review_issue" /\ j.n >= 1 => e.issueReview = "approved"
          /\ j.n >= 2 => e.plan # NoPlan
      BY <1>2, <1>3, <1>4, <1>6, <2>2
    <2> QED BY <1>1, <1>2, <1>4, <1>5, <1>6, <2>1, <2>2, <2>3 DEF Copying
  <1>9. JobOK(store', job'[p])
    BY <1>1, <1>2, <1>4, <1>5, <1>8 DEF JobOK, Job
  \* Another copying process has another target, whose draft this write leaves alone.
  <1>10. ASSUME NEW q \in Operator, q # p PROVE JobOK(store', job'[q])
    <2>1. job'[q] = job[q] /\ JobOK(store, job[q]) /\ job[q] \in Job
      BY <1>2, <1>10 DEF GInv, TInv, TypeOK
    <2>2. /\ job[q].step \notin {"idle", "no_intake"} => job[q].run \in RunId
          /\ job[q].step = "materialise" => job[q].src \in RunId
      BY DEF TInv, Working
    <2>3. \A x \in RunId : store[x].attempt > 0 => Keeps(store[x], store'[x])
      BY <1>1, <1>2, <1>4, <1>7, WriteType DEF TInv, TypeOK, GInv, Keeps
    <2>4. job[q].step = "materialise" => store'[job[q].run].draft = store[job[q].run].draft
      <3>1. job[q].step = "materialise" => job[q].run # j.run
        BY <1>1, <1>10 DEF GInv, Apart, At
      <3> QED BY <1>1, <1>2, <1>4, <2>2, <3>1, WriteType DEF TInv, TypeOK
    <2> QED BY <2>1, <2>2, <2>3, <2>4, JobKept DEF TInv, TypeOK
  <1>11. \A x \in RunId : Sound(store'[x])
    BY <1>1, <1>2, <1>4, <1>7, WriteType DEF TInv, TypeOK, GInv, Keeps
  <1>12. Apart'
    <2>1. job'[p].run = j.run  BY <1>1, <1>2 DEF Job
    <2> QED BY <1>1, <1>2, <2>1 DEF GInv, Apart, At
  <1>13. Stands
    BY <1>1, <1>2, <1>4, <1>7, WriteType DEF TInv, TypeOK, Keeps, Stands
  <1> QED BY <1>9, <1>10, <1>11, <1>12, <1>13 DEF GInv

LEMMA MaterialiseGInv ==
  ASSUME TInv, TInv', GInv, NEW p \in Operator, Materialise(p)
  PROVE  GInv' /\ Stands
  <1>1. CASE Copies(p)
    BY <1>1, CopyGInv
  <1>2. CASE ~Copies(p)
    <2>1. UNCHANGED store /\ Stop(p)
      BY <1>2 DEF Materialise, Copies
    <2> QED BY <2>1, StopFields, QuietGInv, IdleJobOK
  <1> QED BY <1>1, <1>2

-----------------------------------------------------------------------------
(* What one step does to the gates of a run, whoever takes it.             *)

Works == {"repair", "record", "judge"}

LEMMA ClearedGate ==
  ASSUME NEW d
  PROVE  /\ "issue" \in Cleared(d) <=> d.issueReview = "approved"
         /\ "plan" \in Cleared(d) <=> d.planReview.verdict = "approved"
         /\ "verdict" \in Cleared(d) <=> d.verdict = "approved"
         /\ "publish" \in Cleared(d) <=> PlansPr(d)
         /\ Cleared(d) \subseteq {"issue", "plan", "verdict", "publish"}
  BY DEF Cleared

\* Run r alone is written; one of its planning reviews at most changes its verdict, and
\* an approval of its implementation comes to a reviewed issue only.
Shape(r) ==
  /\ \A x \in RunId : x # r => store'[x] = store[x]
  /\ \/ store'[r].issueReview = "approved" <=> store[r].issueReview = "approved"
     \/ store'[r].planReview.verdict = "approved" <=> store[r].planReview.verdict = "approved"
  /\ store'[r].verdict = "approved" =>
       store[r].verdict = "approved" \/ store'[r].issueReview = "approved"

\* Process p goes on building, or not building, what it was.
Calm(p) ==
  /\ \A q \in Operator : q # p => job'[q] = job[q]
  /\ \/ job[p].step \notin Works /\ job'[p].step \notin Works
     \/ job[p].step \in Works /\ job'[p].step \in Works /\ job'[p].run = job[p].run

LEMMA CalmBuilding ==
  ASSUME NEW p \in Operator, Calm(p)
  PROVE  Building' = Building
  <1>1. ASSUME NEW q \in Operator
        PROVE  /\ job'[q].step \in Works <=> job[q].step \in Works
               /\ job[q].step \in Works => job'[q].run = job[q].run
    BY DEF Calm
  <1> QED BY <1>1 DEF Building, Works

LEMMA BeginsBuilding ==
  ASSUME NEW p \in Operator, \A q \in Operator : q # p => job'[q] = job[q],
         job[p].step \notin Works, job'[p].step \in Works, NEW r \in RunId, job'[p].run = r
  PROVE  Building' = Building \union {r}
  <1>1. \A x \in RunId : x \in Building' <=> x \in Building \/ x = r
    BY DEF Building, Works
  <1> QED BY <1>1 DEF Building

LEMMA EndsBuilding ==
  ASSUME NEW p \in Operator, \A q \in Operator : q # p => job'[q] = job[q],
         job[p].step \in Works, job'[p].step \notin Works, NEW r \in RunId, job[p].run = r
  PROVE  r \in Building /\ Building' \in {Building, Building \ {r}}
  <1>1. \A x \in RunId : x # r => (x \in Building' <=> x \in Building)
    BY DEF Building, Works
  <1>2. r \in Building
    BY DEF Building, Works
  <1> QED BY <1>1, <1>2 DEF Building

OneGate == UNCHANGED store \/ \E r \in RunId : Shape(r)

\* Process p begins to build a run, whose plan stands approved.
Begins(p) ==
  /\ \A q \in Operator : q # p => job'[q] = job[q]
  /\ job[p].step \notin Works /\ job'[p].step \in Works
  /\ job'[p].run \in RunId /\ store[job'[p].run].planReview.verdict = "approved"
  /\ UNCHANGED store

\* Process p stops building, which leaves the reviews alone.
Ends(p) ==
  /\ \A q \in Operator : q # p => job'[q] = job[q]
  /\ job[p].step \in Works /\ job'[p].step \notin Works
  /\ \A r \in RunId : /\ store'[r].issueReview = store[r].issueReview
                      /\ store'[r].planReview = store[r].planReview

Moves(p) == Calm(p) \/ Begins(p) \/ Ends(p)

LEMMA WriteShape ==
  ASSUME TInv, NEW r \in RunId, NEW e \in RunDir, Write(r, e),
         \/ e.issueReview = store[r].issueReview
         \/ e.planReview = store[r].planReview,
         e.verdict \in {"none", "blocked", store[r].verdict} \/ e.issueReview = "approved"
  PROVE  OneGate
  <1>1. store'[r] = e /\ \A x \in RunId : x # r => store'[x] = store[x]
    BY WriteType DEF TInv, TypeOK
  <1> QED BY <1>1 DEF OneGate, Shape

LEMMA NewRunShape ==
  ASSUME TInv, GInv, NEW r \in RunId, NEW e \in RunDir, ~Exists(r), Write(r, e),
         e.issueReview = "none", e.verdict = "none"
  PROVE  OneGate
  <1>1. store'[r] = e /\ \A x \in RunId : x # r => store'[x] = store[x]
    BY WriteType DEF TInv, TypeOK
  <1>2. store[r].issueReview # "approved"
    BY DEF GInv, Sound, Exists
  <1> QED BY <1>1, <1>2 DEF OneGate, Shape

LEMMA StageCommandMoves ==
  ASSUME TInv, GInv, NEW p \in Operator, StageCommand(p)
  PROVE  OneGate /\ Moves(p)
  <1>0. /\ job \in [Operator -> Job] /\ \A r \in RunId : store[r] \in RunDir
        /\ job[p].step \notin Works
        /\ UNCHANGED job => Moves(p)
    BY DEF TInv, TypeOK, StageCommand, CreateIssue, ReviewIssue, PlanRun, ReviewPlan,
           ImplementRun, PublishRun, Issue, At, Works, Moves, Calm
  <1>1. CASE CreateIssue(p)
    <2>1. PICK r \in RunId, i \in Intakes : ~Exists(r) /\ Write(r, NewDir(i))
      BY <1>1 DEF CreateIssue
    <2>2. /\ NewDir(i) \in RunDir
          /\ NewDir(i).issueReview = "none" /\ NewDir(i).verdict = "none"
      BY NewDirType DEF NewDir, EmptyDir
    <2> QED BY <1>0, <1>1, <2>1, <2>2, NewRunShape DEF CreateIssue
  <1>2. ASSUME NEW r \in RunId, NEW pl \in Plan, PlanRun(p, r, pl)
        PROVE  OneGate /\ Moves(p)
    <2>1. /\ UNCHANGED store
          /\ job'[p].step = "write_plan"
          /\ \A q \in Operator : q # p => job'[q] = job[q]
      BY <1>0, <1>2, IdleType DEF PlanRun, Begin, Job
    <2>2. Calm(p)
      BY <1>0, <2>1 DEF Calm, Works
    <2> QED BY <2>1, <2>2 DEF OneGate, Moves
  <1>3. ASSUME NEW r \in RunId, ReviewIssue(p, r) \/ ReviewPlan(p, r)
        PROVE  OneGate /\ Moves(p)
    <2>1. /\ UNCHANGED store
          /\ job'[p].step \in {"write_issue_review", "write_plan_review"}
          /\ \A q \in Operator : q # p => job'[q] = job[q]
      BY <1>0, <1>3, IdleType DEF ReviewIssue, ReviewPlan, Begin, Job
    <2>2. Calm(p)
      BY <1>0, <2>1 DEF Calm, Works
    <2> QED BY <2>1, <2>2 DEF OneGate, Moves
  <1>4. ASSUME NEW r \in RunId, ImplementRun(p, r) PROVE OneGate /\ Moves(p)
    <2>1. /\ job'[p].step = "repair" /\ job'[p].run = r /\ UNCHANGED store
          /\ \A q \in Operator : q # p => job'[q] = job[q]
          /\ store[r].planReview.verdict = "approved"
      BY <1>0, <1>4, IdleType DEF ImplementRun, ImplementGate, Begin, Job
    <2>2. Begins(p)
      BY <1>0, <2>1 DEF Begins, Works
    <2> QED BY <2>1, <2>2 DEF OneGate, Moves
  <1>5. ASSUME NEW r \in RunId, PublishRun(p, r) PROVE OneGate /\ Moves(p)
    <2>1. /\ job'[p].step = "execute" /\ UNCHANGED store
          /\ \A q \in Operator : q # p => job'[q] = job[q]
      BY <1>0, <1>5, IdleType DEF PublishRun, Begin, Job
    <2>2. Calm(p)
      BY <1>0, <2>1 DEF Calm, Works
    <2> QED BY <2>1, <2>2 DEF OneGate, Moves
  <1> QED BY <1>1, <1>2, <1>3, <1>4, <1>5 DEF StageCommand

LEMMA StageWriteMoves ==
  ASSUME TInv, GInv, NEW p \in Operator,
         WriteIssueReview(p) \/ WritePlan(p) \/ WritePlanReview(p)
  PROVE  OneGate /\ Moves(p)
  <1>1. PICK r, d, v, pl :
          r = job[p].run /\ d = store[r] /\ v = job[p].found /\ pl = job[p].plan
    OBVIOUS
  <1>2. /\ r \in RunId /\ d \in RunDir /\ v \in Review /\ pl \in Plan \union {NoPlan}
        /\ job[p].step \notin Works
    BY <1>1 DEF TInv, TypeOK, Working, Job, WriteIssueReview, WritePlan, WritePlanReview, At,
                Works
  <1>3. Stop(p)
    BY DEF WriteIssueReview, WritePlan, WritePlanReview
  <1>4. Moves(p)
    BY <1>2, <1>3, StopFields DEF Moves, Calm, Works
  <1>5. PICK e :
          /\ e \in {[d EXCEPT !.issueReview = v], [d EXCEPT !.plan = pl],
                    [d EXCEPT !.planReview = [verdict |-> v, of |-> pl]]}
          /\ Write(r, e)
    BY <1>1 DEF WriteIssueReview, WritePlan, WritePlanReview
  <1>6. /\ e \in RunDir /\ e.verdict = d.verdict
        /\ e.issueReview = d.issueReview \/ e.planReview = d.planReview
    BY <1>2, <1>5 DEF RunDir, PlanReview
  <1> QED BY <1>1, <1>2, <1>4, <1>5, <1>6, WriteShape

LEMMA RepairIssueMoves ==
  ASSUME TInv, GInv, NEW p \in Operator, RepairIssue(p)
  PROVE  OneGate /\ Moves(p)
  <1>0. /\ store \in [RunId -> RunDir] /\ job \in [Operator -> Job]
        /\ \A s \in RunId : store[s] \in RunDir
        /\ \A i \in Intakes : /\ NewDir(i) \in RunDir /\ NewDir(i).issueReview = "none"
                              /\ NewDir(i).verdict = "none"
    BY NewDirType DEF TInv, TypeOK, NewDir, EmptyDir
  <1>1. PICK pl \in Plan \union {NoPlan}, publish \in BOOLEAN, r \in RunId :
          \/ \E i \in Intakes : Fresh(p, r, i, pl, publish)
          \/ \E src \in RunId, i \in Intakes : Retry(p, src, r, i, pl, publish)
          \/ \E src \in RunId, stage \in ResumeStage : Resume(p, src, r, stage, pl, publish)
    BY DEF RepairIssue
  <1>2. /\ job[p].step \notin Works
        /\ \A q \in Operator : q # p => job'[q] = job[q]
    <2>1. Issue(p, "repair_issue") /\ \E j : Begin(p, j)
      BY <1>1 DEF Fresh, Retry, Resume
    <2> QED BY <1>0, <2>1 DEF Issue, At, Works, Begin
  <1>3. ASSUME job'[p].step \in {"review_issue", "report", "number", "escalate", "no_intake",
                                 "materialise"}
        PROVE  Moves(p)
    BY <1>2, <1>3 DEF Moves, Calm, Works
  <1>4. ASSUME NEW i \in Intakes, Fresh(p, r, i, pl, publish) PROVE OneGate /\ Moves(p)
    <2>1. /\ ~Exists(r) /\ Write(r, NewDir(i))
          /\ job'[p].step = Entry(i, "review_issue")
      BY <1>0, <1>4, IdleType DEF Fresh, Begin, Job
    <2> QED BY <1>0, <1>3, <2>1, NewRunShape DEF Entry
  <1>5. ASSUME NEW src \in RunId, NEW i \in Intakes, Retry(p, src, r, i, pl, publish)
        PROVE  OneGate /\ Moves(p)
    <2>1. /\ ~Exists(r) /\ Write(r, NewDir(i)) /\ job'[p].step \in {"number", "escalate"}
      BY <1>0, <1>5, IdleType DEF Retry, Begin, Job
    <2> QED BY <1>0, <1>3, <2>1, NewRunShape
  <1>6. ASSUME NEW src \in RunId, NEW stage \in ResumeStage,
               Resume(p, src, r, stage, pl, publish)
        PROVE  OneGate /\ Moves(p)
    <2>1. CASE Exhausted(store[src].attempt + 1)
      <3>1. job'[p].step = "no_intake" /\ UNCHANGED store
        BY <1>0, <1>6, <2>1, IdleType DEF Resume, Begin, Job
      <3> QED BY <1>3, <3>1 DEF OneGate
    <2>2. CASE ~Exhausted(store[src].attempt + 1)
      <3>1. PICK n, i, plan :
              /\ n = store[src].attempt + 1 /\ i = store[src].intake
              /\ ~Exists(r) /\ Write(r, [EmptyDir EXCEPT !.attempt = n, !.intake = i])
              /\ Begin(p, [Idle EXCEPT !.step = "materialise", !.run = r, !.src = src,
                                       !.from = stage, !.plan = plan,
                                       !.publish = publish, !.chain = TRUE])
        BY <1>6, <2>2 DEF Resume
      <3>2. job'[p].step = "materialise"
        BY <1>0, <3>1 DEF Begin, Idle
      <3>3. n \in Nat /\ i \in Intake
        BY <1>0, <3>1 DEF RunDir
      <3>4. PICK e : e = [EmptyDir EXCEPT !.attempt = n, !.intake = i]
        OBVIOUS
      <3>5. e \in RunDir
        BY <3>3, <3>4, ResumedType
      <3>6. e.issueReview = "none" /\ e.verdict = "none"
        BY <3>4 DEF EmptyDir
      <3> QED BY <1>3, <3>1, <3>2, <3>4, <3>5, <3>6, NewRunShape
    <2> QED BY <2>1, <2>2
  <1> QED BY <1>1, <1>4, <1>5, <1>6

LEMMA GoMoves ==
  ASSUME TInv, NEW p \in Operator, NEW step, Go(p, step) \/ Stop(p),
         job[p].step \notin Works, step \notin Works
  PROVE  Moves(p)
  BY GoFields, StopFields DEF Moves, Calm, Works

LEMMA RetryStepMoves ==
  ASSUME TInv, GInv, NEW p \in Operator,
         NumberAttempt(p) \/ Escalate(p) \/ Enter(p) \/ ReportBlocked(p)
  PROVE  OneGate /\ Moves(p)
  <1>1. PICK r, d, n, pl : r = job[p].run /\ d = store[r] /\ n = job[p].n /\ pl = job[p].plan
    OBVIOUS
  <1>2. /\ job[p] \in Job /\ r \in RunId /\ d \in RunDir /\ job[p].step \notin Works
        /\ n \in Nat /\ pl \in Plan \union {NoPlan}
    BY <1>1 DEF TInv, TypeOK, Working, NumberAttempt, Escalate, Enter, ReportBlocked, At, Works, Job
  <1>3. CASE NumberAttempt(p)
    <2>1. PICK e : e = [d EXCEPT !.attempt = n]
      OBVIOUS
    <2>2. e \in RunDir /\ e.issueReview = d.issueReview /\ e.verdict = d.verdict
      BY <1>2, <2>1 DEF RunDir
    <2>3. /\ Write(r, e) /\ Go(p, Entry(d.intake, "review_issue"))
          /\ Entry(d.intake, "review_issue") \notin Works
      BY <1>1, <1>3, <2>1 DEF NumberAttempt, Entry, Works
    <2> QED BY <1>1, <1>2, <2>2, <2>3, WriteShape, GoMoves
  <1>4. CASE Escalate(p)
    <2>1. PICK e : e = [d EXCEPT !.attempt = n, !.plan = pl, !.repair = "escalated",
                                 !.verdict = "blocked", !.publishPlan = "issue"]
      OBVIOUS
    <2>2. e \in RunDir /\ e.issueReview = d.issueReview /\ e.verdict = "blocked"
      <3>1. e \in RunDir
        BY <1>2, <2>1, ClosedType
      <3> QED BY <1>2, <2>1, <3>1 DEF RunDir
    <2>3. Write(r, e) /\ Go(p, "execute") /\ "execute" \notin Works
      BY <1>1, <1>4, <2>1 DEF Escalate, Works
    <2> QED BY <1>1, <1>2, <2>2, <2>3, WriteShape, GoMoves
  <1>5. CASE ReportBlocked(p)
    <2>1. PICK e : e = [d EXCEPT !.verdict = "blocked", !.publishPlan = "issue"]
      OBVIOUS
    <2>2. e \in RunDir /\ e.issueReview = d.issueReview /\ e.verdict = "blocked"
      BY <1>2, <2>1 DEF RunDir
    <2>3. Write(r, e) /\ Go(p, "execute") /\ "execute" \notin Works
      BY <1>1, <1>5, <2>1 DEF ReportBlocked, Works
    <2> QED BY <1>1, <1>2, <2>2, <2>3, WriteShape, GoMoves
  <1>6. CASE Enter(p)
    <2>1. UNCHANGED store
      BY <1>6 DEF Enter
    <2>2. Moves(p)
      <3>1. CASE Stop(p)
        BY <1>2, <3>1, StopFields DEF Moves, Calm, Works
      <3>2. CASE ~Stop(p)
        <4>1. /\ job'[p].step = Entry(d.intake, job[p].from) /\ job[p].from \in ResumeStage
              /\ \A q \in Operator : q # p => job'[q] = job[q]
          BY <1>1, <1>2, <1>6, <3>2 DEF Enter, TInv, TypeOK, Job
        <4>2. job'[p].step \notin Works
          BY <4>1 DEF Entry, ResumeStage, Works
        <4> QED BY <1>2, <4>1, <4>2 DEF Moves, Calm
      <3> QED BY <3>1, <3>2
    <2> QED BY <2>1, <2>2 DEF OneGate
  <1> QED BY <1>3, <1>4, <1>5, <1>6

LEMMA ChainStepMoves ==
  ASSUME TInv, GInv, NEW p \in Operator,
         \/ ChainReviewIssue(p) \/ ChainPlan(p) \/ ChainReviewPlan(p) \/ ChainImplement(p)
  PROVE  OneGate /\ Moves(p)
  <1>1. PICK r, d, pl : r = job[p].run /\ d = store[r] /\ pl = job[p].plan
    OBVIOUS
  <1>2. /\ job[p] \in Job /\ r \in RunId /\ d \in RunDir /\ job[p].step \notin Works
        /\ pl \in Plan \union {NoPlan}
    BY <1>1 DEF TInv, TypeOK, Working, ChainReviewIssue, ChainPlan, ChainReviewPlan,
           ChainImplement, At, Works, Job
  <1>3. CASE ChainReviewIssue(p)
    <2>1. PICK e : e = IssueReviewed(d)
      OBVIOUS
    <2>2. e \in RunDir /\ e.planReview = d.planReview /\ e.verdict = d.verdict
      BY <1>2, <2>1, ReviewedType DEF IssueReviewed, RunDir
    <2>3. Write(r, e) /\ (Go(p, "plan") \/ Stop(p)) /\ "plan" \notin Works
      BY <1>1, <1>3, <2>1 DEF ChainReviewIssue, Works
    <2> QED BY <1>1, <1>2, <2>2, <2>3, WriteShape, GoMoves
  <1>4. CASE ChainReviewPlan(p)
    <2>1. PICK e : e = PlanReviewed(d)
      OBVIOUS
    <2>2. e \in RunDir /\ e.issueReview = d.issueReview /\ e.verdict = d.verdict
      BY <1>2, <2>1, ReviewedType DEF PlanReviewed, RunDir
    <2>3. Write(r, e) /\ (Go(p, "implement") \/ Stop(p)) /\ "implement" \notin Works
      BY <1>1, <1>4, <2>1 DEF ChainReviewPlan, Works
    <2> QED BY <1>1, <1>2, <2>2, <2>3, WriteShape, GoMoves
  <1>5. CASE ChainPlan(p)
    <2>1. (Go(p, "review_plan") \/ Stop(p)) /\ "review_plan" \notin Works
      BY <1>5 DEF ChainPlan, Works
    <2>2. CASE UNCHANGED store
      BY <1>1, <1>2, <2>1, <2>2, GoMoves DEF OneGate
    <2>3. CASE ~UNCHANGED store
      <3>1. PICK e : Write(r, e) /\ e = IF pl = NoPlan THEN d ELSE [d EXCEPT !.plan = pl]
        BY <1>1, <1>5, <2>3 DEF ChainPlan
      <3>2. e \in RunDir /\ e.issueReview = d.issueReview /\ e.verdict = d.verdict
        BY <1>2, <3>1 DEF RunDir
      <3> QED BY <1>1, <1>2, <2>1, <3>1, <3>2, WriteShape, GoMoves
    <2> QED BY <2>2, <2>3
  <1>6. CASE ChainImplement(p)
    <2>1. UNCHANGED store
      BY <1>6 DEF ChainImplement
    <2>2. CASE ImplementGate(d)
      <3>1. Go(p, "repair") /\ d.planReview.verdict = "approved"
        BY <1>1, <1>6, <2>2 DEF ChainImplement, ImplementGate
      <3>2. Begins(p)
        BY <1>1, <1>2, <2>1, <3>1, GoFields DEF Begins, Works
      <3> QED BY <2>1, <3>2 DEF OneGate, Moves
    <2>3. CASE ~ImplementGate(d)
      <3>1. Stop(p)
        BY <1>1, <1>6, <2>3 DEF ChainImplement
      <3> QED BY <1>2, <2>1, <3>1, StopFields DEF OneGate, Moves, Calm, Works
    <2> QED BY <2>2, <2>3
  <1> QED BY <1>3, <1>4, <1>5, <1>6

LEMMA ImplementStepMoves ==
  ASSUME TInv, GInv, NEW p \in Operator, Repair(p) \/ RecordRepair(p) \/ Judge(p)
  PROVE  OneGate /\ Moves(p)
  <1>1. PICK r, d, o : r = job[p].run /\ d = store[r] /\ o = job[p].outcome
    OBVIOUS
  <1>2. /\ job[p] \in Job /\ r \in RunId /\ d \in RunDir /\ job[p].step \in Works
    BY <1>1 DEF TInv, TypeOK, Working, Repair, RecordRepair, Judge, At, Works
  <1>3. d.issueReview = "approved"
    BY <1>1, <1>2 DEF GInv, JobOK, Approved, Works
  <1>4. CASE Repair(p)
    <2>1. PICK x \in Outcomes :
            /\ job' = [job EXCEPT ![p].outcome = x,
                                  ![p].step = IF x.repair = "none" THEN "judge" ELSE "record"]
            /\ Write(r, IF x.repair = "none" THEN d ELSE [d EXCEPT !.workspace = "unjudged"])
      BY <1>1, <1>4 DEF Repair
    <2>2. /\ job'[p].step \in Works /\ job'[p].run = r
          /\ \A q \in Operator : q # p => job'[q] = job[q]
      BY <1>1, <1>2, <2>1 DEF TInv, TypeOK, Job, Works
    <2>3. PICK e : Write(r, e) /\ e \in {d, [d EXCEPT !.workspace = "unjudged"]}
      BY <2>1
    <2>4. e \in RunDir
      BY <1>2, <2>3, WorkspaceType DEF Workspace
    <2>5. e.issueReview = d.issueReview /\ e.verdict = d.verdict
      BY <1>2, <2>3 DEF RunDir
    <2> QED BY <1>1, <1>2, <2>2, <2>3, <2>4, <2>5, WriteShape DEF Moves, Calm
  <1>5. CASE RecordRepair(p)
    <2>1. PICK q, l, e :
            /\ q = (d.qa \/ o.qa)
            /\ l = IF o.repair = "completed" THEN d.dlog \union {d.attempt} ELSE d.dlog
            /\ e = [d EXCEPT !.repair = o.repair, !.qa = q, !.dlog = l]
      OBVIOUS
    <2>2. Write(r, e) /\ Go(p, "judge")
      BY <1>1, <1>5, <2>1 DEF RecordRepair
    <2>3. e.issueReview = d.issueReview /\ e.verdict = d.verdict
      BY <1>2, <2>1 DEF RunDir
    <2>4. e \in RunDir
      <3>1. q \in BOOLEAN /\ l \in SUBSET Nat /\ o \in Outcomes
        BY <1>1, <1>2, <2>1 DEF RunDir, Job, Outcomes
      <3> QED BY <1>2, <2>1, <3>1 DEF RunDir, Outcomes
    <2> QED BY <1>1, <1>2, <2>2, <2>3, <2>4, GoFields, WriteShape DEF Moves, Calm, Works
  <1>6. CASE Judge(p)
    <2>1. PICK v, w, e :
            /\ v = IF Approves(d, o) THEN "approved" ELSE "blocked"
            /\ w = IF d.workspace \in {"none", "partial"} THEN d.workspace
                   ELSE IF o.repair = "none" THEN "unjudged" ELSE "judged"
            /\ e = [d EXCEPT !.verdict = v, !.workspace = w]
      OBVIOUS
    <2>2. Write(r, e) /\ (Go(p, "publish") \/ Stop(p))
      BY <1>1, <1>6, <2>1 DEF Judge
    <2>3. /\ e \in RunDir /\ e.issueReview = d.issueReview /\ e.planReview = d.planReview
      <3>1. w \in Workspace /\ v \in {"none", "approved", "blocked"}
        BY <1>2, <2>1 DEF RunDir, Workspace
      <3> QED BY <1>2, <2>1, <3>1 DEF RunDir
    <2>4. OneGate
      BY <1>1, <1>2, <1>3, <2>2, <2>3, WriteShape
    <2>5. \A x \in RunId : /\ store'[x].issueReview = store[x].issueReview
                           /\ store'[x].planReview = store[x].planReview
      BY <1>1, <1>2, <2>2, <2>3, WriteType DEF TInv, TypeOK
    <2>6. Ends(p)
      BY <1>2, <2>2, <2>5, GoFields, StopFields DEF Ends, Works
    <2> QED BY <2>4, <2>6 DEF Moves
  <1> QED BY <1>4, <1>5, <1>6

LEMMA PublishStepMoves ==
  ASSUME TInv, GInv, NEW p \in Operator,
         \/ ChainPublish(p) \/ Execute(p) \/ RecordResult(p) \/ ChainReviewImpl(p) \/ Crash(p)
  PROVE  OneGate /\ Moves(p)
  <1>1. PICK r, d : r = job[p].run /\ d = store[r]
    OBVIOUS
  <1>2. CASE Crash(p)
    <2>1. UNCHANGED store /\ Stop(p)
      BY <1>2 DEF Crash
    <2>2. Calm(p) \/ Ends(p)
      BY <2>1, StopFields DEF Calm, Ends, Works
    <2> QED BY <2>1, <2>2 DEF OneGate, Moves
  <1>3. CASE Execute(p) \/ ChainReviewImpl(p)
    <2>1. /\ UNCHANGED store /\ (Go(p, "result") \/ Stop(p))
          /\ job[p].step \notin Works /\ "result" \notin Works
      BY <1>3 DEF Execute, ChainReviewImpl, At, Works
    <2> QED BY <2>1, GoMoves DEF OneGate
  <1>4. CASE ChainPublish(p) \/ RecordResult(p)
    <2>1. /\ job[p].step \notin Works /\ r \in RunId /\ d \in RunDir
          /\ (Go(p, "execute") \/ Go(p, "review_impl") \/ Stop(p))
          /\ "execute" \notin Works /\ "review_impl" \notin Works
      BY <1>1, <1>4 DEF TInv, TypeOK, Working, ChainPublish, RecordResult, At, Works
    <2>2. Moves(p)
      BY <2>1, GoMoves
    <2>3. PICK v, e :
            /\ Write(r, e)
            /\ \/ v \in {"draft_pr", "update_pr"} /\ e = [d EXCEPT !.publishPlan = v]
               \/ e = [d EXCEPT !.verdict = "blocked"]
               \/ v \in {"published", "dry_run"} /\ e = [d EXCEPT !.publishResult = v]
      <3>1. CASE ChainPublish(p)
        BY <1>1, <3>1 DEF ChainPublish
      <3>2. CASE RecordResult(p)
        BY <1>1, <3>2 DEF RecordResult
      <3> QED BY <1>4, <3>1, <3>2
    <2>4. /\ e \in RunDir /\ e.issueReview = d.issueReview
          /\ e.verdict \in {"blocked", d.verdict}
      <3>1. CASE v \in {"draft_pr", "update_pr"} /\ e = [d EXCEPT !.publishPlan = v]
        BY <2>1, <3>1 DEF RunDir
      <3>2. CASE e = [d EXCEPT !.verdict = "blocked"]
        BY <2>1, <3>2 DEF RunDir
      <3>3. CASE v \in {"published", "dry_run"} /\ e = [d EXCEPT !.publishResult = v]
        BY <2>1, <3>3 DEF RunDir
      <3> QED BY <2>3, <3>1, <3>2, <3>3
    <2> QED BY <1>1, <2>1, <2>2, <2>3, <2>4, WriteShape
  <1> QED BY <1>2, <1>3, <1>4

LEMMA CopyMoves ==
  ASSUME TInv, GInv, NEW p \in Operator, Materialise(p), Copies(p)
  PROVE  OneGate /\ Moves(p)
  <1>1. PICK j, d, s, a, e :
          /\ j = job[p] /\ d = store[j.run] /\ s = store[j.src]
          /\ a = Preserved[j.from][j.n + 1] /\ e = CopyArtifact(d, s, a)
    OBVIOUS
  <1>2. /\ j \in Job /\ j.step = "materialise" /\ j.run \in RunId /\ j.src \in RunId
        /\ d \in RunDir /\ s \in RunDir /\ j.n \in Nat /\ j.from \in ResumeStage
        /\ Copying(store, j)
    BY <1>1 DEF TInv, TypeOK, Working, GInv, JobOK, Materialise, At, Job
  <1>3. /\ j.n < Len(Preserved[j.from]) /\ Write(j.run, e)
        /\ job' = [job EXCEPT ![p].n = j.n + 1]
    BY <1>1 DEF Materialise, Copies
  <1>4. j.n + 1 \in 1..Len(Preserved[j.from])
    BY <1>2, <1>3, PreservedOrder
  <1>5. d \in RunDir /\ s \in RunDir /\ a \in Artifact /\ e = CopyArtifact(d, s, a)
    BY <1>1, <1>2, <1>4, PreservedOrder
  <1>6. /\ e \in RunDir
        /\ e.issueReview = IF a = "issueReview" THEN s.issueReview ELSE d.issueReview
        /\ e.planReview = IF a = "planReview" THEN s.planReview ELSE d.planReview
    BY <1>5, CopyFields
  <1>7. a # "verdict" => e.verdict = d.verdict
    BY <1>5, CopyVerdict
  <1>8. a = "verdict" => j.n >= 2 /\ j.from # "review_issue"
    <2>1. j.n + 1 = 1 => a = "draft"
      BY <1>1, <1>2, <1>4, PreservedOrder
    <2>2. j.n + 1 = 2 => a = "issueReview"
      BY <1>1, <1>2, <1>4, PreservedOrder
    <2>3. a = "verdict" => j.from # "review_issue"
      <3>1. Preserved["review_issue"] = <<"draft">>
        BY DEF Preserved, ResumeStage
      <3>2. \A k \in 1..Len(<<"draft">>) : <<"draft">>[k] = "draft"
        OBVIOUS
      <3>3. j.from = "review_issue" => j.n + 1 \in 1..Len(<<"draft">>) /\ a = <<"draft">>[j.n + 1]
        BY <1>1, <1>4, <3>1
      <3> QED BY <3>2, <3>3
    <2> QED BY <1>2, <2>1, <2>2, <2>3
  <1>9. e.verdict = d.verdict \/ e.issueReview = "approved"
    BY <1>1, <1>2, <1>6, <1>7, <1>8 DEF Copying
  <1>10. OneGate
    BY <1>1, <1>2, <1>3, <1>6, <1>9, WriteShape
  <1>11. Moves(p)
    BY <1>1, <1>2, <1>3 DEF Moves, Calm, Works, TInv, TypeOK, Job
  <1> QED BY <1>10, <1>11

LEMMA MaterialiseMoves ==
  ASSUME TInv, GInv, NEW p \in Operator, Materialise(p)
  PROVE  OneGate /\ Moves(p)
  <1>1. CASE Copies(p)
    BY <1>1, CopyMoves
  <1>2. CASE ~Copies(p)
    <2>1. UNCHANGED store /\ Stop(p) /\ job[p].step \notin Works
      BY <1>2 DEF Materialise, Copies, At, Works
    <2> QED BY <2>1, StopFields DEF OneGate, Moves, Calm, Works
  <1> QED BY <1>1, <1>2

LEMMA StepMoves ==
  ASSUME TInv, GInv, [Next]_vars
  PROVE  OneGate /\ (UNCHANGED <<store, job>> \/ \E p \in Operator : Moves(p))
  <1>1. CASE UNCHANGED vars
    BY <1>1 DEF vars, OneGate
  <1>2. ASSUME NEW p \in Operator, StageCommand(p) \/ RepairIssue(p) \/ Advance(p) \/ Crash(p)
        PROVE  OneGate /\ Moves(p)
    BY <1>2, StageCommandMoves, StageWriteMoves, RepairIssueMoves, RetryStepMoves, MaterialiseMoves,
       ChainStepMoves, ImplementStepMoves, PublishStepMoves DEF Advance
  <1> QED BY <1>1, <1>2 DEF Next

-----------------------------------------------------------------------------
(* Workflow implements the planning gates.                                 *)

PlanningSim == [Planning!Next]_(Planning!vars)

LEMMA PlanningGate ==
  ASSUME NEW d
  PROVE  /\ "issue" \in Cleared(d) \intersect {"issue", "plan"} <=> d.issueReview = "approved"
         /\ "plan" \in Cleared(d) \intersect {"issue", "plan"}
              <=> d.planReview.verdict = "approved"
         /\ Cleared(d) \intersect {"issue", "plan"} \subseteq {"issue", "plan"}
  BY ClearedGate

\* A write that moves at most one of a run's two reviews is a step of the gates.
LEMMA WriteSim ==
  ASSUME TInv, TInv', GInv', Stands, OneGate, Building' = Building
  PROVE  PlanningSim
  <1> DEFINE C == [x \in RunId |-> Cleared(store[x]) \intersect {"issue", "plan"}]
             D == [x \in RunId |-> Cleared(store'[x]) \intersect {"issue", "plan"}]
  <1>0. C' = D
    OBVIOUS
  <1>1. \A x \in RunId :
          /\ C[x] = Cleared(store[x]) \intersect {"issue", "plan"}
          /\ D[x] = Cleared(store'[x]) \intersect {"issue", "plan"}
    OBVIOUS
  <1>2. CASE UNCHANGED store
    BY <1>2 DEF PlanningSim, Planning!vars
  <1>3. ASSUME NEW r \in RunId, Shape(r) PROVE PlanningSim
    <2>1. \A x \in RunId : x # r => D[x] = C[x]
      BY <1>1, <1>3 DEF Shape
    <2>2. /\ "issue" \in C[r] => "issue" \in D[r]
          /\ "plan" \in D[r] => "issue" \in D[r]
          /\ ("issue" \in D[r] <=> "issue" \in C[r]) \/ ("plan" \in D[r] <=> "plan" \in C[r])
          /\ C[r] \subseteq {"issue", "plan"} /\ D[r] \subseteq {"issue", "plan"}
      BY <1>1, <1>3, PlanningGate DEF Shape, Stands, GInv, Sound
    <2>3. D = [C EXCEPT ![r] = D[r]]
      <3> DEFINE E == [C EXCEPT ![r] = D[r]]
      <3>1. \A x \in RunId : D[x] = E[x]
        BY <2>1
      <3> QED BY <3>1
    <2>4. UNCHANGED Building
      OBVIOUS
    <2> HIDE DEF C, D
    <2>5. CASE D[r] = C[r]
      <3>1. C = [x \in RunId |-> C[x]] /\ D = [x \in RunId |-> D[x]]
        BY DEF C, D
      <3>2. C' = C
        BY <1>0, <2>1, <2>5, <3>1
      <3> QED BY <2>4, <3>2 DEF PlanningSim, Planning!vars, C
    <2>6. CASE "issue" \in D[r] /\ "issue" \notin C[r]
      <3>1. D[r] = C[r] \union {"issue"}
        BY <2>2, <2>6
      <3>2. Planning!ClearIssue(r)
        BY <1>0, <2>3, <2>4, <3>1 DEF Planning!ClearIssue, Planning!Open, C
      <3> QED BY <3>2 DEF PlanningSim, Planning!Next
    <2>7. CASE ("issue" \in D[r] <=> "issue" \in C[r]) /\ "plan" \in D[r]
      <3>1. D[r] = C[r] \union {"plan"} /\ "issue" \in C[r]
        BY <2>2, <2>7
      <3>2. Planning!ClearPlan(r)
        BY <1>0, <2>3, <2>4, <3>1 DEF Planning!ClearPlan, Planning!Open, C
      <3> QED BY <3>2 DEF PlanningSim, Planning!Next
    <2>8. CASE ("issue" \in D[r] <=> "issue" \in C[r]) /\ "plan" \notin D[r]
      <3>1. D[r] = C[r] \ {"plan"}
        BY <2>2, <2>8
      <3>2. Planning!WithdrawPlan(r)
        BY <1>0, <2>3, <2>4, <3>1 DEF Planning!WithdrawPlan, Planning!Close, C
      <3> QED BY <3>2 DEF PlanningSim, Planning!Next
    <2> QED BY <2>2, <2>5, <2>6, <2>7, <2>8
  <1> QED BY <1>2, <1>3 DEF OneGate

LEMMA StepPlanning ==
  TInv /\ TInv' /\ GInv /\ GInv' /\ Stands /\ [Next]_vars => PlanningSim
  <1> SUFFICES ASSUME TInv, TInv', GInv, GInv', Stands, [Next]_vars PROVE PlanningSim
    OBVIOUS
  <1> DEFINE C == [x \in RunId |-> Cleared(store[x]) \intersect {"issue", "plan"}]
  <1>1. OneGate /\ (UNCHANGED <<store, job>> \/ \E p \in Operator : Moves(p))
    BY StepMoves
  <1>2. CASE UNCHANGED <<store, job>>
    BY <1>2 DEF PlanningSim, Planning!vars, Building
  <1>3. ASSUME NEW p \in Operator, Calm(p) PROVE PlanningSim
    BY <1>1, <1>3, CalmBuilding, WriteSim
  <1>4. ASSUME NEW p \in Operator, Begins(p) PROVE PlanningSim
    <2>1. PICK r \in RunId : r = job'[p].run
      BY <1>4 DEF Begins
    <2>2. Building' = Building \union {r}
      BY <1>4, <2>1, BeginsBuilding DEF Begins
    <2>3. "plan" \in C[r] /\ C' = C
      BY <1>4, <2>1, PlanningGate DEF Begins
    <2>4. Planning!Build(r)
      BY <2>2, <2>3 DEF Planning!Build
    <2> QED BY <2>4 DEF PlanningSim, Planning!Next
  <1>5. ASSUME NEW p \in Operator, Ends(p) PROVE PlanningSim
    <2>1. PICK r \in RunId : r = job[p].run
      BY <1>5 DEF Ends, TInv, Working, Works
    <2>2. Building' \in {Building, Building \ {r}}
      BY <1>5, <2>1, EndsBuilding DEF Ends
    <2>3. C' = C
      <3>1. \A x \in RunId : Cleared(store'[x]) \intersect {"issue", "plan"}
                               = Cleared(store[x]) \intersect {"issue", "plan"}
        BY <1>5, PlanningGate DEF Ends
      <3> QED BY <3>1
    <2>4. CASE Building' = Building \ {r}
      <3>1. Planning!GiveUp(r)
        BY <2>3, <2>4 DEF Planning!GiveUp
      <3> QED BY <3>1 DEF PlanningSim, Planning!Next
    <2>5. CASE Building' = Building
      BY <2>3, <2>5 DEF PlanningSim, Planning!vars
    <2> QED BY <2>2, <2>4, <2>5
  <1> QED BY <1>1, <1>2, <1>3, <1>4, <1>5 DEF Moves

LEMMA InitPlanning == Init => Planning!Init
  <1> SUFFICES ASSUME Init PROVE Planning!Init
    OBVIOUS
  <1>1. Cleared(EmptyDir) = {}
    BY DEF EmptyDir, Cleared, PlansPr
  <1>2. \A p \in Operator : job[p].step = "idle"
    BY DEF Init, Idle
  <1>3. Building = {}
    BY <1>2 DEF Building
  <1>4. [r \in RunId |-> Cleared(store[r]) \intersect {"issue", "plan"}] = [r \in RunId |-> {}]
    BY <1>1 DEF Init
  <1> QED BY <1>3, <1>4 DEF Planning!Init

\* No verdict stands on a run whose issue was not reviewed.
VerdictFounded ==
  \A r \in RunId : store[r].verdict = "approved" => store[r].issueReview = "approved"

LEMMA StepFounded == TInv /\ GInv /\ Stands /\ VerdictFounded /\ [Next]_vars => VerdictFounded'
  <1> SUFFICES ASSUME TInv, GInv, Stands, VerdictFounded, [Next]_vars PROVE VerdictFounded'
    OBVIOUS
  <1>1. OneGate
    BY StepMoves
  <1> QED BY <1>1 DEF OneGate, Shape, VerdictFounded, Stands

-----------------------------------------------------------------------------
(* Theorems.                                                               *)

LEMMA StepGInv == TInv /\ TInv' /\ GInv /\ Current /\ [Next]_vars => GInv' /\ Stands
  <1> SUFFICES ASSUME TInv, TInv', GInv, Current, [Next]_vars PROVE GInv' /\ Stands
    OBVIOUS
  <1>1. CASE UNCHANGED vars
    BY <1>1 DEF vars, GInv, Apart, At, Stands
  <1>2. ASSUME NEW p \in Operator, StageCommand(p) \/ RepairIssue(p) \/ Advance(p) \/ Crash(p)
        PROVE  GInv' /\ Stands
    BY <1>2, StageCommandGInv, StageWriteGInv, RepairIssueGInv, RetryStepGInv, MaterialiseGInv,
       ChainStepGInv, ImplementStepGInv, PublishStepGInv DEF Advance
  <1> QED BY <1>1, <1>2 DEF Next

\* A review of the issue is only ever begun by reading what it decides from.
LEMMA BeginsReview ==
  ASSUME TInv, GInv, [Next]_vars, NEW p \in Operator, At(p, "write_issue_review")'
  PROVE  \/ UNCHANGED job[p]
         \/ /\ ~At(p, "write_issue_review") /\ "review_issue" \in Commands
            /\ job'[p].run \in RunId /\ Exists(job'[p].run)
            /\ UNCHANGED store
            /\ job'[p].found = IssueVerdict(store[job'[p].run])
  <1>0. job \in [Operator -> Job] /\ "write_issue_review" \notin ResumeStage \union {"report"}
    BY DEF TInv, TypeOK, ResumeStage
  <1>1. CASE UNCHANGED vars
    BY <1>1 DEF vars
  <1>2. ASSUME NEW q \in Operator, q # p, Moves(q)
        PROVE  UNCHANGED job[p]
    BY <1>2 DEF Moves, Calm, Begins, Ends
  <1>3. ASSUME StageCommand(p)
        PROVE  UNCHANGED job[p] \/ \E r \in RunId : ReviewIssue(p, r)
    <2>1. SUFFICES ASSUME UNCHANGED job \/ \E j : j.step # "write_issue_review" /\ Begin(p, j)
                   PROVE  UNCHANGED job[p] \/ \E r \in RunId : ReviewIssue(p, r)
      BY <1>0, <1>3, IdleType DEF StageCommand, CreateIssue, PlanRun, ReviewPlan,
                                  ImplementRun, PublishRun, Job
    <2> QED BY <1>0, <2>1 DEF Begin, At
  <1>4. ASSUME NEW r \in RunId, ReviewIssue(p, r)
        PROVE  /\ ~At(p, "write_issue_review") /\ "review_issue" \in Commands
               /\ job'[p].run = r /\ Exists(r) /\ UNCHANGED store
               /\ job'[p].found = IssueVerdict(store[r])
    BY <1>0, <1>4, IdleType DEF ReviewIssue, Issue, Begin, At, Job
  <1>5. ~RepairIssue(p)
    <2>1. SUFFICES ASSUME RepairIssue(p) PROVE FALSE
      OBVIOUS
    <2>2. PICK pl \in Plan \union {NoPlan}, publish \in BOOLEAN, r \in RunId :
            \/ \E i \in Intakes : Fresh(p, r, i, pl, publish)
            \/ \E src \in RunId, i \in Intakes : Retry(p, src, r, i, pl, publish)
            \/ \E src \in RunId, stage \in ResumeStage : Resume(p, src, r, stage, pl, publish)
      BY <2>1 DEF RepairIssue
    <2>3. PICK j : j.step # "write_issue_review" /\ Begin(p, j)
      <3>1. ASSUME NEW i \in Intakes, Fresh(p, r, i, pl, publish)
            PROVE  \E j : j.step # "write_issue_review" /\ Begin(p, j)
        BY <3>1, IdleType DEF Fresh, Entry, Job
      <3>2. ASSUME NEW src \in RunId, NEW i \in Intakes, Retry(p, src, r, i, pl, publish)
            PROVE  \E j : j.step # "write_issue_review" /\ Begin(p, j)
        BY <3>2, IdleType DEF Retry, Job
      <3>3. ASSUME NEW src \in RunId, NEW stage \in ResumeStage,
                   Resume(p, src, r, stage, pl, publish)
            PROVE  \E j : j.step # "write_issue_review" /\ Begin(p, j)
        BY <3>3, IdleType DEF Resume, Job
      <3> QED BY <2>2, <3>1, <3>2, <3>3
    <2> QED BY <1>0, <2>3 DEF Begin, At
  <1>6. ~Advance(p) /\ ~Crash(p)
    <2>1. SUFFICES ASSUME Advance(p) \/ Crash(p) PROVE FALSE
      OBVIOUS
    <2>2. ASSUME NEW step, Go(p, step) PROVE step = "write_issue_review"
      BY <2>2, GoFields DEF At
    <2>3. ~Stop(p)
      BY StopFields DEF At
    <2>4. CASE Enter(p)
      <3>1. job'[p].step = Entry(store[job[p].run].intake, job[p].from)
              /\ job[p].from \in ResumeStage
        BY <1>0, <2>3, <2>4 DEF Enter, Job
      <3> QED BY <1>0, <3>1 DEF Entry, At
    <2>5. CASE Materialise(p)
      BY <1>0, <2>3, <2>5 DEF Materialise, At, Job
    <2>6. CASE Repair(p)
      BY <1>0, <2>6 DEF Repair, At, Job
    <2> QED BY <2>1, <2>2, <2>3, <2>4, <2>5, <2>6
            DEF Advance, Crash, WriteIssueReview, WritePlan, WritePlanReview, NumberAttempt,
                Escalate, ReportBlocked, ChainReviewIssue, ChainPlan, ChainReviewPlan,
                ChainImplement, RecordRepair, Judge, ChainPublish, Execute, RecordResult,
                ChainReviewImpl, Entry
  <1>7. ASSUME NEW q \in Operator, StageCommand(q) \/ RepairIssue(q) \/ Advance(q) \/ Crash(q),
               q # p
        PROVE  UNCHANGED job[p]
    BY <1>2, <1>7, StageCommandMoves, StageWriteMoves, RepairIssueMoves, RetryStepMoves,
       MaterialiseMoves, ChainStepMoves, ImplementStepMoves, PublishStepMoves DEF Advance
  <1> QED BY <1>1, <1>3, <1>4, <1>5, <1>6, <1>7 DEF Next

\* Once an issue has its draft, nothing a review of it decides from changes.
Drafted ==
  \A p \in Operator : At(p, "write_issue_review") => store[job[p].run].draft

LEMMA StepCurrent ==
  TInv /\ GInv /\ Current /\ Drafted /\ Stands /\ [Next /\ DraftFirst]_vars
    => Current' /\ Drafted'
  <1> SUFFICES ASSUME TInv, GInv, Current, Drafted, Stands, [Next]_vars, DraftFirst \/ UNCHANGED vars,
                      NEW p \in Operator, At(p, "write_issue_review")'
               PROVE  /\ job'[p].found = IssueVerdict(store'[job'[p].run])
                      /\ store'[job'[p].run].draft
    BY DEF Current, Drafted, At
  <1>1. CASE UNCHANGED job[p]
    <2>1. /\ job[p].step = "write_issue_review" /\ job[p].run \in RunId
          /\ Exists(job[p].run) /\ store[job[p].run].draft
          /\ job[p].found = IssueVerdict(store[job[p].run])
      BY <1>1 DEF At, TInv, Working, GInv, JobOK, Exists, Current, Drafted
    <2> QED BY <1>1, <2>1 DEF Stands, IssueVerdict
  <1>2. CASE ~UNCHANGED job[p]
    <2>1. /\ ~At(p, "write_issue_review") /\ UNCHANGED store
          /\ job'[p].found = IssueVerdict(store[job'[p].run])
      BY <1>2, BeginsReview
    <2>2. store[job'[p].run].draft
      BY <1>2, <2>1 DEF DraftFirst, vars
    <2> QED BY <2>1, <2>2
  <1> QED BY <1>1, <1>2

GateInv == TInv /\ GInv /\ Current /\ Drafted

LEMMA InitCurrent == Init => Current /\ Drafted
  BY DEF Init, Idle, Current, Drafted, At

LEMMA StepGateInv == GateInv /\ [Next /\ DraftFirst]_vars => GateInv' /\ Stands
  <1> SUFFICES ASSUME GateInv, [Next /\ DraftFirst]_vars PROVE GateInv' /\ Stands
    OBVIOUS
  <1>1. [Next]_vars
    OBVIOUS
  <1>2. TInv'
    BY <1>1, StepTInv DEF GateInv
  <1>3. GInv' /\ Stands
    BY <1>1, <1>2, StepGInv DEF GateInv
  <1> QED BY <1>2, <1>3, StepCurrent DEF GateInv

LEMMA Invariance == SpecDraftFirst => []GateInv
  <1>1. Init => GateInv
    BY InitTInv, InitGInv, InitCurrent DEF GateInv
  <1>2. GateInv /\ [Next /\ DraftFirst]_vars => GateInv'
    BY StepGateInv
  <1> QED BY <1>1, <1>2, PTL DEF SpecDraftFirst

\* In every run, an approved plan review stands on an approved issue review and a
\* plan, and an approved issue review on a draft and a runnable intake: no order of
\* commands, no number of processes and no crash while copying breaks the gates, as long
\* as no `review issue` is begun on a run that has not got its draft yet (DraftFirst; one
\* that is writes "blocked" under a plan review that was copied meanwhile,
\* coordinator.py _derive_issue_review, run_store.py create_retry_run).
THEOREM GatesInOrder == SpecDraftFirst => []GateOrder
  <1>1. GateInv => GateOrder
    BY DEF GateInv, GInv, Sound, GateOrder
  <1> QED BY <1>1, Invariance, PTL

\* No implement, wherever it was started from, works on an issue that is not runnable,
\* reviewed and planned (implement_run), under the same premise.
THEOREM ImplementsReviewed == SpecDraftFirst => []ImplementsReviewedIssue
  <1>1. GateInv => ImplementsReviewedIssue
    BY DEF GateInv, TInv, Working, GInv, JobOK, Approved, Sound, ImplementsReviewedIssue
  <1> QED BY <1>1, Invariance, PTL

\* An approved issue review is approved for good, although each review of the issue
\* reads in one step and writes in another: the premise makes what it reads final.
THEOREM ApprovalStands == SpecDraftFirst => IssueApprovalStands
  <1>1. GateInv /\ [Next /\ DraftFirst]_vars =>
          [\A r \in RunId : store[r].issueReview = "approved" =>
                              store'[r].issueReview = "approved"]_vars
    BY StepGateInv DEF Stands
  <1> QED BY <1>1, Invariance, PTL DEF SpecDraftFirst, IssueApprovalStands

\* Whatever the commands, their order, the number of operators on the same runs and the
\* points at which processes die, under the same premise: an implement begins only when
\* its run's plan stands approved, a plan is approved only over the approved issue, and
\* one write moves at most one of the two reviews (require_plan_review_for_implement,
\* write_gated_approved_plan).
THEOREM PlanningImplementsGates == SpecDraftFirst => ImplementsPlanning
  <1>1. Init => Planning!Init
    BY InitPlanning
  <1>2. GateInv /\ GateInv' /\ [Next /\ DraftFirst]_vars => [Planning!Next]_(Planning!vars)
    <2> SUFFICES ASSUME GateInv, GateInv', [Next /\ DraftFirst]_vars
                 PROVE  [Planning!Next]_(Planning!vars)
      OBVIOUS
    <2>1. [Next]_vars /\ Stands
      BY StepGateInv
    <2> QED BY <2>1, StepPlanning DEF GateInv, PlanningSim
  <1> QED BY <1>1, <1>2, Invariance, PTL DEF SpecDraftFirst, ImplementsPlanning, Planning!Spec

\* And nothing else is approved or planned of a run whose issue was not approved first:
\* not its plan, not its implementation, not its pull request.
THEOREM IssueComesFirst == SpecDraftFirst => []NothingWithoutIssue
  <1>1. Init => VerdictFounded
    BY DEF Init, EmptyDir, VerdictFounded
  <1>2. GateInv /\ VerdictFounded /\ [Next /\ DraftFirst]_vars => VerdictFounded'
    <2> SUFFICES ASSUME GateInv, VerdictFounded, [Next /\ DraftFirst]_vars
                 PROVE  VerdictFounded'
      OBVIOUS
    <2>1. [Next]_vars /\ Stands
      BY StepGateInv
    <2> QED BY <2>1, StepFounded DEF GateInv
  <1>3. GateInv /\ VerdictFounded => NothingWithoutIssue
    BY ClearedGate DEF GateInv, GInv, Sound, VerdictFounded, NothingWithoutIssue,
                       Gates!IssueFirst
  <1> QED BY <1>1, <1>2, <1>3, Invariance, PTL DEF SpecDraftFirst

\* Only `review issue` can break the premise: a chain reviews the issue of its own run,
\* after its draft is there (repair_issue, _resume_or_run_repair_chain). Whoever uses
\* chains and all the other commands keeps the gates, whatever the order.
COROLLARY ChainsDraftFirst ==
  ASSUME "review_issue" \notin Commands
  PROVE  Spec => SpecDraftFirst
  <1> DEFINE Inv == GateInv /\ \A p \in Operator : ~At(p, "write_issue_review")
  <1>1. Init => Inv
    BY InitTInv, InitGInv, InitCurrent DEF GateInv, Init, Idle, At
  <1>2. Inv /\ [Next]_vars => Inv' /\ [Next /\ DraftFirst]_vars
    <2> SUFFICES ASSUME Inv, [Next]_vars PROVE Inv' /\ [Next /\ DraftFirst]_vars
      OBVIOUS
    <2>1. \A p \in Operator : ~At(p, "write_issue_review")'
      BY BeginsReview DEF GateInv, At
    <2>2. [Next /\ DraftFirst]_vars
      BY <2>1 DEF DraftFirst
    <2> QED BY <2>1, <2>2, StepGateInv
  <1> HIDE DEF Inv
  <1> QED BY <1>1, <1>2, PTL DEF Spec, SpecDraftFirst
=============================================================================
