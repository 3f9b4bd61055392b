----------------------------- MODULE ChainProofs -----------------------------
(***************************************************************************)
(* What Workflow promises to operators who keep off each other's runs.     *)
(* It implements StageGates: each step of each command is a step of the    *)
(* gates or none.  Runs count their attempts from the runs they retry.  If *)
(* none publishes anew a run whose copying was cut short, a chain comes to *)
(* publish on whole evidence of its own, and if no stage is run by hand    *)
(* what it publishes is what it judged.  An operator who is alone has      *)
(* nobody to keep off.                                                     *)
(***************************************************************************)
EXTENDS GateProofs

\* The step is process p's, and it leaves the runs of the others alone.
Acts(p) == LeftAlone /\ \A q \in Operator : q # p => job'[q] = job[q]

-----------------------------------------------------------------------------
(* The invariant. A directory is cleared only over its issue; a job knows  *)
(* what the step it is about to take rests on.                             *)

Founded(d) ==
  /\ d.attempt = 0 => Cleared(d) = {}
  /\ d.verdict = "approved" => d.issueReview = "approved"

Ready(S, j) ==
  LET d == S[j.run]
      s == S[j.src]
  IN  /\ j.step \in {"number", "escalate"} => d.verdict # "approved" /\ ~PlansPr(d)
      /\ j.step = "report" => d.intake = "blocked"
      /\ j.step = "materialise" =>
           /\ MayResume(s, j.from)
           /\ j.from \in {"implement", "publish"} /\ j.n >= 4 => d.planReview.verdict = "approved"
           /\ j.from = "publish" /\ j.n >= 8 => d.attempt \in d.dlog
      /\ j.step = "publish" => d.verdict = "approved" /\ Approves(d, j.outcome)

RInv ==
  /\ \A r \in RunId : Founded(store[r])
  /\ \A p \in Operator : Ready(store, job[p])

-----------------------------------------------------------------------------
(* Steps as StageGates sees them.                                          *)

Sim == [Gates!Next]_(Gates!vars)

LEMMA WriteGates ==
  ASSUME TInv, NEW r \in RunId, NEW e \in RunDir, Write(r, e)
  PROVE  /\ \A g : Cleared(e) = Cleared(store[r]) \union {g} => Gates!Open(r, g)
         /\ \A g : Cleared(e) = Cleared(store[r]) \ {g} => Gates!Close(r, g)
         /\ Cleared(e) = Cleared(store[r]) => UNCHANGED [x \in RunId |-> Cleared(store[x])]
  <1> DEFINE C == [x \in RunId |-> Cleared(store[x])]
             D == [x \in RunId |-> Cleared(store'[x])]
  <1>1. store'[r] = e /\ \A s \in RunId : s # r => store'[s] = store[s]
    BY WriteType DEF TInv, TypeOK
  <1>2. D = [C EXCEPT ![r] = Cleared(e)] /\ C[r] = Cleared(store[r])
    BY <1>1
  <1>3. C' = D
    OBVIOUS
  <1> HIDE DEF C, D
  <1>4. Cleared(e) = C[r] => C' = C
    <2>1. C = [x \in RunId |-> C[x]]  BY DEF C
    <2> QED BY <1>2, <1>3, <2>1
  <1> QED BY <1>2, <1>3, <1>4 DEF Gates!Open, Gates!Close, C

LEMMA StutterSim ==
  ASSUME UNCHANGED [x \in RunId |-> Cleared(store[x])], Building' = Building
  PROVE  Sim
  BY DEF Sim, Gates!vars

\* A step of p that clears or closes at most one gate of run r.
LEMMA GateSim ==
  ASSUME TInv, NEW r \in RunId, NEW e \in RunDir, Write(r, e), Building' = Building,
         \/ Cleared(e) = Cleared(store[r])
         \/ Cleared(e) = Cleared(store[r]) \union {"issue"}
         \/ /\ store[r].issueReview = "approved"
            /\ Cleared(e) = Cleared(store[r]) \union {"plan"}
         \/ Cleared(e) = Cleared(store[r]) \ {"plan"}
         \/ /\ store[r].issueReview = "approved" /\ store[r].planReview.verdict = "approved"
            /\ \E s \in RunId : store[s].verdict = "approved"
            /\ Cleared(e) = Cleared(store[r]) \union {"verdict"}
         \/ /\ store[r].issueReview = "approved"
            /\ store[r].verdict = "approved" \/ \E s \in RunId : PlansPr(store[s])
            /\ Cleared(e) = Cleared(store[r]) \union {"publish"}
  PROVE  Sim
  <1> DEFINE C == [x \in RunId |-> Cleared(store[x])]
  <1>0. \A s \in RunId : C[s] = Cleared(store[s])
    OBVIOUS
  <1>1. CASE Cleared(e) = Cleared(store[r])
    BY <1>1, WriteGates, StutterSim
  <1>2. CASE Cleared(e) = Cleared(store[r]) \union {"issue"}
    BY <1>2, WriteGates DEF Sim, Gates!Next, Gates!ClearIssue
  <1>3. CASE /\ store[r].issueReview = "approved"
             /\ Cleared(e) = Cleared(store[r]) \union {"plan"}
    BY <1>0, <1>3, WriteGates, ClearedGate DEF Sim, Gates!Next, Gates!ClearPlan
  <1>4. CASE Cleared(e) = Cleared(store[r]) \ {"plan"}
    BY <1>4, WriteGates DEF Sim, Gates!Next, Gates!WithdrawPlan
  <1>5. CASE /\ store[r].issueReview = "approved" /\ store[r].planReview.verdict = "approved"
             /\ \E s \in RunId : store[s].verdict = "approved"
             /\ Cleared(e) = Cleared(store[r]) \union {"verdict"}
    <2>1. PICK s \in RunId : store[s].verdict = "approved"
      BY <1>5
    <2>2. Gates!Inherit(r, s)
      BY <1>0, <1>5, <2>1, WriteGates, ClearedGate DEF Gates!Inherit
    <2> QED BY <2>2 DEF Sim, Gates!Next
  <1>6. CASE /\ store[r].issueReview = "approved"
             /\ store[r].verdict = "approved" \/ \E s \in RunId : PlansPr(store[s])
             /\ Cleared(e) = Cleared(store[r]) \union {"publish"}
    <2>1. CASE store[r].verdict = "approved"
      <3>1. Gates!PlanPr(r)
        BY <1>0, <1>6, <2>1, WriteGates, ClearedGate DEF Gates!PlanPr
      <3> QED BY <3>1 DEF Sim, Gates!Next
    <2>2. CASE \E s \in RunId : PlansPr(store[s])
      <3>1. PICK s \in RunId : PlansPr(store[s])
        BY <2>2
      <3>2. Gates!InheritPr(r, s)
        BY <1>0, <1>6, <3>1, WriteGates, ClearedGate DEF Gates!InheritPr
      <3> QED BY <3>2 DEF Sim, Gates!Next
    <2> QED BY <1>6, <2>1, <2>2
  <1> QED BY <1>1, <1>2, <1>3, <1>4, <1>5, <1>6

\* Steps that rest on nothing.
Plain == Step \ {"number", "escalate", "report", "materialise", "publish"}

LEMMA PlainReady ==
  ASSUME NEW S, NEW j, j.step \in Plain
  PROVE  Ready(S, j)
  BY DEF Ready, Plain

\* What the others rest on is left alone.
LEMMA OthersReady ==
  ASSUME TInv, RInv, NEW p \in Operator, Acts(p), NEW q \in Operator, q # p
  PROVE  Ready(store', job'[q])
  <1>1. job'[q] = job[q] /\ Ready(store, job[q]) /\ job[q] \in Job
    BY DEF Acts, RInv, TInv, TypeOK
  <1>2. CASE job[q].step \in {"idle", "no_intake"}
    BY <1>1, <1>2, PlainReady DEF Plain, Step
  <1>3. CASE job[q].step \notin {"idle", "no_intake"}
    <2>1. \A r \in RunId \intersect {job[q].run, job[q].src} : store'[r] = store[r]
      BY <1>1, <1>3 DEF Acts, LeftAlone, At
    <2>2. job[q].run \in RunId /\ (job[q].step = "materialise" => job[q].src \in RunId)
      BY <1>3 DEF TInv, Working
    <2> QED BY <1>1, <2>1, <2>2 DEF Ready
  <1> QED BY <1>2, <1>3

\* The step of p writes run r, or nothing.
LEMMA WriteRInv ==
  ASSUME TInv, TInv', RInv, NEW p \in Operator, Acts(p),
         NEW r \in RunId, NEW e \in RunDir, Write(r, e), e.attempt > 0,
         e.verdict = "approved" => e.issueReview = "approved",
         Ready(store', job'[p])
  PROVE  RInv'
  <1>1. \A s \in RunId : Founded(store'[s])
    BY WriteType DEF TInv, TypeOK, RInv, Founded
  <1>2. \A q \in Operator : Ready(store', job'[q])
    BY OthersReady
  <1> QED BY <1>1, <1>2 DEF RInv

LEMMA QuietRInv ==
  ASSUME TInv, RInv, NEW p \in Operator, Acts(p), UNCHANGED store, Ready(store, job'[p])
  PROVE  RInv'
  <1>1. \A q \in Operator : Ready(store', job'[q])
    BY OthersReady
  <1> QED BY <1>1 DEF RInv

-----------------------------------------------------------------------------
(* The single-stage commands.                                              *)

LEMMA ReviewedCleared ==
  ASSUME NEW d \in RunDir, Sound(d)
  PROVE  /\ \/ Cleared(IssueReviewed(d)) = Cleared(d)
            \/ Cleared(IssueReviewed(d)) = Cleared(d) \union {"issue"}
         /\ \/ Cleared(PlanReviewed(d)) = Cleared(d) \ {"plan"}
            \/ /\ d.issueReview = "approved"
               /\ Cleared(PlanReviewed(d)) = Cleared(d) \union {"plan"}
         /\ IssueReviewed(d).attempt = d.attempt /\ PlanReviewed(d).attempt = d.attempt
         /\ IssueReviewed(d).verdict = d.verdict /\ PlanReviewed(d).verdict = d.verdict
         /\ d.issueReview = "approved" => IssueReviewed(d).issueReview = "approved"
         /\ PlanReviewed(d).issueReview = d.issueReview
  <1> DEFINE e == IssueReviewed(d)
             f == PlanReviewed(d)
  <1>1. /\ e.planReview = d.planReview /\ e.verdict = d.verdict
        /\ e.publishPlan = d.publishPlan /\ e.attempt = d.attempt
        /\ d.issueReview = "approved" => e.issueReview = "approved"
    BY DEF IssueReviewed, IssueVerdict, RunDir, Sound
  <1>2. /\ f.issueReview = d.issueReview /\ f.verdict = d.verdict
        /\ f.publishPlan = d.publishPlan /\ f.attempt = d.attempt
        /\ f.planReview.verdict = "approved" => d.issueReview = "approved"
    BY DEF PlanReviewed, PlanVerdict, RunDir, PlanReview
  <1> HIDE DEF e, f
  <1>3. Cleared(e) = Cleared(d) \/ Cleared(e) = Cleared(d) \union {"issue"}
    BY <1>1 DEF Cleared, PlansPr
  <1>4. CASE f.planReview.verdict = "approved"
    BY <1>1, <1>2, <1>3, <1>4 DEF Cleared, PlansPr, e, f
  <1>5. CASE f.planReview.verdict # "approved"
    <2>1. Cleared(f) = Cleared(d) \ {"plan"}
      BY <1>2, <1>5 DEF Cleared, PlansPr
    <2> QED BY <1>1, <1>2, <1>3, <2>1 DEF e, f
  <1> QED BY <1>4, <1>5

\* Process p goes from a step where it builds nothing to another.
LEMMA IdleSim ==
  ASSUME NEW p \in Operator, Acts(p), job[p].step \notin Works, job'[p].step \notin Works
  PROVE  Building' = Building
  BY CalmBuilding DEF Acts, Calm

\* It goes on building.
LEMMA BusySim ==
  ASSUME NEW p \in Operator, Acts(p), job[p].step \in Works, job'[p].step \in Works,
         job'[p].run = job[p].run
  PROVE  Building' = Building
  BY CalmBuilding DEF Acts, Calm

\* It begins to build run r.
LEMMA BuildSim ==
  ASSUME NEW p \in Operator, Acts(p), NEW r \in RunId, UNCHANGED store,
         job[p].step \notin Works, job'[p].step \in Works, job'[p].run = r,
         store[r].planReview.verdict = "approved"
  PROVE  Sim
  <1> DEFINE C == [x \in RunId |-> Cleared(store[x])]
  <1>1. "plan" \in C[r] /\ C' = C
    BY ClearedGate
  <1>2. Building' = Building \union {r}
    BY BeginsBuilding DEF Acts
  <1>3. Gates!Build(r)
    BY <1>1, <1>2 DEF Gates!Build
  <1> QED BY <1>3 DEF Sim, Gates!Next

LEMMA StageCommandChain ==
  ASSUME TInv, TInv', GInv, RInv, NEW p \in Operator, Acts(p), StageCommand(p)
  PROVE  RInv' /\ Sim
  <1>0. /\ store \in [RunId -> RunDir] /\ job \in [Operator -> Job]
        /\ \A r \in RunId : store[r] \in RunDir /\ Sound(store[r]) /\ Founded(store[r])
        /\ job[p].step = "idle" /\ job[p].step \in Plain /\ job[p].step \notin Works
    BY DEF TInv, TypeOK, GInv, RInv, StageCommand, CreateIssue, ReviewIssue, PlanRun, ReviewPlan,
           ImplementRun, PublishRun, Issue, At, Plain, Step, Works
  <1>1. CASE CreateIssue(p)
    <2>1. PICK r \in RunId, i \in Intakes : ~Exists(r) /\ Write(r, NewDir(i))
      BY <1>1 DEF CreateIssue
    <2>2. UNCHANGED job
      BY <1>1 DEF CreateIssue
    <2>3. /\ NewDir(i) \in RunDir /\ Cleared(NewDir(i)) = {} /\ NewDir(i).attempt = 1
          /\ NewDir(i).verdict = "none"
      BY NewDirType DEF NewDir, EmptyDir, Cleared, PlansPr
    <2>4. Cleared(store[r]) = {}
      BY <1>0, <2>1 DEF Founded, Exists, RunDir
    <2> QED BY <1>0, <2>1, <2>2, <2>3, <2>4, WriteRInv, GateSim, IdleSim, PlainReady
  <1>2. ASSUME NEW r \in RunId,
               ReviewIssue(p, r) \/ ReviewPlan(p, r) \/ \E pl \in Plan : PlanRun(p, r, pl)
        PROVE  RInv' /\ Sim
    <2>1. /\ job'[p].step \in {"write_issue_review", "write_plan", "write_plan_review"}
          /\ UNCHANGED store
      <3>1. ASSUME NEW j, Begin(p, j) PROVE job'[p] = j
        BY <1>0, <3>1 DEF Begin
      <3>2. CASE ReviewIssue(p, r)
        BY <3>1, <3>2 DEF ReviewIssue, Idle
      <3>3. CASE ReviewPlan(p, r)
        BY <3>1, <3>3 DEF ReviewPlan, Idle
      <3>4. CASE \E pl \in Plan : PlanRun(p, r, pl)
        BY <3>1, <3>4 DEF PlanRun, Idle
      <3> QED BY <1>2, <3>2, <3>3, <3>4
    <2>2. job'[p].step \in Plain /\ job'[p].step \notin Works
      BY <2>1 DEF Plain, Step, Works
    <2> QED BY <1>0, <2>1, <2>2, IdleSim, StutterSim, QuietRInv, PlainReady
  <1>4. ASSUME NEW r \in RunId, ImplementRun(p, r) PROVE RInv' /\ Sim
    <2>1. /\ job'[p].step = "repair" /\ job'[p].run = r
          /\ UNCHANGED store /\ store[r].planReview.verdict = "approved"
      BY <1>0, <1>4, IdleType DEF ImplementRun, ImplementGate, Begin, Job
    <2>2. job'[p].step \in Plain /\ job'[p].step \in Works
      BY <2>1 DEF Plain, Step, Works
    <2> QED BY <1>0, <2>1, <2>2, BuildSim, QuietRInv, PlainReady
  <1>5. ASSUME NEW r \in RunId, PublishRun(p, r) PROVE RInv' /\ Sim
    <2>1. job'[p].step = "execute" /\ UNCHANGED store
      BY <1>0, <1>5, IdleType DEF PublishRun, Begin, Job
    <2>2. job'[p].step \in Plain /\ job'[p].step \notin Works
      BY <2>1 DEF Plain, Step, Works
    <2> QED BY <1>0, <2>1, <2>2, IdleSim, StutterSim, QuietRInv, PlainReady
  <1> QED BY <1>1, <1>2, <1>4, <1>5 DEF StageCommand

\* What a planning stage by hand has decided opens its gate, closes it, or leaves it.
LEMMA StageWriteChain ==
  ASSUME TInv, TInv', GInv, Current, RInv, NEW p \in Operator, Acts(p),
         WriteIssueReview(p) \/ WritePlan(p) \/ WritePlanReview(p)
  PROVE  RInv' /\ Sim
  <1>1. PICK r, d, v, pl :
          r = job[p].run /\ d = store[r] /\ v = job[p].found /\ pl = job[p].plan
    OBVIOUS
  <1>2. /\ r \in RunId /\ d \in RunDir /\ v \in Review /\ pl \in Plan \union {NoPlan}
        /\ d.attempt > 0 /\ Sound(d) /\ Founded(d) /\ JobOK(store, job[p])
        /\ job[p].step \notin Works
    BY <1>1 DEF TInv, TypeOK, Working, Job, GInv, JobOK, RInv, WriteIssueReview, WritePlan,
                WritePlanReview, At, Works
  <1>3. job'[p].step \in Plain /\ job'[p].step \notin Works
    BY StopFields DEF WriteIssueReview, WritePlan, WritePlanReview, Plain, Step, Works
  <1>4. ASSUME NEW e \in RunDir, Write(r, e), e.attempt = d.attempt,
               e.verdict = "approved" => e.issueReview = "approved",
               \/ Cleared(e) = Cleared(d)
               \/ Cleared(e) = Cleared(d) \union {"issue"}
               \/ d.issueReview = "approved" /\ Cleared(e) = Cleared(d) \union {"plan"}
               \/ Cleared(e) = Cleared(d) \ {"plan"}
        PROVE  RInv' /\ Sim
    BY <1>1, <1>2, <1>3, <1>4, IdleSim, GateSim, WriteRInv, PlainReady
  <1>5. CASE WriteIssueReview(p)
    <2>1. v = IssueVerdict(d)
      BY <1>1, <1>5 DEF Current, WriteIssueReview
    <2>2. Write(r, IssueReviewed(d))
      BY <1>1, <1>5, <2>1 DEF WriteIssueReview, IssueReviewed
    <2>3. /\ IssueReviewed(d).attempt = d.attempt
          /\ IssueReviewed(d).verdict = "approved" => IssueReviewed(d).issueReview = "approved"
      BY <1>2, ReviewedCleared DEF Founded
    <2> QED BY <1>2, <1>4, <2>2, <2>3, ReviewedType, ReviewedCleared
  <1>6. CASE WritePlan(p)
    <2>1. PICK e : e = [d EXCEPT !.plan = pl]
      OBVIOUS
    <2>2. /\ e \in RunDir /\ e.attempt = d.attempt /\ e.verdict = d.verdict
          /\ e.issueReview = d.issueReview /\ Cleared(e) = Cleared(d)
      BY <1>2, <2>1 DEF RunDir, Cleared, PlansPr
    <2>3. Write(r, e)
      BY <1>1, <1>6, <2>1 DEF WritePlan
    <2> QED BY <1>2, <1>4, <2>2, <2>3 DEF Founded
  <1>7. CASE WritePlanReview(p)
    <2>1. PICK x : x = [verdict |-> v, of |-> pl]
      OBVIOUS
    <2>2. PICK e : e = [d EXCEPT !.planReview = x]
      OBVIOUS
    <2>3. x \in PlanReview /\ x.verdict = v
      BY <1>2, <2>1 DEF PlanReview
    <2>4. /\ e \in RunDir /\ e.attempt = d.attempt /\ e.verdict = d.verdict
          /\ e.issueReview = d.issueReview /\ e.publishPlan = d.publishPlan
          /\ e.planReview.verdict = v
      BY <1>2, <2>2, <2>3 DEF RunDir
    <2>5. v = "approved" => d.issueReview = "approved"
      BY <1>1, <1>2, <1>7 DEF WritePlanReview, At, JobOK, Approved
    <2>6. Cleared(e) = IF v = "approved" THEN Cleared(d) \union {"plan"}
                       ELSE Cleared(d) \ {"plan"}
      <3>1. CASE v = "approved"
        BY <2>4, <3>1 DEF Cleared, PlansPr
      <3>2. CASE v # "approved"
        BY <2>4, <3>2 DEF Cleared, PlansPr
      <3> QED BY <3>1, <3>2
    <2>7. Write(r, e)
      BY <1>1, <1>7, <2>1, <2>2 DEF WritePlanReview
    <2> QED BY <1>2, <1>4, <2>4, <2>5, <2>6, <2>7 DEF Founded
  <1> QED BY <1>5, <1>6, <1>7

\* A new directory, cleared of nothing.
LEMMA NewRunChain ==
  ASSUME TInv, TInv', RInv, NEW p \in Operator, Acts(p), NEW r \in RunId, NEW e \in RunDir,
         ~Exists(r), Write(r, e), Cleared(e) = {}, e.attempt > 0,
         job[p].step \notin Works, job'[p].step \notin Works, Ready(store', job'[p])
  PROVE  RInv' /\ Sim
  <1>1. Cleared(store[r]) = {}
    BY DEF TInv, TypeOK, RInv, Founded, Exists, RunDir
  <1>2. e.verdict # "approved"
    BY ClearedGate
  <1> QED BY <1>1, <1>2, WriteRInv, GateSim, IdleSim

LEMMA RepairIssueChain ==
  ASSUME TInv, TInv', GInv, RInv, NEW p \in Operator, Acts(p), RepairIssue(p)
  PROVE  RInv' /\ Sim
  <1>0. /\ store \in [RunId -> RunDir] /\ job \in [Operator -> Job]
        /\ \A s \in RunId : store[s] \in RunDir
        /\ \A i \in Intakes : NewDir(i) \in RunDir /\ Cleared(NewDir(i)) = {}
                              /\ NewDir(i).attempt = 1 /\ NewDir(i).intake = i
    BY NewDirType DEF TInv, TypeOK, NewDir, EmptyDir, Cleared, PlansPr
  <1>1. PICK pl \in Plan \union {NoPlan}, publish \in BOOLEAN, r \in RunId :
          \/ \E i \in Intakes : Fresh(p, r, i, pl, publish)
          \/ \E src \in RunId, i \in Intakes : Retry(p, src, r, i, pl, publish)
          \/ \E src \in RunId, stage \in ResumeStage : Resume(p, src, r, stage, pl, publish)
    BY DEF RepairIssue
  <1>2. job[p].step \notin Works
    BY <1>1 DEF Fresh, Retry, Resume, Issue, At, Works
  <1>3. ASSUME NEW i \in Intakes, Fresh(p, r, i, pl, publish) PROVE RInv' /\ Sim
    <2>1. /\ ~Exists(r) /\ Write(r, NewDir(i))
          /\ job'[p].step = Entry(i, "review_issue") /\ job'[p].run = r
      BY <1>0, <1>3, IdleType DEF Fresh, Begin, Job
    <2>2. store'[r] = NewDir(i)
      BY <1>0, <2>1, WriteType
    <2>3. Ready(store', job'[p]) /\ job'[p].step \notin Works
      BY <1>0, <2>1, <2>2 DEF Ready, Entry, Works
    <2> QED BY <1>0, <1>2, <2>1, <2>3, NewRunChain
  <1>4. ASSUME NEW src \in RunId, NEW i \in Intakes, Retry(p, src, r, i, pl, publish)
        PROVE  RInv' /\ Sim
    <2>1. /\ ~Exists(r) /\ Write(r, NewDir(i))
          /\ job'[p].step \in {"number", "escalate"} /\ job'[p].run = r
      BY <1>0, <1>4, IdleType DEF Retry, Begin, Job
    <2>2. store'[r] = NewDir(i)
      BY <1>0, <2>1, WriteType
    <2>3. Ready(store', job'[p]) /\ job'[p].step \notin Works
      BY <1>0, <2>1, <2>2, ClearedGate DEF Ready, Works
    <2> QED BY <1>0, <1>2, <2>1, <2>3, NewRunChain
  <1>5. ASSUME NEW src \in RunId, NEW stage \in ResumeStage,
               Resume(p, src, r, stage, pl, publish)
        PROVE  RInv' /\ Sim
    <2>1. CASE Exhausted(store[src].attempt + 1)
      <3>1. job'[p].step = "no_intake" /\ UNCHANGED store
        BY <1>0, <1>5, <2>1, IdleType DEF Resume, Begin, Job
      <3>2. job'[p].step \in Plain /\ job'[p].step \notin Works
        BY <3>1 DEF Plain, Step, Works
      <3> QED BY <1>2, <3>1, <3>2, QuietRInv, IdleSim, StutterSim, PlainReady
    <2>2. CASE ~Exhausted(store[src].attempt + 1)
      <3> DEFINE n == store[src].attempt + 1
                 i == store[src].intake
                 e == [EmptyDir EXCEPT !.attempt = n, !.intake = i]
                 plan == IF stage = "review_issue" THEN pl
                         ELSE IF stage = "plan" THEN Carried(src, pl) ELSE NoPlan
                 j == [Idle EXCEPT !.step = "materialise", !.run = r, !.src = src,
                                   !.from = stage, !.plan = plan,
                                   !.publish = publish, !.chain = TRUE]
      <3>1. /\ Exists(src) /\ MayResume(store[src], stage) /\ ~Exists(r)
            /\ Write(r, e) /\ Begin(p, j)
        BY <1>5, <2>2 DEF Resume
      <3>2. /\ j.step = "materialise" /\ j.run = r /\ j.src = src /\ j.from = stage /\ j.n = 0
        <4> HIDE DEF plan
        <4> QED BY DEF Idle
      <3>3. n \in Nat /\ n > 0 /\ i \in Intake
        BY <1>0 DEF RunDir
      <3>4. e \in RunDir /\ e.attempt > 0 /\ Cleared(e) = {}
        <4> HIDE DEF n, i
        <4>1. e \in RunDir /\ e.attempt = n
          BY <3>3, ResumedType DEF EmptyDir
        <4>2. Cleared(e) = {}
          BY DEF EmptyDir, Cleared, PlansPr
        <4> QED BY <3>3, <4>1, <4>2
      <3> HIDE DEF j, e, n, i
      <3>5. job'[p] = j /\ store'[src] = store[src] /\ src # r
        BY <1>0, <3>1, <3>4, WriteType DEF Begin
      <3>6. Ready(store', job'[p]) /\ job'[p].step \notin Works
        BY <3>1, <3>2, <3>5 DEF Ready, Works
      <3> QED BY <1>2, <3>1, <3>4, <3>6, NewRunChain
    <2> QED BY <2>1, <2>2
  <1> QED BY <1>1, <1>3, <1>4, <1>5

-----------------------------------------------------------------------------
(* Retrying and resuming.                                                  *)

\* What acting on a job says about its run.
LEMMA AtWork ==
  ASSUME TInv, GInv, RInv, NEW p \in Operator, job[p].step \notin {"idle", "no_intake"}
  PROVE  /\ job[p] \in Job /\ job[p].run \in RunId
         /\ store[job[p].run] \in RunDir /\ store[job[p].run].attempt > 0
         /\ Sound(store[job[p].run]) /\ Founded(store[job[p].run])
         /\ JobOK(store, job[p]) /\ Ready(store, job[p])
  BY DEF TInv, TypeOK, Working, GInv, JobOK, RInv

\* The run is written, its gates stay, and the job goes on outside implement.
LEMMA SameGatesChain ==
  ASSUME TInv, TInv', GInv, RInv, NEW p \in Operator, Acts(p),
         job[p].step \notin {"idle", "no_intake"},
         NEW e \in RunDir, Write(job[p].run, e), e.attempt > 0,
         Cleared(e) = Cleared(store[job[p].run]),
         job[p].step \in Works <=> job'[p].step \in Works,
         job'[p].step \in Works => job'[p].run = job[p].run,
         Ready(store', job'[p])
  PROVE  RInv' /\ Sim
  <1>1. e.verdict = "approved" => e.issueReview = "approved"
    BY AtWork, ClearedGate DEF Founded
  <1>2. Building' = Building
    BY IdleSim, BusySim
  <1> QED BY <1>1, <1>2, AtWork, WriteRInv, GateSim

LEMMA QuietChain ==
  ASSUME TInv, TInv', RInv, NEW p \in Operator, Acts(p), UNCHANGED store,
         job[p].step \notin Works, job'[p].step \notin Works, Ready(store, job'[p])
  PROVE  RInv' /\ Sim
  BY QuietRInv, IdleSim, StutterSim

LEMMA RetryStepChain ==
  ASSUME TInv, TInv', GInv, RInv, NEW p \in Operator, Acts(p),
         NumberAttempt(p) \/ Escalate(p) \/ Enter(p) \/ ReportBlocked(p)
  PROVE  RInv' /\ Sim
  <1> DEFINE r == job[p].run
             d == store[r]
  <1>0. /\ job[p].step \notin {"idle", "no_intake"} /\ job[p].step \notin Works
    BY DEF NumberAttempt, Escalate, Enter, ReportBlocked, At, Works
  <1>00. /\ job[p] \in Job /\ r \in RunId /\ d \in RunDir /\ d.attempt > 0
         /\ Sound(d) /\ Founded(d) /\ JobOK(store, job[p]) /\ Ready(store, job[p])
         /\ store \in [RunId -> RunDir]
    BY <1>0, AtWork DEF TInv, TypeOK
  <1>1. CASE NumberAttempt(p)
    <2> DEFINE n == job[p].n
               step == Entry(d.intake, "review_issue")
               e == [d EXCEPT !.attempt = n]
    <2>1. Write(r, e) /\ Go(p, step) /\ n \in Nat /\ n > 0
      BY <1>00, <1>1 DEF NumberAttempt, At, JobOK, Job
    <2>2. e \in RunDir /\ e.attempt = n /\ e.intake = d.intake /\ Cleared(e) = Cleared(d)
      <3> HIDE DEF n, d
      <3> QED BY <1>00, <2>1 DEF RunDir, Cleared, PlansPr
    <2>3. step \in {"review_issue", "report"} /\ (step = "report" => d.intake = "blocked")
      BY DEF Entry
    <2> HIDE DEF e, step
    <2>4. store'[r] = e /\ job'[p].step = step /\ job'[p].run = r
      BY <1>00, <2>1, <2>2, WriteType, GoFields
    <2>5. Ready(store', job'[p]) /\ job'[p].step \notin Works
      BY <2>2, <2>3, <2>4 DEF Ready, Works
    <2> QED BY <1>0, <1>00, <2>1, <2>2, <2>5, SameGatesChain
  <1>2. CASE Escalate(p)
    <2> DEFINE n == job[p].n
               pl == job[p].plan
               e == [d EXCEPT !.attempt = n, !.plan = pl, !.repair = "escalated",
                              !.verdict = "blocked", !.publishPlan = "issue"]
    <2>1. /\ Write(r, e) /\ Go(p, "execute") /\ n \in Nat /\ n > 0
          /\ pl \in Plan \union {NoPlan} /\ d.verdict # "approved" /\ ~PlansPr(d)
      BY <1>00, <1>2 DEF Escalate, At, JobOK, Job, Ready
    <2>2. e \in RunDir /\ e.attempt = n /\ Cleared(e) = Cleared(d)
      <3> HIDE DEF n, d, pl
      <3>1. e \in RunDir  BY <1>00, <2>1, ClosedType
      <3>2. e.attempt = n /\ Cleared(e) = Cleared(d)
        BY <1>00, <2>1 DEF RunDir, Cleared, PlansPr
      <3> QED BY <3>1, <3>2
    <2> HIDE DEF e
    <2>3. job'[p].step \in Plain /\ job'[p].step \notin Works
      BY <2>1, GoFields DEF Plain, Step, Works
    <2> QED BY <1>0, <1>00, <2>1, <2>2, <2>3, PlainReady, SameGatesChain
  <1>3. CASE ReportBlocked(p)
    <2> DEFINE e == [d EXCEPT !.verdict = "blocked", !.publishPlan = "issue"]
    <2>1. Write(r, e) /\ Go(p, "execute") /\ d.intake = "blocked"
      BY <1>00, <1>3 DEF ReportBlocked, At, Ready
    <2>2. e \in RunDir /\ e.attempt = d.attempt /\ Cleared(e) = Cleared(d)
      <3> HIDE DEF d
      <3>1. e \in RunDir /\ e.attempt = d.attempt  BY <1>00 DEF RunDir
      <3>2. /\ d.issueReview # "approved" /\ d.planReview.verdict # "approved"
            /\ d.verdict # "approved" /\ ~PlansPr(d)
        BY <1>00, <2>1 DEF Sound, Founded
      <3>3. /\ e.issueReview = d.issueReview /\ e.planReview = d.planReview
            /\ e.verdict # "approved" /\ ~PlansPr(e)
        BY <1>00 DEF RunDir, PlansPr
      <3> QED BY <3>1, <3>2, <3>3 DEF Cleared
    <2> HIDE DEF e
    <2>3. job'[p].step \in Plain /\ job'[p].step \notin Works
      BY <2>1, GoFields DEF Plain, Step, Works
    <2> QED BY <1>0, <1>00, <2>1, <2>2, <2>3, PlainReady, SameGatesChain
  <1>4. CASE Enter(p)
    <2>1. CASE Stop(p)
      <3>1. job'[p].step \in Plain /\ job'[p].step \notin Works /\ UNCHANGED store
        BY <1>4, <2>1, StopFields DEF Enter, Plain, Step, Works
      <3> QED BY <1>0, <3>1, PlainReady, QuietChain
    <2>2. CASE ~Stop(p)
      <3>1. /\ job'[p].step = Entry(d.intake, job[p].from) /\ job'[p].run = r
            /\ job[p].from = "publish" => job'[p].outcome = Reloaded
            /\ UNCHANGED store /\ job[p].from \in ResumeStage
            /\ d.intake = "blocked" \/ CopiesLoad(d, job[p].from)
            /\ job[p].step = "materialise" /\ job[p].n = Len(Preserved[job[p].from])
        BY <1>00, <1>4, <2>2 DEF Enter, At, TInv, TypeOK, Job
      <3>2. job'[p].step \in ResumeStage \union {"report"} /\ job'[p].step \notin Works
        BY <3>1 DEF Entry, ResumeStage, Works
      <3>3. job'[p].step = "report" => d.intake = "blocked"
        BY <3>1 DEF Entry, ResumeStage
      <3>4. job'[p].step = "publish" => d.verdict = "approved" /\ Approves(d, job'[p].outcome)
        <4>1. SUFFICES ASSUME job'[p].step = "publish"
                       PROVE  d.verdict = "approved" /\ Approves(d, job'[p].outcome)
          OBVIOUS
        <4>2. job[p].from = "publish" /\ d.intake # "blocked"  BY <3>1, <4>1 DEF Entry
        <4>3. Len(Preserved["publish"]) = 10
          BY DEF Preserved, ResumeStage
        <4>4. d.attempt \in d.dlog
          BY <1>00, <3>1, <4>2, <4>3 DEF Ready
        <4>5. d.verdict = "approved"
          BY <3>1, <4>2 DEF CopiesLoad
        <4> QED BY <3>1, <4>2, <4>4, <4>5 DEF Approves, Reloaded
      <3>5. Ready(store, job'[p])
        BY <3>1, <3>2, <3>3, <3>4 DEF Ready, ResumeStage
      <3> QED BY <1>0, <3>1, <3>2, <3>5, QuietChain
    <2> QED BY <2>1, <2>2
  <1> QED BY <1>1, <1>2, <1>3, <1>4

\* Where the evidence stands in the order of copying.
LEMMA EvidenceOrder ==
  ASSUME NEW stage \in ResumeStage, NEW k \in 1..Len(Preserved[stage])
  PROVE  /\ Preserved[stage][k] = "verdict" => stage = "publish" /\ k = 7
         /\ Preserved[stage][k] = "publishPlan" => stage = "review_impl"
         /\ stage = "publish" => (Preserved[stage][k] = "dlog" <=> k = 8)
         /\ stage = "publish" => (Preserved[stage][k] = "tree" <=> k = 9)
         /\ stage = "publish" => (Preserved[stage][k] = "workspace" <=> k = 10)
         /\ stage = "publish" => (Preserved[stage][k] = "repair" <=> k = 5)
         /\ Preserved[stage][k] \in {"repair", "qa", "dlog", "tree", "workspace"}
              => stage = "publish"
         /\ Preserved[stage][k] = "publishResult" => stage = "review_impl"
         /\ k = 4 => stage \in {"implement", "publish", "review_impl"}
  <1>1. CASE stage \notin {"publish", "review_impl"}
    <2>1. Len(Preserved[stage]) <= 4
      BY <1>1 DEF Preserved, ResumeStage
    <2>2. Len(Preserved[stage]) = 4 => stage = "implement"
      BY <1>1 DEF Preserved, ResumeStage
    <2>3. Preserved[stage][k] \in {"draft", "issueReview", "plan", "planReview"}
      BY <2>1, PreservedOrder
    <2>4. k = 4 => stage = "implement"
      <3>1. PICK n : n = Len(Preserved[stage])
        OBVIOUS
      <3>2. n \in 1..10 /\ n <= 4 /\ k \in 1..n /\ (n = 4 => stage = "implement")
        BY <2>1, <2>2, <3>1, PreservedOrder
      <3> QED BY <3>2
    <2> QED BY <1>1, <2>3, <2>4
  <1>2. CASE stage = "publish"
    <2> DEFINE s == Preserved[stage]
    <2>1. s = <<"draft", "issueReview", "plan", "planReview",
                "repair", "qa", "verdict", "dlog", "tree", "workspace">>
      BY <1>2 DEF Preserved, ResumeStage
    <2>2. k \in 1..10
      BY <2>1
    <2>3. /\ s[1] = "draft" /\ s[2] = "issueReview" /\ s[3] = "plan" /\ s[4] = "planReview"
          /\ s[5] = "repair" /\ s[6] = "qa" /\ s[7] = "verdict" /\ s[8] = "dlog"
          /\ s[9] = "tree" /\ s[10] = "workspace"
      BY <2>1
    <2> HIDE DEF s
    <2>4. k \in {1, 2, 3, 4, 5, 6, 7, 8, 9, 10}
      BY <2>2
    <2> QED BY <1>2, <2>3, <2>4 DEF s
  <1>3. CASE stage = "review_impl"
    <2> DEFINE s == Preserved[stage]
    <2>1. s = <<"draft", "issueReview", "plan", "planReview", "publishPlan", "publishResult">>
      BY <1>3 DEF Preserved, ResumeStage
    <2>2. k \in 1..6
      BY <2>1
    <2>3. /\ s[1] = "draft" /\ s[2] = "issueReview" /\ s[3] = "plan" /\ s[4] = "planReview"
          /\ s[5] = "publishPlan" /\ s[6] = "publishResult"
      BY <2>1
    <2> HIDE DEF s
    <2>4. k \in {1, 2, 3, 4, 5, 6}
      BY <2>2
    <2> QED BY <1>3, <2>3, <2>4 DEF s
  <1> QED BY <1>1, <1>2, <1>3

LEMMA CopyEvidence ==
  ASSUME NEW d \in RunDir, NEW s \in RunDir, NEW a \in Artifact
  PROVE  LET e == CopyArtifact(d, s, a)
         IN  /\ e.verdict = IF a = "verdict" THEN s.verdict ELSE d.verdict
             /\ e.repair = IF a = "repair" THEN s.repair ELSE d.repair
             /\ a \notin {"tree", "workspace"} => e.workspace = d.workspace
             /\ a # "dlog" => e.dlog = d.dlog
             /\ a = "dlog" /\ s.attempt \in s.dlog => e.dlog = {d.attempt}
  <1>1. CASE a = "dlog"
    BY <1>1 DEF CopyArtifact, RunDir
  <1>2. CASE a \in {"tree", "workspace"}
    <2>1. PICK w : CopyArtifact(d, s, a) = [d EXCEPT !.workspace = w]
      BY <1>2, TreeCopied DEF CopyArtifact
    <2> QED BY <1>2, <2>1 DEF RunDir
  <1>3. CASE a \notin {"dlog", "tree", "workspace"}
    BY <1>3 DEF CopyArtifact, RunDir, Artifact
  <1> QED BY <1>1, <1>2, <1>3

\* A workspace there is begins in parts, and ends as what the source has.
LEMMA CopyWorkspace ==
  ASSUME NEW d \in RunDir, NEW s \in RunDir
  PROVE  /\ s.workspace # "none" => CopyArtifact(d, s, "tree").workspace = "partial"
         /\ d.workspace = "partial" => CopyArtifact(d, s, "workspace").workspace = s.workspace
  BY DEF CopyArtifact, CopyTree, RunDir

LEMMA Copied ==
  ASSUME NEW d \in RunDir, NEW s \in RunDir, NEW a \in Artifact,
         NEW e, e = CopyArtifact(d, s, a)
  PROVE  /\ e.attempt = d.attempt
         /\ e.issueReview = IF a = "issueReview" THEN s.issueReview ELSE d.issueReview
         /\ e.planReview = IF a = "planReview" THEN s.planReview ELSE d.planReview
         /\ e.publishPlan = IF a = "publishPlan" THEN s.publishPlan ELSE d.publishPlan
         /\ e.verdict = IF a = "verdict" THEN s.verdict ELSE d.verdict
         /\ e.repair = IF a = "repair" THEN s.repair ELSE d.repair
         /\ a \notin {"tree", "workspace"} => e.workspace = d.workspace
         /\ a = "tree" /\ s.workspace # "none" => e.workspace = "partial"
         /\ a = "workspace" /\ d.workspace = "partial" => e.workspace = s.workspace
         /\ a # "dlog" => e.dlog = d.dlog
         /\ a = "dlog" /\ s.attempt \in s.dlog => e.dlog = {d.attempt}
  <1>1. /\ e.attempt = d.attempt
        /\ e.issueReview = IF a = "issueReview" THEN s.issueReview ELSE d.issueReview
        /\ e.planReview = IF a = "planReview" THEN s.planReview ELSE d.planReview
        /\ e.publishPlan = IF a = "publishPlan" THEN s.publishPlan ELSE d.publishPlan
    BY CopyFields
  <1>2. /\ e.verdict = IF a = "verdict" THEN s.verdict ELSE d.verdict
        /\ e.repair = IF a = "repair" THEN s.repair ELSE d.repair
        /\ a \notin {"tree", "workspace"} => e.workspace = d.workspace
        /\ a # "dlog" => e.dlog = d.dlog
        /\ a = "dlog" /\ s.attempt \in s.dlog => e.dlog = {d.attempt}
    BY CopyEvidence
  <1>3. /\ a = "tree" /\ s.workspace # "none" => e.workspace = "partial"
        /\ a = "workspace" /\ d.workspace = "partial" => e.workspace = s.workspace
    BY CopyWorkspace
  <1> QED BY <1>1, <1>2, <1>3

\* The copy that p makes next, of artifact a from s into d, which becomes e.
CopyStep(p, d, s, a, e) ==
  LET j == job[p]
  IN  /\ d = store[j.run] /\ s = store[j.src] /\ a = Preserved[j.from][j.n + 1]
      /\ e = CopyArtifact(d, s, a)

LEMMA CopyStepFacts ==
  ASSUME TInv, TInv', GInv, RInv, NEW p \in Operator, Materialise(p), Copies(p),
         NEW d, NEW s, NEW a, NEW e, CopyStep(p, d, s, a, e)
  PROVE  /\ job[p] \in Job /\ job[p].step = "materialise" /\ job[p].n \in Nat
         /\ job[p].n + 1 \in 1..Len(Preserved[job[p].from]) /\ job[p].from \in ResumeStage
         /\ job[p].run \in RunId /\ job[p].src \in RunId /\ job[p].src # job[p].run
         /\ d \in RunDir /\ s \in RunDir /\ e \in RunDir /\ a \in Artifact
         /\ Write(job[p].run, e) /\ store'[job[p].run] = e /\ store'[job[p].src] = s
         /\ job'[p].step = "materialise" /\ job'[p].run = job[p].run
         /\ job'[p].src = job[p].src /\ job'[p].from = job[p].from
         /\ job'[p].n = job[p].n + 1
  <1> DEFINE j == job[p]
  <1>1. /\ j \in Job /\ j.step = "materialise" /\ j.run \in RunId /\ j.src \in RunId
        /\ d \in RunDir /\ s \in RunDir /\ j.n \in Nat /\ j.from \in ResumeStage
        /\ j.src # j.run /\ store \in [RunId -> RunDir]
    BY DEF TInv, TypeOK, Working, GInv, JobOK, Copying, Materialise, At, CopyStep, Job
  <1>2. /\ j.n < Len(Preserved[j.from]) /\ Write(j.run, e)
        /\ job'[p] = [j EXCEPT !.n = j.n + 1]
    BY <1>1 DEF Materialise, Copies, TInv, TypeOK, CopyStep
  <1>3. j.n + 1 \in 1..Len(Preserved[j.from])
    BY <1>1, <1>2, PreservedOrder
  <1>4. a \in Artifact /\ e \in RunDir
    BY <1>1, <1>3, PreservedOrder, CopyType DEF CopyStep
  <1>5. store'[j.run] = e /\ store'[j.src] = s
    BY <1>1, <1>2, <1>4, WriteType DEF CopyStep
  <1>6. /\ job'[p].step = "materialise" /\ job'[p].run = j.run /\ job'[p].src = j.src
        /\ job'[p].from = j.from /\ job'[p].n = j.n + 1
    BY <1>1, <1>2 DEF Job
  <1> QED BY <1>1, <1>2, <1>3, <1>4, <1>5, <1>6

LEMMA CopyChain ==
  ASSUME TInv, TInv', GInv, RInv, NEW p \in Operator, Acts(p), Materialise(p), Copies(p)
  PROVE  RInv' /\ Sim
  <1>1. PICK d, s, a, e : CopyStep(p, d, s, a, e)
    BY DEF CopyStep
  <1>2. PICK j : j = job[p]
    OBVIOUS
  <1>3. /\ j \in Job /\ j.step = "materialise" /\ j.n \in Nat
        /\ j.n + 1 \in 1..Len(Preserved[j.from]) /\ j.from \in ResumeStage
        /\ j.run \in RunId /\ j.src \in RunId
        /\ d \in RunDir /\ s \in RunDir /\ e \in RunDir /\ a \in Artifact
        /\ Write(j.run, e) /\ store'[j.run] = e /\ store'[j.src] = s
        /\ job'[p].step = "materialise" /\ job'[p].run = j.run /\ job'[p].src = j.src
        /\ job'[p].from = j.from /\ job'[p].n = j.n + 1
    BY <1>1, <1>2, CopyStepFacts
  <1>4. /\ d = store[j.run] /\ s = store[j.src] /\ Sound(d) /\ Founded(d) /\ d.attempt > 0
        /\ a = Preserved[j.from][j.n + 1] /\ e = CopyArtifact(d, s, a)
        /\ MayResume(s, j.from)
        /\ j.from \in {"implement", "publish"} /\ j.n >= 4 => d.planReview.verdict = "approved"
        /\ j.from = "publish" /\ j.n >= 8 => d.attempt \in d.dlog
        /\ Copying(store, j)
    BY <1>1, <1>2, <1>3 DEF CopyStep, GInv, RInv, JobOK, Ready
  <1>5. /\ e.attempt = d.attempt
        /\ e.issueReview = IF a = "issueReview" THEN s.issueReview ELSE d.issueReview
        /\ e.planReview = IF a = "planReview" THEN s.planReview ELSE d.planReview
        /\ e.publishPlan = IF a = "publishPlan" THEN s.publishPlan ELSE d.publishPlan
        /\ e.verdict = IF a = "verdict" THEN s.verdict ELSE d.verdict
        /\ a # "dlog" => e.dlog = d.dlog
        /\ a = "dlog" /\ s.attempt \in s.dlog => e.dlog = {d.attempt}
    <2>1. d \in RunDir /\ s \in RunDir /\ a \in Artifact /\ e = CopyArtifact(d, s, a)
      BY <1>3, <1>4
    <2> QED BY <2>1, Copied
  <1>6. /\ a = "issueReview" => s.issueReview = "approved"
        /\ a \in {"planReview", "verdict", "publishPlan"} =>
             d.issueReview = "approved"
    <2>1. j.from # "review_issue" \/ a = "draft"
      BY <1>3, <1>4, PreservedOrder DEF Preserved, ResumeStage
    <2>2. a \in {"planReview", "verdict", "publishPlan"} => j.n >= 2
      BY <1>3, <1>4, PreservedOrder
    <2> QED BY <1>4, <2>1, <2>2 DEF Copying
  <1>7. /\ a = "verdict" => j.from = "publish" /\ j.n = 6
        /\ a = "publishPlan" => j.from = "review_impl"
        /\ j.n = 3 => a = "planReview"
        /\ a = "planReview" => j.n = 3
        /\ j.from = "publish" => (a = "dlog" <=> j.n = 7)
    BY <1>3, <1>4, EvidenceOrder, PreservedOrder
  <1>8. /\ a = "verdict" => s.verdict = "approved" /\ d.planReview.verdict = "approved"
        /\ a = "publishPlan" => PlansPr(s)
        /\ j.from \in {"implement", "publish"} => s.planReview.verdict = "approved"
        /\ j.from = "publish" => s.attempt \in s.dlog
    BY <1>3, <1>4, <1>7 DEF MayResume, PlansPr
  <1>9. e.verdict = "approved" => e.issueReview = "approved"
    BY <1>4, <1>5, <1>6 DEF Founded
  <1>10. Ready(store', job'[p])
    <2>1. j.from \in {"implement", "publish"} /\ j.n + 1 >= 4 => e.planReview.verdict = "approved"
      BY <1>3, <1>4, <1>5, <1>7, <1>8
    <2>2. j.from = "publish" /\ j.n + 1 >= 8 => e.attempt \in e.dlog
      BY <1>3, <1>4, <1>5, <1>7, <1>8
    <2> QED BY <1>3, <1>4, <2>1, <2>2 DEF Ready
  <1>11. RInv'
    BY <1>3, <1>4, <1>5, <1>9, <1>10, WriteRInv
  <1>12. Building' = Building
    BY <1>2, <1>3, IdleSim DEF Works
  <1>13. CASE a \notin {"issueReview", "planReview", "verdict", "publishPlan"}
    <2>1. Cleared(e) = Cleared(d)
      BY <1>5, <1>13 DEF Cleared, PlansPr
    <2> QED BY <1>3, <1>4, <1>11, <1>12, <2>1, GateSim
  <1>14. CASE a = "issueReview"
    <2>1. Cleared(e) = Cleared(d) \union {"issue"}
      BY <1>5, <1>6, <1>14 DEF Cleared, PlansPr
    <2> QED BY <1>3, <1>4, <1>11, <1>12, <2>1, GateSim
  <1>15. CASE a = "planReview"
    <2>1. Cleared(e) = Cleared(d) \union {"plan"} \/ Cleared(e) = Cleared(d) \ {"plan"}
      <3>1. CASE s.planReview.verdict = "approved"
        BY <1>5, <1>15, <3>1 DEF Cleared, PlansPr
      <3>2. CASE s.planReview.verdict # "approved"
        BY <1>5, <1>15, <3>2 DEF Cleared, PlansPr
      <3> QED BY <3>1, <3>2
    <2> QED BY <1>3, <1>4, <1>6, <1>11, <1>12, <1>15, <2>1, GateSim
  <1>16. CASE a = "verdict"
    <2>1. Cleared(e) = Cleared(d) \union {"verdict"}
      BY <1>5, <1>8, <1>16 DEF Cleared, PlansPr
    <2> QED BY <1>3, <1>4, <1>6, <1>8, <1>11, <1>12, <1>16, <2>1, GateSim
  <1>17. CASE a = "publishPlan"
    <2>1. Cleared(e) = Cleared(d) \union {"publish"}
      BY <1>5, <1>8, <1>17 DEF Cleared, PlansPr
    <2> QED BY <1>3, <1>4, <1>6, <1>8, <1>11, <1>12, <1>17, <2>1, GateSim
  <1> QED BY <1>13, <1>14, <1>15, <1>16, <1>17

LEMMA MaterialiseChain ==
  ASSUME TInv, TInv', GInv, RInv, NEW p \in Operator, Acts(p), Materialise(p)
  PROVE  RInv' /\ Sim
  <1>1. CASE Copies(p)
    BY <1>1, CopyChain
  <1>2. CASE ~Copies(p)
    <2>1. UNCHANGED store /\ Stop(p) /\ job[p].step \notin Works
      BY <1>2 DEF Materialise, Copies, At, Works
    <2>2. job'[p].step \in Plain \ Works
      BY <2>1, StopFields DEF Plain, Step, Works
    <2> QED BY <2>1, <2>2, PlainReady, QuietChain
  <1> QED BY <1>1, <1>2

-----------------------------------------------------------------------------
(* The stages of the chain.                                                *)

\* The run is written, one gate opens, and nothing is being built.
LEMMA GateChain ==
  ASSUME TInv, TInv', GInv, RInv, NEW p \in Operator, Acts(p),
         job[p].step \notin {"idle", "no_intake"}, job[p].step \notin Works,
         job'[p].step \in Plain \ Works,
         NEW e \in RunDir, Write(job[p].run, e),
         \/ e = IssueReviewed(store[job[p].run])
         \/ e = PlanReviewed(store[job[p].run])
  PROVE  RInv' /\ Sim
  <1> DEFINE d == store[job[p].run]
  <1>1. job[p].run \in RunId /\ d \in RunDir /\ d.attempt > 0 /\ Sound(d) /\ Founded(d)
    BY AtWork
  <1>2. Building' = Building
    BY IdleSim
  <1>3. /\ e.attempt > 0
        /\ e.verdict = "approved" => e.issueReview = "approved"
    BY <1>1, ReviewedCleared DEF Founded
  <1>4. \/ Cleared(e) = Cleared(d)
        \/ Cleared(e) = Cleared(d) \union {"issue"}
        \/ d.issueReview = "approved" /\ Cleared(e) = Cleared(d) \union {"plan"}
        \/ Cleared(e) = Cleared(d) \ {"plan"}
    BY <1>1, ReviewedCleared
  <1>5. Sim
    BY <1>1, <1>2, <1>4, GateSim
  <1> QED BY <1>1, <1>3, <1>5, WriteRInv, PlainReady

LEMMA ChainStepChain ==
  ASSUME TInv, TInv', GInv, RInv, NEW p \in Operator, Acts(p),
         \/ ChainReviewIssue(p) \/ ChainPlan(p) \/ ChainReviewPlan(p) \/ ChainImplement(p)
  PROVE  RInv' /\ Sim
  <1> DEFINE r == job[p].run
             d == store[r]
  <1>0. job[p].step \notin {"idle", "no_intake"} /\ job[p].step \notin Works
    BY DEF ChainReviewIssue, ChainPlan, ChainReviewPlan, ChainImplement, At, Works
  <1>00. /\ job[p] \in Job /\ r \in RunId /\ d \in RunDir /\ d.attempt > 0
         /\ Sound(d) /\ Founded(d)
    BY <1>0, AtWork
  <1>000. /\ {"idle", "plan", "review_plan", "implement"} \subseteq Plain \ Works
          /\ "repair" \in Plain \intersect Works
    BY DEF Plain, Step, ResumeStage, Works
  <1>1. CASE ChainReviewIssue(p)
    <2>1. Write(r, IssueReviewed(d)) /\ (Go(p, "plan") \/ Stop(p))
      BY <1>1 DEF ChainReviewIssue
    <2> QED BY <1>0, <1>00, <1>000, <2>1, ReviewedType, GoFields, StopFields, GateChain
  <1>2. CASE ChainReviewPlan(p)
    <2>1. Write(r, PlanReviewed(d)) /\ (Go(p, "implement") \/ Stop(p))
      BY <1>2 DEF ChainReviewPlan
    <2> QED BY <1>0, <1>00, <1>000, <2>1, ReviewedType, GoFields, StopFields, GateChain
  <1>3. CASE ChainPlan(p)
    <2>1. job'[p].step \in Plain \ Works
      <3>1. Stop(p) \/ Go(p, "review_plan")
        BY <1>3 DEF ChainPlan
      <3> QED BY <1>000, <3>1, GoFields, StopFields
    <2>2. CASE UNCHANGED store
      BY <1>0, <2>1, <2>2, PlainReady, QuietChain
    <2>3. CASE ~UNCHANGED store
      <3> DEFINE pl == job[p].plan
                 e == IF pl = NoPlan THEN d ELSE [d EXCEPT !.plan = pl]
      <3>1. Write(r, e)  BY <1>3, <2>3 DEF ChainPlan
      <3>2. e \in RunDir /\ e.attempt = d.attempt /\ Cleared(e) = Cleared(d)
        <4>1. pl \in Plan \union {NoPlan}  BY <1>00 DEF Job
        <4> HIDE DEF d, pl
        <4> QED BY <1>00, <4>1 DEF RunDir, Cleared, PlansPr
      <3> HIDE DEF e
      <3> QED BY <1>0, <1>00, <2>1, <3>1, <3>2, PlainReady, SameGatesChain
    <2> QED BY <2>2, <2>3
  <1>4. CASE ChainImplement(p)
    <2>1. CASE ImplementGate(d)
      <3>1. Go(p, "repair") /\ UNCHANGED store  BY <1>4, <2>1 DEF ChainImplement
      <3>2. d.planReview.verdict = "approved"  BY <2>1 DEF ImplementGate
      <3>3. job'[p].step \in Plain /\ job'[p].step \in Works /\ job'[p].run = r
        BY <1>000, <3>1, GoFields
      <3> QED BY <1>0, <1>00, <3>1, <3>2, <3>3, PlainReady, QuietRInv, BuildSim
    <2>2. CASE ~ImplementGate(d)
      <3>1. Stop(p) /\ UNCHANGED store  BY <1>4, <2>2 DEF ChainImplement
      <3>2. job'[p].step \in Plain \ Works  BY <1>000, <3>1, StopFields
      <3> QED BY <1>0, <3>1, <3>2, PlainReady, QuietChain
    <2> QED BY <2>1, <2>2
  <1> QED BY <1>1, <1>2, <1>3, <1>4

\* A verdict on run r, which p is building.
LEMMA VerdictSim ==
  ASSUME TInv, NEW p \in Operator, Acts(p), NEW r \in RunId, NEW e \in RunDir,
         Write(r, e), job[p].step \in Works, job[p].run = r, job'[p].step \notin Works,
         \/ Cleared(e) = Cleared(store[r]) \union {"verdict"}
         \/ Cleared(e) = Cleared(store[r]) \ {"verdict"}
  PROVE  Sim
  <1>1. r \in Building /\ Building' \in {Building, Building \ {r}}
    BY EndsBuilding DEF Acts
  <1>2. Gates!Judge(r)
    BY <1>1, WriteGates DEF Gates!Judge
  <1> QED BY <1>2 DEF Sim, Gates!Next

LEMMA ImplementStepChain ==
  ASSUME TInv, TInv', GInv, RInv, NEW p \in Operator, Acts(p),
         Repair(p) \/ RecordRepair(p) \/ Judge(p)
  PROVE  RInv' /\ Sim
  <1> DEFINE r == job[p].run
             d == store[r]
             o == job[p].outcome
  <1>0. job[p].step \notin {"idle", "no_intake"} /\ job[p].step \in Works
    BY DEF Repair, RecordRepair, Judge, At, Works
  <1>00. /\ job[p] \in Job /\ r \in RunId /\ d \in RunDir /\ d.attempt > 0
         /\ Founded(d) /\ d.issueReview = "approved" /\ d.intake # "blocked"
    BY <1>0, AtWork DEF Works, JobOK, Approved, Sound
  <1>000. {"record", "judge"} \subseteq Plain \intersect Works
    BY DEF Plain, Step, Works
  <1>1. CASE Repair(p)
    <2>1. PICK x \in Outcomes :
            /\ job' = [job EXCEPT ![p].outcome = x,
                                  ![p].step = IF x.repair = "none" THEN "judge" ELSE "record"]
            /\ Write(r, IF x.repair = "none" THEN d ELSE [d EXCEPT !.workspace = "unjudged"])
      BY <1>1 DEF Repair
    <2>2. job'[p].step \in Plain \intersect Works /\ job'[p].run = r
      BY <1>00, <1>000, <2>1 DEF TInv, TypeOK, Job
    <2>3. PICK e : Write(r, e) /\ e \in {d, [d EXCEPT !.workspace = "unjudged"]}
      BY <2>1
    <2>4. e \in RunDir /\ e.attempt = d.attempt /\ Cleared(e) = Cleared(d)
      <3> HIDE DEF d
      <3> QED BY <1>00, <2>3 DEF RunDir, Workspace, Cleared, PlansPr
    <2> QED BY <1>0, <1>00, <2>2, <2>3, <2>4, PlainReady, SameGatesChain
  <1>2. CASE RecordRepair(p)
    <2> DEFINE q == d.qa \/ o.qa
               l == IF o.repair = "completed" THEN d.dlog \union {d.attempt} ELSE d.dlog
               e == [d EXCEPT !.repair = o.repair, !.qa = q, !.dlog = l]
    <2>1. Write(r, e) /\ Go(p, "judge")
      BY <1>2 DEF RecordRepair
    <2>2. e.attempt = d.attempt /\ Cleared(e) = Cleared(d)
      <3> HIDE DEF d, q, l
      <3> QED BY <1>00 DEF RunDir, Cleared, PlansPr
    <2> HIDE DEF e
    <2>3. e \in RunDir
      BY <1>00, <2>1 DEF Write, TInv, TypeOK
    <2>4. job'[p].step \in Plain \intersect Works /\ job'[p].run = r
      BY <1>000, <2>1, GoFields
    <2> QED BY <1>0, <1>00, <2>1, <2>2, <2>3, <2>4, PlainReady, SameGatesChain
  <1>3. CASE Judge(p)
    <2> DEFINE v == IF Approves(d, o) THEN "approved" ELSE "blocked"
               w == IF d.workspace \in {"none", "partial"} THEN d.workspace
                    ELSE IF o.repair = "none" THEN "unjudged" ELSE "judged"
               e == [d EXCEPT !.verdict = v, !.workspace = w]
    <2>1. /\ Write(r, e)
          /\ Stop(p) \/ (Go(p, "publish") /\ Approves(d, o))
      BY <1>3 DEF Judge
    <2>2. /\ e.attempt = d.attempt /\ e.issueReview = d.issueReview /\ e.verdict = v
          /\ e.intake = d.intake /\ e.dlog = d.dlog
          /\ v = "approved" => Cleared(e) = Cleared(d) \union {"verdict"}
          /\ v = "blocked" => Cleared(e) = Cleared(d) \ {"verdict"}
      <3>1. v \in {"approved", "blocked"}
        OBVIOUS
      <3> HIDE DEF d, v, w
      <3> QED BY <1>00, <3>1 DEF RunDir, Cleared, PlansPr
    <2>3. (v = "approved" \/ v = "blocked") /\ (Approves(d, o) => v = "approved")
      OBVIOUS
    <2>4. Approves(d, o) => Approves(e, o)
      <3> HIDE DEF d, e, v
      <3> QED BY <2>2 DEF Approves
    <2> HIDE DEF e, v
    <2>5. e \in RunDir /\ store'[r] = e
      BY <1>00, <2>1 DEF Write, TInv, TypeOK
    <2>6. /\ job'[p].step \in {"idle", "publish"} /\ job'[p].step \notin Works
          /\ job'[p].step = "publish" =>
               Approves(d, o) /\ job'[p].run = r /\ job'[p].outcome = o
      BY <1>00, <2>1 DEF Works, Go, Stop, Idle, TInv, TypeOK, Job
    <2>7. Ready(store', job'[p])
      BY <2>2, <2>3, <2>4, <2>5, <2>6 DEF Ready
    <2>8. RInv'
      BY <1>00, <2>1, <2>2, <2>5, <2>7, WriteRInv
    <2> QED BY <1>0, <1>00, <2>1, <2>2, <2>3, <2>5, <2>6, <2>8, VerdictSim
  <1> QED BY <1>1, <1>2, <1>3

LEMMA PublishStepChain ==
  ASSUME TInv, TInv', GInv, RInv, NEW p \in Operator, Acts(p),
         ChainPublish(p) \/ Execute(p) \/ RecordResult(p) \/ ChainReviewImpl(p)
  PROVE  RInv' /\ Sim
  <1> DEFINE r == job[p].run
             d == store[r]
  <1>0. job[p].step \notin {"idle", "no_intake"} /\ job[p].step \notin Works
    BY DEF ChainPublish, Execute, RecordResult, ChainReviewImpl, At, Works
  <1>00. /\ job[p] \in Job /\ r \in RunId /\ d \in RunDir /\ d.attempt > 0
         /\ Founded(d) /\ JobOK(store, job[p]) /\ Ready(store, job[p])
    BY <1>0, AtWork
  <1>000. {"idle", "execute", "result", "review_impl"} \subseteq Plain \ Works
    BY DEF Plain, Step, ResumeStage, Works
  <1>1. CASE ChainPublish(p)
    <2> DEFINE k == IF d.intake = "rejected" THEN "update_pr" ELSE "draft_pr"
               e == [d EXCEPT !.publishPlan = k]
    <2>1. /\ d.verdict = "approved" /\ Approves(d, job[p].outcome)
          /\ d.issueReview = "approved"
      BY <1>00, <1>1 DEF ChainPublish, At, Ready, JobOK, Approved
    <2>2. Write(r, e) /\ Go(p, "execute")
      BY <1>1, <2>1 DEF ChainPublish
    <2>3. /\ e \in RunDir /\ e.attempt = d.attempt /\ e.issueReview = d.issueReview
          /\ Cleared(e) = Cleared(d) \union {"publish"}
      <3>1. k \in {"update_pr", "draft_pr"}
        OBVIOUS
      <3> HIDE DEF d, k
      <3> QED BY <1>00, <3>1 DEF RunDir, Cleared, PlansPr
    <2> HIDE DEF e
    <2>4. job'[p].step \in Plain \ Works
      BY <1>000, <2>2, GoFields
    <2>5. Sim
      BY <1>0, <1>00, <2>1, <2>2, <2>3, <2>4, IdleSim, GateSim
    <2> QED BY <1>00, <2>1, <2>2, <2>3, <2>4, <2>5, PlainReady, WriteRInv
  <1>2. CASE Execute(p) \/ ChainReviewImpl(p)
    <2>1. UNCHANGED store /\ (Stop(p) \/ Go(p, "result"))
      BY <1>2 DEF Execute, ChainReviewImpl
    <2>2. job'[p].step \in Plain \ Works
      BY <1>000, <2>1, GoFields, StopFields
    <2> QED BY <1>0, <2>1, <2>2, PlainReady, QuietChain
  <1>3. CASE RecordResult(p)
    <2> DEFINE x == IF job[p].publish THEN "published" ELSE "dry_run"
               e == [d EXCEPT !.publishResult = x]
    <2>1. Write(r, e) /\ (Stop(p) \/ Go(p, "review_impl"))
      BY <1>3 DEF RecordResult
    <2>2. e \in RunDir /\ e.attempt = d.attempt /\ Cleared(e) = Cleared(d)
      <3>1. x \in {"published", "dry_run"}
        OBVIOUS
      <3> HIDE DEF d, x
      <3> QED BY <1>00, <3>1 DEF RunDir, Cleared, PlansPr
    <2> HIDE DEF e
    <2>3. job'[p].step \in Plain \ Works
      BY <1>000, <2>1, GoFields, StopFields
    <2> QED BY <1>0, <1>00, <2>1, <2>2, <2>3, PlainReady, SameGatesChain
  <1> QED BY <1>1, <1>2, <1>3

\* A process that ends gives up what it was building.
LEMMA CrashChain ==
  ASSUME TInv, TInv', RInv, NEW p \in Operator, Acts(p), Crash(p)
  PROVE  RInv' /\ Sim
  <1>1. job'[p].step = "idle" /\ UNCHANGED store
    BY StopFields DEF Crash
  <1>2. job'[p].step \in Plain \ Works
    BY <1>1 DEF Plain, Step, Works
  <1>3. CASE job[p].step \notin Works
    BY <1>1, <1>2, <1>3, PlainReady, QuietChain
  <1>4. CASE job[p].step \in Works
    <2> DEFINE r == job[p].run
               C == [x \in RunId |-> Cleared(store[x])]
    <2>1. r \in RunId
      BY <1>4 DEF TInv, Working, Works
    <2>2. Building' \in {Building, Building \ {r}}
      BY <1>2, <1>4, <2>1, EndsBuilding DEF Acts
    <2>3. C' = C
      BY <1>1
    <2>4. Sim
      <3>1. CASE Building' = Building
        BY <2>3, <3>1, StutterSim
      <3>2. CASE Building' = Building \ {r}
        <4>1. Gates!GiveUp(r)
          BY <2>3, <3>2 DEF Gates!GiveUp
        <4> QED BY <2>1, <4>1 DEF Sim, Gates!Next
      <3> QED BY <2>2, <3>1, <3>2
    <2> QED BY <1>1, <1>2, <2>4, PlainReady, QuietRInv
  <1> QED BY <1>3, <1>4

\* A step is the step of one process, whose job it may change.
LEMMA ActsAlone ==
  ASSUME TInv, GInv, LeftAlone, NEW p \in Operator,
         StageCommand(p) \/ RepairIssue(p) \/ Advance(p) \/ Crash(p)
  PROVE  Acts(p)
  <1>1. Moves(p)
    BY StageCommandMoves, StageWriteMoves, RepairIssueMoves, RetryStepMoves, MaterialiseMoves, ChainStepMoves,
       ImplementStepMoves, PublishStepMoves DEF Advance
  <1> QED BY <1>1 DEF Acts, Moves, Calm, Begins, Ends

LEMMA StepChain ==
  LeftAlone /\ TInv /\ TInv' /\ GInv /\ Current /\ RInv /\ [Next]_vars => RInv' /\ Sim
  <1> SUFFICES ASSUME LeftAlone, TInv, TInv', GInv, Current, RInv, [Next]_vars
               PROVE  RInv' /\ Sim
    OBVIOUS
  <1>1. CASE UNCHANGED vars
    <2>1. RInv'
      BY <1>1 DEF vars, RInv
    <2>2. Sim
      BY <1>1, StutterSim DEF vars, Building
    <2> QED BY <2>1, <2>2
  <1>2. ASSUME NEW p \in Operator, StageCommand(p) \/ RepairIssue(p) \/ Advance(p) \/ Crash(p)
        PROVE  RInv' /\ Sim
    <2>1. Acts(p)
      BY <1>2, ActsAlone
    <2> QED BY <1>2, <2>1, StageCommandChain, StageWriteChain, RepairIssueChain, RetryStepChain,
               MaterialiseChain, ChainStepChain, ImplementStepChain, PublishStepChain, CrashChain
            DEF Advance
  <1> QED BY <1>1, <1>2 DEF Next

\* A step that changes nothing leaves everything alone.
LEMMA Stuttering == UNCHANGED vars => LeftAlone /\ NotRetried
  BY DEF vars, LeftAlone, NotRetried

LEMMA InitChain == Init => RInv /\ Gates!Init
  <1> SUFFICES ASSUME Init PROVE RInv /\ Gates!Init
    OBVIOUS
  <1>1. Cleared(EmptyDir) = {} /\ EmptyDir.verdict = "none"
    BY DEF EmptyDir, Cleared, PlansPr
  <1>2. \A p \in Operator : job[p].step = "idle"
    BY DEF Init, Idle
  <1>3. RInv
    BY <1>1, <1>2 DEF Init, RInv, Founded, Ready
  <1>4. Building = {}
    BY <1>2 DEF Building
  <1>5. [r \in RunId |-> Cleared(store[r])] = [r \in RunId |-> {}]
    BY <1>1 DEF Init
  <1> QED BY <1>3, <1>4, <1>5 DEF Gates!Init

\* What a `review issue` found is still the verdict, for its run is left alone.
LEMMA AloneCurrent ==
  LeftAlone /\ TInv /\ GInv /\ Current /\ [Next]_vars => Current'
  <1> SUFFICES ASSUME LeftAlone, TInv, GInv, Current, [Next]_vars,
                      NEW p \in Operator, At(p, "write_issue_review")'
               PROVE  job'[p].found = IssueVerdict(store'[job'[p].run])
    BY DEF Current
  <1>1. CASE UNCHANGED job[p]
    <2>1. At(p, "write_issue_review") /\ ~At(p, "idle")
      BY <1>1 DEF At
    <2>2. job[p].run \in RunId
      BY <2>1 DEF TInv, Working, At
    <2>3. UNCHANGED store[job[p].run]
      BY <1>1, <2>1, <2>2 DEF LeftAlone
    <2> QED BY <1>1, <2>1, <2>3 DEF Current
  <1>2. CASE ~UNCHANGED job[p]
    BY <1>2, BeginsReview
  <1> QED BY <1>1, <1>2

LEMMA ChainInvariance == Spec /\ [][LeftAlone]_vars => [](TInv /\ GInv /\ Current /\ RInv)
  <1>1. Init => TInv /\ GInv /\ Current /\ RInv
    BY InitTInv, InitGInv, InitCurrent, InitChain
  <1>2. TInv /\ GInv /\ Current /\ RInv /\ [Next]_vars /\ [LeftAlone]_vars
          => (TInv /\ GInv /\ Current /\ RInv)'
    <2> SUFFICES ASSUME TInv, GInv, Current, RInv, [Next]_vars, LeftAlone
                 PROVE  TInv' /\ GInv' /\ Current' /\ RInv'
      BY Stuttering
    <2>1. TInv'
      BY StepTInv
    <2> QED BY <2>1, StepGInv, AloneCurrent, StepChain
  <1> QED BY <1>1, <1>2, PTL DEF Spec

\* However many operators issue whatever commands, in whatever order and with processes
\* dying anywhere, as long as none writes to a run another is working on or copying from:
\* each step opens at most one gate of one run, over the gates before it, and an approval
\* is earned by building under a cleared plan or inherited from a run that has it (the
\* require_ functions of run_store.py, copy_retry_artifacts, and the chain of
\* coordinator.py).
THEOREM ApartImplementsGates == Spec /\ [][LeftAlone]_vars => ImplementsGates
  <1>1. Init => Gates!Init
    BY InitChain
  <1>2. /\ TInv /\ TInv' /\ GInv /\ Current /\ RInv
        /\ [Next]_vars /\ [LeftAlone]_vars
        => [Gates!Next]_(Gates!vars)
    BY StepChain, Stuttering DEF Sim
  <1> QED BY <1>1, <1>2, ChainInvariance, PTL DEF Spec, ImplementsGates, Gates!Spec

-----------------------------------------------------------------------------
(* How runs count, and what a verdict is about. While processes may die,   *)
(* this takes that no stage is run by hand on what one left unfinished;    *)
(* the verdict of a run is then about its workspace, or about the one of   *)
(* which it has a part, whenever nobody is at it, and the lineage of a run *)
(* is settled before its first stage.                                      *)

ByChain == Commands \subseteq {"repair_issue", "publish_run"}

NoLeftovers == ByChain \/ ~MayCrash

\* The step of p leaves the runs of the others alone, and unretried.
Minds(p) == Acts(p) /\ NotRetried

Judging(r) ==
  \E p \in Operator : job[p].step \in {"record", "judge"} /\ job[p].run = r

Settling(r) ==
  \E p \in Operator : job[p].step \in {"number", "escalate"} /\ job[p].run = r

Told(d) == d.verdict = "approved" => d.workspace # "unjudged"

\* Nothing is planned to be published under another verdict.
Planned(d) == PlansPr(d) /\ d.workspace # "none" => d.verdict = "approved"

Fits(r) == Told(store[r]) \/ (~ByChain /\ Judging(r))

\* Run r counts from the run it retries.
Numbered(S, P, r) == P[r] # NoRun => S[r].attempt = S[P[r]].attempt + 1

Counted(r) ==
  \/ Numbered(store, parent, r)
  \/ store[r].issueReview = "none" /\ (MayCrash \/ Settling(r))

Blank(d) == d.repair = "none" /\ d.workspace = "none" /\ d.verdict = "none"

BeforeRepair == {"number", "review_issue", "plan", "review_plan", "implement"}
ByHand == {"write_issue_review", "write_plan", "write_plan_review"}

\* What the job knows of its run, from the evidence that stands in the directory so far.
Knows(S, P, j) ==
  LET d == S[j.run]
      s == S[j.src]
  IN  /\ j.step \in {"number", "escalate"} =>
           /\ d.issueReview = "none" /\ P[j.run] \in RunId
           /\ j.n = S[P[j.run]].attempt + 1
           /\ \A x \in RunId : P[x] # j.run
      /\ j.step \in {"review_issue", "materialise"} => Numbered(S, P, j.run)
      /\ j.step \in BeforeRepair \union {"materialise"} => j.chain
      /\ j.step \in Works => j.chain \/ ~ByChain
      /\ j.step \in ByHand => ~ByChain
      /\ j.step \in BeforeRepair \union {"repair"} /\ j.chain =>
           Blank(d) /\ d.publishPlan = "none"
      /\ j.step \in {"record", "judge"} =>
           /\ d.workspace \in {"none", "partial"} => j.outcome.repair = "none"
           /\ j.chain => d.verdict = "none" /\ d.publishPlan = "none"
      /\ j.step = "record" => j.outcome.repair # "none"
      /\ j.step = "judge" /\ j.chain => (d.repair = "completed" => d.attempt \in d.dlog)
      /\ j.step = "publish" =>
           /\ d.workspace \in {"partial", "judged"}
           /\ d.repair = "completed" => d.attempt \in d.dlog
      /\ j.step = "materialise" =>
           /\ j.from # "review_impl" => d.publishPlan = "none"
           /\ j.from # "publish" => Blank(d)
           /\ j.from = "publish" =>
                /\ s.workspace \in {"partial", "judged"}
                /\ d.workspace = IF j.n < 9 THEN "none"
                                 ELSE IF j.n < 10 THEN "partial" ELSE s.workspace

Descends ==
  \A r \in RunId :
    parent[r] # NoRun => store[r].attempt > 0 /\ store[parent[r]].attempt > 0

KInv ==
  /\ \A r \in RunId : Fits(r) /\ Counted(r)
  /\ Descends
  /\ ByChain => \A r \in RunId : Planned(store[r])
  /\ \A p \in Operator : Knows(store, parent, job[p])

\* Steps at which a job knows nothing.
LEMMA UnknowingKnows ==
  ASSUME NEW S, NEW P, NEW j,
         j.step \in {"idle", "no_intake", "report", "execute", "result", "review_impl"}
  PROVE  Knows(S, P, j)
  BY DEF Knows, Works, BeforeRepair, ByHand

\* What the others are at, they are at still.
LEMMA OthersStay ==
  ASSUME NEW p \in Operator, Acts(p), NEW r \in RunId
  PROVE  /\ Judging(r) /\ ~(job[p].step \in {"record", "judge"} /\ job[p].run = r)
              => Judging(r)'
         /\ Settling(r) /\ ~(job[p].step \in {"number", "escalate"} /\ job[p].run = r)
              => Settling(r)'
  <1>1. ASSUME Judging(r), ~(job[p].step \in {"record", "judge"} /\ job[p].run = r)
        PROVE  Judging(r)'
    <2>1. PICK q \in Operator : job[q].step \in {"record", "judge"} /\ job[q].run = r
      BY <1>1 DEF Judging
    <2>2. job'[q] = job[q]
      BY <1>1, <2>1 DEF Acts
    <2> QED BY <2>1, <2>2 DEF Judging
  <1>2. ASSUME Settling(r), ~(job[p].step \in {"number", "escalate"} /\ job[p].run = r)
        PROVE  Settling(r)'
    <2>1. PICK q \in Operator : job[q].step \in {"number", "escalate"} /\ job[q].run = r
      BY <1>2 DEF Settling
    <2>2. job'[q] = job[q]
      BY <1>2, <2>1 DEF Acts
    <2> QED BY <2>1, <2>2 DEF Settling
  <1> QED BY <1>1, <1>2

\* And what they know they know still, if no run that was retried is renumbered.
LEMMA OthersKnow ==
  ASSUME TInv, TInv', GInv, KInv, NEW p \in Operator, Minds(p), NEW q \in Operator, q # p,
         \A x \in RunId : parent[x] # NoRun =>
           store'[parent[x]].attempt = store[parent[x]].attempt,
         \A x \in RunId : Exists(x) => parent'[x] = parent[x]
  PROVE  Knows(store', parent', job'[q])
  <1>0. job'[q] = job[q]
    BY DEF Minds, Acts
  <1>1. CASE job[q].step \in {"idle", "no_intake"}
    BY <1>0, <1>1, UnknowingKnows
  <1>2. CASE job[q].step \notin {"idle", "no_intake"}
    <2>1. PICK j : j = job[q]
      OBVIOUS
    <2>2. /\ j.run \in RunId /\ Exists(j.run) /\ (j.step = "materialise" => j.src \in RunId)
          /\ Knows(store, parent, j)
      BY <1>2, <2>1 DEF TInv, Working, GInv, JobOK, Exists, KInv
    <2>3. /\ store'[j.run] = store[j.run]
          /\ j.step = "materialise" => store'[j.src] = store[j.src]
      BY <1>0, <1>2, <2>1, <2>2 DEF Minds, Acts, LeftAlone, At
    <2>4. /\ parent'[j.run] = parent[j.run]
          /\ parent[j.run] # NoRun =>
               store'[parent[j.run]].attempt = store[parent[j.run]].attempt
      BY <2>2
    <2>5. Numbered(store, parent, j.run) => Numbered(store', parent', j.run)
      BY <2>3, <2>4 DEF Numbered
    <2>6. (\A x \in RunId : parent[x] # j.run) => (\A x \in RunId : parent'[x] # j.run)
      BY <1>0, <1>2, <2>1 DEF Minds, NotRetried, At
    <2>7. parent[j.run] \in RunId => parent[j.run] # NoRun
      BY NoRunAssumption
    <2>8. Knows(store', parent', j)
      BY <2>2, <2>3, <2>4, <2>5, <2>6, <2>7 DEF Knows
    <2> QED BY <1>0, <2>1, <2>8
  <1> QED BY <1>1, <1>2

\* Run r is written and keeps its attempt.
LEMMA KeepKInv ==
  ASSUME TInv, TInv', GInv, KInv, NEW p \in Operator, Minds(p),
         NEW r \in RunId, NEW e \in RunDir,
         Write(r, e), e.attempt = store[r].attempt, UNCHANGED parent,
         Told(e) \/ (~ByChain /\ Judging(r)'),
         ByChain => Planned(e),
         e.issueReview = store[r].issueReview \/ Numbered(store, parent, r),
         job[p].step \in {"record", "judge"} => job[p].run = r,
         job[p].step \notin {"number", "escalate"},
         Knows(store', parent, job'[p])
  PROVE  KInv'
  <1>1. store'[r] = e /\ \A s \in RunId : s # r => store'[s] = store[s]
    BY WriteType DEF TInv, TypeOK
  <1>2. Acts(p)
    BY DEF Minds
  <1>3. /\ parent' = parent /\ parent \in [RunId -> RunId \union {NoRun}]
        /\ \A s \in RunId : store'[s].attempt = store[s].attempt
    BY <1>1 DEF TInv, TypeOK
  <1>4. ASSUME NEW s \in RunId PROVE Fits(s)'
    <2>1. CASE s = r
      BY <1>1, <2>1 DEF Fits
    <2>2. CASE s # r
      <3>1. Judging(s) => Judging(s)'
        BY <1>2, <2>2, OthersStay
      <3> QED BY <1>1, <2>2, <3>1 DEF Fits, KInv
    <2> QED BY <2>1, <2>2
  <1>5. ASSUME NEW s \in RunId PROVE Counted(s)'
    <2>1. Settling(s) => Settling(s)'
      BY <1>2, OthersStay
    <2>2. Numbered(store, parent, s) => Numbered(store', parent', s)
      BY <1>3 DEF Numbered
    <2>3. store'[s].issueReview = store[s].issueReview \/ Numbered(store, parent, s)
      BY <1>1
    <2> QED BY <2>1, <2>2, <2>3 DEF Counted, KInv
  <1>6. Descends'
    BY <1>3 DEF KInv, Descends
  <1>7. ByChain => \A s \in RunId : Planned(store'[s])
    BY <1>1 DEF KInv
  <1>8. ASSUME NEW q \in Operator PROVE Knows(store', parent', job'[q])
    <2>1. CASE q = p
      BY <1>3, <2>1
    <2>2. CASE q # p
      BY <1>3, <2>2, OthersKnow
    <2> QED BY <2>1, <2>2
  <1> QED BY <1>4, <1>5, <1>6, <1>7, <1>8 DEF KInv

LEMMA QuietKInv ==
  ASSUME TInv, TInv', GInv, KInv, NEW p \in Operator, Minds(p),
         UNCHANGED <<store, parent>>,
         job[p].step \in {"record", "judge"} => ByChain,
         job[p].step \in {"number", "escalate"} => MayCrash,
         Knows(store, parent, job'[p])
  PROVE  KInv'
  <1>1. Acts(p)
    BY DEF Minds
  <1>2. ASSUME NEW s \in RunId PROVE Fits(s)' /\ Counted(s)'
    <2>1. /\ ~ByChain /\ Judging(s) => Judging(s)'
          /\ ~MayCrash /\ Settling(s) => Settling(s)'
      BY <1>1, OthersStay
    <2> QED BY <2>1 DEF KInv, Fits, Counted
  <1>3. Descends'
    BY DEF KInv, Descends
  <1>4. ByChain => \A s \in RunId : Planned(store'[s])
    BY DEF KInv
  <1>5. ASSUME NEW q \in Operator PROVE Knows(store', parent', job'[q])
    BY <1>5, OthersKnow DEF TInv, TypeOK
  <1> QED BY <1>2, <1>3, <1>4, <1>5 DEF KInv

\* A new run, with the parent it was given, if any.
LEMMA NewRunKInv ==
  ASSUME TInv, TInv', GInv, KInv, NEW p \in Operator, Minds(p), job[p].step = "idle",
         NEW r \in RunId, NEW e \in RunDir,
         ~Exists(r), Write(r, e), e.attempt > 0, e.issueReview = "none",
         Blank(e), e.publishPlan = "none",
         \/ UNCHANGED parent
         \/ \E src \in RunId : Exists(src) /\ parent' = [parent EXCEPT ![r] = src],
         Numbered(store', parent', r) \/ Settling(r)',
         Knows(store', parent', job'[p])
  PROVE  KInv'
  <1>1. store'[r] = e /\ \A s \in RunId : s # r => store'[s] = store[s]
    BY WriteType DEF TInv, TypeOK
  <1>2. Acts(p)
    BY DEF Minds
  <1>3. parent \in [RunId -> RunId \union {NoRun}]
    BY DEF TInv, TypeOK
  <1>4. ASSUME NEW s \in RunId PROVE Fits(s)'
    <2>1. CASE s = r
      BY <1>1, <2>1 DEF Fits, Told, Blank
    <2>2. CASE s # r
      <3>1. Judging(s) => Judging(s)'
        BY <1>2, OthersStay
      <3> QED BY <1>1, <2>2, <3>1 DEF Fits, KInv
    <2> QED BY <2>1, <2>2
  <1>5. ASSUME NEW x \in RunId
        PROVE  /\ x # r => parent'[x] = parent[x] /\ store'[x] = store[x]
               /\ parent[x] # NoRun =>
                    /\ x # r /\ parent[x] \in RunId /\ parent[x] # r
                    /\ store[x].attempt > 0 /\ store[parent[x]].attempt > 0
                    /\ store'[parent[x]] = store[parent[x]]
    <2>1. x # r => parent'[x] = parent[x] /\ store'[x] = store[x]
      BY <1>1, <1>3
    <2>2. parent[x] # NoRun =>
            /\ parent[x] \in RunId
            /\ store[x].attempt > 0 /\ store[parent[x]].attempt > 0
      BY <1>3 DEF KInv, Descends
    <2> QED BY <1>1, <2>1, <2>2 DEF Exists
  <1>6. ASSUME NEW s \in RunId PROVE Counted(s)'
    <2>1. CASE s = r
      BY <1>1, <2>1 DEF Counted
    <2>2. CASE s # r
      <3>1. Settling(s) => Settling(s)'
        BY <1>2, OthersStay
      <3>2. Numbered(store, parent, s) => Numbered(store', parent', s)
        BY <1>5, <2>2 DEF Numbered
      <3> QED BY <1>5, <2>2, <3>1, <3>2 DEF Counted, KInv
    <2> QED BY <2>1, <2>2
  <1>7. Descends'
    <2>1. parent'[r] # NoRun => store'[parent'[r]].attempt > 0
      <3>1. CASE UNCHANGED parent
        BY <3>1 DEF KInv, Descends, Exists
      <3>2. CASE \E src \in RunId : Exists(src) /\ parent' = [parent EXCEPT ![r] = src]
        BY <1>1, <1>3, <3>2 DEF Exists
      <3> QED BY <3>1, <3>2
    <2> QED BY <1>1, <1>5, <2>1 DEF Descends
  <1>8. ByChain => \A s \in RunId : Planned(store'[s])
    BY <1>1 DEF KInv, Planned, PlansPr
  <1>9. ASSUME NEW q \in Operator PROVE Knows(store', parent', job'[q])
    <2>1. CASE q = p
      BY <2>1
    <2>2. CASE q # p
      <3>1. /\ \A x \in RunId : parent[x] # NoRun =>
                 store'[parent[x]].attempt = store[parent[x]].attempt
            /\ \A x \in RunId : Exists(x) => parent'[x] = parent[x]
        BY <1>5
      <3> QED BY <2>2, <3>1, OthersKnow
    <2> QED BY <2>1, <2>2
  <1> QED BY <1>4, <1>6, <1>7, <1>8, <1>9 DEF KInv

\* Run r gets the attempt that follows its parent's; nobody counts from r yet.
LEMMA CountKInv ==
  ASSUME TInv, TInv', GInv, KInv, NEW p \in Operator, Minds(p),
         job[p].step \in {"number", "escalate"}, job[p].run \in RunId,
         NEW e \in RunDir, Write(job[p].run, e), e.attempt > 0,
         parent[job[p].run] \in RunId,
         e.attempt = store[parent[job[p].run]].attempt + 1,
         \A x \in RunId : parent[x] # job[p].run,
         UNCHANGED parent, Told(e), ByChain => Planned(e),
         Knows(store', parent, job'[p])
  PROVE  KInv'
  <1>0. PICK r \in RunId : r = job[p].run
    OBVIOUS
  <1>1. store'[r] = e /\ \A s \in RunId : s # r => store'[s] = store[s]
    BY <1>0, WriteType DEF TInv, TypeOK
  <1>2. Acts(p)
    BY DEF Minds
  <1>3. /\ parent' = parent /\ parent \in [RunId -> RunId \union {NoRun}]
        /\ \A x \in RunId : parent[x] # NoRun => store'[parent[x]] = store[parent[x]]
    BY <1>0, <1>1 DEF TInv, TypeOK
  <1>4. ASSUME NEW s \in RunId PROVE Fits(s)'
    <2>1. Judging(s) => Judging(s)'
      BY <1>2, OthersStay
    <2> QED BY <1>1, <2>1 DEF Fits, KInv
  <1>5. ASSUME NEW s \in RunId PROVE Counted(s)'
    <2>1. CASE s = r
      BY <1>0, <1>1, <1>3, <2>1 DEF Counted, Numbered
    <2>2. CASE s # r
      <3>1. Settling(s) => Settling(s)'
        BY <1>0, <1>2, <2>2, OthersStay
      <3>2. Numbered(store, parent, s) => Numbered(store', parent', s)
        BY <1>1, <1>3, <2>2 DEF Numbered
      <3> QED BY <1>1, <2>2, <3>1, <3>2 DEF Counted, KInv
    <2> QED BY <2>1, <2>2
  <1>6. Descends'
    BY <1>1, <1>3 DEF KInv, Descends
  <1>7. ByChain => \A s \in RunId : Planned(store'[s])
    BY <1>1 DEF KInv
  <1>8. ASSUME NEW q \in Operator PROVE Knows(store', parent', job'[q])
    <2>1. CASE q = p
      BY <1>3, <2>1
    <2>2. CASE q # p
      BY <1>3, <2>2, OthersKnow
    <2> QED BY <2>1, <2>2
  <1> QED BY <1>4, <1>5, <1>6, <1>7, <1>8 DEF KInv


-----------------------------------------------------------------------------
(* The commands.                                                           *)

LEMMA GoKeeps ==
  ASSUME TInv, NEW p \in Operator, NEW step, Go(p, step)
  PROVE  job'[p].chain = job[p].chain /\ job'[p].outcome = job[p].outcome
  BY DEF TInv, TypeOK, Go, Job

\* Run r keeps its verdict and its workspace, and p is judging nothing.
LEMMA KeptFits ==
  ASSUME KInv, NEW p \in Operator, Minds(p), NEW r \in RunId, NEW e,
         e.verdict = store[r].verdict, e.workspace = store[r].workspace,
         job[p].step \notin {"record", "judge"}
  PROVE  Told(e) \/ (~ByChain /\ Judging(r)')
  <1>1. Told(store[r]) => Told(e)
    BY DEF Told
  <1>2. Judging(r) => Judging(r)'
    BY OthersStay DEF Minds
  <1> QED BY <1>1, <1>2 DEF KInv, Fits

\* The stages before implement write nothing of the evidence.
LEMMA WithoutEvidence ==
  ASSUME NEW d \in RunDir, NEW e,
         e = IssueReviewed(d) \/ e = PlanReviewed(d) \/ \E x : e = [d EXCEPT !.plan = x]
  PROVE  /\ e.attempt = d.attempt /\ e.repair = d.repair /\ e.verdict = d.verdict
         /\ e.workspace = d.workspace /\ e.publishPlan = d.publishPlan
         /\ e.dlog = d.dlog /\ e.intake = d.intake
         /\ e = IssueReviewed(d) \/ e.issueReview = d.issueReview
         /\ Blank(d) => Blank(e)
  BY DEF RunDir, IssueReviewed, PlanReviewed, Blank

LEMMA StageCommandKInv ==
  ASSUME NoLeftovers, TInv, TInv', GInv, RInv, KInv, NEW p \in Operator, Minds(p),
         StageCommand(p)
  PROVE  KInv'
  <1>0. /\ store \in [RunId -> RunDir] /\ job \in [Operator -> Job]
        /\ \A r \in RunId : store[r] \in RunDir
        /\ job[p].step = "idle" /\ UNCHANGED parent
    BY DEF TInv, TypeOK, StageCommand, CreateIssue, ReviewIssue, PlanRun, ReviewPlan,
           ImplementRun, PublishRun, Issue, At
  <1>1. CASE CreateIssue(p)
    <2>1. PICK r \in RunId, i \in Intakes : ~Exists(r) /\ Write(r, NewDir(i))
      BY <1>1 DEF CreateIssue
    <2>2. PICK e : e = NewDir(i)
      OBVIOUS
    <2>3. /\ e \in RunDir /\ e.attempt > 0 /\ e.issueReview = "none" /\ Blank(e)
          /\ e.publishPlan = "none" /\ Write(r, e)
      <3>1. e \in RunDir /\ Write(r, e)
        BY <2>1, <2>2, NewDirType
      <3>2. /\ e.attempt = 1 /\ e.issueReview = "none" /\ Blank(e) /\ e.publishPlan = "none"
        BY <2>2 DEF NewDir, EmptyDir, Blank
      <3> QED BY <3>1, <3>2
    <2>4. parent[r] = NoRun
      BY <2>1 DEF KInv, Descends, Exists
    <2>5. Numbered(store', parent', r)
      BY <1>0, <2>4 DEF Numbered
    <2>6. UNCHANGED job
      BY <1>1 DEF CreateIssue
    <2>7. Knows(store', parent', job'[p])
      BY <1>0, <2>6, UnknowingKnows
    <2> QED BY <1>0, <2>1, <2>3, <2>5, <2>7, NewRunKInv
  <1>2. ASSUME NEW r \in RunId,
               ReviewIssue(p, r) \/ ReviewPlan(p, r) \/ \E pl \in Plan : PlanRun(p, r, pl)
        PROVE  KInv'
    <2>1. ~ByChain
      BY <1>2 DEF ByChain, ReviewIssue, ReviewPlan, PlanRun, Issue
    <2>2. job'[p].step \in ByHand /\ UNCHANGED store
      <3>1. ASSUME NEW j, Begin(p, j) PROVE job'[p] = j
        BY <1>0, <3>1 DEF Begin
      <3>2. CASE ReviewIssue(p, r)
        BY <3>1, <3>2 DEF ReviewIssue, Idle, ByHand
      <3>3. CASE ReviewPlan(p, r)
        BY <3>1, <3>3 DEF ReviewPlan, Idle, ByHand
      <3>4. CASE \E pl \in Plan : PlanRun(p, r, pl)
        BY <3>1, <3>4 DEF PlanRun, Idle, ByHand
      <3> QED BY <1>2, <3>2, <3>3, <3>4
    <2>3. Knows(store, parent, job'[p])
      BY <2>1, <2>2 DEF Knows, Works, BeforeRepair, ByHand
    <2> QED BY <1>0, <2>2, <2>3, QuietKInv
  <1>3. ASSUME NEW r \in RunId, ImplementRun(p, r) PROVE KInv'
    <2>1. ~ByChain
      BY <1>3 DEF ByChain, ImplementRun, Issue
    <2>2. PICK j : j = [Idle EXCEPT !.step = "repair", !.run = r]
      OBVIOUS
    <2>3. j.step = "repair" /\ ~j.chain
      BY <2>2 DEF Idle
    <2>4. job'[p] = j /\ UNCHANGED store
      BY <1>0, <1>3, <2>2 DEF ImplementRun, Begin
    <2>5. Knows(store, parent, j)
      BY <2>1, <2>3 DEF Knows, Works, BeforeRepair, ByHand
    <2> QED BY <1>0, <2>4, <2>5, QuietKInv
  <1>4. ASSUME NEW r \in RunId, PublishRun(p, r) PROVE KInv'
    <2>1. job'[p].step = "execute" /\ UNCHANGED store
      BY <1>0, <1>4, IdleType DEF PublishRun, Begin, Job
    <2> QED BY <1>0, <2>1, UnknowingKnows, QuietKInv
  <1> QED BY <1>1, <1>2, <1>3, <1>4 DEF StageCommand

\* A stage is run by hand only while no process dies: whoever is numbering the run is at
\* it still, and the run left alone.
LEMMA StageWriteKInv ==
  ASSUME NoLeftovers, TInv, TInv', GInv, KInv, NEW p \in Operator, Minds(p),
         WriteIssueReview(p) \/ WritePlan(p) \/ WritePlanReview(p)
  PROVE  KInv'
  <1>1. PICK r, d : r = job[p].run /\ d = store[r]
    OBVIOUS
  <1>2. /\ r \in RunId /\ d \in RunDir /\ job[p].step \in ByHand
        /\ job[p].found \in Review /\ job[p].plan \in Plan \union {NoPlan}
        /\ store \in [RunId -> RunDir] /\ UNCHANGED parent
    BY <1>1 DEF TInv, TypeOK, Working, Job, WriteIssueReview, WritePlan, WritePlanReview, At,
                ByHand
  <1>3. ~ByChain /\ ~MayCrash
    BY <1>2 DEF KInv, Knows, NoLeftovers
  <1>4. PICK e \in RunDir :
          /\ Write(r, e) /\ e.attempt = d.attempt
          /\ e.verdict = d.verdict /\ e.workspace = d.workspace
    <2>1. CASE WriteIssueReview(p)
      <3>1. PICK v \in Review : v = job[p].found
        BY <1>2
      <3>2. PICK e : e = [d EXCEPT !.issueReview = v]
        OBVIOUS
      <3>3. Write(r, e)
        BY <1>1, <2>1, <3>1, <3>2 DEF WriteIssueReview
      <3>4. /\ e \in RunDir /\ e.attempt = d.attempt
            /\ e.verdict = d.verdict /\ e.workspace = d.workspace
        BY <1>2, <3>2 DEF RunDir
      <3> QED BY <3>3, <3>4
    <2>2. CASE WritePlan(p)
      <3>1. PICK pl \in Plan \union {NoPlan} : pl = job[p].plan
        BY <1>2
      <3>2. PICK e : e = [d EXCEPT !.plan = pl]
        OBVIOUS
      <3>3. Write(r, e)
        BY <1>1, <2>2, <3>1, <3>2 DEF WritePlan
      <3>4. /\ e \in RunDir /\ e.attempt = d.attempt
            /\ e.verdict = d.verdict /\ e.workspace = d.workspace
        BY <1>2, <3>2 DEF RunDir
      <3> QED BY <3>3, <3>4
    <2>3. CASE WritePlanReview(p)
      <3>1. PICK x : x = [verdict |-> job[p].found, of |-> job[p].plan]
        OBVIOUS
      <3>2. x \in PlanReview
        BY <1>2, <3>1 DEF PlanReview
      <3>3. PICK e : e = [d EXCEPT !.planReview = x]
        OBVIOUS
      <3>4. Write(r, e)
        BY <1>1, <2>3, <3>1, <3>3 DEF WritePlanReview
      <3>5. /\ e \in RunDir /\ e.attempt = d.attempt
            /\ e.verdict = d.verdict /\ e.workspace = d.workspace
        BY <1>2, <3>2, <3>3 DEF RunDir
      <3> QED BY <3>4, <3>5
    <2> QED BY <2>1, <2>2, <2>3
  <1>5. e.issueReview = d.issueReview \/ Numbered(store, parent, r)
    <2>1. CASE Settling(r)
      <3>1. PICK q \in Operator : job[q].step \in {"number", "escalate"} /\ job[q].run = r
        BY <2>1 DEF Settling
      <3>2. store'[r] = store[r]
        BY <1>2, <3>1 DEF ByHand, Minds, Acts, LeftAlone, At
      <3>3. store'[r] = e
        BY <1>2, <1>4, WriteType
      <3> QED BY <1>1, <3>2, <3>3
    <2>2. CASE ~Settling(r)
      BY <1>2, <1>3, <2>2 DEF KInv, Counted
    <2> QED BY <2>1, <2>2
  <1>6. Told(e) \/ (~ByChain /\ Judging(r)')
    BY <1>1, <1>2, <1>4, KeptFits DEF ByHand
  <1>7. Knows(store', parent', job'[p])
    BY StopFields, UnknowingKnows DEF WriteIssueReview, WritePlan, WritePlanReview
  <1> QED BY <1>1, <1>2, <1>3, <1>4, <1>5, <1>6, <1>7, KeepKInv DEF ByHand

LEMMA RepairIssueKInv ==
  ASSUME TInv, TInv', GInv, RInv, KInv, NEW p \in Operator, Minds(p), RepairIssue(p)
  PROVE  KInv'
  <1>0. /\ store \in [RunId -> RunDir] /\ job \in [Operator -> Job]
        /\ \A s \in RunId : store[s] \in RunDir
        /\ parent \in [RunId -> RunId \union {NoRun}]
        /\ \A i \in Intakes : /\ NewDir(i) \in RunDir /\ NewDir(i).attempt = 1
                              /\ Blank(NewDir(i)) /\ NewDir(i).publishPlan = "none"
                              /\ NewDir(i).issueReview = "none"
    BY NewDirType DEF TInv, TypeOK, NewDir, EmptyDir, Blank
  <1>1. PICK pl \in Plan \union {NoPlan}, publish \in BOOLEAN, r \in RunId :
          \/ \E i \in Intakes : Fresh(p, r, i, pl, publish)
          \/ \E src \in RunId, i \in Intakes : Retry(p, src, r, i, pl, publish)
          \/ \E src \in RunId, stage \in ResumeStage : Resume(p, src, r, stage, pl, publish)
    BY DEF RepairIssue
  <1>2. ASSUME ~Exists(r)
        PROVE  parent[r] = NoRun /\ \A x \in RunId : parent[x] # r
    BY <1>0, <1>2, NoRunAssumption DEF KInv, Descends, Exists
  <1>3. job[p].step = "idle"
    BY <1>1 DEF Fresh, Retry, Resume, Issue, At
  <1>4. ASSUME NEW i \in Intakes, Fresh(p, r, i, pl, publish) PROVE KInv'
    <2> DEFINE step == Entry(i, "review_issue")
    <2>1. PICK j : j = [Idle EXCEPT !.step = step, !.run = r, !.plan = pl,
                                    !.publish = publish, !.chain = TRUE]
      OBVIOUS
    <2>2. /\ j.step \in {"review_issue", "report"} /\ j.run = r /\ j.chain
      <3>1. step \in {"review_issue", "report"}
        BY DEF Entry
      <3> HIDE DEF step
      <3> QED BY <2>1, <3>1 DEF Idle
    <2>3. /\ ~Exists(r) /\ Write(r, NewDir(i)) /\ UNCHANGED parent
          /\ job'[p] = j
      BY <1>0, <1>4, <2>1 DEF Fresh, Begin
    <2>4. store'[r] = NewDir(i)
      BY <1>0, <2>3, WriteType
    <2>5. Numbered(store', parent', r)
      BY <1>2, <2>3 DEF Numbered
    <2>6. Knows(store', parent', job'[p])
      BY <1>0, <2>2, <2>3, <2>4, <2>5 DEF Knows, Works, ByHand
    <2>7. /\ NewDir(i) \in RunDir /\ NewDir(i).attempt > 0 /\ Blank(NewDir(i))
          /\ NewDir(i).publishPlan = "none" /\ NewDir(i).issueReview = "none"
      BY <1>0
    <2> QED BY <1>3, <2>3, <2>5, <2>6, <2>7, NewRunKInv
  <1>5. ASSUME NEW src \in RunId, NEW i \in Intakes, Retry(p, src, r, i, pl, publish)
        PROVE  KInv'
    <2> DEFINE n == store[src].attempt + 1
               step == IF Exhausted(n) THEN "escalate" ELSE "number"
               plan == Carried(src, pl)
    <2>1. PICK j : j = [Idle EXCEPT !.step = step, !.run = r, !.plan = plan, !.n = n,
                                    !.publish = publish, !.chain = TRUE]
      OBVIOUS
    <2>2. j.step \in {"number", "escalate"} /\ j.run = r /\ j.n = n /\ j.chain
      <3>1. step \in {"number", "escalate"}
        OBVIOUS
      <3> HIDE DEF step, plan, n
      <3> QED BY <2>1, <3>1 DEF Idle
    <2>3. /\ ~Exists(r) /\ Exists(src) /\ Write(r, NewDir(i))
          /\ parent' = [parent EXCEPT ![r] = src] /\ job'[p] = j
      BY <1>0, <1>5, <2>1 DEF Retry, Begin
    <2> HIDE DEF step, plan
    <2>4. store'[r] = NewDir(i) /\ store'[src] = store[src] /\ src # r
      BY <1>0, <2>3, WriteType
    <2>5. parent'[r] = src /\ \A x \in RunId : parent'[x] # r
      BY <1>0, <1>2, <2>3, <2>4
    <2>6. Knows(store', parent', job'[p])
      BY <1>0, <2>2, <2>3, <2>4, <2>5 DEF Knows, Works, BeforeRepair, ByHand
    <2>7. /\ NewDir(i) \in RunDir /\ NewDir(i).attempt > 0 /\ Blank(NewDir(i))
          /\ NewDir(i).publishPlan = "none" /\ NewDir(i).issueReview = "none"
      BY <1>0
    <2>8. \E x \in RunId : Exists(x) /\ parent' = [parent EXCEPT ![r] = x]
      BY <2>3
    <2>9. Settling(r)'
      BY <2>2, <2>3 DEF Settling
    <2> QED BY <1>3, <2>3, <2>6, <2>7, <2>8, <2>9, NewRunKInv
  <1>6. ASSUME NEW src \in RunId, NEW stage \in ResumeStage,
               Resume(p, src, r, stage, pl, publish)
        PROVE  KInv'
    <2>1. CASE Exhausted(store[src].attempt + 1)
      <3>1. job'[p].step = "no_intake" /\ UNCHANGED <<store, parent>>
        BY <1>0, <1>6, <2>1, IdleType DEF Resume, Begin, Job
      <3> QED BY <1>3, <3>1, UnknowingKnows, QuietKInv
    <2>2. CASE ~Exhausted(store[src].attempt + 1)
      <3> DEFINE n == store[src].attempt + 1
                 i == store[src].intake
                 e == [EmptyDir EXCEPT !.attempt = n, !.intake = i]
                 plan == IF stage = "review_issue" THEN pl
                         ELSE IF stage = "plan" THEN Carried(src, pl) ELSE NoPlan
                 j == [Idle EXCEPT !.step = "materialise", !.run = r, !.src = src,
                                   !.from = stage, !.plan = plan,
                                   !.publish = publish, !.chain = TRUE]
      <3>1. /\ Exists(src) /\ ~Exists(r) /\ MayResume(store[src], stage)
            /\ Write(r, e) /\ Begin(p, j) /\ parent' = [parent EXCEPT ![r] = src]
        BY <1>6, <2>2 DEF Resume
      <3>2. /\ j.step = "materialise" /\ j.run = r /\ j.src = src /\ j.from = stage /\ j.n = 0
            /\ j.chain
        <4> HIDE DEF plan
        <4> QED BY DEF Idle
      <3>3. n \in Nat /\ n > 0 /\ i \in Intake /\ n = store[src].attempt + 1
        BY <1>0 DEF RunDir
      <3>4. /\ e \in RunDir /\ e.attempt = n /\ Blank(e) /\ e.publishPlan = "none"
            /\ e.issueReview = "none"
        <4> HIDE DEF n, i
        <4>1. e \in RunDir /\ e.attempt = n
          BY <3>3, ResumedType DEF EmptyDir
        <4>2. Blank(e) /\ e.publishPlan = "none" /\ e.issueReview = "none"
          BY DEF EmptyDir, Blank
        <4> QED BY <4>1, <4>2
      <3> HIDE DEF j, e, n, i
      <3>5. /\ job'[p] = j /\ store'[r] = e /\ store'[src] = store[src] /\ src # r
            /\ parent'[r] = src
        BY <1>0, <3>1, <3>4, WriteType DEF Begin
      <3>6. ASSUME stage = "publish" PROVE store[src].workspace \in {"partial", "judged"}
        <4>1. /\ store[src].verdict = "approved" /\ store[src].workspace # "none"
              /\ store[src].workspace \in Workspace
          BY <1>0, <3>1, <3>6 DEF MayResume, RunDir
        <4>2. ~Judging(src)
          <5> SUFFICES ASSUME NEW q \in Operator, job[q].step \in {"record", "judge"},
                              job[q].run = src
                       PROVE  FALSE
            BY DEF Judging
          <5>1. q # p /\ ~At(q, "idle")
            BY <1>3 DEF At
          <5>2. UNCHANGED job[q]
            BY <5>1 DEF Minds, Acts
          <5>3. parent[r] # src
            BY <1>2, <3>1, NoRunAssumption
          <5> QED BY <3>5, <5>1, <5>2, <5>3 DEF Minds, NotRetried
        <4> QED BY <4>1, <4>2 DEF KInv, Fits, Told, Workspace
      <3>7. Numbered(store', parent', r)
        BY <3>3, <3>4, <3>5 DEF Numbered
      <3>8. Knows(store', parent', job'[p])
        BY <3>2, <3>4, <3>5, <3>6, <3>7 DEF Knows, Blank, Works, BeforeRepair, ByHand
      <3> QED BY <1>3, <3>1, <3>3, <3>4, <3>7, <3>8, NewRunKInv
    <2> QED BY <2>1, <2>2
  <1> QED BY <1>1, <1>4, <1>5, <1>6

-----------------------------------------------------------------------------
(* The stages of the chain, and the numbering before it.                   *)

\* What acting on a job says about its run.
LEMMA AtWorkKnows ==
  ASSUME TInv, GInv, RInv, KInv, NEW p \in Operator, job[p].step \notin {"idle", "no_intake"}
  PROVE  /\ job[p] \in Job /\ job[p].run \in RunId
         /\ store[job[p].run] \in RunDir /\ store[job[p].run].attempt > 0
         /\ Knows(store, parent, job[p])
         /\ JobOK(store, job[p]) /\ Ready(store, job[p])
  BY AtWork DEF KInv

\* The stages before implement: nothing of the evidence is there yet.
LEMMA ChainStepKInv ==
  ASSUME TInv, TInv', GInv, RInv, KInv, NEW p \in Operator, Minds(p),
         \/ ChainReviewIssue(p) \/ ChainPlan(p) \/ ChainReviewPlan(p) \/ ChainImplement(p)
  PROVE  KInv'
  <1>0. job[p].step \in {"review_issue", "plan", "review_plan", "implement"}
    BY DEF ChainReviewIssue, ChainPlan, ChainReviewPlan, ChainImplement, At
  <1>1. PICK r, d : r = job[p].run /\ d = store[r]
    OBVIOUS
  <1>2. /\ r \in RunId /\ d \in RunDir /\ Blank(d) /\ d.publishPlan = "none"
        /\ job[p].chain
        /\ job[p].step = "review_issue" => Numbered(store, parent, r)
    BY <1>0, <1>1, AtWorkKnows DEF Knows, BeforeRepair
  <1>3. /\ job'[p].step \in {"idle", "plan", "review_plan", "implement", "repair"}
        /\ job'[p].step = "idle" \/ (job'[p].run = r /\ job'[p].chain)
    <2>1. Stop(p) \/ \E s \in {"plan", "review_plan", "implement", "repair"} : Go(p, s)
      BY DEF ChainReviewIssue, ChainPlan, ChainReviewPlan, ChainImplement
    <2> QED BY <1>1, <1>2, <2>1, GoFields, GoKeeps, StopFields
  <1>4. UNCHANGED parent
    BY DEF ChainReviewIssue, ChainPlan, ChainReviewPlan, ChainImplement
  <1>5. CASE UNCHANGED store
    <2>1. Knows(store, parent, job'[p])
      BY <1>1, <1>2, <1>3 DEF Knows, Works, BeforeRepair, ByHand
    <2> QED BY <1>0, <1>4, <1>5, <2>1, QuietKInv
  <1>6. CASE ~UNCHANGED store
    <2>1. PICK e \in RunDir :
            /\ Write(r, e)
            /\ \/ e = IssueReviewed(d) /\ job[p].step = "review_issue"
               \/ e = PlanReviewed(d)
               \/ \E x : e = [d EXCEPT !.plan = x]
      <3>1. CASE ChainReviewIssue(p)
        BY <1>1, <1>2, <3>1, ReviewedType DEF ChainReviewIssue, At
      <3>2. CASE ChainReviewPlan(p)
        BY <1>1, <1>2, <3>2, ReviewedType DEF ChainReviewPlan
      <3>3. CASE ChainPlan(p)
        <4> DEFINE pl == job[p].plan
        <4>1. Write(r, IF pl = NoPlan THEN d ELSE [d EXCEPT !.plan = pl])
          BY <1>1, <1>6, <3>3 DEF ChainPlan
        <4>2. pl # NoPlan
          BY <1>1, <1>2, <1>6, <4>1 DEF Write, TInv, TypeOK
        <4>3. pl \in Plan
          BY <1>0, <4>2, AtWorkKnows DEF Job
        <4>4. [d EXCEPT !.plan = pl] \in RunDir
          <5> HIDE DEF pl
          <5> QED BY <1>2, <4>3 DEF RunDir
        <4> QED BY <4>1, <4>2, <4>4
      <3>4. CASE ChainImplement(p)
        BY <1>6, <3>4 DEF ChainImplement
      <3> QED BY <3>1, <3>2, <3>3, <3>4
    <2>2. e.attempt = d.attempt /\ e.publishPlan = "none" /\ Blank(e)
      BY <1>2, <2>1, WithoutEvidence
    <2>3. e.issueReview = d.issueReview \/ Numbered(store, parent, r)
      BY <1>2, <2>1 DEF PlanReviewed, RunDir
    <2>4. Told(e) /\ Planned(e)
      BY <2>2 DEF Told, Planned, PlansPr, Blank
    <2>5. store'[r] = e
      BY <1>2, <2>1, WriteType DEF TInv, TypeOK
    <2>6. Knows(store', parent', job'[p])
      BY <1>3, <2>2, <2>5 DEF Knows, Works, BeforeRepair, ByHand
    <2> QED BY <1>0, <1>1, <1>2, <1>4, <2>1, <2>2, <2>3, <2>4, <2>6, KeepKInv
  <1> QED BY <1>5, <1>6

LEMMA ImplementStepKInv ==
  ASSUME TInv, TInv', GInv, RInv, KInv, NEW p \in Operator, Minds(p),
         Repair(p) \/ RecordRepair(p) \/ Judge(p)
  PROVE  KInv'
  <1>0. job[p].step \in {"repair", "record", "judge"}
    BY DEF Repair, RecordRepair, Judge, At
  <1>1. PICK r, d, o, chain : /\ r = job[p].run /\ d = store[r] /\ o = job[p].outcome
                              /\ chain = job[p].chain
    OBVIOUS
  <1>2. /\ r \in RunId /\ d \in RunDir /\ o \in Outcomes /\ job[p] \in Job
        /\ Knows(store, parent, job[p])
        /\ chain \/ ~ByChain
        /\ chain => d.verdict = "none" /\ d.publishPlan = "none"
    BY <1>0, <1>1, AtWorkKnows DEF Knows, Blank, Job, Works
  <1>3. UNCHANGED parent
    BY DEF Repair, RecordRepair, Judge
  <1>4. ASSUME NEW e \in RunDir, Write(r, e), e.attempt = d.attempt,
               e.issueReview = d.issueReview, e.publishPlan = d.publishPlan,
               \/ Told(e)
               \/ e.verdict = d.verdict /\ job'[p].step \in {"record", "judge"} /\ job'[p].run = r,
               Knows(store', parent, job'[p])
        PROVE  KInv'
    <2>1. ByChain => Planned(e)
      BY <1>2, <1>4 DEF Planned, PlansPr
    <2>2. Told(e) \/ (~ByChain /\ Judging(r)')
      BY <1>2, <1>4 DEF Told, Judging
    <2> QED BY <1>0, <1>1, <1>2, <1>3, <1>4, <2>1, <2>2, KeepKInv
  <1>5. CASE Repair(p)
    <2>1. PICK x \in Outcomes :
            /\ job' = [job EXCEPT ![p].outcome = x,
                                  ![p].step = IF x.repair = "none" THEN "judge" ELSE "record"]
            /\ Write(r, IF x.repair = "none" THEN d ELSE [d EXCEPT !.workspace = "unjudged"])
      BY <1>1, <1>5 DEF Repair
    <2>2. /\ job'[p].step = IF x.repair = "none" THEN "judge" ELSE "record"
          /\ job'[p].run = r /\ job'[p].outcome = x /\ job'[p].chain = chain
      BY <1>1, <1>2, <2>1 DEF TInv, TypeOK, Job
    <2>3. chain => Blank(d)
      BY <1>1, <1>2, <1>5 DEF Repair, At, Knows
    <2>4. PICK e : /\ Write(r, e)
                   /\ e = IF x.repair = "none" THEN d ELSE [d EXCEPT !.workspace = "unjudged"]
      BY <2>1
    <2>5. /\ e \in RunDir /\ e.attempt = d.attempt /\ e.issueReview = d.issueReview
          /\ e.publishPlan = d.publishPlan /\ e.verdict = d.verdict
          /\ chain => e.repair = "none"
          /\ e.workspace \in {"none", "partial"} => x.repair = "none"
      BY <1>2, <2>3, <2>4 DEF RunDir, Workspace, Blank
    <2>6. store'[r] = e
      BY <1>2, <2>4, <2>5, WriteType DEF TInv, TypeOK
    <2>7. Knows(store', parent, job'[p])
      BY <1>2, <2>2, <2>5, <2>6 DEF Knows, Works, BeforeRepair, ByHand
    <2> QED BY <1>4, <2>2, <2>4, <2>5, <2>7
  <1>6. CASE RecordRepair(p)
    <2> DEFINE q == d.qa \/ o.qa
               l == IF o.repair = "completed" THEN d.dlog \union {d.attempt} ELSE d.dlog
               e == [d EXCEPT !.repair = o.repair, !.qa = q, !.dlog = l]
    <2>1. Write(r, e) /\ Go(p, "judge")
      BY <1>1, <1>6 DEF RecordRepair
    <2>2. /\ e.attempt = d.attempt /\ e.issueReview = d.issueReview
          /\ e.publishPlan = d.publishPlan /\ e.verdict = d.verdict
          /\ e.workspace = d.workspace /\ e.repair = o.repair /\ e.dlog = l
      <3> HIDE DEF q, l
      <3> QED BY <1>2 DEF RunDir
    <2>3. e.repair = "completed" => e.attempt \in e.dlog
      BY <2>2
    <2> HIDE DEF e
    <2>4. e \in RunDir /\ store'[r] = e
      BY <1>2, <2>1 DEF Write, TInv, TypeOK
    <2>5. job'[p].step = "judge" /\ job'[p].run = r /\ job'[p].outcome = o
          /\ job'[p].chain = chain
      BY <1>1, <1>2, <2>1, GoFields, GoKeeps
    <2>6. d.workspace \in {"none", "partial"} => o.repair = "none"
      BY <1>0, <1>1, <1>2, <1>6 DEF Knows, RecordRepair, At
    <2>7. Knows(store', parent, job'[p])
      BY <1>2, <2>2, <2>3, <2>4, <2>5, <2>6 DEF Knows, Works, BeforeRepair, ByHand
    <2> QED BY <1>4, <2>1, <2>2, <2>4, <2>5, <2>7
  <1>7. CASE Judge(p)
    <2> DEFINE v == IF Approves(d, o) THEN "approved" ELSE "blocked"
               w == IF d.workspace \in {"none", "partial"} THEN d.workspace
                    ELSE IF o.repair = "none" THEN "unjudged" ELSE "judged"
               e == [d EXCEPT !.verdict = v, !.workspace = w]
    <2>1. Write(r, e) /\ (Stop(p) \/ (Go(p, "publish") /\ Approves(d, o) /\ chain))
      BY <1>1, <1>7 DEF Judge
    <2>2. /\ d.workspace \in {"none", "partial"} => o.repair = "none"
          /\ chain => (d.repair = "completed" => d.attempt \in d.dlog)
      BY <1>1, <1>2, <1>7 DEF Knows, Judge, At
    <2>3. /\ Approves(d, o) => w = "judged"
          /\ v = "approved" => Approves(d, o)
      BY <1>2, <2>2 DEF Approves, Outcomes
    <2>4. /\ e.attempt = d.attempt /\ e.issueReview = d.issueReview
          /\ e.publishPlan = d.publishPlan /\ e.verdict = v /\ e.workspace = w
          /\ e.repair = d.repair /\ e.dlog = d.dlog
      <3> HIDE DEF v, w
      <3> QED BY <1>2 DEF RunDir
    <2> HIDE DEF e, v, w
    <2>5. e \in RunDir /\ store'[r] = e
      BY <1>2, <2>1 DEF Write, TInv, TypeOK
    <2>6. /\ job'[p].step \in {"idle", "publish"}
          /\ job'[p].step = "publish" => Approves(d, o) /\ chain /\ job'[p].run = r
      BY <1>1, <2>1, GoFields, StopFields
    <2>7. Told(e) /\ Knows(store', parent, job'[p])
      BY <2>2, <2>3, <2>4, <2>5, <2>6 DEF Told, Knows, Works, BeforeRepair, ByHand
    <2> QED BY <1>4, <2>1, <2>4, <2>5, <2>7
  <1> QED BY <1>5, <1>6, <1>7

LEMMA SettleKInv ==
  ASSUME TInv, TInv', GInv, RInv, KInv, NEW p \in Operator, Minds(p),
         NumberAttempt(p) \/ Escalate(p)
  PROVE  KInv'
  <1>1. PICK r, d, n, pl : r = job[p].run /\ d = store[r] /\ n = job[p].n /\ pl = job[p].plan
    OBVIOUS
  <1>2. /\ r \in RunId /\ d \in RunDir /\ n \in Nat /\ n > 0 /\ pl \in Plan \union {NoPlan}
        /\ parent[r] \in RunId /\ n = store[parent[r]].attempt + 1
        /\ \A x \in RunId : parent[x] # r
        /\ job[p].step \in {"number", "escalate"}
        /\ job[p].step = "number" => Blank(d) /\ d.publishPlan = "none" /\ job[p].chain
    BY <1>1, AtWorkKnows DEF NumberAttempt, Escalate, At, Knows, JobOK, Job, BeforeRepair
  <1>3. UNCHANGED parent /\ parent \in [RunId -> RunId \union {NoRun}]
    BY DEF NumberAttempt, Escalate, TInv, TypeOK
  <1>4. CASE NumberAttempt(p)
    <2> DEFINE e == [d EXCEPT !.attempt = n]
               step == Entry(d.intake, "review_issue")
    <2>1. Write(r, e) /\ Go(p, step) /\ step \in {"review_issue", "report"}
      BY <1>1, <1>4 DEF NumberAttempt, Entry
    <2>2. e \in RunDir /\ e.attempt = n /\ Blank(e) /\ e.publishPlan = "none"
      BY <1>2, <1>4 DEF NumberAttempt, At, RunDir, Blank
    <2> HIDE DEF e, step
    <2>3. /\ store'[r] = e /\ \A s \in RunId : s # r => store'[s] = store[s]
      <3>1. store \in [RunId -> RunDir] /\ r \in RunId /\ e \in RunDir /\ Write(r, e)
        BY <1>2, <2>1, <2>2 DEF TInv, TypeOK
      <3> QED BY <3>1, WriteType
    <2>4. job'[p].step = step /\ job'[p].run = r /\ job'[p].chain
      BY <1>1, <1>2, <1>4, <2>1, GoFields, GoKeeps DEF NumberAttempt, At
    <2>5. Numbered(store', parent, r)
      BY <1>2, <1>3, <2>2, <2>3 DEF Numbered
    <2>6. Told(e) /\ Planned(e)
      BY <2>2 DEF Told, Planned, Blank, PlansPr
    <2>7. Knows(store', parent, job'[p])
      BY <2>1, <2>2, <2>3, <2>4, <2>5 DEF Knows, Works, BeforeRepair, ByHand
    <2> QED BY <1>1, <1>2, <1>3, <2>1, <2>2, <2>6, <2>7, CountKInv
  <1>5. CASE Escalate(p)
    <2> DEFINE e == [d EXCEPT !.attempt = n, !.plan = pl, !.repair = "escalated",
                              !.verdict = "blocked", !.publishPlan = "issue"]
    <2>1. Write(r, e) /\ Go(p, "execute")
      BY <1>1, <1>5 DEF Escalate
    <2>2. e \in RunDir /\ e.attempt = n /\ Told(e) /\ Planned(e)
      <3>1. e \in RunDir
        BY <1>2, ClosedType
      <3>2. e.attempt = n /\ e.publishPlan = "issue" /\ e.verdict = "blocked"
        BY <1>2 DEF RunDir
      <3> QED BY <3>1, <3>2 DEF Told, Planned, PlansPr
    <2> HIDE DEF e
    <2>3. Knows(store', parent, job'[p])
      BY <2>1, GoFields, UnknowingKnows
    <2> QED BY <1>1, <1>2, <1>3, <2>1, <2>2, <2>3, CountKInv
  <1> QED BY <1>4, <1>5

LEMMA EnterKInv ==
  ASSUME TInv, TInv', GInv, RInv, RInv', KInv, NEW p \in Operator, Minds(p),
         Enter(p) \/ ReportBlocked(p)
  PROVE  KInv'
  <1>1. PICK r, d, j : r = job[p].run /\ d = store[r] /\ j = job[p]
    OBVIOUS
  <1>2. /\ r \in RunId /\ d \in RunDir /\ j \in Job /\ j.step \in {"materialise", "report"}
        /\ Knows(store, parent, j) /\ Ready(store, j)
    BY <1>1, AtWorkKnows DEF Enter, ReportBlocked, At
  <1>3. UNCHANGED parent
    BY DEF Enter, ReportBlocked
  <1>4. CASE ReportBlocked(p)
    <2> DEFINE e == [d EXCEPT !.verdict = "blocked", !.publishPlan = "issue"]
    <2>1. Write(r, e) /\ Go(p, "execute")
      BY <1>1, <1>4 DEF ReportBlocked
    <2>2. /\ e \in RunDir /\ e.attempt = d.attempt /\ e.issueReview = d.issueReview
          /\ Told(e) /\ Planned(e)
      BY <1>2 DEF RunDir, Told, Planned, PlansPr
    <2> HIDE DEF e
    <2>3. Knows(store', parent', job'[p])
      BY <2>1, GoFields, UnknowingKnows
    <2> QED BY <1>1, <1>2, <1>3, <2>1, <2>2, <2>3, KeepKInv
  <1>5. CASE Enter(p) /\ Stop(p)
    <2>1. UNCHANGED store /\ Knows(store, parent, job'[p])
      BY <1>5, StopFields, UnknowingKnows DEF Enter
    <2> QED BY <1>1, <1>2, <1>3, <2>1, QuietKInv
  <1>6. CASE Enter(p) /\ ~Stop(p)
    <2>1. /\ job'[p].step = Entry(d.intake, j.from) /\ job'[p].run = r
          /\ job'[p].chain = j.chain
          /\ UNCHANGED store /\ j.from \in ResumeStage
          /\ j.step = "materialise" /\ j.n = Len(Preserved[j.from])
      BY <1>1, <1>2, <1>6 DEF Enter, At, TInv, TypeOK, Job
    <2>2. j.chain
      BY <1>2, <2>1 DEF Knows
    <2>3. ASSUME Knows(store, parent, job'[p]) PROVE KInv'
      BY <1>1, <1>2, <1>3, <2>1, <2>3, QuietKInv
    <2>4. CASE j.from = "publish"
      <3>1. job'[p].step \in {"publish", "report"}
        BY <2>1, <2>4 DEF Entry
      <3>2. Len(Preserved["publish"]) = 10
        BY DEF Preserved, ResumeStage
      <3>3. d.workspace \in {"partial", "judged"} /\ d.attempt \in d.dlog
        BY <1>1, <1>2, <2>1, <2>4, <3>2 DEF Knows, Ready
      <3>4. Knows(store, parent, job'[p])
        BY <1>1, <2>1, <3>1, <3>3 DEF Knows, Works, BeforeRepair, ByHand
      <3> QED BY <2>3, <3>4
    <2>5. CASE j.from = "review_impl"
      <3>1. job'[p].step \in {"review_impl", "report"}
        BY <2>1, <2>5 DEF Entry
      <3> QED BY <2>3, <3>1, UnknowingKnows
    <2>6. CASE j.from \notin {"publish", "review_impl"}
      <3>1. job'[p].step \in {"review_issue", "plan", "review_plan", "implement", "report"}
        BY <2>1, <2>6 DEF Entry, ResumeStage
      <3>2. Blank(d) /\ d.publishPlan = "none" /\ Numbered(store, parent, r)
        BY <1>1, <1>2, <2>1, <2>6 DEF Knows
      <3>3. Knows(store, parent, job'[p])
        BY <1>1, <2>1, <2>2, <3>1, <3>2 DEF Knows, Works, BeforeRepair, ByHand
      <3> QED BY <2>3, <3>3
    <2> QED BY <2>4, <2>5, <2>6
  <1> QED BY <1>4, <1>5, <1>6

LEMMA CopyKInv ==
  ASSUME TInv, TInv', GInv, RInv, KInv, NEW p \in Operator, Minds(p), Materialise(p), Copies(p)
  PROVE  KInv'
  <1>1. PICK d, s, a, e : CopyStep(p, d, s, a, e)
    BY DEF CopyStep
  <1>2. PICK j : j = job[p]
    OBVIOUS
  <1>3. /\ j \in Job /\ j.step = "materialise" /\ j.n \in Nat
        /\ j.n + 1 \in 1..Len(Preserved[j.from]) /\ j.from \in ResumeStage
        /\ j.run \in RunId /\ j.src \in RunId
        /\ d \in RunDir /\ s \in RunDir /\ e \in RunDir /\ a \in Artifact
        /\ Write(j.run, e) /\ store'[j.run] = e /\ store'[j.src] = s
        /\ j.src # j.run
        /\ job'[p].step = "materialise" /\ job'[p].run = j.run
        /\ job'[p].src = j.src /\ job'[p].from = j.from /\ job'[p].n = j.n + 1
    BY <1>1, <1>2, CopyStepFacts
  <1>4. /\ d = store[j.run] /\ s = store[j.src]
        /\ a = Preserved[j.from][j.n + 1] /\ e = CopyArtifact(d, s, a)
        /\ MayResume(s, j.from) /\ Knows(store, parent, j)
    BY <1>1, <1>2, <1>3 DEF CopyStep, RInv, KInv, Ready
  <1>5. /\ e.attempt = d.attempt
        /\ e.publishPlan = IF a = "publishPlan" THEN s.publishPlan ELSE d.publishPlan
        /\ e.verdict = IF a = "verdict" THEN s.verdict ELSE d.verdict
        /\ e.repair = IF a = "repair" THEN s.repair ELSE d.repair
        /\ a \notin {"tree", "workspace"} => e.workspace = d.workspace
        /\ a = "tree" /\ s.workspace # "none" => e.workspace = "partial"
        /\ a = "workspace" /\ d.workspace = "partial" => e.workspace = s.workspace
    BY <1>3, <1>4, Copied
  <1>6. job'[p].chain = j.chain /\ j.chain
    BY <1>2, <1>3, <1>4 DEF Materialise, Copies, TInv, TypeOK, Job, Knows
  <1>7. /\ a = "publishPlan" => j.from = "review_impl"
        /\ a \in {"verdict", "repair", "tree", "workspace"} => j.from = "publish"
        /\ j.from = "publish" => (a = "tree" <=> j.n = 8)
        /\ j.from = "publish" => (a = "workspace" <=> j.n = 9)
        /\ j.from = "publish" => j.n < 10
    <2>1. Len(Preserved[j.from]) \in 1..10
      <3>1. PICK from : from = j.from
        OBVIOUS
      <3>2. from \in ResumeStage
        BY <1>3, <3>1
      <3>3. Len(Preserved[from]) \in 1..10
        BY <3>2, PreservedOrder
      <3> QED BY <3>1, <3>3
    <2>2. /\ a = "publishPlan" => j.from = "review_impl"
          /\ a \in {"verdict", "repair", "tree", "workspace"} => j.from = "publish"
          /\ j.from = "publish" => (a = "tree" <=> j.n + 1 = 9)
          /\ j.from = "publish" => (a = "workspace" <=> j.n + 1 = 10)
      BY <1>3, <1>4, EvidenceOrder
    <2>3. j.n + 1 \in 1..Len(Preserved[j.from]) /\ j.n \in Nat
      BY <1>3
    <2>4. j.n < 10
      <3>1. \A k, l : k \in Nat /\ l \in 1..10 /\ k + 1 \in 1..l => k < 10
        OBVIOUS
      <3> QED BY <2>1, <2>3, <3>1
    <2>5. (j.n + 1 = 9 <=> j.n = 8) /\ (j.n + 1 = 10 <=> j.n = 9)
      BY <2>3
    <2> QED BY <2>2, <2>4, <2>5
  <1>8. /\ j.from # "review_impl" => e.publishPlan = "none"
        /\ j.from # "publish" => Blank(e)
    BY <1>3, <1>4, <1>5, <1>7 DEF Knows, Blank
  <1>9. ASSUME j.from = "publish"
        PROVE  /\ s.workspace \in {"partial", "judged"}
               /\ e.workspace = IF j.n + 1 < 9 THEN "none"
                                ELSE IF j.n + 1 < 10 THEN "partial" ELSE s.workspace
    <2>1. /\ s.workspace \in {"partial", "judged"}
          /\ d.workspace = IF j.n < 9 THEN "none" ELSE "partial"
      BY <1>3, <1>4, <1>7, <1>9 DEF Knows
    <2>2. CASE j.n < 8
      BY <1>3, <1>5, <1>7, <1>9, <2>1, <2>2
    <2>3. CASE j.n = 8
      BY <1>3, <1>5, <1>7, <1>9, <2>1, <2>3
    <2>4. CASE j.n = 9
      BY <1>3, <1>5, <1>7, <1>9, <2>1, <2>4
    <2> QED BY <1>3, <1>7, <1>9, <2>2, <2>3, <2>4
  <1>10. Told(e)
    BY <1>8, <1>9 DEF Told, Blank
  <1>11. ByChain => Planned(e)
    <2>1. CASE j.from = "review_impl"
      BY <1>8, <2>1 DEF Planned, Blank
    <2>2. CASE j.from # "review_impl"
      BY <1>8, <2>2 DEF Planned, PlansPr
    <2> QED BY <2>1, <2>2
  <1>12. /\ store \in [RunId -> RunDir] /\ parent \in [RunId -> RunId \union {NoRun}]
         /\ UNCHANGED parent
    BY DEF TInv, TypeOK, Materialise
  <1>13. Numbered(store, parent, j.run)
    BY <1>3, <1>4 DEF Knows
  <1>14. Numbered(store', parent, j.run)
    <2>1. \A x \in RunId : store'[x].attempt = store[x].attempt
      BY <1>3, <1>4, <1>5, <1>12, WriteType
    <2> QED BY <1>3, <1>12, <1>13, <2>1 DEF Numbered
  <1>15. Knows(store', parent, job'[p])
    BY <1>3, <1>6, <1>8, <1>9, <1>14 DEF Knows, Works, BeforeRepair, ByHand
  <1> QED BY <1>2, <1>3, <1>4, <1>5, <1>10, <1>11, <1>12, <1>13, <1>15, KeepKInv

LEMMA MaterialiseKInv ==
  ASSUME TInv, TInv', GInv, RInv, KInv, NEW p \in Operator, Minds(p), Materialise(p)
  PROVE  KInv'
  <1>1. CASE Copies(p)
    BY <1>1, CopyKInv
  <1>2. CASE ~Copies(p)
    <2>1. UNCHANGED <<store, parent>> /\ Stop(p) /\ job[p].step = "materialise"
      BY <1>2 DEF Materialise, Copies, At
    <2> QED BY <2>1, StopFields, UnknowingKnows, QuietKInv
  <1> QED BY <1>1, <1>2

LEMMA PublishStepKInv ==
  ASSUME NoLeftovers, TInv, TInv', GInv, RInv, KInv, NEW p \in Operator, Minds(p),
         ChainPublish(p) \/ Execute(p) \/ RecordResult(p) \/ ChainReviewImpl(p) \/ Crash(p)
  PROVE  KInv'
  <1>1. PICK r, d : r = job[p].run /\ d = store[r]
    OBVIOUS
  <1>2. job[p].step \notin {"idle", "no_intake"} =>
          /\ r \in RunId /\ d \in RunDir /\ Knows(store, parent, job[p])
          /\ Ready(store, job[p])
    BY <1>1, AtWorkKnows
  <1>3. job'[p].step \in {"idle", "execute", "result", "review_impl"}
    <2>1. Stop(p) \/ Go(p, "execute") \/ Go(p, "result") \/ Go(p, "review_impl")
      BY DEF ChainPublish, Execute, RecordResult, ChainReviewImpl, Crash
    <2> QED BY <2>1, GoFields, StopFields
  <1>4. Knows(store, parent, job'[p]) /\ Knows(store', parent', job'[p])
    BY <1>3, UnknowingKnows
  <1>5. UNCHANGED parent
    BY DEF ChainPublish, Execute, RecordResult, ChainReviewImpl, Crash
  <1>6. CASE ChainPublish(p)
    <2> DEFINE k == IF d.intake = "rejected" THEN "update_pr" ELSE "draft_pr"
               e == [d EXCEPT !.publishPlan = k]
    <2>1. /\ r \in RunId /\ d \in RunDir /\ d.verdict = "approved" /\ d.workspace # "unjudged"
          /\ Approves(d, job[p].outcome) /\ job[p].step = "publish"
      BY <1>1, <1>2, <1>6 DEF ChainPublish, At, Ready, Knows
    <2>2. Write(r, e)
      BY <1>1, <1>6, <2>1 DEF ChainPublish
    <2>3. /\ e \in RunDir /\ e.attempt = d.attempt /\ e.issueReview = d.issueReview
          /\ e.verdict = d.verdict /\ e.workspace = d.workspace
      <3>1. k \in {"update_pr", "draft_pr"}
        OBVIOUS
      <3> HIDE DEF k
      <3> QED BY <2>1, <3>1 DEF RunDir
    <2> HIDE DEF e
    <2>4. Told(e) /\ Planned(e)
      BY <2>1, <2>3 DEF Told, Planned
    <2> QED BY <1>1, <1>4, <1>5, <2>1, <2>2, <2>3, <2>4, KeepKInv
  <1>8. CASE RecordResult(p)
    <2> DEFINE x == IF job[p].publish THEN "published" ELSE "dry_run"
               e == [d EXCEPT !.publishResult = x]
    <2>1. /\ Write(r, e) /\ r \in RunId /\ d \in RunDir /\ job[p].step = "result"
      BY <1>1, <1>2, <1>8 DEF RecordResult, At
    <2>2. /\ e \in RunDir /\ e.attempt = d.attempt /\ e.issueReview = d.issueReview
          /\ e.verdict = d.verdict /\ e.workspace = d.workspace
          /\ e.publishPlan = d.publishPlan
      <3>1. x \in {"published", "dry_run"}
        OBVIOUS
      <3> HIDE DEF x
      <3> QED BY <2>1, <3>1 DEF RunDir
    <2> HIDE DEF e
    <2>3. Told(e) \/ (~ByChain /\ Judging(r)')
      BY <1>1, <2>1, <2>2, KeptFits
    <2>4. ByChain => Planned(e)
      BY <1>1, <2>1, <2>2 DEF KInv, Planned, PlansPr
    <2> QED BY <1>1, <1>4, <1>5, <2>1, <2>2, <2>3, <2>4, KeepKInv
  <1>9. CASE Execute(p) \/ ChainReviewImpl(p)
    <2>1. UNCHANGED store /\ job[p].step \in {"execute", "review_impl"}
      BY <1>9 DEF Execute, ChainReviewImpl, At
    <2> QED BY <1>4, <1>5, <2>1, QuietKInv
  <1>10. CASE Crash(p)
    <2>1. UNCHANGED store /\ MayCrash /\ ByChain
      BY <1>10 DEF Crash, NoLeftovers
    <2> QED BY <1>4, <1>5, <2>1, QuietKInv
  <1> QED BY <1>6, <1>8, <1>9, <1>10

LEMMA StepKInv ==
  NoLeftovers /\ LeftAlone /\ NotRetried /\ TInv /\ TInv' /\ GInv /\ RInv /\ RInv' /\ KInv /\ [Next]_vars
    => KInv'
  <1> SUFFICES ASSUME NoLeftovers, LeftAlone, NotRetried, TInv, TInv', GInv, RInv, RInv', KInv,
                      [Next]_vars
               PROVE  KInv'
    OBVIOUS
  <1>1. CASE UNCHANGED vars
    <2>1. \A r \in RunId : Fits(r)' /\ Counted(r)'
      BY <1>1 DEF vars, KInv, Fits, Counted, Judging, Settling
    <2>2. Descends'
      BY <1>1 DEF vars, KInv, Descends
    <2>3. ByChain => \A r \in RunId : Planned(store'[r])
      BY <1>1 DEF vars, KInv
    <2>4. \A p \in Operator : Knows(store', parent', job'[p])
      BY <1>1 DEF vars, KInv
    <2> QED BY <2>1, <2>2, <2>3, <2>4 DEF KInv
  <1>2. ASSUME NEW p \in Operator, StageCommand(p) \/ RepairIssue(p) \/ Advance(p) \/ Crash(p)
        PROVE  KInv'
    <2>1. Minds(p)
      BY <1>2, ActsAlone DEF Minds
    <2> QED BY <1>2, <2>1, StageCommandKInv, StageWriteKInv, RepairIssueKInv, SettleKInv, EnterKInv,
               MaterialiseKInv, ChainStepKInv, ImplementStepKInv, PublishStepKInv DEF Advance
  <1> QED BY <1>1, <1>2 DEF Next

LEMMA InitKInv == Init => KInv
  <1> SUFFICES ASSUME Init PROVE KInv
    OBVIOUS
  <1>1. \A p \in Operator : job[p].step = "idle"
    BY DEF Init, Idle
  <1>2. \A r \in RunId : Told(store[r]) /\ Planned(store[r]) /\ parent[r] = NoRun
    BY DEF Init, EmptyDir, Told, Planned, PlansPr
  <1>3. Descends
    BY <1>2 DEF Descends
  <1>4. \A r \in RunId : Fits(r) /\ Counted(r)
    BY <1>2 DEF Fits, Counted, Numbered
  <1> QED BY <1>1, <1>2, <1>3, <1>4, UnknowingKnows DEF KInv

LEMMA ApartSteps == SpecApart => Spec /\ [][LeftAlone]_vars /\ [][NotRetried]_vars
  <1>1. [Next /\ LeftAlone /\ NotRetried]_vars
          => [Next]_vars /\ [LeftAlone]_vars /\ [NotRetried]_vars
    OBVIOUS
  <1> QED BY <1>1, PTL DEF SpecApart, Spec

LEMMA KnowingInvariance ==
  ASSUME NoLeftovers
  PROVE  SpecApart => [](TInv /\ GInv /\ RInv /\ KInv)
  <1>1. /\ TInv /\ TInv' /\ GInv /\ RInv /\ RInv' /\ KInv
        /\ [Next]_vars /\ [LeftAlone]_vars /\ [NotRetried]_vars
        => KInv'
    <2> SUFFICES ASSUME TInv, TInv', GInv, RInv, RInv', KInv,
                        [Next]_vars, [LeftAlone]_vars, [NotRetried]_vars
                 PROVE  KInv'
      OBVIOUS
    <2>1. LeftAlone /\ NotRetried
      BY Stuttering
    <2> QED BY <2>1, StepKInv
  <1> QED BY <1>1, InitKInv, ApartSteps, ChainInvariance, PTL DEF Spec

\* Operators who keep off each other's runs never have a reviewed run that miscounts: it is
\* one attempt past the run it retries, wherever processes died while only the chain and
\* `publish run` were used, or whatever stages were run by hand while none died
\* (repair_issue, create_retry_run).
THEOREM LineageIsCounted ==
  ASSUME NoLeftovers
  PROVE  SpecApart => []LineageCounted
  <1>1. ASSUME KInv PROVE LineageCounted
    <2> SUFFICES ASSUME NEW r \in RunId, parent[r] # NoRun, store[r].issueReview # "none"
                 PROVE  store[r].attempt = store[parent[r]].attempt + 1
      BY DEF LineageCounted
    <2> QED BY <1>1 DEF KInv, Counted, Numbered
  <1> QED BY <1>1, KnowingInvariance, PTL

-----------------------------------------------------------------------------
(* What it adds that nobody publishes anew a run whose workspace was       *)
(* copied in part: a chain that publishes has the whole of it.             *)

\* What the job publishes, or is copying to publish, is whole.
Carries(S, j) ==
  /\ j.step = "materialise" /\ j.from = "publish" => S[j.src].workspace # "partial"
  /\ j.step = "publish" => S[j.run].workspace # "partial"

WInv ==
  /\ \A p \in Operator : Carries(store, job[p])
  /\ ByChain =>
       /\ PublishedAsJudged
       /\ \A r \in RunId : PlansPr(store[r]) => store[r].workspace # "partial"

LEMMA OthersCarry ==
  ASSUME TInv, WInv, NEW p \in Operator, Acts(p), NEW q \in Operator, q # p
  PROVE  Carries(store', job'[q])
  <1>1. job'[q] = job[q] /\ Carries(store, job[q])
    BY DEF Acts, WInv
  <1>2. CASE job[q].step \in {"materialise", "publish"}
    <2>1. \A r \in RunId \intersect {job[q].run, job[q].src} : store'[r] = store[r]
      BY <1>1, <1>2 DEF Acts, LeftAlone, At
    <2>2. job[q].run \in RunId /\ (job[q].step = "materialise" => job[q].src \in RunId)
      BY <1>2 DEF TInv, Working
    <2> QED BY <1>1, <2>1, <2>2 DEF Carries
  <1> QED BY <1>1, <1>2 DEF Carries

\* A write that neither plans a pull request nor begins a tree under one.
Tame(d, e) ==
  PlansPr(e) /\ e.workspace = "partial" => PlansPr(d) /\ d.workspace = "partial"

LEMMA WriteWInv ==
  ASSUME TInv, WInv, NEW p \in Operator, Acts(p), NEW r \in RunId, NEW e \in RunDir,
         Write(r, e), Tame(store[r], e), UNCHANGED prs, Carries(store', job'[p])
  PROVE  WInv'
  <1>1. \A q \in Operator : Carries(store', job'[q])
    BY OthersCarry
  <1>2. store'[r] = e /\ \A s \in RunId : s # r => store'[s] = store[s]
    BY WriteType DEF TInv, TypeOK
  <1>3. ASSUME ByChain, NEW s \in RunId
        PROVE  PlansPr(store'[s]) => store'[s].workspace # "partial"
    BY <1>2, <1>3 DEF WInv, Tame
  <1> QED BY <1>1, <1>3 DEF WInv, PublishedAsJudged

LEMMA QuietWInv ==
  ASSUME TInv, WInv, NEW p \in Operator, Acts(p), UNCHANGED <<store, prs>>,
         Carries(store, job'[p])
  PROVE  WInv'
  <1>1. \A q \in Operator : Carries(store', job'[q])
    BY OthersCarry
  <1> QED BY <1>1 DEF WInv, PublishedAsJudged

\* Steps at which a job carries nothing.
LEMMA Unburdened ==
  ASSUME NEW S, NEW j, j.step \notin {"materialise", "publish"}
  PROVE  Carries(S, j)
  BY DEF Carries

LEMMA StageCommandWInv ==
  ASSUME TInv, WInv, KInv, NEW p \in Operator, Acts(p),
         \/ StageCommand(p)
         \/ WriteIssueReview(p) \/ WritePlan(p) \/ WritePlanReview(p)
  PROVE  WInv'
  <1>0. job \in [Operator -> Job] /\ store \in [RunId -> RunDir]
    BY DEF TInv, TypeOK
  <1>1. CASE CreateIssue(p)
    <2>1. PICK r \in RunId, i \in Intakes : Write(r, NewDir(i))
      BY <1>1 DEF CreateIssue
    <2>2. NewDir(i) \in RunDir /\ Tame(store[r], NewDir(i))
      BY NewDirType DEF NewDir, EmptyDir, Tame, PlansPr
    <2>3. Carries(store', job'[p]) /\ UNCHANGED prs
      BY <1>1, Unburdened DEF CreateIssue, Issue, At
    <2> QED BY <2>1, <2>2, <2>3, WriteWInv
  <1>2. ASSUME NEW r \in RunId,
               \/ ReviewIssue(p, r) \/ ReviewPlan(p, r) \/ \E pl \in Plan : PlanRun(p, r, pl)
               \/ ImplementRun(p, r) \/ PublishRun(p, r)
        PROVE  WInv'
    <2>1. ASSUME NEW j, Begin(p, j) PROVE job'[p] = j
      BY <1>0, <2>1 DEF Begin
    <2>2. job'[p].step \notin {"materialise", "publish"}
      <3>1. CASE ReviewIssue(p, r)
        BY <2>1, <3>1 DEF ReviewIssue, Idle
      <3>2. CASE ReviewPlan(p, r)
        BY <2>1, <3>2 DEF ReviewPlan, Idle
      <3>3. CASE \E pl \in Plan : PlanRun(p, r, pl)
        BY <2>1, <3>3 DEF PlanRun, Idle
      <3>4. CASE ImplementRun(p, r)
        BY <2>1, <3>4 DEF ImplementRun, Idle
      <3>5. CASE PublishRun(p, r)
        BY <2>1, <3>5 DEF PublishRun, Idle
      <3> QED BY <1>2, <3>1, <3>2, <3>3, <3>4, <3>5
    <2>3. UNCHANGED <<store, prs>>
      BY <1>2 DEF ReviewIssue, ReviewPlan, PlanRun, ImplementRun, PublishRun
    <2> QED BY <2>2, <2>3, Unburdened, QuietWInv
  <1>3. CASE WriteIssueReview(p) \/ WritePlan(p) \/ WritePlanReview(p)
    <2>1. job[p].step \in ByHand
      BY <1>3 DEF WriteIssueReview, WritePlan, WritePlanReview, At, ByHand
    <2>2. ~ByChain
      BY <2>1 DEF KInv, Knows
    <2>3. Carries(store', job'[p])
      BY <1>3, StopFields, Unburdened DEF WriteIssueReview, WritePlan, WritePlanReview
    <2>4. \A q \in Operator : Carries(store', job'[q])
      BY <2>3, OthersCarry
    <2> QED BY <2>2, <2>4 DEF WInv
  <1> QED BY <1>1, <1>2, <1>3 DEF StageCommand

LEMMA RepairIssueWInv ==
  ASSUME TInv, WInv, NEW p \in Operator, Acts(p), WholeSource, RepairIssue(p)
  PROVE  WInv'
  <1>1. PICK pl \in Plan \union {NoPlan}, publish \in BOOLEAN, r \in RunId :
          \/ \E i \in Intakes : Fresh(p, r, i, pl, publish)
          \/ \E src \in RunId, i \in Intakes : Retry(p, src, r, i, pl, publish)
          \/ \E src \in RunId, stage \in ResumeStage : Resume(p, src, r, stage, pl, publish)
    BY DEF RepairIssue
  <1>0. /\ job \in [Operator -> Job] /\ store \in [RunId -> RunDir]
        /\ UNCHANGED prs /\ job[p].step = "idle"
    BY <1>1 DEF TInv, TypeOK, Fresh, Retry, Resume, Issue, At
  <1>2. ASSUME NEW i \in Intakes, Write(r, NewDir(i)),
               job'[p].step \in {"review_issue", "report", "number", "escalate"}
        PROVE  WInv'
    <2>1. NewDir(i) \in RunDir /\ Tame(store[r], NewDir(i))
      BY NewDirType DEF NewDir, EmptyDir, Tame, PlansPr
    <2> QED BY <1>0, <1>2, <2>1, Unburdened, WriteWInv
  <1>3. ASSUME NEW i \in Intakes, Fresh(p, r, i, pl, publish) PROVE WInv'
    <2>1. Write(r, NewDir(i)) /\ job'[p].step = Entry(i, "review_issue")
      BY <1>0, <1>3, IdleType DEF Fresh, Begin, Job
    <2> QED BY <1>2, <2>1 DEF Entry
  <1>4. ASSUME NEW src \in RunId, NEW i \in Intakes, Retry(p, src, r, i, pl, publish)
        PROVE  WInv'
    <2>1. Write(r, NewDir(i)) /\ job'[p].step \in {"number", "escalate"}
      BY <1>0, <1>4, IdleType DEF Retry, Begin, Job
    <2> QED BY <1>2, <2>1
  <1>5. ASSUME NEW src \in RunId, NEW stage \in ResumeStage,
               Resume(p, src, r, stage, pl, publish)
        PROVE  WInv'
    <2>1. CASE Exhausted(store[src].attempt + 1)
      <3>1. job'[p].step = "no_intake" /\ UNCHANGED store
        BY <1>0, <1>5, <2>1, IdleType DEF Resume, Begin, Job
      <3> QED BY <1>0, <3>1, Unburdened, QuietWInv
    <2>2. CASE ~Exhausted(store[src].attempt + 1)
      <3> DEFINE n == store[src].attempt + 1
                 i == store[src].intake
                 e == [EmptyDir EXCEPT !.attempt = n, !.intake = i]
                 plan == IF stage = "review_issue" THEN pl
                         ELSE IF stage = "plan" THEN Carried(src, pl) ELSE NoPlan
                 j == [Idle EXCEPT !.step = "materialise", !.run = r, !.src = src,
                                   !.from = stage, !.plan = plan,
                                   !.publish = publish, !.chain = TRUE]
      <3>1. Exists(src) /\ ~Exists(r) /\ Write(r, e) /\ Begin(p, j)
        BY <1>5, <2>2 DEF Resume
      <3>2. j.step = "materialise" /\ j.run = r /\ j.src = src /\ j.from = stage
        <4> HIDE DEF plan
        <4> QED BY DEF Idle
      <3>3. n \in Nat /\ i \in Intake
        BY <1>0 DEF RunDir
      <3>4. e \in RunDir /\ e.publishPlan = "none"
        <4> HIDE DEF n, i
        <4> QED BY <3>3, ResumedType DEF EmptyDir
      <3> HIDE DEF j, e, n, i
      <3>5. job'[p] = j /\ store'[src] = store[src]
        BY <1>0, <3>1, <3>4, WriteType DEF Begin
      <3>6. Carries(store', job'[p])
        <4>1. ~At(p, "materialise") /\ At(p, "materialise")'
          BY <1>0, <3>2, <3>5 DEF At
        <4>2. stage = "publish" => store[src].workspace # "partial"
          BY <3>2, <3>5, <4>1 DEF WholeSource
        <4> QED BY <3>2, <3>5, <4>2 DEF Carries
      <3> QED BY <1>0, <3>1, <3>4, <3>6, WriteWInv DEF Tame, PlansPr
    <2> QED BY <2>1, <2>2
  <1> QED BY <1>1, <1>3, <1>4, <1>5

\* While the copies are made nothing is planned over them.
LEMMA MaterialiseWInv ==
  ASSUME TInv, TInv', GInv, RInv, KInv, KInv', WInv, NEW p \in Operator, Acts(p),
         Materialise(p)
  PROVE  WInv'
  <1>1. CASE Copies(p)
    <2>1. PICK d, s, a, e : CopyStep(p, d, s, a, e)
      BY DEF CopyStep
    <2>2. PICK j, k : j = job[p] /\ k = job'[p]
      OBVIOUS
    <2>3. /\ j.step = "materialise" /\ j.run \in RunId /\ j.src \in RunId /\ e \in RunDir
          /\ Write(j.run, e) /\ store'[j.run] = e /\ store'[j.src] = store[j.src]
          /\ k.step = "materialise" /\ k.run = j.run /\ k.src = j.src /\ k.from = j.from
      BY <1>1, <2>1, <2>2, CopyStepFacts DEF CopyStep
    <2>4. Knows(store', parent', k)
      BY <2>2 DEF KInv
    <2>5. PlansPr(e) => e.workspace # "partial"
      BY <2>3, <2>4 DEF Knows, Blank, PlansPr
    <2>6. Carries(store, j)
      BY <2>2 DEF WInv
    <2>7. Carries(store', k)
      BY <2>3, <2>6 DEF Carries
    <2>8. UNCHANGED prs
      BY DEF Materialise
    <2> QED BY <2>2, <2>3, <2>5, <2>7, <2>8, WriteWInv DEF Tame
  <1>2. CASE ~Copies(p)
    <2>1. UNCHANGED <<store, prs>> /\ Stop(p)
      BY <1>2 DEF Materialise, Copies
    <2> QED BY <2>1, StopFields, Unburdened, QuietWInv
  <1> QED BY <1>1, <1>2

LEMMA RetryStepWInv ==
  ASSUME TInv, TInv', GInv, RInv, KInv, WInv, NEW p \in Operator, Acts(p),
         NumberAttempt(p) \/ Escalate(p) \/ Enter(p) \/ ReportBlocked(p)
  PROVE  WInv'
  <1>1. PICK r, d, n, pl, j :
          r = job[p].run /\ d = store[r] /\ n = job[p].n /\ pl = job[p].plan /\ j = job[p]
    OBVIOUS
  <1>2. /\ r \in RunId /\ d \in RunDir /\ n \in Nat /\ pl \in Plan \union {NoPlan}
        /\ j \in Job /\ Knows(store, parent, j)
        /\ store \in [RunId -> RunDir] /\ UNCHANGED prs
    BY <1>1, AtWorkKnows DEF NumberAttempt, Escalate, Enter, ReportBlocked, At, Job, TInv, TypeOK
  <1>3. CASE NumberAttempt(p)
    <2>1. PICK e : e = [d EXCEPT !.attempt = n]
      OBVIOUS
    <2>2. Write(r, e) /\ e \in RunDir /\ Tame(d, e)
      BY <1>1, <1>2, <1>3, <2>1 DEF NumberAttempt, RunDir, Tame, PlansPr
    <2>3. job'[p].step \notin {"materialise", "publish"}
      BY <1>3, GoFields DEF NumberAttempt, Entry
    <2> QED BY <1>1, <1>2, <2>2, <2>3, Unburdened, WriteWInv
  <1>4. CASE Escalate(p)
    <2>1. PICK e : e = [d EXCEPT !.attempt = n, !.plan = pl, !.repair = "escalated",
                                 !.verdict = "blocked", !.publishPlan = "issue"]
      OBVIOUS
    <2>2. Write(r, e) /\ e \in RunDir
      BY <1>1, <1>2, <1>4, <2>1, ClosedType DEF Escalate
    <2>3. e.publishPlan = "issue"
      BY <1>2, <2>1 DEF RunDir
    <2>4. job'[p].step \notin {"materialise", "publish"}
      BY <1>4, GoFields DEF Escalate
    <2> QED BY <1>2, <2>2, <2>3, <2>4, Unburdened, WriteWInv DEF Tame, PlansPr
  <1>5. CASE ReportBlocked(p)
    <2>1. PICK e : e = [d EXCEPT !.verdict = "blocked", !.publishPlan = "issue"]
      OBVIOUS
    <2>2. Write(r, e) /\ e \in RunDir /\ e.publishPlan = "issue"
      BY <1>1, <1>2, <1>5, <2>1 DEF ReportBlocked, RunDir
    <2>3. job'[p].step \notin {"materialise", "publish"}
      BY <1>5, GoFields DEF ReportBlocked
    <2> QED BY <1>2, <2>2, <2>3, Unburdened, WriteWInv DEF Tame, PlansPr
  <1>6. CASE Enter(p) /\ Stop(p)
    <2>1. UNCHANGED store
      BY <1>6 DEF Enter
    <2> QED BY <1>2, <1>6, <2>1, StopFields, Unburdened, QuietWInv
  <1>7. CASE Enter(p) /\ ~Stop(p)
    <2>1. /\ job'[p].step = Entry(d.intake, j.from) /\ job'[p].run = r
          /\ UNCHANGED store /\ j.from \in ResumeStage
          /\ j.step = "materialise" /\ j.n = Len(Preserved[j.from])
      BY <1>1, <1>2, <1>7 DEF Enter, At, TInv, TypeOK, Job
    <2>2. CASE j.from = "publish"
      <3>1. Len(Preserved["publish"]) = 10
        BY DEF Preserved, ResumeStage
      <3>2. d.workspace = store[j.src].workspace
        BY <1>1, <1>2, <2>1, <2>2, <3>1 DEF Knows
      <3>3. Carries(store, j)
        BY <1>1 DEF WInv
      <3>4. d.workspace # "partial"
        BY <2>1, <2>2, <3>2, <3>3 DEF Carries
      <3>5. Carries(store, job'[p])
        BY <1>1, <2>1, <2>2, <3>4 DEF Entry, Carries
      <3> QED BY <1>2, <2>1, <3>5, QuietWInv
    <2>3. CASE j.from # "publish"
      <3>1. job'[p].step \notin {"materialise", "publish"}
        BY <2>1, <2>3 DEF Entry, ResumeStage
      <3> QED BY <1>2, <2>1, <3>1, Unburdened, QuietWInv
    <2> QED BY <2>2, <2>3
  <1> QED BY <1>3, <1>4, <1>5, <1>6, <1>7

LEMMA ChainStepWInv ==
  ASSUME TInv, TInv', GInv, RInv, KInv, WInv, NEW p \in Operator, Acts(p),
         \/ ChainReviewIssue(p) \/ ChainPlan(p) \/ ChainReviewPlan(p) \/ ChainImplement(p)
         \/ Repair(p) \/ RecordRepair(p) \/ Judge(p)
  PROVE  WInv'
  <1>1. PICK r, d, o, pl :
          r = job[p].run /\ d = store[r] /\ o = job[p].outcome /\ pl = job[p].plan
    OBVIOUS
  <1>2. /\ r \in RunId /\ d \in RunDir /\ o \in Outcomes /\ pl \in Plan \union {NoPlan}
        /\ job[p] \in Job /\ Knows(store, parent, job[p]) /\ store \in [RunId -> RunDir]
    BY <1>1, AtWorkKnows DEF ChainReviewIssue, ChainPlan, ChainReviewPlan, ChainImplement, Repair,
                             RecordRepair, Judge, At, Job, TInv, TypeOK
  <1>3. UNCHANGED prs
    BY DEF ChainReviewIssue, ChainPlan, ChainReviewPlan, ChainImplement, Repair, RecordRepair, Judge
  <1>4. ASSUME NEW e \in RunDir, Write(r, e), e.publishPlan = d.publishPlan,
               e.workspace \in {d.workspace, "unjudged", "judged"}, Carries(store', job'[p])
        PROVE  WInv'
    BY <1>1, <1>2, <1>3, <1>4, WriteWInv DEF Tame, PlansPr
  <1>5. CASE ChainReviewIssue(p) \/ ChainPlan(p) \/ ChainReviewPlan(p) \/ ChainImplement(p)
    <2>1. job'[p].step \notin {"materialise", "publish"}
      BY <1>5, GoFields, StopFields
         DEF ChainReviewIssue, ChainPlan, ChainReviewPlan, ChainImplement
    <2>2. \/ UNCHANGED store
          \/ \E e \in RunDir : Write(r, e) /\ e.publishPlan = d.publishPlan
                                           /\ e.workspace = d.workspace
      <3>1. CASE ChainReviewIssue(p) \/ ChainReviewPlan(p)
        <4>1. PICK e \in {IssueReviewed(d), PlanReviewed(d)} : Write(r, e)
          BY <1>1, <3>1 DEF ChainReviewIssue, ChainReviewPlan
        <4> QED BY <1>2, <4>1, ReviewedType, WithoutEvidence
      <3>2. CASE ChainPlan(p)
        <4>1. PICK e : e = [d EXCEPT !.plan = pl]
          OBVIOUS
        <4>2. e \in RunDir /\ e.publishPlan = d.publishPlan /\ e.workspace = d.workspace
          BY <1>2, <4>1 DEF RunDir
        <4>3. UNCHANGED store \/ Write(r, d) \/ Write(r, e)
          BY <1>1, <3>2, <4>1 DEF ChainPlan
        <4> QED BY <1>2, <4>2, <4>3
      <3>3. CASE ChainImplement(p)
        BY <3>3 DEF ChainImplement
      <3> QED BY <1>5, <3>1, <3>2, <3>3
    <2> QED BY <1>3, <1>4, <2>1, <2>2, Unburdened, QuietWInv
  <1>6. CASE Repair(p)
    <2>1. PICK x \in Outcomes :
            /\ job' = [job EXCEPT ![p].outcome = x,
                                  ![p].step = IF x.repair = "none" THEN "judge" ELSE "record"]
            /\ Write(r, IF x.repair = "none" THEN d ELSE [d EXCEPT !.workspace = "unjudged"])
      BY <1>1, <1>6 DEF Repair
    <2>2. job'[p].step \notin {"materialise", "publish"}
      BY <1>2, <2>1 DEF TInv, TypeOK, Job
    <2>3. PICK e : Write(r, e) /\ e \in {d, [d EXCEPT !.workspace = "unjudged"]}
      BY <2>1
    <2>4. e \in RunDir /\ e.publishPlan = d.publishPlan
          /\ e.workspace \in {d.workspace, "unjudged"}
      BY <1>2, <2>3 DEF RunDir, Workspace
    <2> QED BY <1>4, <2>2, <2>3, <2>4, Unburdened
  <1>7. CASE RecordRepair(p)
    <2> DEFINE q == d.qa \/ o.qa
               l == IF o.repair = "completed" THEN d.dlog \union {d.attempt} ELSE d.dlog
               e == [d EXCEPT !.repair = o.repair, !.qa = q, !.dlog = l]
    <2>1. Write(r, e) /\ Go(p, "judge")
      BY <1>1, <1>7 DEF RecordRepair
    <2>2. e.publishPlan = d.publishPlan /\ e.workspace = d.workspace
      <3> HIDE DEF q, l
      <3> QED BY <1>2 DEF RunDir
    <2> HIDE DEF e
    <2>3. e \in RunDir
      BY <1>2, <2>1 DEF Write, TInv, TypeOK
    <2>4. job'[p].step \notin {"materialise", "publish"}
      BY <2>1, GoFields
    <2> QED BY <1>4, <2>1, <2>2, <2>3, <2>4, Unburdened
  <1>8. CASE Judge(p)
    <2> DEFINE v == IF Approves(d, o) THEN "approved" ELSE "blocked"
               w == IF d.workspace \in {"none", "partial"} THEN d.workspace
                    ELSE IF o.repair = "none" THEN "unjudged" ELSE "judged"
               e == [d EXCEPT !.verdict = v, !.workspace = w]
    <2>1. Write(r, e) /\ (Stop(p) \/ (Go(p, "publish") /\ Approves(d, o)))
      BY <1>1, <1>8 DEF Judge
    <2>2. d.workspace \in {"none", "partial"} => o.repair = "none"
      BY <1>1, <1>2, <1>8 DEF Knows, Judge, At
    <2>3. /\ Approves(d, o) => w = "judged"
          /\ w \in {d.workspace, "unjudged", "judged"}
      BY <1>2, <2>2 DEF Approves, Outcomes
    <2>4. e.publishPlan = d.publishPlan /\ e.workspace = w
      <3> HIDE DEF v, w
      <3> QED BY <1>2 DEF RunDir
    <2> HIDE DEF e, v, w
    <2>5. e \in RunDir /\ store'[r] = e
      BY <1>2, <2>1 DEF Write, TInv, TypeOK
    <2>6. /\ job'[p].step \in {"idle", "publish"}
          /\ job'[p].step = "publish" => Approves(d, o) /\ job'[p].run = r
      BY <1>1, <2>1, GoFields, StopFields
    <2>7. Carries(store', job'[p])
      BY <2>3, <2>4, <2>5, <2>6 DEF Carries
    <2> QED BY <1>4, <2>1, <2>3, <2>4, <2>5, <2>7
  <1> QED BY <1>5, <1>6, <1>7, <1>8

LEMMA PublishStepWInv ==
  ASSUME TInv, TInv', GInv, RInv, KInv, WInv, NEW p \in Operator, Acts(p),
         ChainPublish(p) \/ Execute(p) \/ RecordResult(p) \/ ChainReviewImpl(p) \/ Crash(p)
  PROVE  WInv'
  <1>1. PICK r, d, j : r = job[p].run /\ d = store[r] /\ j = job[p]
    OBVIOUS
  <1>2. job[p].step \notin {"idle", "no_intake"} =>
          /\ r \in RunId /\ d \in RunDir /\ Ready(store, j) /\ Carries(store, j)
    BY <1>1, AtWorkKnows DEF WInv
  <1>3. Carries(store, job'[p]) /\ Carries(store', job'[p])
    <2>1. Stop(p) \/ Go(p, "execute") \/ Go(p, "result") \/ Go(p, "review_impl")
      BY DEF ChainPublish, Execute, RecordResult, ChainReviewImpl, Crash
    <2>2. job'[p].step \notin {"materialise", "publish"}
      BY <2>1, GoFields, StopFields
    <2> QED BY <2>2, Unburdened
  <1>4. CASE ChainPublish(p)
    <2> DEFINE k == IF d.intake = "rejected" THEN "update_pr" ELSE "draft_pr"
               e == [d EXCEPT !.publishPlan = k]
    <2>1. /\ r \in RunId /\ d \in RunDir /\ d.workspace # "partial"
          /\ Approves(d, job[p].outcome)
      BY <1>1, <1>2, <1>4 DEF ChainPublish, At, Ready, Carries
    <2>2. Write(r, e) /\ UNCHANGED prs
      BY <1>1, <1>4, <2>1 DEF ChainPublish
    <2>3. e \in RunDir /\ e.workspace = d.workspace
      <3>1. k \in {"update_pr", "draft_pr"}
        OBVIOUS
      <3> HIDE DEF k
      <3> QED BY <2>1, <3>1 DEF RunDir
    <2> HIDE DEF e
    <2> QED BY <1>3, <2>1, <2>2, <2>3, WriteWInv DEF Tame
  <1>5. CASE Execute(p)
    <2>1. UNCHANGED store /\ job[p].step = "execute" /\ r \in RunId /\ d \in RunDir
      BY <1>2, <1>5 DEF Execute, At
    <2>2. \/ UNCHANGED prs
          \/ /\ PlansPr(d) /\ d.workspace # "none"
             /\ \E x : prs' = prs \union
                         {[run |-> r, verdict |-> d.verdict, judged |-> d.workspace = "judged",
                           logged |-> x]}
      BY <1>1, <1>5 DEF Execute
    <2>3. ByChain => PublishedAsJudged'
      <3>0. SUFFICES ASSUME ByChain PROVE PublishedAsJudged'
        OBVIOUS
      <3>1. CASE UNCHANGED prs
        BY <3>0, <3>1 DEF WInv, PublishedAsJudged
      <3>2. CASE ~UNCHANGED prs
        <4>1. d.verdict = "approved" /\ d.workspace = "judged"
          BY <1>1, <2>1, <2>2, <3>0, <3>2
             DEF KInv, Fits, Told, Planned, WInv, RunDir, Workspace
        <4>2. PICK x : prs' = prs \union
                         {[run |-> r, verdict |-> d.verdict, judged |-> d.workspace = "judged",
                           logged |-> x]}
          BY <2>2, <3>2
        <4>3. PICK pr : pr = [run |-> r, verdict |-> d.verdict,
                              judged |-> d.workspace = "judged", logged |-> x]
          OBVIOUS
        <4>4. pr.judged /\ pr.verdict = "approved"
          <5>1. pr.judged = (d.workspace = "judged") /\ pr.verdict = d.verdict
            BY <4>3
          <5> QED BY <4>1, <5>1
        <4>5. prs' = prs \union {pr}
          BY <4>2, <4>3
        <4> QED BY <3>0, <4>4, <4>5 DEF WInv, PublishedAsJudged
      <3> QED BY <3>1, <3>2
    <2>4. \A q \in Operator : Carries(store', job'[q])
      BY <1>3, OthersCarry
    <2> QED BY <2>1, <2>3, <2>4 DEF WInv
  <1>6. CASE RecordResult(p)
    <2> DEFINE x == IF job[p].publish THEN "published" ELSE "dry_run"
               e == [d EXCEPT !.publishResult = x]
    <2>1. Write(r, e) /\ UNCHANGED prs /\ r \in RunId /\ d \in RunDir
      BY <1>1, <1>2, <1>6 DEF RecordResult, At
    <2>2. e \in RunDir /\ e.workspace = d.workspace /\ e.publishPlan = d.publishPlan
      <3>1. x \in {"published", "dry_run"}
        OBVIOUS
      <3> HIDE DEF x
      <3> QED BY <2>1, <3>1 DEF RunDir
    <2> HIDE DEF e
    <2> QED BY <1>1, <1>3, <2>1, <2>2, WriteWInv DEF Tame, PlansPr
  <1>7. CASE ChainReviewImpl(p) \/ Crash(p)
    <2>1. UNCHANGED <<store, prs>>
      BY <1>7 DEF ChainReviewImpl, Crash
    <2> QED BY <1>3, <2>1, QuietWInv
  <1> QED BY <1>4, <1>5, <1>6, <1>7

LEMMA StepWInv ==
  ASSUME LeftAlone, WholeSource, TInv, TInv', GInv, RInv, KInv, KInv', WInv, [Next]_vars
  PROVE  WInv'
  <1>1. CASE UNCHANGED vars
    BY <1>1 DEF vars, WInv, PublishedAsJudged
  <1>2. ASSUME NEW p \in Operator, StageCommand(p) \/ RepairIssue(p) \/ Advance(p) \/ Crash(p)
        PROVE  WInv'
    <2>1. Acts(p)
      BY <1>2, ActsAlone
    <2> QED BY <1>2, <2>1, StageCommandWInv, RepairIssueWInv, MaterialiseWInv, RetryStepWInv,
               ChainStepWInv, PublishStepWInv DEF Advance
  <1> QED BY <1>1, <1>2 DEF Next

LEMMA InitWInv == Init => WInv
  BY DEF Init, Idle, EmptyDir, WInv, Carries, PublishedAsJudged, PlansPr

LEMMA WholeSteps ==
  /\ SpecWhole => SpecApart /\ [][WholeSource]_vars
  /\ SpecApart /\ [][WholeSource]_vars => SpecWhole
  <1>1. [Next /\ LeftAlone /\ NotRetried /\ WholeSource]_vars
          <=> [Next /\ LeftAlone /\ NotRetried]_vars /\ [WholeSource]_vars
    OBVIOUS
  <1> QED BY <1>1, PTL DEF SpecApart, SpecWhole

LEMMA WholeInvariance ==
  ASSUME NoLeftovers
  PROVE  SpecWhole => [](RInv /\ KInv /\ WInv)
  <1>1. /\ TInv /\ TInv' /\ GInv /\ RInv /\ KInv /\ KInv' /\ WInv
        /\ [Next /\ LeftAlone /\ NotRetried /\ WholeSource]_vars
        => WInv'
    <2> SUFFICES ASSUME TInv, TInv', GInv, RInv, KInv, KInv', WInv,
                        [Next /\ LeftAlone /\ NotRetried /\ WholeSource]_vars
                 PROVE  WInv'
      OBVIOUS
    <2>1. CASE UNCHANGED vars
      BY <2>1 DEF vars, WInv, PublishedAsJudged
    <2>2. CASE Next /\ LeftAlone /\ WholeSource
      BY <2>2, StepWInv
    <2> QED BY <2>1, <2>2
  <1> QED BY <1>1, InitWInv, WholeSteps, KnowingInvariance, PTL DEF SpecWhole

\* Under these terms a chain comes to publish with its own approved verdict, the whole of
\* the workspace that verdict is about, and the decision log of its own attempt, also when
\* they were copied from the run it retries (copy_retry_artifacts, _reload_retry_context).
THEOREM EvidenceIsOwn ==
  ASSUME NoLeftovers
  PROVE  SpecWhole => []EvidenceFollowsRun
  <1>1. RInv /\ KInv /\ WInv => EvidenceFollowsRun
    BY DEF RInv, Ready, KInv, Knows, WInv, Carries, EvidenceFollowsRun, At
  <1> QED BY <1>1, WholeInvariance, PTL

\* And if the stages are never run by hand, every pull request these operators open was
\* judged and approved as it is pushed, also by a `publish run` that finishes what a killed
\* chain had planned.
THEOREM PublicationWasJudged ==
  ASSUME ByChain
  PROVE  SpecWhole => []PublishedAsJudged
  <1>1. NoLeftovers /\ (WInv => PublishedAsJudged)
    BY DEF NoLeftovers, WInv
  <1> QED BY <1>1, WholeInvariance, PTL

-----------------------------------------------------------------------------
(* One operator has nobody to keep off.                                    *)

OneOperator == \A p, q \in Operator : p = q

\* Whoever is at a step of a command leaves it.
LEMMA AdvanceMoves ==
  ASSUME TInv, GInv, NEW p \in Operator, Advance(p) \/ Crash(p)
  PROVE  job'[p] # job[p]
  <1> USE DEF At
  <1>1. CASE NumberAttempt(p)
    BY <1>1, GoFields DEF NumberAttempt, Entry
  <1>2. CASE Escalate(p) \/ ReportBlocked(p)
    BY <1>2, GoFields DEF Escalate, ReportBlocked
  <1>3. CASE Materialise(p)
    <2>1. \/ job'[p].n = job[p].n + 1 /\ job[p].n \in Nat
          \/ Stop(p) /\ job[p].step = "materialise"
      BY <1>3 DEF Materialise, TInv, TypeOK, Job
    <2> QED BY <2>1, StopFields
  <1>4. CASE Enter(p)
    <2>1. CASE Stop(p)
      BY <1>4, <2>1, StopFields DEF Enter
    <2>2. CASE ~Stop(p)
      <3>1. /\ job'[p].step = Entry(store[job[p].run].intake, job[p].from)
            /\ job[p].from \in ResumeStage /\ job[p].step = "materialise"
        BY <1>4, <2>2 DEF Enter, TInv, TypeOK, Job
      <3> QED BY <3>1 DEF Entry, ResumeStage
    <2> QED BY <2>1, <2>2
  <1>5. CASE ChainReviewIssue(p) \/ ChainPlan(p) \/ ChainReviewPlan(p) \/ ChainImplement(p)
    BY <1>5, GoFields, StopFields
       DEF ChainReviewIssue, ChainPlan, ChainReviewPlan, ChainImplement
  <1>6. CASE Repair(p)
    <2>1. job'[p].step \in {"judge", "record"} /\ job[p].step = "repair"
      BY <1>6 DEF Repair, TInv, TypeOK, Job
    <2> QED BY <2>1
  <1>7. CASE RecordRepair(p) \/ Judge(p)
    BY <1>7, GoFields, StopFields DEF RecordRepair, Judge
  <1>8. CASE ChainPublish(p) \/ Execute(p) \/ RecordResult(p) \/ ChainReviewImpl(p)
    BY <1>8, GoFields, StopFields DEF ChainPublish, Execute, RecordResult, ChainReviewImpl
  <1>9. CASE Crash(p)
    BY <1>9, StopFields DEF Crash
  <1>10. CASE WriteIssueReview(p) \/ WritePlan(p) \/ WritePlanReview(p)
    BY <1>10, StopFields DEF WriteIssueReview, WritePlan, WritePlanReview
  <1> QED BY <1>1, <1>2, <1>3, <1>4, <1>5, <1>6, <1>7, <1>8, <1>9, <1>10 DEF Advance

LEMMA AloneApart ==
  ASSUME OneOperator
  PROVE  Spec => SpecApart
  <1>1. TInv /\ GInv /\ [Next]_vars => [Next /\ LeftAlone /\ NotRetried]_vars
    <2> SUFFICES ASSUME TInv, GInv, Next PROVE LeftAlone /\ NotRetried
      OBVIOUS
    <2>1. PICK p \in Operator : StageCommand(p) \/ RepairIssue(p) \/ Advance(p) \/ Crash(p)
      BY DEF Next
    <2>2. At(p, "idle") \/ job'[p] # job[p]
      <3>1. CASE StageCommand(p) \/ RepairIssue(p)
        <4>1. CASE StageCommand(p)
          BY <4>1 DEF StageCommand, CreateIssue, ReviewIssue, PlanRun, ReviewPlan, ImplementRun,
                      PublishRun, Issue, At
        <4>2. CASE RepairIssue(p)
          <5>1. PICK pl \in Plan \union {NoPlan}, publish \in BOOLEAN, r \in RunId :
                  \/ \E i \in Intakes : Fresh(p, r, i, pl, publish)
                  \/ \E src \in RunId, i \in Intakes : Retry(p, src, r, i, pl, publish)
                  \/ \E src \in RunId, stage \in ResumeStage :
                       Resume(p, src, r, stage, pl, publish)
            BY <4>2 DEF RepairIssue
          <5> QED BY <5>1 DEF Fresh, Retry, Resume, Issue
        <4> QED BY <3>1, <4>1, <4>2
      <3>2. CASE Advance(p) \/ Crash(p)
        BY <3>2, AdvanceMoves
      <3> QED BY <2>1, <3>1, <3>2
    <2>3. \A q \in Operator : ~(~At(q, "idle") /\ UNCHANGED job[q])
      BY <2>2 DEF OneOperator
    <2> QED BY <2>3 DEF LeftAlone, NotRetried
  <1>2. TInv /\ GInv /\ Current /\ [Next]_vars => (TInv /\ GInv /\ Current)'
    <2> SUFFICES ASSUME TInv, GInv, Current, [Next]_vars PROVE TInv' /\ GInv' /\ Current'
      OBVIOUS
    <2>1. TInv'
      BY StepTInv
    <2>2. LeftAlone
      BY <1>1, Stuttering
    <2> QED BY <2>1, <2>2, StepGInv, AloneCurrent
  <1>3. Init => TInv /\ GInv /\ Current
    BY InitTInv, InitGInv, InitCurrent
  <1> QED BY <1>1, <1>2, <1>3, PTL DEF Spec, SpecApart

\* An operator who is alone has the whole promise of the gates, with any command, wherever
\* processes die.
COROLLARY WorkflowImplementsGates ==
  ASSUME OneOperator
  PROVE  Spec => ImplementsGates
  BY AloneApart, ApartSteps, ApartImplementsGates, PTL

\* What it counts is sound, and what it carries over and publishes, under the terms above.
COROLLARY AloneIsApart ==
  ASSUME OneOperator
  PROVE  /\ NoLeftovers => (Spec => []LineageCounted)
         /\ NoLeftovers => (Spec /\ [][WholeSource]_vars => []EvidenceFollowsRun)
         /\ ByChain => (Spec /\ [][WholeSource]_vars => []PublishedAsJudged)
  <1>1. ASSUME NoLeftovers PROVE Spec => []LineageCounted
    BY <1>1, AloneApart, LineageIsCounted, PTL
  <1>2. ASSUME NoLeftovers PROVE Spec /\ [][WholeSource]_vars => []EvidenceFollowsRun
    BY <1>2, AloneApart, WholeSteps, EvidenceIsOwn, PTL
  <1>3. ASSUME ByChain PROVE Spec /\ [][WholeSource]_vars => []PublishedAsJudged
    BY <1>3, AloneApart, WholeSteps, PublicationWasJudged, PTL
  <1> QED BY <1>1, <1>2, <1>3
=============================================================================
