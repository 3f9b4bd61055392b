---------------------------- MODULE OwnRunProofs ----------------------------
(***************************************************************************)
(* What Workflow owes to no two chains working on one run, for any number  *)
(* of operators and any lineage of retries: the retry cap, for the run a   *)
(* chain escalates is not one for which another chain is about to plan a   *)
(* pull request, and plans that stay what was reviewed, for nobody writes  *)
(* the plan of a run behind its chain.                                     *)
(***************************************************************************)
EXTENDS GateProofs

Within(n) == n \in 1..MaxAttempts

\* The chains, and the steps at which their run's attempt is not settled yet or over the cap.
Chaining(j)  == j.chain /\ j.step \notin {"idle", "no_intake"}
Unsettled    == {"number", "escalate"}
Closing      == {"execute", "result", "review_impl"}

\* What chain j knows of its run, in store S.
ChainOK(S, j) ==
  Chaining(j) =>
    /\ S[j.run].attempt > 0
    /\ j.step = "number" => Within(j.n)
    /\ j.step = "escalate" => j.n > 0
    /\ j.step \notin Unsettled \union Closing => Within(S[j.run].attempt)

Separate ==
  \A p, q \in Operator :
    p # q /\ Chaining(job[p]) /\ Chaining(job[q]) => job[p].run # job[q].run

CInv ==
  /\ DraftPrWithinCap
  /\ \A p \in Operator : ChainOK(store, job[p])
  /\ Separate

\* Directory e after d: the attempt stays, and a pull request is planned only within the cap.
Abides(d, e) ==
  /\ e.attempt = d.attempt
  /\ PlansPr(e) => PlansPr(d) \/ Within(d.attempt)

-----------------------------------------------------------------------------
(* Three kinds of steps.                                                   *)

\* Process p goes on, or stops; runs keep their attempts.
LEMMA AbidingCInv ==
  ASSUME TInv, TInv', CInv, NEW p \in Operator,
         \A r \in RunId : Abides(store[r], store'[r]),
         \A q \in Operator : q # p => job'[q] = job[q],
         Chaining(job'[p]) => /\ Chaining(job[p]) /\ job'[p].run = job[p].run
                              /\ ChainOK(store, job'[p])
  PROVE  CInv'
  <1>1. DraftPrWithinCap'
    BY DEF CInv, DraftPrWithinCap, Abides, Within
  <1>2. ASSUME NEW q \in Operator PROVE ChainOK(store', job'[q])
    <2>1. job'[q].step \notin {"idle", "no_intake"} => job'[q].run \in RunId
      BY DEF TInv, Working
    <2>2. Chaining(job'[q]) => ChainOK(store, job'[q])
      BY DEF CInv
    <2> QED BY <2>1, <2>2 DEF ChainOK, Chaining, Abides
  <1>3. Separate'
    BY DEF CInv, Separate
  <1> QED BY <1>1, <1>2, <1>3 DEF CInv

\* Process p creates run r, which no chain can be working on yet.
LEMMA CreatingCInv ==
  ASSUME TInv, TInv', CInv, NEW p \in Operator, NEW r \in RunId, NEW d \in RunDir,
         ~Exists(r), Write(r, d), d.attempt > 0, ~PlansPr(d),
         \A q \in Operator : q # p => job'[q] = job[q],
         Chaining(job'[p]) => /\ job'[p].run = r
                              /\ job'[p].step = "number" => Within(job'[p].n)
                              /\ job'[p].step = "escalate" => job'[p].n > 0
                              /\ job'[p].step \notin Unsettled \union Closing => Within(d.attempt)
  PROVE  CInv'
  <1>1. store'[r] = d /\ \A s \in RunId : s # r => store'[s] = store[s]
    BY WriteType DEF TInv, TypeOK
  <1>2. DraftPrWithinCap'
    BY <1>1 DEF CInv, DraftPrWithinCap
  <1>3. ASSUME NEW q \in Operator, q # p, Chaining(job[q])
        PROVE  job[q].run \in RunId \ {r}
    BY <1>3 DEF CInv, ChainOK, Exists, TInv, Working, Chaining
  <1>4. ASSUME NEW q \in Operator PROVE ChainOK(store', job'[q])
    <2>1. CASE q = p
      BY <1>1, <2>1 DEF ChainOK
    <2>2. CASE q # p
      BY <1>1, <1>3, <2>2 DEF ChainOK, CInv
    <2> QED BY <2>1, <2>2
  <1>5. Separate'
    BY <1>3 DEF CInv, Separate
  <1> QED BY <1>2, <1>4, <1>5 DEF CInv

\* The chain of p settles the attempt of its run, which no other chain works on.
LEMMA SettlingCInv ==
  ASSUME TInv, TInv', CInv, NEW p \in Operator, NEW d \in RunDir,
         Chaining(job[p]), Write(job[p].run, d), d.attempt > 0,
         PlansPr(d) => Within(d.attempt),
         \A q \in Operator : q # p => job'[q] = job[q],
         job'[p].run = job[p].run, job'[p].step \notin Unsettled,
         job'[p].step \notin Closing => Within(d.attempt)
  PROVE  CInv'
  <1>0. job[p].run \in RunId
    BY DEF TInv, Working, Chaining
  <1>1. /\ store'[job[p].run] = d
        /\ \A s \in RunId : s # job[p].run => store'[s] = store[s]
    BY <1>0, WriteType DEF TInv, TypeOK
  <1>2. DraftPrWithinCap'
    BY <1>1 DEF CInv, DraftPrWithinCap, Within
  <1>3. ASSUME NEW q \in Operator PROVE ChainOK(store', job'[q])
    <2>1. CASE q = p
      BY <1>1, <2>1 DEF ChainOK, Unsettled
    <2>2. CASE q # p
      <3>1. Chaining(job[q]) => job[q].run \in RunId /\ job[q].run # job[p].run
        BY <2>2 DEF CInv, Separate, TInv, Working, Chaining
      <3> QED BY <1>1, <2>2, <3>1 DEF ChainOK, CInv
    <2> QED BY <2>1, <2>2
  <1>4. Separate'
    BY DEF CInv, Separate
  <1> QED BY <1>2, <1>3, <1>4 DEF CInv

-----------------------------------------------------------------------------
(* What the writes of the actions do to an attempt.                        *)

LEMMA WriteAbides ==
  ASSUME TInv, NEW r \in RunId, NEW d \in RunDir, Write(r, d), Abides(store[r], d)
  PROVE  \A s \in RunId : Abides(store[s], store'[s])
  BY WriteType DEF TInv, TypeOK, Abides

LEMMA NoWriteAbides ==
  ASSUME UNCHANGED store
  PROVE  \A s \in RunId : Abides(store[s], store'[s])
  BY DEF Abides

LEMMA ReviewedAbides ==
  ASSUME NEW d \in RunDir
  PROVE  Abides(d, IssueReviewed(d)) /\ Abides(d, PlanReviewed(d))
  BY DEF RunDir, Abides, IssueReviewed, PlanReviewed, PlansPr

LEMMA RecordAbides ==
  ASSUME NEW d \in RunDir, NEW x, NEW y, NEW z
  PROVE  /\ Abides(d, [d EXCEPT !.issueReview = x])
         /\ Abides(d, [d EXCEPT !.plan = x])
         /\ Abides(d, [d EXCEPT !.planReview = x])
         /\ Abides(d, [d EXCEPT !.workspace = x])
         /\ Abides(d, [d EXCEPT !.publishResult = x])
         /\ Abides(d, [d EXCEPT !.verdict = x])
         /\ Abides(d, [d EXCEPT !.verdict = x, !.workspace = y])
         /\ Abides(d, [d EXCEPT !.verdict = x, !.publishPlan = "issue"])
         /\ Abides(d, [d EXCEPT !.repair = x, !.qa = y, !.dlog = z])
  BY DEF RunDir, Abides, PlansPr

LEMMA CopyAbides ==
  ASSUME NEW d \in RunDir, NEW s \in RunDir, NEW a \in Artifact, Within(d.attempt)
  PROVE  Abides(d, CopyArtifact(d, s, a))
  <1>1. CASE a = "dlog"
    BY <1>1 DEF CopyArtifact, RunDir, Abides, PlansPr
  <1>2. CASE a \in {"tree", "workspace"}
    <2>1. PICK w : CopyArtifact(d, s, a) = [d EXCEPT !.workspace = w]
      BY <1>2, TreeCopied DEF CopyArtifact
    <2> QED BY <2>1 DEF RunDir, Abides, PlansPr
  <1>3. CASE a \notin {"dlog", "tree", "workspace"}
    BY <1>3 DEF CopyArtifact, RunDir, Abides, PlansPr, Artifact
  <1> QED BY <1>1, <1>2, <1>3

LEMMA GoJob ==
  ASSUME TInv, NEW p \in Operator, NEW s, Go(p, s)
  PROVE  /\ job'[p].step = s /\ job'[p].run = job[p].run /\ job'[p].chain = job[p].chain
         /\ \A q \in Operator : q # p => job'[q] = job[q]
  BY DEF TInv, TypeOK, Go, Job

LEMMA StopJob ==
  ASSUME TInv, NEW p \in Operator, Stop(p)
  PROVE  /\ ~Chaining(job'[p])
         /\ \A q \in Operator : q # p => job'[q] = job[q]
  BY DEF TInv, TypeOK, Stop, Idle, Chaining

LEMMA BeginJob ==
  ASSUME TInv, NEW p \in Operator, NEW j, Begin(p, j)
  PROVE  /\ job'[p] = j
         /\ \A q \in Operator : q # p => job'[q] = job[q]
  BY DEF TInv, TypeOK, Begin

\* The job of p goes on with its run at step s, or stops.
GoesOn(p, S) ==
  /\ Chaining(job'[p]) =>
       /\ Chaining(job[p]) /\ job'[p].run = job[p].run
       /\ job'[p].step \in S
  /\ \A q \in Operator : q # p => job'[q] = job[q]

Settled == Step \ (Unsettled \union {"idle", "no_intake"})

\* A step from where the attempt is known to be within the cap, to where it matters or not.
LEMMA WithinCInv ==
  ASSUME TInv, TInv', CInv, NEW p \in Operator,
         \A r \in RunId : Abides(store[r], store'[r]),
         \/ GoesOn(p, Settled) /\ job[p].step \notin Unsettled \union Closing
         \/ GoesOn(p, Closing)
  PROVE  CInv'
  <1>1. Chaining(job'[p]) => ChainOK(store, job'[p])
    BY DEF CInv, ChainOK, GoesOn, Settled, Unsettled, Closing
  <1> QED BY <1>1, AbidingCInv DEF GoesOn

LEMMA GoGoesOn ==
  ASSUME TInv, NEW p \in Operator, NEW S, NEW s \in S, Go(p, s),
         job[p].step \notin {"idle", "no_intake"}
  PROVE  GoesOn(p, S)
  BY GoJob DEF GoesOn, Chaining

LEMMA StopGoesOn ==
  ASSUME TInv, NEW p \in Operator, NEW S, Stop(p)
  PROVE  GoesOn(p, S)
  BY StopJob DEF GoesOn

-----------------------------------------------------------------------------
(* The actions.                                                            *)

LEMMA StageCommandCInv ==
  ASSUME TInv, TInv', CInv, NEW p \in Operator, StageCommand(p)
  PROVE  CInv'
  <1>0. store \in [RunId -> RunDir]
    BY DEF TInv, TypeOK
  <1>1. CASE CreateIssue(p)
    <2>1. PICK r \in RunId, i \in Intakes : ~Exists(r) /\ Write(r, NewDir(i)) /\ UNCHANGED job
      BY <1>1 DEF CreateIssue
    <2>2. NewDir(i) \in RunDir /\ NewDir(i).attempt = 1 /\ ~PlansPr(NewDir(i))
      BY NewDirType DEF NewDir, EmptyDir, PlansPr
    <2>3. ~Chaining(job'[p])
      BY <1>1, <2>1 DEF CreateIssue, Issue, At, Chaining
    <2> QED BY <2>1, <2>2, <2>3, CreatingCInv
  <1>2. ASSUME NEW j, Begin(p, j), ~j.chain, UNCHANGED store
        PROVE  CInv'
    BY <1>2, NoWriteAbides, BeginJob, AbidingCInv DEF Chaining
  <1>3. ASSUME NEW r \in RunId, ReviewIssue(p, r) \/ ReviewPlan(p, r)
        PROVE  CInv'
    <2>1. ASSUME NEW v, NEW pl
          PROVE  /\ ~[Idle EXCEPT !.step = "write_issue_review", !.run = r, !.found = v].chain
                 /\ ~[Idle EXCEPT !.step = "write_plan_review", !.run = r, !.plan = pl,
                                  !.found = v].chain
      BY DEF Idle
    <2> QED BY <1>2, <1>3, <2>1 DEF ReviewIssue, ReviewPlan
  <1>4. ASSUME NEW r \in RunId, NEW pl \in Plan, PlanRun(p, r, pl)
        PROVE  CInv'
    <2>1. ~[Idle EXCEPT !.step = "write_plan", !.run = r, !.plan = pl].chain
      BY DEF Idle
    <2> QED BY <1>2, <1>4, <2>1 DEF PlanRun
  <1>5. ASSUME NEW r \in RunId, ImplementRun(p, r) \/ PublishRun(p, r)
        PROVE  CInv'
    <2>1. /\ ~[Idle EXCEPT !.step = "repair", !.run = r].chain
          /\ ~[Idle EXCEPT !.step = "execute", !.run = r, !.publish = TRUE].chain
      BY DEF Idle
    <2> QED BY <1>2, <1>5, <2>1 DEF ImplementRun, PublishRun
  <1> QED BY <1>1, <1>3, <1>4, <1>5 DEF StageCommand

\* A stage by hand writes its review or its plan, and its process ends.
LEMMA StageWriteCInv ==
  ASSUME TInv, TInv', CInv, NEW p \in Operator,
         WriteIssueReview(p) \/ WritePlan(p) \/ WritePlanReview(p)
  PROVE  CInv'
  <1>1. PICK r, d, v, pl :
          r = job[p].run /\ d = store[r] /\ v = job[p].found /\ pl = job[p].plan
    OBVIOUS
  <1>2. r \in RunId /\ d \in RunDir /\ store' \in [RunId -> RunDir]
    BY <1>1 DEF WriteIssueReview, WritePlan, WritePlanReview, At, TInv, TypeOK, Working
  <1>3. PICK x : x = [verdict |-> v, of |-> pl]
    OBVIOUS
  <1>4. \E e : Write(r, e) /\ Abides(d, e)
    <2>1. /\ Abides(d, [d EXCEPT !.issueReview = v])
          /\ Abides(d, [d EXCEPT !.plan = pl])
          /\ Abides(d, [d EXCEPT !.planReview = x])
      BY <1>2, RecordAbides
    <2>2. \/ Write(r, [d EXCEPT !.issueReview = v])
          \/ Write(r, [d EXCEPT !.plan = pl])
          \/ Write(r, [d EXCEPT !.planReview = x])
      BY <1>1, <1>3 DEF WriteIssueReview, WritePlan, WritePlanReview
    <2> QED BY <2>1, <2>2
  <1>5. \A t \in RunId : Abides(store[t], store'[t])
    BY <1>1, <1>2, <1>4 DEF Write, Abides, TInv, TypeOK
  <1>6. GoesOn(p, Closing)
    BY StopGoesOn DEF WriteIssueReview, WritePlan, WritePlanReview
  <1> QED BY <1>5, <1>6, WithinCInv

LEMMA RepairIssueCInv ==
  ASSUME TInv, TInv', CInv, NEW p \in Operator, RepairIssue(p)
  PROVE  CInv'
  <1>0. /\ store \in [RunId -> RunDir]
        /\ \A n \in Nat : n > 0 /\ ~Exhausted(n) => Within(n)
    BY MaxAttemptsAssumption DEF TInv, TypeOK, Within, Exhausted
  <1>1. PICK pl \in Plan \union {NoPlan}, publish \in BOOLEAN, r \in RunId :
          \/ \E i \in Intakes : Fresh(p, r, i, pl, publish)
          \/ \E src \in RunId, i \in Intakes : Retry(p, src, r, i, pl, publish)
          \/ \E src \in RunId, stage \in ResumeStage : Resume(p, src, r, stage, pl, publish)
    BY DEF RepairIssue
  <1>2. ASSUME NEW i \in Intakes
        PROVE  /\ NewDir(i) \in RunDir /\ NewDir(i).attempt = 1 /\ ~PlansPr(NewDir(i))
               /\ Within(NewDir(i).attempt)
    <2>1. NewDir(i) \in RunDir /\ NewDir(i).attempt = 1 /\ ~PlansPr(NewDir(i))
      BY NewDirType DEF NewDir, EmptyDir, PlansPr
    <2>2. Within(1)
      BY MaxAttemptsAssumption DEF Within
    <2> QED BY <2>1, <2>2
  <1>3. ASSUME NEW i \in Intakes, Fresh(p, r, i, pl, publish) PROVE CInv'
    <2> DEFINE s == Entry(i, "review_issue")
               j == [Idle EXCEPT !.step = s, !.run = r, !.plan = pl,
                                 !.publish = publish, !.chain = TRUE]
    <2>1. s \notin Unsettled
      BY DEF Entry, Unsettled
    <2>2. j.run = r /\ j.step = s
      BY DEF Idle
    <2>3. Begin(p, j) /\ ~Exists(r) /\ Write(r, NewDir(i))
      BY <1>3 DEF Fresh
    <2> HIDE DEF j, s
    <2>4. job'[p] = j /\ \A q \in Operator : q # p => job'[q] = job[q]
      BY <2>3, BeginJob
    <2> QED BY <1>2, <2>1, <2>2, <2>3, <2>4, CreatingCInv DEF Unsettled
  <1>4. ASSUME NEW src \in RunId, NEW i \in Intakes, Retry(p, src, r, i, pl, publish)
        PROVE  CInv'
    <2> DEFINE n == store[src].attempt + 1
               s == IF Exhausted(n) THEN "escalate" ELSE "number"
               j == [Idle EXCEPT !.step = s, !.run = r, !.plan = Carried(src, pl), !.n = n,
                                 !.publish = publish, !.chain = TRUE]
    <2>1. n \in Nat /\ n > 0
      BY <1>0 DEF RunDir
    <2>2. /\ s \in Unsettled /\ (s = "number" => Within(n))
      BY <1>0, <2>1 DEF Unsettled
    <2>3. Begin(p, j) /\ ~Exists(r) /\ Write(r, NewDir(i))
      BY <1>4 DEF Retry
    <2>4. j.run = r /\ j.step = s /\ j.n = n
      <3> HIDE DEF s, n
      <3> QED BY DEF Idle
    <2> HIDE DEF j, s, n
    <2>5. job'[p] = j /\ \A q \in Operator : q # p => job'[q] = job[q]
      BY <2>3, BeginJob
    <2> QED BY <1>2, <2>1, <2>2, <2>3, <2>4, <2>5, CreatingCInv
  <1>5. ASSUME NEW src \in RunId, NEW stage \in ResumeStage,
               Resume(p, src, r, stage, pl, publish)
        PROVE  CInv'
    <2> DEFINE n == store[src].attempt + 1
               d == [EmptyDir EXCEPT !.attempt = n, !.intake = store[src].intake]
               plan == IF stage = "review_issue" THEN pl
                       ELSE IF stage = "plan" THEN Carried(src, pl) ELSE NoPlan
               j == [Idle EXCEPT !.step = "materialise", !.run = r, !.src = src,
                                 !.from = stage, !.plan = plan,
                                 !.publish = publish, !.chain = TRUE]
    <2>0. n \in Nat /\ n > 0 /\ store[src].intake \in Intake
      BY <1>0 DEF RunDir
    <2>1. CASE Exhausted(n)
      <3> DEFINE k == [Idle EXCEPT !.step = "no_intake"]
      <3>1. Begin(p, k) /\ UNCHANGED store
        BY <1>5, <2>1 DEF Resume
      <3>2. ~Chaining(k)
        BY DEF Idle, Chaining
      <3> HIDE DEF k
      <3> QED BY <3>1, <3>2, NoWriteAbides, BeginJob, AbidingCInv
    <2>2. CASE ~Exhausted(n)
      <3>1. Begin(p, j) /\ ~Exists(r) /\ Write(r, d)
        BY <1>5, <2>2 DEF Resume
      <3>2. Within(n)
        BY <1>0, <2>0, <2>2
      <3>3. d \in RunDir /\ d.attempt = n /\ ~PlansPr(d)
        <4> HIDE DEF n
        <4> QED BY <2>0, ResumedType DEF EmptyDir, PlansPr
      <3>4. j.run = r /\ j.step = "materialise"
        <4> HIDE DEF plan
        <4> QED BY DEF Idle
      <3> HIDE DEF j, d, n
      <3>5. job'[p] = j /\ \A q \in Operator : q # p => job'[q] = job[q]
        BY <3>1, BeginJob
      <3> QED BY <2>0, <3>1, <3>2, <3>3, <3>4, <3>5, CreatingCInv
    <2> QED BY <2>1, <2>2
  <1> QED BY <1>1, <1>3, <1>4, <1>5

\* The chain settles its attempt: numbered within the cap, or past it and escalated.
LEMMA SettleCInv ==
  ASSUME TInv, TInv', CInv, NEW p \in Operator, NumberAttempt(p) \/ Escalate(p),
         job[p].chain
  PROVE  CInv'
  <1>0. /\ job[p].step \in Unsettled /\ Chaining(job[p]) /\ job[p].run \in RunId
        /\ store[job[p].run] \in RunDir /\ job[p].n \in Nat
        /\ job[p].plan \in Plan \union {NoPlan}
    BY DEF NumberAttempt, Escalate, At, Unsettled, Chaining, TInv, TypeOK, Working, Job
  <1> DEFINE d == store[job[p].run]
  <1>1. CASE NumberAttempt(p)
    <2> DEFINE e == [d EXCEPT !.attempt = job[p].n]
               s == Entry(d.intake, "review_issue")
    <2>1. Write(job[p].run, e) /\ Go(p, s) /\ s \notin Unsettled \union Closing
      BY <1>1 DEF NumberAttempt, Entry, Unsettled, Closing
    <2>2. e \in RunDir /\ e.attempt = job[p].n
      BY <1>0 DEF RunDir
    <2>3. Within(job[p].n) /\ job[p].n > 0
      BY <1>0, <1>1 DEF CInv, ChainOK, NumberAttempt, At, Within
    <2> HIDE DEF e, s
    <2> QED BY <1>0, <2>1, <2>2, <2>3, GoJob, SettlingCInv
  <1>2. CASE Escalate(p)
    <2> DEFINE e == [d EXCEPT !.attempt = job[p].n, !.plan = job[p].plan,
                              !.repair = "escalated", !.verdict = "blocked",
                              !.publishPlan = "issue"]
    <2>1. Write(job[p].run, e) /\ Go(p, "execute")
      BY <1>2 DEF Escalate
    <2>2. e \in RunDir /\ e.attempt = job[p].n /\ ~PlansPr(e)
      <3>1. d \in RunDir
        BY <1>0
      <3> HIDE DEF d
      <3>2. e \in RunDir
        BY <1>0, <3>1, ClosedType
      <3>3. e.attempt = job[p].n /\ e.publishPlan = "issue"
        BY <3>1 DEF RunDir
      <3> QED BY <3>2, <3>3 DEF PlansPr
    <2>3. job[p].n > 0
      BY <1>0, <1>2 DEF CInv, ChainOK, Escalate, At
    <2> HIDE DEF e
    <2> QED BY <1>0, <2>1, <2>2, <2>3, GoJob, SettlingCInv DEF Unsettled, Closing
  <1> QED BY <1>1, <1>2

LEMMA RetryStepCInv ==
  ASSUME TInv, TInv', CInv, NEW p \in Operator,
         Enter(p) \/ ReportBlocked(p) \/ (Materialise(p) /\ job[p].chain)
  PROVE  CInv'
  <1>0. /\ job[p].step \in {"materialise", "report"} /\ job[p] \in Job
        /\ job[p].run \in RunId /\ store[job[p].run] \in RunDir
    BY DEF Enter, ReportBlocked, Materialise, At, TInv, TypeOK, Working
  <1> DEFINE d == store[job[p].run]
  <1>1. CASE Enter(p)
    <2>1. GoesOn(p, Settled)
      <3>1. CASE Stop(p)
        BY <3>1, StopGoesOn
      <3>2. CASE ~Stop(p)
        <4> DEFINE s == Entry(d.intake, job[p].from)
                   o == IF job[p].from = "publish" THEN Reloaded ELSE NoOutcome
                   j == [job[p] EXCEPT !.step = s, !.src = NoRun, !.n = 0, !.outcome = o]
        <4>1. s \in Settled
          BY <1>0, EntryType DEF RunDir, Job, Settled, Unsettled
        <4>2. Begin(p, j)
          BY <1>1, <3>2 DEF Enter, Begin
        <4>3. j.step = s /\ j.run = job[p].run /\ j.chain = job[p].chain
          <5> HIDE DEF s, o
          <5> QED BY <1>0 DEF Job
        <4> HIDE DEF j, s
        <4> QED BY <1>0, <4>1, <4>2, <4>3, BeginJob DEF GoesOn, Chaining
      <3> QED BY <3>1, <3>2
    <2> QED BY <1>0, <1>1, <2>1, NoWriteAbides, WithinCInv DEF Enter, Unsettled, Closing
  <1>2. CASE ReportBlocked(p)
    <2> DEFINE e == [d EXCEPT !.verdict = "blocked", !.publishPlan = "issue"]
    <2>1. Write(job[p].run, e) /\ Go(p, "execute") /\ "execute" \in Closing
      BY <1>2 DEF ReportBlocked, Closing
    <2>2. e \in RunDir /\ Abides(d, e)
      <3>1. d \in RunDir /\ 0 \in Nat /\ NoPlan \in Plan \union {NoPlan}
        BY <1>0
      <3> HIDE DEF d
      <3> QED BY <3>1, ClosedType, RecordAbides
    <2> HIDE DEF e
    <2>3. \A r \in RunId : Abides(store[r], store'[r])
      BY <1>0, <2>1, <2>2, WriteAbides
    <2>4. GoesOn(p, Closing)
      BY <1>0, <2>1, GoGoesOn
    <2> QED BY <2>3, <2>4, WithinCInv
  <1>3. CASE Materialise(p) /\ job[p].chain /\ Copies(p)
    <2> DEFINE s == store[job[p].src]
               a == Preserved[job[p].from][job[p].n + 1]
               e == CopyArtifact(d, s, a)
    <2>1. /\ Write(job[p].run, e) /\ job' = [job EXCEPT ![p].n = job[p].n + 1]
          /\ job[p].src \in RunId /\ s \in RunDir
          /\ job[p].from \in ResumeStage /\ job[p].n \in Nat
          /\ job[p].n < Len(Preserved[job[p].from])
      BY <1>0, <1>3 DEF Materialise, Copies, At, TInv, TypeOK, Working, Job
    <2>2. a \in Artifact
      BY <2>1, PreservedOrder
    <2>3. Within(d.attempt)
      BY <1>0, <1>3
         DEF CInv, ChainOK, Chaining, Materialise, At, Unsettled, Closing
    <2>4. e \in RunDir /\ Abides(d, e)
      <3> HIDE DEF a, s, d
      <3> QED BY <1>0, <2>1, <2>2, <2>3, CopyType, CopyAbides DEF d
    <2>5. \A r \in RunId : Abides(store[r], store'[r])
      <3> HIDE DEF e
      <3> QED BY <1>0, <2>1, <2>4, WriteAbides
    <2>6. GoesOn(p, Settled)
      <3>1. /\ job'[p].step = job[p].step /\ job'[p].run = job[p].run
            /\ job'[p].chain = job[p].chain
            /\ \A q \in Operator : q # p => job'[q] = job[q]
        BY <1>0, <2>1 DEF TInv, TypeOK, Job
      <3>2. job[p].step \in Settled
        BY <1>3 DEF Materialise, At, Settled, Step, Unsettled
      <3> QED BY <3>1, <3>2 DEF GoesOn, Chaining
    <2> QED BY <1>3, <2>5, <2>6, WithinCInv DEF Materialise, At, Unsettled, Closing
  <1>4. CASE Materialise(p) /\ ~Copies(p)
    <2>1. UNCHANGED store /\ Stop(p)
      BY <1>4 DEF Materialise, Copies
    <2> QED BY <2>1, StopGoesOn, NoWriteAbides, WithinCInv
  <1> QED BY <1>1, <1>2, <1>3, <1>4

LEMMA ChainStepCInv ==
  ASSUME TInv, TInv', CInv, NEW p \in Operator,
         \/ ChainReviewIssue(p) \/ ChainPlan(p) \/ ChainReviewPlan(p) \/ ChainImplement(p)
  PROVE  CInv'
  <1>0. /\ job[p].step \in {"review_issue", "plan", "review_plan", "implement"}
        /\ job[p].run \in RunId /\ store[job[p].run] \in RunDir
        /\ job[p].plan \in Plan \union {NoPlan}
    BY DEF ChainReviewIssue, ChainPlan, ChainReviewPlan, ChainImplement, At, TInv, TypeOK,
           Working, Job
  <1>1. job[p].step \notin Unsettled \union Closing /\ job[p].step \notin {"idle", "no_intake"}
    BY <1>0 DEF Unsettled, Closing
  <1> DEFINE d == store[job[p].run]
  <1>2. GoesOn(p, Settled)
    <2>1. {"plan", "review_plan", "implement", "repair"} \subseteq Settled
      BY DEF Settled, Step, ResumeStage, Unsettled
    <2>2. Stop(p) \/ \E s \in {"plan", "review_plan", "implement", "repair"} : Go(p, s)
      BY DEF ChainReviewIssue, ChainPlan, ChainReviewPlan, ChainImplement
    <2> QED BY <1>1, <2>1, <2>2, GoGoesOn, StopGoesOn
  <1>3. \A r \in RunId : Abides(store[r], store'[r])
    <2>1. /\ IssueReviewed(d) \in RunDir /\ Abides(d, IssueReviewed(d))
          /\ PlanReviewed(d) \in RunDir /\ Abides(d, PlanReviewed(d))
      BY <1>0, ReviewedType, ReviewedAbides
    <2>2. [d EXCEPT !.plan = job[p].plan] \in RunDir /\ Abides(d, [d EXCEPT !.plan = job[p].plan])
      <3>1. d \in RunDir  BY <1>0
      <3> HIDE DEF d
      <3>2. [d EXCEPT !.plan = job[p].plan] \in RunDir  BY <1>0, <3>1 DEF RunDir
      <3> QED BY <3>1, <3>2, RecordAbides
    <2>3. d \in RunDir /\ Abides(d, d)
      BY <1>0 DEF Abides
    <2>4. \/ UNCHANGED store
          \/ \E e \in RunDir : Write(job[p].run, e) /\ Abides(d, e)
      BY <2>1, <2>2, <2>3 DEF ChainReviewIssue, ChainPlan, ChainReviewPlan, ChainImplement
    <2> QED BY <1>0, <2>4, WriteAbides, NoWriteAbides
  <1> QED BY <1>1, <1>2, <1>3, WithinCInv

LEMMA ImplementStepCInv ==
  ASSUME TInv, TInv', CInv, NEW p \in Operator, Repair(p) \/ RecordRepair(p) \/ Judge(p)
  PROVE  CInv'
  <1>0. /\ job[p].step \in {"repair", "record", "judge"} /\ job[p] \in Job
        /\ job[p].run \in RunId /\ store[job[p].run] \in RunDir
        /\ store' \in [RunId -> RunDir]
    BY DEF Repair, RecordRepair, Judge, At, TInv, TypeOK, Working
  <1>1. job[p].step \notin Unsettled \union Closing /\ job[p].step \notin {"idle", "no_intake"}
    BY <1>0 DEF Unsettled, Closing
  <1>2. {"judge", "record", "publish"} \subseteq Settled
    BY DEF Settled, Step, ResumeStage, Unsettled
  <1>3. ASSUME NEW e, Write(job[p].run, e), Abides(store[job[p].run], e)
        PROVE  \A r \in RunId : Abides(store[r], store'[r])
    BY <1>0, <1>3 DEF Write, Abides, TInv, TypeOK
  <1> DEFINE d == store[job[p].run]
  <1>4. d \in RunDir /\ Abides(d, d)
    BY <1>0 DEF Abides
  <1>5. CASE Repair(p)
    <2>1. PICK o \in Outcomes :
            /\ job' = [job EXCEPT ![p].outcome = o,
                                  ![p].step = IF o.repair = "none" THEN "judge" ELSE "record"]
            /\ Write(job[p].run, IF o.repair = "none" THEN d
                                 ELSE [d EXCEPT !.workspace = "unjudged"])
      BY <1>5 DEF Repair
    <2> DEFINE step == IF o.repair = "none" THEN "judge" ELSE "record"
               j == [job[p] EXCEPT !.outcome = o, !.step = step]
    <2>2. GoesOn(p, Settled)
      <3>1. Begin(p, j) /\ step \in Settled
        BY <1>2, <2>1 DEF Begin
      <3>2. j.step = step /\ j.run = job[p].run /\ j.chain = job[p].chain
        <4> HIDE DEF step
        <4> QED BY <1>0 DEF Job
      <3> HIDE DEF j, step
      <3> QED BY <1>1, <3>1, <3>2, BeginJob DEF GoesOn, Chaining
    <2>3. Abides(d, [d EXCEPT !.workspace = "unjudged"])
      <3> HIDE DEF d
      <3> QED BY <1>4, RecordAbides
    <2> QED BY <1>1, <1>3, <1>4, <2>1, <2>2, <2>3, WithinCInv
  <1>6. CASE RecordRepair(p)
    <2>1. GoesOn(p, Settled)
      BY <1>1, <1>2, <1>6, GoGoesOn DEF RecordRepair
    <2> DEFINE q == d.qa \/ job[p].outcome.qa
               l == IF job[p].outcome.repair = "completed"
                    THEN d.dlog \union {d.attempt} ELSE d.dlog
               e == [d EXCEPT !.repair = job[p].outcome.repair, !.qa = q, !.dlog = l]
    <2>2. Write(job[p].run, e)
      BY <1>6 DEF RecordRepair
    <2>3. Abides(d, e)
      <3> HIDE DEF d, q, l
      <3> QED BY <1>4, RecordAbides
    <2> HIDE DEF e
    <2> QED BY <1>1, <1>3, <2>1, <2>2, <2>3, WithinCInv
  <1>7. CASE Judge(p)
    <2>1. GoesOn(p, Settled)
      <3>1. Stop(p) \/ Go(p, "publish")
        BY <1>7 DEF Judge
      <3> QED BY <1>1, <1>2, <3>1, GoGoesOn, StopGoesOn
    <2> DEFINE v == IF Approves(d, job[p].outcome) THEN "approved" ELSE "blocked"
               w == IF d.workspace \in {"none", "partial"} THEN d.workspace
                    ELSE IF job[p].outcome.repair = "none" THEN "unjudged" ELSE "judged"
               e == [d EXCEPT !.verdict = v, !.workspace = w]
    <2>2. Write(job[p].run, e)
      BY <1>7 DEF Judge
    <2>3. Abides(d, e)
      <3> HIDE DEF d, v, w
      <3> QED BY <1>4, RecordAbides
    <2> HIDE DEF e
    <2> QED BY <1>1, <1>3, <2>1, <2>2, <2>3, WithinCInv
  <1> QED BY <1>5, <1>6, <1>7

\* The heart of the matter: the chain that plans a pull request has settled its attempt.
LEMMA PublishStepCInv ==
  ASSUME TInv, TInv', CInv, NEW p \in Operator,
         \/ ChainPublish(p) /\ job[p].chain
         \/ Execute(p) \/ RecordResult(p) \/ ChainReviewImpl(p) \/ Crash(p)
  PROVE  CInv'
  <1>0. job[p].step \notin {"idle", "no_intake"} =>
          job[p].run \in RunId /\ store[job[p].run] \in RunDir
    BY DEF TInv, TypeOK, Working
  <1> DEFINE d == store[job[p].run]
  <1>1. ASSUME NEW e, Write(job[p].run, e), Abides(d, e), job[p].run \in RunId
        PROVE  \A r \in RunId : Abides(store[r], store'[r])
    BY <1>1 DEF Write, Abides, TInv, TypeOK
  <1>2. {"execute", "result", "review_impl"} \subseteq Closing
    BY DEF Closing
  <1>3. CASE ChainPublish(p) /\ job[p].chain
    <2>1. /\ job[p].step = "publish" /\ d \in RunDir /\ job[p].run \in RunId
          /\ Within(d.attempt)
      BY <1>0, <1>3 DEF ChainPublish, At, CInv, ChainOK, Chaining, Unsettled, Closing
    <2>2. GoesOn(p, Closing)
      <3>1. Stop(p) \/ Go(p, "execute")
        BY <1>3 DEF ChainPublish
      <3> QED BY <1>2, <2>1, <3>1, GoGoesOn, StopGoesOn
    <2>3. \E e : Write(job[p].run, e) /\ Abides(d, e)
      <3> DEFINE k == IF d.intake = "rejected" THEN "update_pr" ELSE "draft_pr"
      <3>1. /\ Abides(d, [d EXCEPT !.publishPlan = k])
            /\ Abides(d, [d EXCEPT !.verdict = "blocked"])
        <4> HIDE DEF d, k
        <4> QED BY <2>1, RecordAbides DEF RunDir, Abides
      <3>2. \/ Write(job[p].run, [d EXCEPT !.publishPlan = k])
            \/ Write(job[p].run, [d EXCEPT !.verdict = "blocked"])
        BY <1>3 DEF ChainPublish
      <3> QED BY <3>1, <3>2
    <2> QED BY <1>1, <2>1, <2>2, <2>3, WithinCInv
  <1>4. CASE Execute(p) \/ ChainReviewImpl(p) \/ Crash(p)
    <2>1. GoesOn(p, Closing)
      <3>1. Stop(p) \/ (Go(p, "result") /\ job[p].step = "execute")
        BY <1>4 DEF Execute, ChainReviewImpl, Crash, At
      <3> QED BY <1>2, <3>1, GoGoesOn, StopGoesOn
    <2> QED BY <1>4, <2>1, NoWriteAbides, WithinCInv DEF Execute, ChainReviewImpl, Crash
  <1>5. CASE RecordResult(p)
    <2>1. job[p].step = "result" /\ job[p].run \in RunId /\ d \in RunDir
      BY <1>0, <1>5 DEF RecordResult, At
    <2>2. GoesOn(p, Closing)
      <3>1. Stop(p) \/ Go(p, "review_impl")
        BY <1>5 DEF RecordResult
      <3> QED BY <1>2, <2>1, <3>1, GoGoesOn, StopGoesOn
    <2> DEFINE x == IF job[p].publish THEN "published" ELSE "dry_run"
               e == [d EXCEPT !.publishResult = x]
    <2>3. Write(job[p].run, e)
      BY <1>5 DEF RecordResult
    <2>4. Abides(d, e)
      <3> HIDE DEF d, x
      <3> QED BY <2>1, RecordAbides
    <2> HIDE DEF e
    <2> QED BY <1>1, <2>1, <2>2, <2>3, <2>4, WithinCInv
  <1> QED BY <1>3, <1>4, <1>5

-----------------------------------------------------------------------------
(* Where a command that runs one stage can be, and only a chain elsewhere.  *)

ByHand == {"idle", "no_intake", "write_issue_review", "write_plan", "write_plan_review",
           "repair", "record", "judge", "execute", "result"}

HInv == \A p \in Operator : job[p].step \notin ByHand => job[p].chain

LEMMA HInvGo ==
  ASSUME TInv, HInv, NEW p \in Operator, NEW s, Go(p, s),
         job[p].step \notin ByHand \/ s \in ByHand \/ job[p].chain
  PROVE  HInv'
  BY GoJob DEF HInv

LEMMA HInvBegin ==
  ASSUME TInv, HInv, NEW p \in Operator, NEW j, Begin(p, j), j.step \in ByHand \/ j.chain
  PROVE  HInv'
  BY BeginJob DEF HInv

LEMMA HInvStop ==
  ASSUME TInv, HInv, NEW p \in Operator, Stop(p)
  PROVE  HInv'
  BY DEF Stop, Idle, TInv, TypeOK, HInv, ByHand

LEMMA StepHInv ==
  ASSUME TInv, HInv, NEW p \in Operator, StageCommand(p) \/ RepairIssue(p) \/ Advance(p) \/ Crash(p)
  PROVE  HInv'
  <1>1. CASE StageCommand(p)
    <2>1. ASSUME UNCHANGED job PROVE HInv'
      BY <2>1 DEF HInv
    <2>2. ASSUME NEW r \in RunId, ImplementRun(p, r) \/ PublishRun(p, r) PROVE HInv'
      <3>1. /\ [Idle EXCEPT !.step = "repair", !.run = r].step \in ByHand
            /\ [Idle EXCEPT !.step = "execute", !.run = r, !.publish = TRUE].step \in ByHand
        BY DEF Idle, ByHand
      <3> QED BY <2>2, <3>1, HInvBegin DEF ImplementRun, PublishRun
    <2>3. ASSUME NEW r \in RunId, ReviewIssue(p, r) \/ ReviewPlan(p, r)
          PROVE  HInv'
      <3>1. ASSUME NEW v, NEW pl
            PROVE  /\ [Idle EXCEPT !.step = "write_issue_review", !.run = r,
                                   !.found = v].step \in ByHand
                   /\ [Idle EXCEPT !.step = "write_plan_review", !.run = r, !.plan = pl,
                                   !.found = v].step \in ByHand
        BY DEF Idle, ByHand
      <3> QED BY <2>3, <3>1, HInvBegin DEF ReviewIssue, ReviewPlan
    <2>4. ASSUME NEW r \in RunId, NEW pl \in Plan, PlanRun(p, r, pl) PROVE HInv'
      <3>1. [Idle EXCEPT !.step = "write_plan", !.run = r, !.plan = pl].step \in ByHand
        BY DEF Idle, ByHand
      <3> QED BY <2>4, <3>1, HInvBegin DEF PlanRun
    <2> QED BY <1>1, <2>1, <2>2, <2>3, <2>4 DEF StageCommand, CreateIssue
  <1>2. CASE RepairIssue(p)
    <2>1. \E j : Begin(p, j) /\ (j.step \in ByHand \/ j.chain)
      <3>1. ASSUME NEW r, NEW i, NEW pl, NEW publish, Fresh(p, r, i, pl, publish)
            PROVE  \E j : Begin(p, j) /\ j.chain
        <4> DEFINE j == [Idle EXCEPT !.step = Entry(i, "review_issue"), !.run = r, !.plan = pl,
                                     !.publish = publish, !.chain = TRUE]
        <4>1. Begin(p, j)  BY <3>1 DEF Fresh
        <4>2. j.chain  BY DEF Idle
        <4> HIDE DEF j
        <4> QED BY <4>1, <4>2
      <3>2. ASSUME NEW r, NEW src, NEW i, NEW pl, NEW publish, Retry(p, src, r, i, pl, publish)
            PROVE  \E j : Begin(p, j) /\ j.chain
        <4> DEFINE n == store[src].attempt + 1
                   j == [Idle EXCEPT !.step = IF Exhausted(n) THEN "escalate" ELSE "number",
                                     !.run = r, !.plan = Carried(src, pl), !.n = n,
                                     !.publish = publish, !.chain = TRUE]
        <4>1. Begin(p, j)  BY <3>2 DEF Retry
        <4>2. j.chain  BY DEF Idle
        <4> HIDE DEF j
        <4> QED BY <4>1, <4>2
      <3>3. ASSUME NEW r, NEW src, NEW stage, NEW pl, NEW publish,
                   Resume(p, src, r, stage, pl, publish)
            PROVE  \E j : Begin(p, j) /\ (j.step \in ByHand \/ j.chain)
        <4> DEFINE k == [Idle EXCEPT !.step = "no_intake"]
                   plan == IF stage = "review_issue" THEN pl
                           ELSE IF stage = "plan" THEN Carried(src, pl) ELSE NoPlan
                   j == [Idle EXCEPT !.step = "materialise", !.run = r, !.src = src,
                                     !.from = stage, !.plan = plan,
                                     !.publish = publish, !.chain = TRUE]
        <4>1. Begin(p, k) \/ Begin(p, j)  BY <3>3 DEF Resume
        <4>2. k.step \in ByHand /\ j.chain  BY DEF Idle, ByHand
        <4> HIDE DEF j, k
        <4> QED BY <4>1, <4>2
      <3> QED BY <1>2, <3>1, <3>2, <3>3 DEF RepairIssue
    <2> QED BY <2>1, HInvBegin
  <1>3. CASE Advance(p) \/ Crash(p)
    <2>1. CASE \/ NumberAttempt(p) \/ Escalate(p) \/ ReportBlocked(p) \/ ChainReviewIssue(p)
               \/ ChainPlan(p) \/ ChainReviewPlan(p) \/ ChainImplement(p) \/ ChainPublish(p)
      <3>1. job[p].step \notin ByHand /\ (Stop(p) \/ \E s : Go(p, s))
        BY <2>1 DEF NumberAttempt, Escalate, ReportBlocked, ChainReviewIssue, ChainPlan,
           ChainReviewPlan, ChainImplement, ChainPublish, At, ByHand
      <3> QED BY <3>1, HInvStop, HInvGo
    <2>2. CASE RecordRepair(p) \/ Judge(p) \/ Execute(p) \/ RecordResult(p)
      <3>1. Stop(p) \/ \E s : Go(p, s) /\ (s \in ByHand \/ job[p].chain)
        BY <2>2 DEF RecordRepair, Judge, Execute, RecordResult, ByHand
      <3> QED BY <3>1, HInvStop, HInvGo
    <2>3. CASE \/ ChainReviewImpl(p) \/ Crash(p)
               \/ WriteIssueReview(p) \/ WritePlan(p) \/ WritePlanReview(p)
      BY <2>3, HInvStop DEF ChainReviewImpl, Crash, WriteIssueReview, WritePlan, WritePlanReview
    <2>4. CASE Enter(p)
      <3>1. job[p].chain
        BY <2>4 DEF Enter, At, HInv, ByHand
      <3>2. CASE Stop(p)
        BY <3>2, HInvStop
      <3>3. CASE ~Stop(p)
        <4>1. /\ job'[p].chain = job[p].chain
              /\ \A q \in Operator : q # p => job'[q] = job[q]
          BY <2>4, <3>3 DEF Enter, TInv, TypeOK, Job
        <4> QED BY <3>1, <4>1 DEF HInv
      <3> QED BY <3>2, <3>3
    <2>5. CASE Materialise(p)
      <3>1. job[p].chain
        BY <2>5 DEF Materialise, At, HInv, ByHand
      <3>2. CASE Stop(p)
        BY <3>2, HInvStop
      <3>3. CASE ~Stop(p)
        <4>1. /\ job'[p].chain = job[p].chain
              /\ \A q \in Operator : q # p => job'[q] = job[q]
          BY <2>5, <3>3 DEF Materialise, TInv, TypeOK, Job
        <4> QED BY <3>1, <4>1 DEF HInv
      <3> QED BY <3>2, <3>3
    <2>6. CASE Repair(p)
      <3>1. PICK o \in Outcomes :
              job' = [job EXCEPT ![p].outcome = o,
                                 ![p].step = IF o.repair = "none" THEN "judge" ELSE "record"]
        BY <2>6 DEF Repair
      <3>2. /\ job'[p].step \in ByHand
            /\ \A q \in Operator : q # p => job'[q] = job[q]
        BY <3>1 DEF TInv, TypeOK, Job, ByHand
      <3> QED BY <3>2 DEF HInv
    <2> QED BY <1>3, <2>1, <2>2, <2>3, <2>4, <2>5, <2>6 DEF Advance
  <1> QED BY <1>1, <1>2, <1>3

-----------------------------------------------------------------------------
(* The retry cap.                                                          *)

LEMMA InitCInv == Init => HInv /\ CInv
  <1> SUFFICES ASSUME Init PROVE HInv /\ CInv
    OBVIOUS
  <1>1. \A p \in Operator : job[p].step = "idle"
    BY DEF Init, Idle
  <1>2. HInv /\ (\A p \in Operator : ChainOK(store, job[p])) /\ Separate
    BY <1>1 DEF HInv, ByHand, ChainOK, Chaining, Separate
  <1>3. DraftPrWithinCap
    BY DEF Init, DraftPrWithinCap, EmptyDir, PlansPr
  <1> QED BY <1>2, <1>3 DEF CInv

LEMMA NextCInv == TInv /\ TInv' /\ HInv /\ CInv /\ [Next]_vars => HInv' /\ CInv'
  <1> SUFFICES ASSUME TInv, TInv', HInv, CInv, [Next]_vars PROVE HInv' /\ CInv'
    OBVIOUS
  <1>1. CASE UNCHANGED vars
    BY <1>1 DEF vars, HInv, CInv, DraftPrWithinCap, ChainOK, Separate
  <1>2. ASSUME NEW p \in Operator, StageCommand(p) \/ RepairIssue(p) \/ Advance(p) \/ Crash(p)
        PROVE  HInv' /\ CInv'
    <2>1. HInv'
      BY <1>2, StepHInv
    <2>2. NumberAttempt(p) \/ Escalate(p) \/ Materialise(p) \/ ChainPublish(p) => job[p].chain
      BY DEF NumberAttempt, Escalate, Materialise, ChainPublish, At, HInv, ByHand
    <2>3. CInv'
      BY <1>2, <2>2, StageCommandCInv, StageWriteCInv, RepairIssueCInv, SettleCInv, RetryStepCInv, ChainStepCInv,
         ImplementStepCInv, PublishStepCInv DEF Advance
    <2> QED BY <2>1, <2>3
  <1> QED BY <1>1, <1>2 DEF Next

\* No pull request is planned, and so none opened, for a run past the retry cap, in any
\* lineage of retries and resumes, with any number of operators who also run its stages
\* by hand: the run of a chain that escalates is nobody else's to plan one for, and what
\* is resumed is copied into a run that counts within the cap (repair_issue,
\* _handle_escalation).
THEOREM CapHolds == Spec => []DraftPrWithinCap
  <1>1. Init => TInv /\ HInv /\ CInv
    BY InitTInv, InitCInv
  <1>2. (TInv /\ HInv /\ CInv) /\ [Next]_vars => (TInv /\ HInv /\ CInv)'
    BY StepTInv, NextCInv
  <1>3. CInv => DraftPrWithinCap
    BY DEF CInv
  <1> QED BY <1>1, <1>2, <1>3, PTL DEF Spec

-----------------------------------------------------------------------------
(* Plans. The plan of a run a chain works on is the chain's to write, and  *)
(* it writes it once: before the run has one, or in copying it from a run  *)
(* whose plan is there to stay. Only `plan` can do otherwise.              *)

\* The chain has yet to write the plan of its run.
PlanToCome(j) ==
  \/ j.step \in {"number", "escalate", "review_issue"}
  \/ j.step = "plan" /\ j.plan # NoPlan

\* What job j knows of its run's plan, in store S.
PlanKnown(S, j) ==
  LET kept == Len(Preserved[j.from])
  IN  /\ PlanToCome(j) => S[j.run].plan = NoPlan
      /\ j.step = "write_plan" => "plan" \in Commands
      /\ j.step = "write_plan_review" /\ j.found = "approved" => S[j.run].plan = j.plan
      /\ j.step = "materialise" =>
           /\ kept < 3 \/ j.n < 3 => S[j.run].plan = NoPlan
           /\ kept >= 3 /\ j.n >= 3 => S[j.run].plan = S[j.src].plan
           /\ j.from = "plan" => j.plan # NoPlan

PInv ==
  /\ ApprovalIsOfPlan
  /\ \A p \in Operator : PlanKnown(store, job[p])

OfPlan(d) == d.planReview.verdict = "approved" => d.planReview.of = d.plan

\* All that is known where plans are concerned.
AllInv == TInv /\ TInv' /\ GInv /\ HInv /\ CInv /\ PInv

LEMMA PlansPInv ==
  ASSUME AllInv, NEW p \in Operator, PlannedOnce,
         \A q \in Operator : q # p => job'[q] = job[q],
         \A r \in RunId : OfPlan(store'[r]),
         PlanKnown(store', job'[p])
  PROVE  PInv'
  <1>1. ApprovalIsOfPlan'
    BY DEF ApprovalIsOfPlan, OfPlan
  <1>2. ASSUME NEW q \in Operator, q # p PROVE PlanKnown(store', job[q])
    <2>0. PlanKnown(store, job[q]) /\ JobOK(store, job[q]) /\ job'[q] = job[q]
      BY <1>2 DEF AllInv, PInv, GInv
    <2>1. CASE job[q].step \in ByHand
      <3>1. job[q].step = "write_plan_review" /\ job[q].found = "approved" =>
              store'[job[q].run].plan = store[job[q].run].plan
        BY <2>0 DEF AllInv, TInv, Working, JobOK, Approved, PlannedOnce, Exists
      <3> QED BY <2>0, <2>1, <3>1 DEF PlanKnown, PlanToCome, ByHand
    <2>2. CASE job[q].step \notin ByHand
      <3>1. /\ job[q].run \in RunId /\ Exists(job[q].run) /\ ChainOn(q, job[q].run)
        BY <2>0, <2>2 DEF AllInv, TInv, Working, HInv, ByHand, JobOK, Exists, ChainOn
      <3>2. store'[job[q].run].plan = store[job[q].run].plan
        BY <2>0, <3>1 DEF PlannedOnce
      <3>3. job[q].step = "materialise" /\ Len(Preserved[job[q].from]) >= 3 =>
              store'[job[q].src].plan = store[job[q].src].plan
        BY <2>0 DEF AllInv, TInv, Working, JobOK, Copying, PlannedOnce, Exists
      <3> QED BY <2>0, <3>2, <3>3 DEF PlanKnown
    <2> QED BY <2>1, <2>2
  <1>3. \A q \in Operator : PlanKnown(store', job'[q])
    BY <1>2
  <1> QED BY <1>1, <1>3 DEF PInv

\* Where nothing is known of a plan.
LEMMA PlainKnown ==
  ASSUME NEW S, NEW j, ~PlanToCome(j), j.step \notin {"materialise", "write_plan",
                                                     "write_plan_review"}
  PROVE  PlanKnown(S, j)
  BY DEF PlanKnown

\* Run r becomes e, of which the plan is the old one, or that of p's chain.
LEMMA WritePlans ==
  ASSUME AllInv, NEW p \in Operator, NEW r \in RunId, NEW e \in RunDir, Write(r, e),
         \A q \in Operator : q # p => job'[q] = job[q],
         Exists(r) => \/ e.plan = store[r].plan
                      \/ /\ store[r].plan = NoPlan
                         /\ job[p].step \notin ByHand /\ job[p].run = r
                         /\ job'[p] # job[p],
         \/ OfPlan(e)
         \/ e.planReview = store[r].planReview /\ (e.plan = store[r].plan \/ store[r].plan = NoPlan)
  PROVE  /\ PlannedOnce
         /\ \A s \in RunId : OfPlan(store'[s])
         /\ store'[r] = e
         /\ \A s \in RunId : s # r => store'[s] = store[s]
  <1>1. /\ store'[r] = e
        /\ \A s \in RunId : s # r => store'[s] = store[s]
    BY WriteType DEF AllInv, TInv, TypeOK
  <1>2. PlannedOnce
    <2>1. SUFFICES ASSUME Exists(r), e.plan # store[r].plan, NEW q \in Operator, ChainOn(q, r)
                   PROVE  job'[q] # job[q]
      BY <1>1 DEF PlannedOnce
    <2>2. Chaining(job[p]) /\ Chaining(job[q])
      BY <2>1 DEF ChainOn, Chaining, AllInv, HInv, ByHand
    <2> QED BY <2>1, <2>2 DEF AllInv, CInv, Separate, ChainOn
  <1>3. \A s \in RunId : OfPlan(store[s]) /\ Sound(store[s])
    BY DEF AllInv, PInv, ApprovalIsOfPlan, OfPlan, GInv
  <1>4. OfPlan(e)
    BY <1>3 DEF OfPlan, Sound
  <1> QED BY <1>1, <1>2, <1>3, <1>4

LEMMA NoWritePlans ==
  ASSUME AllInv, NEW p \in Operator, UNCHANGED store,
         \A q \in Operator : q # p => job'[q] = job[q],
         PlanKnown(store, job'[p])
  PROVE  PInv' /\ PlannedOnce
  <1>1. PlannedOnce /\ \A s \in RunId : OfPlan(store'[s])
    BY DEF PlannedOnce, AllInv, PInv, ApprovalIsOfPlan, OfPlan
  <1>2. store' = store
    OBVIOUS
  <1>3. PlanKnown(store', job'[p])
    BY <1>2
  <1> QED BY <1>1, <1>3, PlansPInv

-----------------------------------------------------------------------------
(* What the writes of the actions do to a plan and its review.             *)

SamePlan(d, e) == e.plan = d.plan /\ e.planReview = d.planReview

LEMMA ReviewedPlans ==
  ASSUME NEW d \in RunDir
  PROVE  /\ SamePlan(d, IssueReviewed(d))
         /\ PlanReviewed(d).plan = d.plan /\ OfPlan(PlanReviewed(d))
  BY DEF RunDir, SamePlan, IssueReviewed, PlanReviewed, OfPlan

LEMMA RecordPlans ==
  ASSUME NEW d \in RunDir, NEW x, NEW y, NEW z
  PROVE  /\ SamePlan(d, d)
         /\ SamePlan(d, [d EXCEPT !.attempt = x])
         /\ SamePlan(d, [d EXCEPT !.issueReview = x])
         /\ SamePlan(d, [d EXCEPT !.workspace = x])
         /\ SamePlan(d, [d EXCEPT !.publishResult = x])
         /\ SamePlan(d, [d EXCEPT !.publishPlan = x])
         /\ SamePlan(d, [d EXCEPT !.verdict = x])
         /\ SamePlan(d, [d EXCEPT !.verdict = x, !.workspace = y])
         /\ SamePlan(d, [d EXCEPT !.verdict = x, !.publishPlan = y])
         /\ SamePlan(d, [d EXCEPT !.repair = x, !.qa = y, !.dlog = z])
  BY DEF RunDir, SamePlan

\* A step that leaves the plans alone, to where the plan is there or still to come.
LEMMA SamePInv ==
  ASSUME AllInv, NEW p \in Operator, NEW r \in RunId, NEW e,
         Write(r, e), SamePlan(store[r], e),
         \A q \in Operator : q # p => job'[q] = job[q],
         job'[p].step \notin {"materialise", "write_plan", "write_plan_review"},
         PlanToCome(job'[p]) => PlanToCome(job[p]) /\ job'[p].run = job[p].run
  PROVE  PInv' /\ PlannedOnce
  <1>1. store'[r] = e /\ \A s \in RunId : s # r => store'[s] = store[s]
    BY DEF AllInv, TInv, TypeOK, Write
  <1>2. \A s \in RunId : SamePlan(store[s], store'[s])
    BY <1>1 DEF SamePlan
  <1>3. PlannedOnce /\ \A s \in RunId : OfPlan(store'[s])
    BY <1>2 DEF PlannedOnce, SamePlan, AllInv, PInv, ApprovalIsOfPlan, OfPlan
  <1>4. PlanKnown(store', job'[p])
    <2>1. PlanToCome(job[p]) => job[p].run \in RunId
      BY DEF PlanToCome, AllInv, TInv, Working
    <2> QED BY <1>2, <2>1 DEF PlanKnown, SamePlan, AllInv, PInv
  <1> QED BY <1>3, <1>4, PlansPInv

LEMMA NewDirPlan ==
  ASSUME NEW i \in Intakes
  PROVE  NewDir(i) \in RunDir /\ NewDir(i).plan = NoPlan /\ OfPlan(NewDir(i))
  BY NewDirType DEF NewDir, EmptyDir, OfPlan

Away == Step \ {"plan", "number", "escalate", "review_issue", "materialise",
                "write_plan", "write_plan_review"}

\* A step that leaves the job of p where plans do not matter.
LEMMA AwayPInv ==
  ASSUME AllInv, NEW p \in Operator, NEW r \in RunId, NEW e, Write(r, e),
         SamePlan(store[r], e),
         Stop(p) \/ \E s \in Away : Go(p, s)
  PROVE  PInv' /\ PlannedOnce
  <1>1. /\ \A q \in Operator : q # p => job'[q] = job[q]
        /\ ~PlanToCome(job'[p])
        /\ job'[p].step \notin {"materialise", "write_plan", "write_plan_review"}
    BY GoFields, StopFields DEF AllInv, PlanToCome, Away
  <1> QED BY <1>1, SamePInv

LEMMA AwayNoWritePInv ==
  ASSUME AllInv, NEW p \in Operator, UNCHANGED store,
         Stop(p) \/ \E s \in Away : Go(p, s)
  PROVE  PInv' /\ PlannedOnce
  <1>1. /\ \A q \in Operator : q # p => job'[q] = job[q]
        /\ ~PlanToCome(job'[p])
        /\ job'[p].step \notin {"materialise", "write_plan", "write_plan_review"}
    BY GoFields, StopFields DEF AllInv, PlanToCome, Away
  <1> QED BY <1>1, NoWritePlans, PlainKnown

-----------------------------------------------------------------------------
(* The actions.                                                            *)

LEMMA StageCommandPInv ==
  ASSUME AllInv, NEW p \in Operator, StageCommand(p)
  PROVE  PInv' /\ PlannedOnce
  <1>0. /\ store \in [RunId -> RunDir] /\ job[p].step = "idle"
    BY DEF AllInv, TInv, TypeOK, StageCommand, CreateIssue, ReviewIssue, PlanRun, ReviewPlan,
           ImplementRun, PublishRun, Issue, At
  <1>1. CASE CreateIssue(p)
    <2>1. PICK r \in RunId, i \in Intakes : ~Exists(r) /\ Write(r, NewDir(i)) /\ UNCHANGED job
      BY <1>1 DEF CreateIssue
    <2>2. PlannedOnce /\ \A s \in RunId : OfPlan(store'[s])
      BY <2>1, NewDirPlan, WritePlans
    <2>3. \A S : PlanKnown(S, job[p])
      BY <1>0, PlainKnown DEF PlanToCome
    <2> QED BY <2>1, <2>2, <2>3, PlansPInv
  <1>2. ASSUME NEW j, Begin(p, j), PlanKnown(store, j), UNCHANGED store
        PROVE  PInv' /\ PlannedOnce
    BY <1>2, BeginJob, NoWritePlans DEF AllInv
  <1>3. ASSUME NEW j, Begin(p, j), UNCHANGED store,
               j.step \in {"write_issue_review", "repair", "execute"}
        PROVE  PInv' /\ PlannedOnce
    BY <1>2, <1>3, PlainKnown DEF PlanToCome
  <1>4. ASSUME NEW r \in RunId, ReviewIssue(p, r) \/ ImplementRun(p, r) \/ PublishRun(p, r)
        PROVE  PInv' /\ PlannedOnce
    <2>1. ASSUME NEW v
          PROVE  /\ [Idle EXCEPT !.step = "write_issue_review", !.run = r,
                                 !.found = v].step = "write_issue_review"
                 /\ [Idle EXCEPT !.step = "repair", !.run = r].step = "repair"
                 /\ [Idle EXCEPT !.step = "execute", !.run = r,
                                 !.publish = TRUE].step = "execute"
      BY DEF Idle
    <2> QED BY <1>3, <1>4, <2>1 DEF ReviewIssue, ImplementRun, PublishRun
  <1>5. ASSUME NEW r \in RunId, NEW pl \in Plan, PlanRun(p, r, pl)
        PROVE  PInv' /\ PlannedOnce
    <2>1. PICK j : j = [Idle EXCEPT !.step = "write_plan", !.run = r, !.plan = pl]
      OBVIOUS
    <2>2. Begin(p, j) /\ UNCHANGED store /\ "plan" \in Commands
      BY <1>5, <2>1 DEF PlanRun, Issue
    <2>3. j.step = "write_plan"
      BY <2>1 DEF Idle
    <2>4. PlanKnown(store, j)
      BY <2>2, <2>3 DEF PlanKnown, PlanToCome
    <2> QED BY <1>2, <2>2, <2>4
  <1>6. ASSUME NEW r \in RunId, ReviewPlan(p, r)
        PROVE  PInv' /\ PlannedOnce
    <2>1. PICK j, v : /\ v = PlanVerdict(store[r])
                      /\ j = [Idle EXCEPT !.step = "write_plan_review", !.run = r,
                                          !.plan = store[r].plan, !.found = v]
      OBVIOUS
    <2>2. Begin(p, j) /\ UNCHANGED store
      BY <1>6, <2>1 DEF ReviewPlan
    <2>3. j.step = "write_plan_review" /\ j.run = r /\ j.plan = store[r].plan
      BY <2>1 DEF Idle
    <2>4. PlanKnown(store, j)
      BY <2>3 DEF PlanKnown, PlanToCome
    <2> QED BY <1>2, <2>2, <2>4
  <1> QED BY <1>1, <1>4, <1>5, <1>6 DEF StageCommand

\* A stage by hand writes what it decided on: the plan it read, if it approves, is still there.
LEMMA StageWritePInv ==
  ASSUME AllInv, "plan" \notin Commands \/ PlannedOnce, NEW p \in Operator,
         WriteIssueReview(p) \/ WritePlan(p) \/ WritePlanReview(p)
  PROVE  PInv' /\ PlannedOnce
  <1>1. PICK r, d, v, pl :
          r = job[p].run /\ d = store[r] /\ v = job[p].found /\ pl = job[p].plan
    OBVIOUS
  <1>2. /\ job[p].step \in {"write_issue_review", "write_plan", "write_plan_review"}
        /\ r \in RunId /\ d \in RunDir /\ d.attempt > 0
        /\ v \in Review /\ pl \in Plan \union {NoPlan}
        /\ Sound(d) /\ OfPlan(d) /\ PlanKnown(store, job[p])
    BY <1>1 DEF AllInv, TInv, TypeOK, Working, GInv, JobOK, Job, PInv, ApprovalIsOfPlan, OfPlan,
                WriteIssueReview, WritePlan, WritePlanReview, At
  <1>3. Stop(p) /\ store \in [RunId -> RunDir]
    BY DEF WriteIssueReview, WritePlan, WritePlanReview, AllInv, TInv, TypeOK
  <1>4. PlanKnown(store', job'[p]) /\ \A q \in Operator : q # p => job'[q] = job[q]
    BY <1>3, StopFields, PlainKnown DEF AllInv, PlanToCome
  <1>5. CASE WriteIssueReview(p)
    <2>1. Write(r, [d EXCEPT !.issueReview = v]) /\ SamePlan(d, [d EXCEPT !.issueReview = v])
      BY <1>1, <1>2, <1>5, RecordPlans DEF WriteIssueReview
    <2> QED BY <1>1, <1>2, <1>3, <2>1, AwayPInv
  <1>6. CASE WritePlan(p)
    <2>1. PICK e : e = [d EXCEPT !.plan = pl]
      OBVIOUS
    <2>2. Write(r, e) /\ e.plan = pl /\ e.planReview = d.planReview
      BY <1>1, <1>2, <1>6, <2>1 DEF WritePlan, RunDir
    <2>3. store'[r] = e /\ \A s \in RunId : s # r => store'[s] = store[s]
      BY <1>2, <1>3, <2>2 DEF Write
    <2>4. PlannedOnce
      BY <1>2, <1>6 DEF WritePlan, At, PlanKnown
    <2>5. OfPlan(store'[r])
      <3>1. e.plan = d.plan \/ d.plan = NoPlan
        BY <1>1, <1>2, <2>3, <2>4 DEF PlannedOnce, Exists
      <3> QED BY <1>2, <2>2, <2>3, <3>1 DEF Sound, OfPlan
    <2>6. \A s \in RunId : OfPlan(store'[s])
      BY <2>3, <2>5 DEF AllInv, PInv, ApprovalIsOfPlan, OfPlan
    <2> QED BY <1>4, <2>4, <2>6, PlansPInv
  <1>7. CASE WritePlanReview(p)
    <2>1. PICK e : e = [d EXCEPT !.planReview = [verdict |-> v, of |-> pl]]
      OBVIOUS
    <2>2. Write(r, e)
      BY <1>1, <1>7, <2>1 DEF WritePlanReview
    <2>3. /\ e \in RunDir /\ e.plan = d.plan
          /\ e.planReview.verdict = v /\ e.planReview.of = pl
      BY <1>2, <2>1 DEF RunDir, PlanReview
    <2>4. v = "approved" => d.plan = pl
      BY <1>1, <1>2, <1>7 DEF WritePlanReview, At, PlanKnown
    <2>5. PlannedOnce /\ \A s \in RunId : OfPlan(store'[s])
      BY <1>1, <1>2, <1>4, <2>2, <2>3, <2>4, WritePlans DEF OfPlan
    <2> QED BY <1>4, <2>5, PlansPInv
  <1> QED BY <1>5, <1>6, <1>7

\* A chain begins on a run of its own, which has no plan yet.
LEMMA NewChainPInv ==
  ASSUME AllInv, NEW p \in Operator, NEW r \in RunId, NEW d \in RunDir, NEW j,
         ~Exists(r), Write(r, d), d.plan = NoPlan, OfPlan(d), Begin(p, j),
         j.run = r,
         j.step \notin {"write_plan", "write_plan_review"},
         j.step = "materialise" => j.n = 0 /\ (j.from = "plan" => j.plan # NoPlan)
  PROVE  PInv' /\ PlannedOnce
  <1>1. /\ job'[p] = j
        /\ \A q \in Operator : q # p => job'[q] = job[q]
    BY BeginJob DEF AllInv
  <1>2. /\ PlannedOnce /\ \A s \in RunId : OfPlan(store'[s])
        /\ store'[r] = d
    BY <1>1, WritePlans
  <1>3. PlanKnown(store', j)
    BY <1>2 DEF PlanKnown
  <1> QED BY <1>1, <1>2, <1>3, PlansPInv

LEMMA RepairIssuePInv ==
  ASSUME AllInv, NEW p \in Operator, RepairIssue(p)
  PROVE  PInv' /\ PlannedOnce
  <1>0. store \in [RunId -> RunDir]
    BY DEF AllInv, TInv, TypeOK
  <1>1. PICK pl \in Plan \union {NoPlan}, publish \in BOOLEAN, r \in RunId :
          \/ \E i \in Intakes : Fresh(p, r, i, pl, publish)
          \/ \E src \in RunId, i \in Intakes : Retry(p, src, r, i, pl, publish)
          \/ \E src \in RunId, stage \in ResumeStage : Resume(p, src, r, stage, pl, publish)
    BY DEF RepairIssue
  <1>2. ASSUME NEW i \in Intakes, Fresh(p, r, i, pl, publish) PROVE PInv' /\ PlannedOnce
    <2> DEFINE s == Entry(i, "review_issue")
               j == [Idle EXCEPT !.step = s, !.run = r, !.plan = pl,
                                 !.publish = publish, !.chain = TRUE]
    <2>1. s \notin {"materialise", "write_plan", "write_plan_review"}
      BY DEF Entry
    <2>2. Begin(p, j) /\ ~Exists(r) /\ Write(r, NewDir(i))
      BY <1>2 DEF Fresh
    <2>3. j.run = r /\ j.step = s
      <3> HIDE DEF s
      <3> QED BY DEF Idle
    <2> HIDE DEF j, s
    <2> QED BY <2>1, <2>2, <2>3, NewDirPlan, NewChainPInv
  <1>3. ASSUME NEW src \in RunId, NEW i \in Intakes, Retry(p, src, r, i, pl, publish)
        PROVE  PInv' /\ PlannedOnce
    <2> DEFINE n == store[src].attempt + 1
               s == IF Exhausted(n) THEN "escalate" ELSE "number"
               j == [Idle EXCEPT !.step = s, !.run = r, !.plan = Carried(src, pl), !.n = n,
                                 !.publish = publish, !.chain = TRUE]
    <2>1. s \notin {"materialise", "write_plan", "write_plan_review"}
      OBVIOUS
    <2>2. Begin(p, j) /\ ~Exists(r) /\ Write(r, NewDir(i))
      BY <1>3 DEF Retry
    <2>3. j.run = r /\ j.step = s
      <3> HIDE DEF s, n
      <3> QED BY DEF Idle
    <2> HIDE DEF j, s, n
    <2> QED BY <2>1, <2>2, <2>3, NewDirPlan, NewChainPInv
  <1>4. ASSUME NEW src \in RunId, NEW stage \in ResumeStage,
               Resume(p, src, r, stage, pl, publish)
        PROVE  PInv' /\ PlannedOnce
    <2> DEFINE n == store[src].attempt + 1
               d == [EmptyDir EXCEPT !.attempt = n, !.intake = store[src].intake]
               plan == IF stage = "review_issue" THEN pl
                       ELSE IF stage = "plan" THEN Carried(src, pl) ELSE NoPlan
               j == [Idle EXCEPT !.step = "materialise", !.run = r, !.src = src,
                                 !.from = stage, !.plan = plan,
                                 !.publish = publish, !.chain = TRUE]
    <2>1. CASE Exhausted(n)
      <3> DEFINE k == [Idle EXCEPT !.step = "no_intake"]
      <3>1. Begin(p, k) /\ UNCHANGED store
        BY <1>4, <2>1 DEF Resume
      <3>2. k.step = "no_intake"
        BY DEF Idle
      <3> HIDE DEF k
      <3> QED BY <3>1, <3>2, BeginJob, NoWritePlans, PlainKnown DEF AllInv, PlanToCome
    <2>2. CASE ~Exhausted(n)
      <3>1. Begin(p, j) /\ ~Exists(r) /\ Write(r, d)
        BY <1>4, <2>2 DEF Resume
      <3>2. d \in RunDir /\ d.plan = NoPlan /\ OfPlan(d)
        <4>1. n \in Nat /\ store[src].intake \in Intake
          BY <1>0 DEF RunDir
        <4> HIDE DEF n
        <4> QED BY <4>1, ResumedType DEF EmptyDir, OfPlan
      <3>3. /\ j.run = r /\ j.n = 0 /\ j.from = stage /\ j.plan = plan
            /\ j.step = "materialise"
        <4> HIDE DEF plan
        <4> QED BY DEF Idle
      <3>4. stage = "plan" => plan # NoPlan
        BY <1>4 DEF Resume
      <3> HIDE DEF j, d, n, plan
      <3> QED BY <3>1, <3>2, <3>3, <3>4, NewChainPInv
    <2> QED BY <2>1, <2>2
  <1> QED BY <1>1, <1>2, <1>3, <1>4

\* The attempt is settled before the plan is written, and with it where a chain is escalated.
LEMMA SettlePInv ==
  ASSUME AllInv, NEW p \in Operator, NumberAttempt(p) \/ Escalate(p)
  PROVE  PInv' /\ PlannedOnce
  <1>0. /\ PlanToCome(job[p]) /\ job[p].step \notin ByHand
        /\ job[p].run \in RunId /\ store[job[p].run] \in RunDir /\ job[p].n \in Nat
        /\ job[p].plan \in Plan \union {NoPlan} /\ store[job[p].run].plan = NoPlan
    BY DEF NumberAttempt, Escalate, At, PlanToCome, ByHand, AllInv, TInv, TypeOK, Working, Job,
           PInv, PlanKnown
  <1> DEFINE d == store[job[p].run]
  <1>1. CASE NumberAttempt(p)
    <2> DEFINE e == [d EXCEPT !.attempt = job[p].n]
               s == Entry(d.intake, "review_issue")
    <2>1. /\ Write(job[p].run, e) /\ Go(p, s)
          /\ s \notin {"materialise", "write_plan", "write_plan_review"}
      BY <1>1 DEF NumberAttempt, Entry
    <2>2. SamePlan(d, e)
      <3>1. d \in RunDir  BY <1>0
      <3> HIDE DEF d
      <3> QED BY <3>1, RecordPlans
    <2> HIDE DEF e, s
    <2>3. /\ job'[p].step \notin {"materialise", "write_plan", "write_plan_review"}
          /\ job'[p].run = job[p].run
          /\ \A q \in Operator : q # p => job'[q] = job[q]
      BY <2>1, GoFields DEF AllInv
    <2> QED BY <1>0, <2>1, <2>2, <2>3, SamePInv
  <1>2. CASE Escalate(p)
    <2> DEFINE e == [d EXCEPT !.attempt = job[p].n, !.plan = job[p].plan,
                              !.repair = "escalated", !.verdict = "blocked",
                              !.publishPlan = "issue"]
    <2>1. Write(job[p].run, e) /\ Go(p, "execute")
      BY <1>2 DEF Escalate
    <2>2. e \in RunDir /\ e.planReview = d.planReview
      <3>1. d \in RunDir
        BY <1>0
      <3> HIDE DEF d
      <3>2. e \in RunDir
        BY <1>0, <3>1, ClosedType
      <3> QED BY <3>1, <3>2 DEF RunDir
    <2> HIDE DEF e
    <2>3. /\ job'[p].step = "execute"
          /\ \A q \in Operator : q # p => job'[q] = job[q]
      BY <2>1, GoFields DEF AllInv
    <2>4. job'[p] # job[p]
      BY <1>2, <2>3 DEF Escalate, At
    <2>5. PlannedOnce /\ \A s \in RunId : OfPlan(store'[s])
      BY <1>0, <2>1, <2>2, <2>3, <2>4, WritePlans
    <2> QED BY <2>3, <2>5, PlansPInv, PlainKnown DEF PlanToCome
  <1> QED BY <1>1, <1>2

\* A resumed chain has its plan when it enters, unless it is to make one.
LEMMA EnterPInv ==
  ASSUME AllInv, NEW p \in Operator, Enter(p)
  PROVE  PInv' /\ PlannedOnce
  <1>0. /\ job[p].step = "materialise" /\ job[p] \in Job
        /\ job[p].run \in RunId /\ store[job[p].run] \in RunDir
        /\ PlanKnown(store, job[p])
    BY DEF Enter, At, AllInv, TInv, TypeOK, Working, PInv
  <1> DEFINE d == store[job[p].run]
  <1>1. CASE Stop(p)
    BY <1>1, AwayNoWritePInv DEF Enter
  <1>2. CASE ~Stop(p)
    <2> DEFINE s == Entry(d.intake, job[p].from)
               o == IF job[p].from = "publish" THEN Reloaded ELSE NoOutcome
               j == [job[p] EXCEPT !.step = s, !.src = NoRun, !.n = 0, !.outcome = o]
    <2>1. Begin(p, j) /\ UNCHANGED store
      BY <1>2 DEF Enter, Begin
    <2>2. j.step = s /\ j.run = job[p].run /\ j.plan = job[p].plan
      <3> HIDE DEF s, o
      <3> QED BY <1>0 DEF Job
    <2>3. job[p].from \in {"review_issue", "plan"} => d.plan = NoPlan
      BY <1>0, PreservedOrder DEF PlanKnown, ResumeStage
    <2>4. /\ s \in {"report", job[p].from} /\ job[p].from \in ResumeStage
          /\ s # "materialise"
      BY <1>0 DEF Entry, Job, ResumeStage
    <2> HIDE DEF j, s
    <2>5. PlanKnown(store, j)
      BY <2>2, <2>3, <2>4 DEF PlanKnown, PlanToCome, ResumeStage
    <2> HIDE DEF d
    <2>6. job'[p] = j /\ \A q \in Operator : q # p => job'[q] = job[q]
      BY <2>1, BeginJob DEF AllInv
    <2> QED BY <2>1, <2>5, <2>6, NoWritePlans
  <1> QED BY <1>1, <1>2

\* The heart of the matter: the review is copied after the plan it is about, from a run
\* whose plan, once there, is not replaced meanwhile.
LEMMA CopyPInv ==
  ASSUME AllInv, NEW p \in Operator, Materialise(p), Copies(p)
  PROVE  PInv' /\ PlannedOnce
  <1> DEFINE j == job[p]
             d == store[j.run]
             s == store[j.src]
             a == Preserved[j.from][j.n + 1]
             e == CopyArtifact(d, s, a)
  <1>1. /\ j \in Job /\ j.step = "materialise" /\ j.run \in RunId /\ j.src \in RunId
        /\ d \in RunDir /\ s \in RunDir /\ Sound(d) /\ OfPlan(s) /\ OfPlan(d)
        /\ Copying(store, j) /\ PlanKnown(store, j) /\ j.step \notin ByHand
    BY DEF AllInv, TInv, TypeOK, Working, GInv, JobOK, Materialise, At, PInv, ByHand,
           ApprovalIsOfPlan, OfPlan
  <1>2. /\ j.n \in Nat /\ j.from \in ResumeStage /\ j.n < Len(Preserved[j.from])
        /\ Write(j.run, e)
        /\ \A q \in Operator : q # p => job'[q] = job[q]
        /\ job'[p] = [j EXCEPT !.n = j.n + 1]
    BY <1>1 DEF Materialise, Copies, AllInv, TInv, TypeOK, Job
  <1>3. /\ a \in Artifact
        /\ a = "plan" <=> j.n = 2
        /\ a = "planReview" <=> j.n = 3
        /\ j.from = "plan" => j.n < 2 /\ Len(Preserved[j.from]) < 3
        /\ Len(Preserved[j.from]) \in Nat
    <2>1. j.n + 1 \in 1..Len(Preserved[j.from]) /\ Len(Preserved[j.from]) \in 1..10
      BY <1>2, PreservedOrder
    <2>2. j.from = "plan" => Len(Preserved[j.from]) < 3
      BY <1>2, <2>1, PreservedOrder
    <2>3. /\ j.n = 0 => a = "draft"
          /\ j.n = 1 => a = "issueReview"
          /\ j.n = 2 => a = "plan"
          /\ j.n = 3 => a = "planReview"
          /\ j.n > 3 => a \notin {"plan", "planReview"}
          /\ a \in Artifact
      BY <1>2, <2>1, PreservedOrder
    <2> QED BY <1>2, <2>1, <2>2, <2>3
  <1>4. /\ e \in RunDir
        /\ e.plan = IF a = "plan" THEN s.plan ELSE d.plan
        /\ e.planReview = IF a = "planReview" THEN s.planReview ELSE d.planReview
    <2>1. d \in RunDir /\ s \in RunDir /\ a \in Artifact  BY <1>1, <1>3
    <2> HIDE DEF d, s, a
    <2> QED BY <2>1, CopyFields
  <1>5. j.src # j.run
    BY <1>1 DEF Copying
  <1>6. /\ j.n < 3 => d.plan = NoPlan
        /\ j.n >= 3 => d.plan = s.plan
    BY <1>1, <1>2, <1>3 DEF PlanKnown
  <1> HIDE DEF a, e
  <1>7. /\ e.plan = d.plan \/ d.plan = NoPlan
        /\ \/ OfPlan(e)
           \/ e.planReview = d.planReview /\ (e.plan = d.plan \/ d.plan = NoPlan)
    <2>1. CASE j.n = 3
      BY <1>1, <1>3, <1>4, <1>6, <2>1 DEF OfPlan
    <2>2. CASE j.n # 3
      BY <1>2, <1>3, <1>4, <1>6, <2>2
    <2> QED BY <2>1, <2>2
  <1>8. /\ PlannedOnce /\ \A x \in RunId : OfPlan(store'[x])
        /\ store'[j.run] = e /\ store'[j.src] = s
    <2>1. job'[p].n # job[p].n
      BY <1>1, <1>2 DEF Job
    <2>2. job'[p] # job[p]
      BY <2>1
    <2> QED BY <1>1, <1>2, <1>4, <1>5, <1>7, <2>2, WritePlans
  <1>9. PlanKnown(store', job'[p])
    <2>1. /\ job'[p].step = "materialise" /\ job'[p].run = j.run /\ job'[p].src = j.src
          /\ job'[p].from = j.from /\ job'[p].plan = j.plan /\ job'[p].n = j.n + 1
      BY <1>1, <1>2 DEF Job
    <2>2. j.n + 1 < 3 \/ Len(Preserved[j.from]) < 3 => e.plan = NoPlan
      BY <1>1, <1>2, <1>3, <1>4, <1>6
    <2>3. j.n + 1 >= 3 => e.plan = s.plan
      BY <1>2, <1>3, <1>4, <1>6
    <2>4. j.from = "plan" => j.plan # NoPlan
      BY <1>1 DEF PlanKnown
    <2> HIDE DEF j, d, s
    <2> QED BY <1>8, <2>1, <2>2, <2>3, <2>4 DEF PlanKnown, PlanToCome
  <1> QED BY <1>2, <1>8, <1>9, PlansPInv

LEMMA MaterialisePInv ==
  ASSUME AllInv, NEW p \in Operator, Materialise(p)
  PROVE  PInv' /\ PlannedOnce
  <1>1. CASE Copies(p)
    BY <1>1, CopyPInv
  <1>2. CASE ~Copies(p)
    BY <1>2, AwayNoWritePInv DEF Materialise, Copies
  <1> QED BY <1>1, <1>2

LEMMA ChainStepPInv ==
  ASSUME AllInv, NEW p \in Operator,
         \/ ChainReviewIssue(p) \/ ChainPlan(p) \/ ChainReviewPlan(p) \/ ChainImplement(p)
  PROVE  PInv' /\ PlannedOnce
  <1>0. /\ job[p].step \in {"review_issue", "plan", "review_plan", "implement"}
        /\ job[p].run \in RunId /\ store[job[p].run] \in RunDir
        /\ job[p].plan \in Plan \union {NoPlan} /\ PlanKnown(store, job[p])
        /\ job[p].step \notin ByHand
    BY DEF ChainReviewIssue, ChainPlan, ChainReviewPlan, ChainImplement, At, AllInv, TInv, TypeOK,
           Working, Job, PInv, ByHand
  <1> DEFINE r == job[p].run
             d == store[r]
  <1>1. {"review_plan", "implement", "repair"} \subseteq Away
    BY DEF Away, Step, ResumeStage
  <1>2. CASE ChainReviewIssue(p)
    <2>1. Write(r, IssueReviewed(d)) /\ SamePlan(d, IssueReviewed(d))
      BY <1>0, <1>2, ReviewedPlans DEF ChainReviewIssue
    <2>2. Stop(p) \/ Go(p, "plan")
      BY <1>2 DEF ChainReviewIssue
    <2>3. /\ \A q \in Operator : q # p => job'[q] = job[q]
          /\ job'[p].step = "idle" \/ (job'[p].step = "plan" /\ job'[p].run = r)
      BY <2>2, GoFields, StopFields DEF AllInv
    <2>4. PlanToCome(job[p])
      BY <1>2 DEF ChainReviewIssue, At, PlanToCome
    <2>5. PlanToCome(job'[p]) => PlanToCome(job[p]) /\ job'[p].run = job[p].run
      BY <2>3, <2>4 DEF PlanToCome
    <2> QED BY <1>0, <2>1, <2>3, <2>5, SamePInv
  <1>3. CASE ChainPlan(p)
    <2>1. CASE Stop(p) /\ UNCHANGED store
      BY <2>1, AwayNoWritePInv
    <2>2. CASE /\ Write(r, IF job[p].plan = NoPlan THEN d ELSE [d EXCEPT !.plan = job[p].plan])
               /\ Go(p, "review_plan")
      <3>1. CASE job[p].plan = NoPlan
        <4>1. Write(r, d) /\ SamePlan(d, d)
          BY <2>2, <3>1 DEF SamePlan
        <4> QED BY <1>0, <1>1, <2>2, <4>1, AwayPInv
      <3>2. CASE job[p].plan # NoPlan
        <4> DEFINE e == [d EXCEPT !.plan = job[p].plan]
        <4>1. Write(r, e)
          BY <2>2, <3>2
        <4>2. d.plan = NoPlan
          BY <1>0, <1>3, <3>2 DEF ChainPlan, At, PlanKnown, PlanToCome
        <4>3. e \in RunDir /\ e.planReview = d.planReview
          <5>1. d \in RunDir  BY <1>0
          <5> HIDE DEF d
          <5> QED BY <1>0, <5>1 DEF RunDir
        <4> HIDE DEF e
        <4>4. /\ job'[p].step = "review_plan"
              /\ \A q \in Operator : q # p => job'[q] = job[q]
          BY <2>2, GoFields DEF AllInv
        <4>5. PlannedOnce /\ \A s \in RunId : OfPlan(store'[s])
          <5>1. job'[p] # job[p]
            BY <1>3, <4>4 DEF ChainPlan, At
          <5> QED BY <1>0, <4>1, <4>2, <4>3, <4>4, <5>1, WritePlans
        <4> QED BY <4>4, <4>5, PlansPInv, PlainKnown DEF PlanToCome
      <3> QED BY <3>1, <3>2
    <2> QED BY <1>3, <2>1, <2>2 DEF ChainPlan
  <1>4. CASE ChainReviewPlan(p)
    <2> DEFINE e == PlanReviewed(d)
    <2>1. Write(r, e) /\ (Stop(p) \/ Go(p, "implement"))
      BY <1>4 DEF ChainReviewPlan
    <2>2. e \in RunDir /\ e.plan = d.plan /\ OfPlan(e)
      BY <1>0, ReviewedType, ReviewedPlans
    <2> HIDE DEF e
    <2>3. /\ job'[p].step \in {"idle", "implement"}
          /\ \A q \in Operator : q # p => job'[q] = job[q]
      BY <2>1, GoFields, StopFields DEF AllInv
    <2>4. PlannedOnce /\ \A s \in RunId : OfPlan(store'[s])
      BY <1>0, <2>1, <2>2, <2>3, WritePlans
    <2> QED BY <2>3, <2>4, PlansPInv, PlainKnown DEF PlanToCome
  <1>5. CASE ChainImplement(p)
    BY <1>1, <1>5, AwayNoWritePInv DEF ChainImplement
  <1> QED BY <1>2, <1>3, <1>4, <1>5

LEMMA ImplementStepPInv ==
  ASSUME AllInv, NEW p \in Operator, Repair(p) \/ RecordRepair(p) \/ Judge(p)
  PROVE  PInv' /\ PlannedOnce
  <1>0. /\ job[p].step \in {"repair", "record", "judge"} /\ job[p] \in Job
        /\ job[p].run \in RunId /\ store[job[p].run] \in RunDir
    BY DEF Repair, RecordRepair, Judge, At, AllInv, TInv, TypeOK, Working
  <1>1. {"judge", "publish"} \subseteq Away
    BY DEF Away, Step, ResumeStage
  <1> DEFINE d == store[job[p].run]
  <1>2. CASE Repair(p)
    <2>1. PICK o \in Outcomes :
            /\ job' = [job EXCEPT ![p].outcome = o,
                                  ![p].step = IF o.repair = "none" THEN "judge" ELSE "record"]
            /\ Write(job[p].run, IF o.repair = "none" THEN d
                                 ELSE [d EXCEPT !.workspace = "unjudged"])
      BY <1>2 DEF Repair
    <2>2. SamePlan(d, d) /\ SamePlan(d, [d EXCEPT !.workspace = "unjudged"])
      <3>1. d \in RunDir  BY <1>0
      <3> HIDE DEF d
      <3> QED BY <3>1, RecordPlans
    <2>3. /\ job'[p].step \in {"judge", "record"}
          /\ \A q \in Operator : q # p => job'[q] = job[q]
      BY <2>1 DEF AllInv, TInv, TypeOK, Job
    <2>4. ~PlanToCome(job'[p])
      BY <2>3 DEF PlanToCome
    <2> QED BY <1>0, <2>1, <2>2, <2>3, <2>4, SamePInv
  <1>3. CASE RecordRepair(p)
    <2> DEFINE q == d.qa \/ job[p].outcome.qa
               l == IF job[p].outcome.repair = "completed"
                    THEN d.dlog \union {d.attempt} ELSE d.dlog
               e == [d EXCEPT !.repair = job[p].outcome.repair, !.qa = q, !.dlog = l]
    <2>1. Write(job[p].run, e) /\ Go(p, "judge")
      BY <1>3 DEF RecordRepair
    <2>2. SamePlan(d, e)
      <3>1. d \in RunDir  BY <1>0
      <3> HIDE DEF d, q, l
      <3> QED BY <3>1, RecordPlans
    <2> HIDE DEF e
    <2> QED BY <1>0, <1>1, <2>1, <2>2, AwayPInv
  <1>4. CASE Judge(p)
    <2> DEFINE v == IF Approves(d, job[p].outcome) THEN "approved" ELSE "blocked"
               w == IF d.workspace \in {"none", "partial"} THEN d.workspace
                    ELSE IF job[p].outcome.repair = "none" THEN "unjudged" ELSE "judged"
               e == [d EXCEPT !.verdict = v, !.workspace = w]
    <2>1. Write(job[p].run, e) /\ (Stop(p) \/ Go(p, "publish"))
      BY <1>4 DEF Judge
    <2>2. SamePlan(d, e)
      <3>1. d \in RunDir  BY <1>0
      <3> HIDE DEF d, v, w
      <3> QED BY <3>1, RecordPlans
    <2> HIDE DEF e
    <2> QED BY <1>0, <1>1, <2>1, <2>2, AwayPInv
  <1> QED BY <1>2, <1>3, <1>4

LEMMA PublishStepPInv ==
  ASSUME AllInv, NEW p \in Operator,
         \/ ReportBlocked(p) \/ ChainPublish(p) \/ Execute(p) \/ RecordResult(p)
         \/ ChainReviewImpl(p) \/ Crash(p)
  PROVE  PInv' /\ PlannedOnce
  <1>1. {"execute", "result", "review_impl"} \subseteq Away
    BY DEF Away, Step, ResumeStage
  <1>2. CASE Execute(p) \/ ChainReviewImpl(p) \/ Crash(p)
    <2>1. UNCHANGED store /\ (Stop(p) \/ Go(p, "result"))
      BY <1>2 DEF Execute, ChainReviewImpl, Crash
    <2> QED BY <1>1, <2>1, AwayNoWritePInv
  <1>3. CASE ReportBlocked(p) \/ ChainPublish(p) \/ RecordResult(p)
    <2> DEFINE d == store[job[p].run]
               k == IF d.intake = "rejected" THEN "update_pr" ELSE "draft_pr"
               x == IF job[p].publish THEN "published" ELSE "dry_run"
    <2>1. job[p].run \in RunId /\ d \in RunDir
      BY <1>3 DEF ReportBlocked, ChainPublish, RecordResult, At, AllInv, TInv, TypeOK, Working
    <2>2. /\ SamePlan(d, [d EXCEPT !.verdict = "blocked", !.publishPlan = "issue"])
          /\ SamePlan(d, [d EXCEPT !.publishPlan = k])
          /\ SamePlan(d, [d EXCEPT !.verdict = "blocked"])
          /\ SamePlan(d, [d EXCEPT !.publishResult = x])
      <3> HIDE DEF d, k, x
      <3> QED BY <2>1, RecordPlans
    <2>3. \/ Write(job[p].run, [d EXCEPT !.verdict = "blocked", !.publishPlan = "issue"])
          \/ Write(job[p].run, [d EXCEPT !.publishPlan = k])
          \/ Write(job[p].run, [d EXCEPT !.verdict = "blocked"])
          \/ Write(job[p].run, [d EXCEPT !.publishResult = x])
      BY <1>3 DEF ReportBlocked, ChainPublish, RecordResult
    <2>4. Stop(p) \/ Go(p, "execute") \/ Go(p, "review_impl")
      BY <1>3 DEF ReportBlocked, ChainPublish, RecordResult
    <2>5. \E e : Write(job[p].run, e) /\ SamePlan(d, e)
      BY <2>2, <2>3
    <2> HIDE DEF k, x
    <2> QED BY <1>1, <2>1, <2>4, <2>5, AwayPInv
  <1> QED BY <1>2, <1>3

-----------------------------------------------------------------------------
(* Who begins to build.                                                    *)

\* Whoever begins to build does so where the plan stands approved.
LEMMA BeginsToBuild ==
  ASSUME TInv, GInv, [Next]_vars, NEW p \in Operator, ~At(p, "repair"), At(p, "repair")'
  PROVE  job'[p].run \in RunId /\ store[job'[p].run].planReview.verdict = "approved"
  <1>0. job'[p] # job[p]
    BY DEF At
  <1>1. PICK q \in Operator : StageCommand(q) \/ RepairIssue(q) \/ Advance(q) \/ Crash(q)
    BY <1>0 DEF Next, vars
  <1>2. Moves(q)
    BY <1>1, StageCommandMoves, StageWriteMoves, RepairIssueMoves, RetryStepMoves, MaterialiseMoves,
       ChainStepMoves, ImplementStepMoves, PublishStepMoves DEF Advance
  <1>3. q = p
    BY <1>0, <1>2 DEF Moves, Calm, Begins, Ends
  <1>4. job[p].step \notin {"record", "judge"}
    <2>1. SUFFICES ASSUME job[p].step \in {"record", "judge"} PROVE FALSE
      OBVIOUS
    <2>2. ~StageCommand(p) /\ ~RepairIssue(p)
      <3>1. \A c : ~Issue(p, c)
        BY <2>1 DEF Issue, At
      <3>2. ~StageCommand(p)
        BY <3>1 DEF StageCommand, CreateIssue, ReviewIssue, PlanRun, ReviewPlan, ImplementRun,
           PublishRun
      <3>3. /\ \A r, i, pl, publish : ~Fresh(p, r, i, pl, publish)
            /\ \A src, r, i, pl, publish : ~Retry(p, src, r, i, pl, publish)
            /\ \A src, r, stage, pl, publish : ~Resume(p, src, r, stage, pl, publish)
        BY <3>1 DEF Fresh, Retry, Resume
      <3> QED BY <3>2, <3>3 DEF RepairIssue
    <2>3. ~Advance(p) \/ RecordRepair(p) \/ Judge(p)
      BY <2>1 DEF Advance, WriteIssueReview, WritePlan, WritePlanReview, NumberAttempt, Escalate, Materialise, Enter, ReportBlocked,
         ChainReviewIssue, ChainPlan, ChainReviewPlan, ChainImplement, Repair, ChainPublish,
         Execute, RecordResult, ChainReviewImpl, At
    <2>4. Stop(p) \/ Go(p, "judge") \/ Go(p, "publish")
      BY <1>1, <1>3, <2>2, <2>3 DEF RecordRepair, Judge, Crash
    <2> QED BY <2>4, GoFields, StopFields DEF At
  <1> QED BY <1>2, <1>3, <1>4 DEF Moves, Calm, Begins, Ends, Works, At

-----------------------------------------------------------------------------
(* The theorems about plans.                                               *)

LEMMA InitPInv == Init => PInv
  <1> SUFFICES ASSUME Init PROVE PInv
    OBVIOUS
  <1>1. ApprovalIsOfPlan
    BY DEF Init, ApprovalIsOfPlan, EmptyDir
  <1>2. \A p \in Operator : job[p].step = "idle"
    BY DEF Init, Idle
  <1>3. \A p \in Operator : PlanKnown(store, job[p])
    BY <1>2 DEF PlanKnown, PlanToCome
  <1> QED BY <1>1, <1>3 DEF PInv

LEMMA NextPInv ==
  ASSUME AllInv, "plan" \notin Commands \/ PlannedOnce, [Next]_vars
  PROVE  PInv' /\ PlannedOnce
  <1>1. CASE UNCHANGED vars
    BY <1>1 DEF vars, AllInv, PInv, ApprovalIsOfPlan, PlannedOnce
  <1>2. ASSUME NEW p \in Operator, StageCommand(p) \/ RepairIssue(p) \/ Advance(p) \/ Crash(p)
        PROVE  PInv' /\ PlannedOnce
    BY <1>2, StageCommandPInv, StageWritePInv, RepairIssuePInv, SettlePInv, EnterPInv,
       MaterialisePInv, ChainStepPInv, ImplementStepPInv, PublishStepPInv DEF Advance
  <1> QED BY <1>1, <1>2 DEF Next

PlansInv == GateInv /\ HInv /\ CInv /\ PInv

LEMMA InitPlans == Init => PlansInv
  BY InitTInv, InitGInv, InitCurrent, InitCInv, InitPInv DEF GateInv, PlansInv

LEMMA StepPlans ==
  ASSUME PlansInv, [Next /\ DraftFirst]_vars, "plan" \notin Commands \/ PlannedOnce
  PROVE  PlansInv' /\ PlannedOnce
  <1>1. [Next]_vars
    OBVIOUS
  <1>2. GateInv'
    BY StepGateInv DEF PlansInv
  <1>3. HInv' /\ CInv'
    BY <1>1, <1>2, NextCInv DEF PlansInv, GateInv
  <1>4. PInv' /\ PlannedOnce
    BY <1>1, <1>2, NextPInv DEF PlansInv, GateInv, AllInv
  <1> QED BY <1>2, <1>3, <1>4 DEF PlansInv

LEMMA PlanInvariance == SpecPlannedOnce => []PlansInv
  <1>1. PlansInv /\ [Next /\ DraftFirst /\ PlannedOnce]_vars => PlansInv'
    <2> SUFFICES ASSUME PlansInv, [Next /\ DraftFirst /\ PlannedOnce]_vars PROVE PlansInv'
      OBVIOUS
    <2>1. UNCHANGED vars => PlannedOnce
      BY DEF vars, PlannedOnce
    <2> QED BY <2>1, StepPlans
  <1> QED BY InitPlans, <1>1, PTL DEF SpecPlannedOnce

\* Where a plan is written only once, and not into the run of somebody's chain, an approved
\* plan review is about the plan its run has: with any number of operators, chains cut short
\* anywhere, runs resumed from runs still in progress, and reviews run by hand over chains,
\* decided on one plan and written later (write_gated_approved_plan, copy_retry_artifacts).
THEOREM ApprovalsAreOfPlans == SpecPlannedOnce => []ApprovalIsOfPlan
  <1>1. PlansInv => ApprovalIsOfPlan
    BY DEF PlansInv, PInv
  <1> QED BY <1>1, PlanInvariance, PTL

\* And whoever begins to implement, by hand or in a chain, then builds the plan that was
\* reviewed (require_plan_review_for_implement, which looks at the verdict alone).
THEOREM ReviewedPlanIsBuilt == SpecPlannedOnce => BuildsReviewedPlan
  <1> DEFINE A == \A p \in Operator :
                    ~At(p, "repair") /\ At(p, "repair")' =>
                      LET d == store[job'[p].run]
                      IN  d.planReview.verdict = "approved" /\ d.planReview.of = d.plan
  <1>1. PlansInv /\ [Next /\ DraftFirst /\ PlannedOnce]_vars => A
    <2> SUFFICES ASSUME PlansInv, [Next /\ DraftFirst /\ PlannedOnce]_vars PROVE A
      OBVIOUS
    <2>1. [Next]_vars
      OBVIOUS
    <2> QED BY <2>1, BeginsToBuild DEF PlansInv, GateInv, PInv, ApprovalIsOfPlan
  <1>2. BuildsReviewedPlan <=> [][A]_vars
    BY DEF BuildsReviewedPlan
  <1> HIDE DEF A
  <1> QED BY <1>1, <1>2, PlanInvariance, PTL DEF SpecPlannedOnce

\* Only `plan` can break the premise: chains write the plan of a run once, and copies and
\* escalations write it into runs that are theirs alone. (_resume_or_run_repair_chain,
\* _handle_escalation, copy_retry_artifacts)
COROLLARY ChainsPlanOnce ==
  ASSUME "plan" \notin Commands
  PROVE  SpecDraftFirst => SpecPlannedOnce
  <1>1. PlansInv /\ [Next /\ DraftFirst]_vars
          => PlansInv' /\ [Next /\ DraftFirst /\ PlannedOnce]_vars
    BY StepPlans
  <1> QED BY InitPlans, <1>1, PTL DEF SpecDraftFirst, SpecPlannedOnce
=============================================================================
