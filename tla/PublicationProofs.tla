------------------------- MODULE PublicationProofs -------------------------
(***************************************************************************)
(* Proofs about Publication, for any runs, operators, commits and          *)
(* commands: what the records of a run say about the pull request, and how *)
(* many follow-up issues there can be.                                     *)
(***************************************************************************)
EXTENDS Publication, FiniteSetTheorems, TLAPS

Assumptions ==
  /\ Old \notin Run /\ Others \notin Run
  /\ MaxCommits \in Nat /\ MaxCommands \in Nat
  /\ IsFiniteSet(Operator)

Has(h, r) == \E c \in h : c.by = r

\* The review has been told, and the agents read at least the head it names.
Reported(r, rv) == [run |-> r, verdict |-> rv.verdict, head |-> rv.head] \in told
Backed(r, rv)   == rv.head \subseteq rv.seen /\ rv.seen \subseteq branch[BranchOf(r)]

\* Pull request n is one from the branch of run r.
Placed(r, n) == n \in DOMAIN prs /\ prs[n].branch = BranchOf(r)

Objection == {"changes_requested", "blocked"}

\* What the directory of a run says is so.
RunOK(r) ==
  /\ result[r].published \/ review[r].verdict # "none" => plan[r] # "none"
  /\ ~result[r].published => maker[r] = r
  /\ Published(r) => Placed(r, result[r].pr) /\ Has(branch[BranchOf(r)], maker[r])
  /\ review[r].verdict = "approved" => Backed(r, review[r])
  /\ review[r].verdict \in Objection => Reported(r, review[r])

\* A job that publishes has made, then pushed, a commit of its run.
Publishing(j) ==
  /\ j.step \in {"prepare", "push", "open", "update"} => PlansPr(j.run)
  /\ j.step \in {"prepare", "push", "open", "update", "record"} /\ PlansPr(j.run) =>
       maker[j.run] = j.run
  /\ j.step = "push" => Has(tree[j.run], j.run)
  /\ j.step \in {"open", "update", "record"} /\ PlansPr(j.run) =>
       Has(branch[BranchOf(j.run)], j.run)
  /\ j.step = "open" => plan[j.run] = "draft_pr"
  /\ j.step = "update" => plan[j.run] = "update_pr"
  /\ j.step = "record" /\ PlansPr(j.run) => Placed(j.run, j.pr)
  /\ j.step \in {"look", "create", "post"} => ~PlansPr(j.run)

\* A job that reviews knows the pull request; what it has read is on the branch.
Reviewing(j) ==
  /\ j.step \in {"fetch", "check", "diff", "judge"} => Published(j.run)
  /\ j.step \in {"check", "diff"} => j.review.head \subseteq branch[BranchOf(j.run)]
  /\ j.step = "judge" => Backed(j.run, j.review)
  /\ j.step = "tell" => j.review.verdict \in Objection
  /\ j.step = "save" =>
       \/ j.review.verdict = "approved" /\ Backed(j.run, j.review)
       \/ j.review.verdict \in Objection /\ Reported(j.run, j.review)

JobOK(j) ==
  /\ j.step # "idle" => j.run \in Run /\ plan[j.run] # "none"
  /\ Publishing(j)
  /\ Reviewing(j)

IInv ==
  /\ TypeOK
  /\ 1 \in DOMAIN prs /\ prs[1].branch = Old
  /\ \A r \in Run : RunOK(r)
  /\ \A p \in Operator : JobOK(job[p])

\* What no step takes away.
Keeps ==
  /\ \A r \in Run : plan[r] # "none" => plan'[r] = plan[r] /\ maker'[r] = maker[r]
  /\ \A r \in Run : result[r].published => result'[r].published
  /\ \A r \in Run : plan[r] # "none" /\ Has(tree[r], r) => Has(tree'[r], r)
  /\ \A b \in Branch : branch[b] \subseteq branch'[b]
  /\ \A n \in DOMAIN prs : n \in DOMAIN prs' /\ prs'[n].branch = prs[n].branch
  /\ told \subseteq told'

-----------------------------------------------------------------------------
LEMMA AssumptionsHold == Assumptions
BY OldAssumption, OthersAssumption, MaxCommitsAssumption, MaxCommandsAssumption,
   OperatorAssumption DEF Assumptions

\* A history that grows keeps what it has.
LEMMA HasGrows ==
  ASSUME NEW r, NEW h, NEW k, h \subseteq k, Has(h, r)
  PROVE  Has(k, r)
BY DEF Has

\* A job that is left alone stays in order.
LEMMA JobKept ==
  ASSUME Keeps, NEW j, JobOK(j)
  PROVE  JobOK(j)'
<1>1. CASE j.step = "idle"
  BY <1>1 DEF JobOK, Publishing, Reviewing
<1>2. CASE j.step # "idle"
  <2>1. /\ j.run \in Run /\ plan[j.run] # "none"
        /\ plan'[j.run] = plan[j.run] /\ maker'[j.run] = maker[j.run]
        /\ result[j.run].published => result'[j.run].published
    BY <1>2 DEF JobOK, Keeps
  <2>2. /\ PlansPr(j.run)' <=> PlansPr(j.run)
        /\ BranchOf(j.run)' = BranchOf(j.run) /\ BranchOf(j.run) \in Branch
        /\ Published(j.run) => Published(j.run)'
    BY <2>1 DEF PlansPr, BranchOf, Branch, Published
  <2>3. branch[BranchOf(j.run)] \subseteq branch'[BranchOf(j.run)]
    BY <2>2 DEF Keeps
  <2>4. /\ Has(branch[BranchOf(j.run)], j.run) => Has(branch'[BranchOf(j.run)], j.run)
        /\ Has(tree[j.run], j.run) => Has(tree'[j.run], j.run)
    BY <2>1, <2>3, HasGrows DEF Keeps
  <2>5. Placed(j.run, j.pr) => Placed(j.run, j.pr)'
    BY <2>2 DEF Keeps, Placed
  <2>6. Publishing(j)'
    BY <2>1, <2>2, <2>4, <2>5 DEF JobOK, Publishing
  <2>7. /\ Backed(j.run, j.review) => Backed(j.run, j.review)'
        /\ Reported(j.run, j.review) => Reported(j.run, j.review)'
    BY <2>2, <2>3 DEF Keeps, Backed, Reported
  <2>8. Reviewing(j)'
    BY <2>2, <2>3, <2>7 DEF JobOK, Reviewing
  <2> QED BY <2>1, <2>6, <2>8 DEF JobOK
<1> QED BY <1>1, <1>2

\* A run whose records are left alone stays in order.
LEMMA RunKept ==
  ASSUME Keeps, NEW r \in Run, RunOK(r), plan[r] # "none",
         result'[r] = result[r], review'[r] = review[r]
  PROVE  RunOK(r)'
<1>1. plan'[r] = plan[r] /\ maker'[r] = maker[r]
  BY DEF Keeps
<1>2. /\ BranchOf(r)' = BranchOf(r) /\ BranchOf(r) \in Branch
      /\ Published(r)' <=> Published(r)
  BY <1>1 DEF PlansPr, BranchOf, Branch, Published
<1>3. branch[BranchOf(r)] \subseteq branch'[BranchOf(r)]
  BY <1>2 DEF Keeps
<1>4. /\ Has(branch[BranchOf(r)], maker[r]) => Has(branch'[BranchOf(r)], maker[r])
      /\ Placed(r, result[r].pr) => Placed(r, result[r].pr)'
  BY <1>2, <1>3, HasGrows DEF Keeps, Placed
<1>5. /\ Backed(r, review[r]) => Backed(r, review[r])'
      /\ Reported(r, review[r]) => Reported(r, review[r])'
  BY <1>2, <1>3 DEF Keeps, Backed, Reported
<1> QED BY <1>1, <1>2, <1>4, <1>5 DEF RunOK

\* A run that has not been judged has no records, and is in order.
LEMMA RunUnjudged ==
  ASSUME NEW r \in Run, RunOK(r), plan[r] = "none",
         result'[r] = result[r], review'[r] = review[r], maker'[r] = maker[r]
  PROVE  RunOK(r)'
<1>1. /\ ~result[r].published /\ review[r].verdict = "none" /\ maker[r] = r
  BY DEF RunOK
<1> QED BY <1>1 DEF RunOK, Published, Objection

\* All runs, when a step touches no record.
LEMMA RunsKept ==
  ASSUME IInv, Keeps, UNCHANGED <<result, review, maker>>
  PROVE  \A r \in Run : RunOK(r)'
<1> SUFFICES ASSUME NEW r \in Run PROVE RunOK(r)'
  OBVIOUS
<1>1. RunOK(r)
  BY DEF IInv
<1>2. CASE plan[r] # "none"
  BY <1>1, <1>2, RunKept
<1>3. CASE plan[r] = "none"
  BY <1>1, <1>3, RunUnjudged
<1> QED BY <1>2, <1>3

\* All jobs, when a step moves one of them.
LEMMA JobsKept ==
  ASSUME IInv, Keeps, NEW p \in Operator, NEW j, job' = [job EXCEPT ![p] = j], JobOK(j)'
  PROVE  \A q \in Operator : JobOK(job[q])'
<1> SUFFICES ASSUME NEW q \in Operator PROVE JobOK(job[q])'
  OBVIOUS
<1>0. job \in [Operator -> Job]
  BY DEF IInv, TypeOK
<1>1. CASE q = p
  <2>1. job'[q] = j  BY <1>0, <1>1
  <2> QED BY <2>1
<1>2. CASE q # p
  <2>1. job'[q] = job[q]  BY <1>0, <1>2
  <2>2. JobOK(job[q])  BY DEF IInv
  <2> DEFINE k == job[q]
  <2>3. JobOK(k)  BY <2>2
  <2> HIDE DEF k
  <2>4. \A i : JobOK(i) => JobOK(i)'  BY JobKept
  <2> QED BY <2>1, <2>2, <2>4
<1> QED BY <1>1, <1>2

LEMMA JobsUntouched ==
  ASSUME IInv, Keeps, UNCHANGED job
  PROVE  \A q \in Operator : JobOK(job[q])'
<1> SUFFICES ASSUME NEW q \in Operator PROVE JobOK(job[q])'
  OBVIOUS
<1> DEFINE k == job[q]
<1>1. JobOK(k)  BY DEF IInv
<1>2. job'[q] = k  OBVIOUS
<1>3. \A i : JobOK(i) => JobOK(i)'  BY JobKept
<1> HIDE DEF k
<1> QED BY <1>1, <1>2, <1>3 DEF k

\* A step that keeps what there was and whose own runs and job are in order is in order.
LEMMA Preserved ==
  ASSUME IInv, Keeps, TypeOK', \A r \in Run : RunOK(r)', \A q \in Operator : JobOK(job[q])'
  PROVE  IInv'
<1>1. (1 \in DOMAIN prs /\ prs[1].branch = Old)'
  BY DEF IInv, Keeps
<1> QED BY <1>1 DEF IInv

-----------------------------------------------------------------------------
(* What a job becomes.                                                     *)

Step == {"idle", "prepare", "push", "open", "update", "look", "create", "post", "record",
         "fetch", "check", "diff", "judge", "tell", "save"}

LEMMA IdleType == Idle \in Job /\ Idle.step = "idle"
BY DEF Idle, Job, NoReview, Review, Verdict, History

LEMMA IdleOK == JobOK(Idle)'
BY DEF Idle, JobOK, Publishing, Reviewing

LEMMA JobType ==
  ASSUME TypeOK, NEW p \in Operator, NEW j \in Job, job' = [job EXCEPT ![p] = j]
  PROVE  job' \in [Operator -> Job]
BY DEF TypeOK

\* The ways in which the actions write down what a job becomes.
SetsPr(p, s, n)      == job' = [job EXCEPT ![p].step = s, ![p].pr = n]
SetsVerdict(p, s, v) == job' = [job EXCEPT ![p].step = s, ![p].review.verdict = v]
SetsHead(p, s, h)    == job' = [job EXCEPT ![p].step = s, ![p].review.head = h]
SetsSeen(p, s, h)    == job' = [job EXCEPT ![p].step = s, ![p].review.seen = h]

LEMMA StepTo ==
  ASSUME job \in [Operator -> Job], NEW p \in Operator, NEW s \in Step,
         Go(p, s)
  PROVE  \E k \in Job :
           /\ job' = [job EXCEPT ![p] = k]
           /\ k.step = s /\ k.run = job[p].run /\ k.pr = job[p].pr /\ k.review = job[p].review
<1> DEFINE k == [job[p] EXCEPT !.step = s]
<1>1. k \in Job  BY DEF Job, Step
<1>2. k.step = s /\ k.run = job[p].run /\ k.pr = job[p].pr /\ k.review = job[p].review
  BY DEF Job
<1>3. job' = [job EXCEPT ![p] = k]  BY DEF Go
<1> QED BY <1>1, <1>2, <1>3

LEMMA StepWithPr ==
  ASSUME job \in [Operator -> Job], NEW p \in Operator, NEW s \in Step, NEW n \in Nat,
         SetsPr(p, s, n)
  PROVE  \E k \in Job :
           /\ job' = [job EXCEPT ![p] = k]
           /\ k.step = s /\ k.run = job[p].run /\ k.pr = n
<1> DEFINE k == [job[p] EXCEPT !.step = s, !.pr = n]
<1>1. k \in Job  BY DEF Job, Step
<1>2. k.step = s /\ k.run = job[p].run /\ k.pr = n  BY DEF Job
<1>3. job' = [job EXCEPT ![p] = k]  BY DEF SetsPr
<1> QED BY <1>1, <1>2, <1>3

LEMMA StepWithVerdict ==
  ASSUME job \in [Operator -> Job], NEW p \in Operator, NEW s \in Step, NEW v \in Verdict,
         SetsVerdict(p, s, v)
  PROVE  \E k \in Job :
           /\ job' = [job EXCEPT ![p] = k]
           /\ k.step = s /\ k.run = job[p].run
           /\ k.review.verdict = v
           /\ k.review.head = job[p].review.head /\ k.review.seen = job[p].review.seen
<1> DEFINE rv == [job[p].review EXCEPT !.verdict = v]
           k  == [job[p] EXCEPT !.step = s, !.review = rv]
<1>1. rv \in Review /\ rv.verdict = v /\ rv.head = job[p].review.head
        /\ rv.seen = job[p].review.seen
  BY DEF Job, Review
<1>2. job' = [job EXCEPT ![p] = k]
  BY DEF Job, SetsVerdict
<1> HIDE DEF rv
<1>3. k \in Job  BY <1>1 DEF Job, Step
<1>4. k.step = s /\ k.run = job[p].run /\ k.review = rv  BY DEF Job
<1> QED BY <1>1, <1>2, <1>3, <1>4

LEMMA StepWithHead ==
  ASSUME job \in [Operator -> Job], NEW p \in Operator, NEW s \in Step, NEW h \in History,
         SetsHead(p, s, h)
  PROVE  \E k \in Job :
           /\ job' = [job EXCEPT ![p] = k]
           /\ k.step = s /\ k.run = job[p].run
           /\ k.review.head = h
<1> DEFINE rv == [job[p].review EXCEPT !.head = h]
           k  == [job[p] EXCEPT !.step = s, !.review = rv]
<1>1. rv \in Review /\ rv.head = h
  BY DEF Job, Review
<1>2. job' = [job EXCEPT ![p] = k]
  BY DEF Job, SetsHead
<1> HIDE DEF rv
<1>3. k \in Job  BY <1>1 DEF Job, Step
<1>4. k.step = s /\ k.run = job[p].run /\ k.review = rv  BY DEF Job
<1> QED BY <1>1, <1>2, <1>3, <1>4

LEMMA StepWithSeen ==
  ASSUME job \in [Operator -> Job], NEW p \in Operator, NEW s \in Step, NEW h \in History,
         SetsSeen(p, s, h)
  PROVE  \E k \in Job :
           /\ job' = [job EXCEPT ![p] = k]
           /\ k.step = s /\ k.run = job[p].run
           /\ k.review.seen = h /\ k.review.head = job[p].review.head
<1> DEFINE rv == [job[p].review EXCEPT !.seen = h]
           k  == [job[p] EXCEPT !.step = s, !.review = rv]
<1>1. rv \in Review /\ rv.seen = h /\ rv.head = job[p].review.head
  BY DEF Job, Review
<1>2. job' = [job EXCEPT ![p] = k]
  BY DEF Job, SetsSeen
<1> HIDE DEF rv
<1>3. k \in Job  BY <1>1 DEF Job, Step
<1>4. k.step = s /\ k.run = job[p].run /\ k.review = rv  BY DEF Job
<1> QED BY <1>1, <1>2, <1>3, <1>4

-----------------------------------------------------------------------------
(* Steps that only move a job.                                             *)

LEMMA NothingLost ==
  ASSUME UNCHANGED <<stored, github>>
  PROVE  Keeps
BY DEF stored, github, Keeps

LEMMA JobOnly ==
  ASSUME IInv, NEW p \in Operator, NEW k \in Job, job' = [job EXCEPT ![p] = k], JobOK(k)',
         UNCHANGED <<stored, github>>, UNCHANGED commits, issued' \in 0..MaxCommands
  PROVE  IInv'
<1>1. Keeps  BY NothingLost
<1>2. \A r \in Run : RunOK(r)'  BY <1>1, RunsKept DEF stored
<1>3. \A q \in Operator : JobOK(job[q])'  BY <1>1, JobsKept
<1>4. TypeOK'
  <2>1. job' \in [Operator -> Job]  BY JobType DEF IInv
  <2> QED BY <2>1 DEF IInv, TypeOK, stored, github, PlansPr
<1> QED BY <1>1, <1>2, <1>3, <1>4, Preserved

\* A job that only reads keeps what it was entitled to.
LEMMA SameEntitlement ==
  ASSUME UNCHANGED <<stored, github>>, NEW k, JobOK(k)
  PROVE  JobOK(k)'
BY NothingLost, JobKept

LEMMA JobFacts ==
  ASSUME IInv, NEW p \in Operator
  PROVE  /\ job \in [Operator -> Job] /\ job[p] \in Job /\ JobOK(job[p])
         /\ job[p].step # "idle" => job[p].run \in Run /\ plan[job[p].run] # "none"
         /\ issued \in 0..MaxCommands
BY DEF IInv, TypeOK, JobOK

\* The head of a run's pull request is that of its branch.
LEMMA PublishedHead ==
  ASSUME IInv, NEW r \in Run, Published(r)
  PROVE  /\ HeadOf(result[r].pr) = branch[BranchOf(r)]
         /\ HeadOf(result[r].pr) \in History
<1>1. RunOK(r)  BY DEF IInv
<1>2. BranchOf(r) \in Branch  BY DEF BranchOf, Branch
<1> QED BY <1>1, <1>2 DEF RunOK, Placed, HeadOf, IInv, TypeOK

LEMMA BlockStep ==
  ASSUME IInv, NEW p \in Operator, job[p].step # "idle", Block(p),
         UNCHANGED <<stored, github, commits, issued>>
  PROVE  IInv'
<1>0. SetsVerdict(p, "tell", "blocked") /\ "tell" \in Step /\ "blocked" \in Verdict
  BY DEF Block, SetsVerdict, Step, Verdict
<1>1. PICK k \in Job : /\ job' = [job EXCEPT ![p] = k]
                       /\ k.step = "tell" /\ k.run = job[p].run
                       /\ k.review.verdict = "blocked"
  BY <1>0, JobFacts, StepWithVerdict
<1>2. JobOK(k)
  BY <1>1, JobFacts DEF JobOK, Publishing, Reviewing, Objection
<1> QED BY <1>1, <1>2, SameEntitlement, JobOnly, JobFacts

LEMMA FetchStep ==
  ASSUME IInv, NEW p \in Operator, Fetch(p)
  PROVE  IInv'
<1> DEFINE r == job[p].run
<1>0. r \in Run /\ plan[r] # "none" /\ Published(r)
  BY JobFacts DEF Fetch, At, JobOK, Reviewing
<1>1. CASE Block(p)
  BY <1>1, BlockStep DEF Fetch, At
<1>2. CASE SetsHead(p, "check", HeadOf(result[r].pr))
  <2>0. "check" \in Step  BY DEF Step
  <2>1. HeadOf(result[r].pr) \in History /\ HeadOf(result[r].pr) = branch[BranchOf(r)]
    BY <1>0, PublishedHead
  <2>2. PICK k \in Job : /\ job' = [job EXCEPT ![p] = k]
                         /\ k.step = "check" /\ k.run = r /\ k.review.head = branch[BranchOf(r)]
    BY <1>2, <2>0, <2>1, JobFacts, StepWithHead
  <2>3. JobOK(k)
    BY <1>0, <2>2 DEF JobOK, Publishing, Reviewing
  <2> QED BY <2>2, <2>3, SameEntitlement, JobOnly, JobFacts DEF Fetch
<1> QED BY <1>1, <1>2 DEF Fetch, SetsHead

LEMMA CheckStep ==
  ASSUME IInv, NEW p \in Operator, Check(p)
  PROVE  IInv'
<1>1. CASE Block(p)
  BY <1>1, BlockStep DEF Check, At
<1>2. CASE Go(p, "diff")
  <2>0. "diff" \in Step  BY DEF Step
  <2>1. PICK k \in Job : /\ job' = [job EXCEPT ![p] = k]
                         /\ k.step = "diff" /\ k.run = job[p].run /\ k.review = job[p].review
    BY <1>2, <2>0, JobFacts, StepTo
  <2>2. JobOK(k)
    BY <2>1, JobFacts DEF Check, At, JobOK, Publishing, Reviewing
  <2> QED BY <2>1, <2>2, SameEntitlement, JobOnly, JobFacts DEF Check
<1> QED BY <1>1, <1>2 DEF Check

LEMMA DiffStep ==
  ASSUME IInv, NEW p \in Operator, Diff(p)
  PROVE  IInv'
<1> DEFINE r == job[p].run
<1>0. /\ r \in Run /\ plan[r] # "none" /\ Published(r)
      /\ job[p].review.head \subseteq branch[BranchOf(r)]
  BY JobFacts DEF Diff, At, JobOK, Reviewing
<1>1. CASE Block(p)
  BY <1>1, BlockStep DEF Diff, At
<1>2. CASE SetsSeen(p, "judge", HeadOf(result[r].pr))
  <2>0. "judge" \in Step  BY DEF Step
  <2>1. HeadOf(result[r].pr) \in History /\ HeadOf(result[r].pr) = branch[BranchOf(r)]
    BY <1>0, PublishedHead
  <2>2. PICK k \in Job : /\ job' = [job EXCEPT ![p] = k]
                         /\ k.step = "judge" /\ k.run = r
                         /\ k.review.seen = branch[BranchOf(r)]
                         /\ k.review.head = job[p].review.head
    BY <1>2, <2>0, <2>1, JobFacts, StepWithSeen
  <2>3. Backed(r, k.review)
    BY <1>0, <2>2 DEF Backed
  <2>4. JobOK(k)
    BY <1>0, <2>2, <2>3 DEF JobOK, Publishing, Reviewing
  <2> QED BY <2>2, <2>4, SameEntitlement, JobOnly, JobFacts DEF Diff
<1> QED BY <1>1, <1>2 DEF Diff, SetsSeen

LEMMA JudgeStep ==
  ASSUME IInv, NEW p \in Operator, Judge(p)
  PROVE  IInv'
<1> DEFINE r == job[p].run
<1>0. r \in Run /\ plan[r] # "none" /\ Backed(r, job[p].review)
  BY JobFacts DEF Judge, At, JobOK, Reviewing
<1>1. PICK v \in Verdict \ {"none"} :
        SetsVerdict(p, IF v = "approved" THEN "save" ELSE "tell", v)
  BY DEF Judge, SetsVerdict
<1> DEFINE s == IF v = "approved" THEN "save" ELSE "tell"
<1>2. s \in Step  BY DEF Step
<1>3. PICK k \in Job : /\ job' = [job EXCEPT ![p] = k]
                       /\ k.step = s /\ k.run = r /\ k.review.verdict = v
                       /\ k.review.head = job[p].review.head
                       /\ k.review.seen = job[p].review.seen
  <2> HIDE DEF s
  <2>1. SetsVerdict(p, s, v)  BY <1>1 DEF s
  <2> QED BY <2>1, <1>2, JobFacts, StepWithVerdict
<1>4. Backed(r, k.review)
  BY <1>0, <1>3 DEF Backed
<1>5. JobOK(k)
  BY <1>0, <1>3, <1>4 DEF JobOK, Publishing, Reviewing, Verdict, Objection
<1> QED BY <1>3, <1>5, SameEntitlement, JobOnly, JobFacts DEF Judge

LEMMA LookStep ==
  ASSUME IInv, NEW p \in Operator, Look(p)
  PROVE  IInv'
<1> DEFINE s == IF followUps > 0 THEN "record" ELSE "create"
<1>1. s \in Step  BY DEF Step
<1>2. PICK k \in Job : job' = [job EXCEPT ![p] = k] /\ k.step = s /\ k.run = job[p].run
  <2>1. Go(p, s)  BY DEF Look
  <2> HIDE DEF s
  <2> QED BY <2>1, <1>1, JobFacts, StepTo
<1>3. JobOK(k)
  BY <1>2, JobFacts DEF Look, At, JobOK, Publishing, Reviewing
<1> QED BY <1>2, <1>3, SameEntitlement, JobOnly, JobFacts DEF Look

LEMMA PostStep ==
  ASSUME IInv, NEW p \in Operator, Post(p)
  PROVE  IInv'
<1>1. PICK k \in Job : job' = [job EXCEPT ![p] = k] /\ k.step = "record" /\ k.run = job[p].run
  <2>1. Go(p, "record") /\ "record" \in Step  BY DEF Post, Step
  <2> QED BY <2>1, JobFacts, StepTo
<1>2. JobOK(k)
  BY <1>1, JobFacts DEF Post, At, JobOK, Publishing, Reviewing
<1> QED BY <1>1, <1>2, SameEntitlement, JobOnly, JobFacts DEF Post

LEMMA CrashStep ==
  ASSUME IInv, NEW p \in Operator, Crash(p)
  PROVE  IInv'
BY IdleType, IdleOK, JobOnly, JobFacts DEF Crash, Stop

-----------------------------------------------------------------------------
(* Commands.                                                               *)

LEMMA NewJob ==
  ASSUME NEW r \in Run, NEW s \in Step
  PROVE  LET k == [Idle EXCEPT !.run = r, !.step = s]
         IN  k \in Job /\ k.step = s /\ k.run = r
BY IdleType DEF Job, Step

LEMMA PublishRunStep ==
  ASSUME Assumptions, IInv, NEW p \in Operator, NEW r \in Run, PublishRun(p, r)
  PROVE  IInv'
<1> DEFINE s == IF Published(r) THEN "fetch" ELSE IF PlansPr(r) THEN "prepare"
                ELSE IF plan[r] = "issue" THEN "look" ELSE "post"
           k == [Idle EXCEPT !.run = r, !.step = s]
<1>1. s \in Step  BY DEF Step
<1>2. k \in Job /\ k.step = s /\ k.run = r
  <2> HIDE DEF s
  <2> QED BY <1>1, NewJob
<1>3. /\ plan[r] # "none" /\ issued' \in 0..MaxCommands
      /\ job' = [job EXCEPT ![p] = k] /\ UNCHANGED <<stored, github, commits>>
  BY JobFacts DEF PublishRun, Issue, Assumptions
<1>4. ~Published(r) /\ PlansPr(r) => maker[r] = r
  BY DEF IInv, RunOK, Published
<1> HIDE DEF k
<1>5. JobOK(k)
  BY <1>2, <1>3, <1>4 DEF JobOK, Publishing, Reviewing
<1> QED BY <1>2, <1>3, <1>5, SameEntitlement, JobOnly

LEMMA ReviewImplStep ==
  ASSUME Assumptions, IInv, NEW p \in Operator, NEW r \in Run, ReviewImpl(p, r)
  PROVE  IInv'
<1> DEFINE s  == IF PlansPr(r) THEN "fetch" ELSE "tell"
           rv == IF PlansPr(r) THEN NoReview ELSE [NoReview EXCEPT !.verdict = "blocked"]
           k  == [Idle EXCEPT !.run = r, !.step = s, !.review = rv]
<1>1. s \in Step  BY DEF Step
<1>2. rv \in Review /\ (~PlansPr(r) => rv.verdict = "blocked")
  BY DEF NoReview, Review, Verdict, History
<1>3. /\ plan[r] # "none" /\ issued' \in 0..MaxCommands
      /\ job' = [job EXCEPT ![p] = k] /\ UNCHANGED <<stored, github, commits>>
  BY JobFacts DEF ReviewImpl, Issue, Assumptions, IInv, RunOK
<1>4. k \in Job /\ k.step = s /\ k.run = r /\ k.review = rv
  <2> HIDE DEF s, rv
  <2> QED BY <1>1, <1>2, IdleType DEF Job, Step
<1> HIDE DEF k
<1>5. JobOK(k)
  BY <1>2, <1>3, <1>4 DEF ReviewImpl, JobOK, Publishing, Reviewing, Published, Objection
<1> QED BY <1>3, <1>4, <1>5, SameEntitlement, JobOnly

\* The run that resumes a review takes over a publication that is in order.
LEMMA ResumeReviewStep ==
  ASSUME Assumptions, IInv, NEW p \in Operator, NEW r \in Run, NEW t \in Run,
         ResumeReview(p, r, t)
  PROVE  IInv'
<1> DEFINE k == [Idle EXCEPT !.run = r, !.step = "fetch"]
<1>0. /\ plan[r] = "none" /\ Published(t) /\ plan[t] = "update_pr" /\ RunOK(r) /\ RunOK(t)
      /\ plan \in [Run -> Plan] /\ result \in [Run -> [published : BOOLEAN, pr : Nat]]
      /\ maker \in [Run -> Run]
  BY DEF ResumeReview, IInv, TypeOK
<1>1. /\ plan' = [plan EXCEPT ![r] = "update_pr"]
      /\ result' = [result EXCEPT ![r] = result[t]]
      /\ maker' = [maker EXCEPT ![r] = maker[t]]
      /\ UNCHANGED <<repo, tree, review, github, commits>>
      /\ job' = [job EXCEPT ![p] = k] /\ issued' \in 0..MaxCommands
  BY JobFacts DEF ResumeReview, Issue, Assumptions
<1>2. k \in Job /\ k.step = "fetch" /\ k.run = r
  BY NewJob DEF Step
<1>3. /\ plan'[r] = "update_pr" /\ result'[r] = result[t] /\ maker'[r] = maker[t]
      /\ \A q \in Run : q # r =>
           plan'[q] = plan[q] /\ result'[q] = result[q] /\ maker'[q] = maker[q]
  BY <1>0, <1>1
<1>4. ~result[r].published /\ review[r].verdict = "none" /\ result[t].published
  BY <1>0 DEF RunOK, Published
<1>5. Keeps
  BY <1>0, <1>1, <1>3, <1>4 DEF Keeps, github
<1>6. \A q \in Run : RunOK(q)'
  <2> SUFFICES ASSUME NEW q \in Run PROVE RunOK(q)'
    OBVIOUS
  <2>1. CASE q = r
    <3>1. Published(r)' /\ BranchOf(r)' = Old /\ BranchOf(t) = Old
      BY <1>0, <1>3, <1>4 DEF Published, PlansPr, BranchOf
    <3>2. Placed(t, result[t].pr) /\ Has(branch[Old], maker[t])
      BY <1>0, <3>1 DEF RunOK
    <3>3. Placed(r, result[r].pr)' /\ Has(branch[BranchOf(r)], maker[r])'
      BY <1>1, <1>3, <3>1, <3>2 DEF Placed, Has, github
    <3> QED BY <1>1, <1>3, <1>4, <2>1, <3>1, <3>3 DEF RunOK, Published, Objection
  <2>2. CASE q # r
    <3>1. RunOK(q)  BY DEF IInv
    <3>2. CASE plan[q] # "none"
      BY <1>1, <1>3, <1>5, <2>2, <3>1, <3>2, RunKept
    <3>3. CASE plan[q] = "none"
      BY <1>1, <1>3, <2>2, <3>1, <3>3, RunUnjudged
    <3> QED BY <3>2, <3>3
  <2> QED BY <2>1, <2>2
<1>7. JobOK(k)'
  <2> HIDE DEF k
  <2>1. Published(r)'  BY <1>3, <1>4 DEF Published, PlansPr
  <2> QED BY <1>2, <1>3, <2>1 DEF JobOK, Publishing, Reviewing
<1>8. \A q \in Operator : JobOK(job[q])'
  <2> HIDE DEF k
  <2> QED BY <1>1, <1>5, <1>7, JobsKept
<1>9. TypeOK'
  <2>1. job' \in [Operator -> Job]
    <3> HIDE DEF k
    <3> QED BY <1>1, <1>2, JobType DEF IInv
  <2>2. \A q \in Run : (result[q].published /\ PlansPr(q) => result[q].pr \in DOMAIN prs)'
    BY <1>6 DEF RunOK, Published, Placed
  <2>3. /\ plan' \in [Run -> Plan] /\ result' \in [Run -> [published : BOOLEAN, pr : Nat]]
        /\ maker' \in [Run -> Run]
    BY <1>0, <1>1 DEF Plan
  <2> QED BY <1>1, <2>1, <2>2, <2>3 DEF IInv, TypeOK, github
<1> QED BY <1>5, <1>6, <1>8, <1>9, Preserved

-----------------------------------------------------------------------------
(* Runs that arrive, and people who push.                                  *)

LEMMA ArriveStep ==
  ASSUME IInv, NEW r \in Run, Arrive(r)
  PROVE  IInv'
<1>0. plan[r] = "none" /\ RunOK(r) /\ plan \in [Run -> Plan] /\ repo \in [Run -> History]
  BY DEF Arrive, IInv, TypeOK
<1>1. PICK k \in Plan \ {"none"} :
        /\ plan' = [plan EXCEPT ![r] = k]
        /\ \E h \in {{}} \union (IF k = "update_pr" THEN {branch[Old]} ELSE {}) :
             repo' = [repo EXCEPT ![r] = h]
  BY DEF Arrive
<1>2. UNCHANGED <<tree, result, review, maker, github, job, commits, issued>>
  BY DEF Arrive
<1>3. Keeps
  BY <1>0, <1>1, <1>2 DEF Keeps, github
<1>4. \A q \in Run : RunOK(q)'
  <2> SUFFICES ASSUME NEW q \in Run PROVE RunOK(q)'
    OBVIOUS
  <2>1. RunOK(q)  BY DEF IInv
  <2>2. CASE plan[q] # "none"
    BY <1>2, <1>3, <2>1, <2>2, RunKept
  <2>3. CASE plan[q] = "none"
    BY <1>2, <2>1, <2>3, RunUnjudged
  <2> QED BY <2>2, <2>3
<1>5. \A q \in Operator : JobOK(job[q])'
  BY <1>2, <1>3, JobsUntouched
<1>6. TypeOK'
  <2>1. /\ plan' \in [Run -> Plan] /\ repo' \in [Run -> History]
    <3>1. branch[Old] \in History  BY DEF IInv, TypeOK, Branch
    <3> QED BY <1>0, <1>1, <3>1 DEF History
  <2>2. \A q \in Run : (result[q].published /\ PlansPr(q) => result[q].pr \in DOMAIN prs)'
    BY <1>4 DEF RunOK, Published, Placed
  <2> QED BY <1>2, <2>1, <2>2 DEF IInv, TypeOK, github
<1> QED BY <1>3, <1>4, <1>5, <1>6, Preserved

LEMMA PushByOthersStep ==
  ASSUME Assumptions, IInv, NEW b \in Branch, PushByOthers(b)
  PROVE  IInv'
<1> DEFINE c == [by |-> Others, n |-> commits + 1]
<1>0. c \in Commit /\ commits' \in 0..MaxCommits
  BY DEF PushByOthers, Assumptions, IInv, TypeOK, Commit
<1>1. /\ branch' = [branch EXCEPT ![b] = branch[b] \union {c}]
      /\ UNCHANGED <<stored, prs, followUps, told, job, issued>>
  BY DEF PushByOthers
<1> HIDE DEF c
<1>2. branch \in [Branch -> History]
  BY DEF IInv, TypeOK
<1>3. branch' \in [Branch -> History] /\ \A e \in Branch : branch[e] \subseteq branch'[e]
  BY <1>0, <1>1, <1>2 DEF History
<1>4. Keeps
  BY <1>1, <1>3 DEF Keeps, stored
<1>5. \A r \in Run : RunOK(r)'
  BY <1>1, <1>4, RunsKept DEF stored
<1>6. \A q \in Operator : JobOK(job[q])'
  BY <1>1, <1>4, JobsUntouched
<1>7. TypeOK'
  BY <1>0, <1>1, <1>3 DEF IInv, TypeOK, stored, PlansPr
<1> QED BY <1>4, <1>5, <1>6, <1>7, Preserved

-----------------------------------------------------------------------------
(* Publishing.                                                             *)

LEMMA PrepareStep ==
  ASSUME Assumptions, IInv, NEW p \in Operator, Prepare(p)
  PROVE  IInv'
<1> PICK r : r = job[p].run
  OBVIOUS
<1> DEFINE c == [by |-> r, n |-> commits + 1]
<1>0. /\ r \in Run /\ plan[r] # "none" /\ PlansPr(r) /\ maker[r] = r
      /\ JobOK(job[p]) /\ job[p].step = "prepare"
  BY JobFacts DEF Prepare, At, JobOK, Publishing
<1>1. /\ tree' = [tree EXCEPT ![r] = repo[r] \union {c}]
      /\ UNCHANGED <<plan, repo, result, review, maker, github, issued>>
      /\ Go(p, "push")
  BY DEF Prepare
<1>2. c \in Commit /\ c.by = r /\ commits' \in 0..MaxCommits
  BY <1>0 DEF Prepare, Assumptions, IInv, TypeOK, Commit
<1> HIDE DEF c
<1>3. tree' \in [Run -> History] /\ Has(tree'[r], r) /\ \A q \in Run : q # r => tree'[q] = tree[q]
  BY <1>0, <1>1, <1>2 DEF IInv, TypeOK, History, Has
<1>4. Keeps
  BY <1>1, <1>3 DEF Keeps, github
<1>5. \A q \in Run : RunOK(q)'
  BY <1>1, <1>4, RunsKept
<1>6. PICK k \in Job : job' = [job EXCEPT ![p] = k] /\ k.step = "push" /\ k.run = r
  <2>1. "push" \in Step  BY DEF Step
  <2> QED BY <1>1, <2>1, JobFacts, StepTo
<1>7. JobOK(k)'
  <2>1. PlansPr(r)'  BY <1>0, <1>1 DEF PlansPr
  <2> QED BY <1>0, <1>1, <1>3, <1>6, <2>1 DEF JobOK, Publishing, Reviewing
<1>8. \A q \in Operator : JobOK(job[q])'
  BY <1>4, <1>6, <1>7, JobsKept
<1>9. TypeOK'
  <2>1. job' \in [Operator -> Job]  BY <1>6, JobType DEF IInv
  <2> QED BY <1>1, <1>2, <1>3, <2>1 DEF IInv, TypeOK, github, PlansPr
<1> QED BY <1>4, <1>5, <1>8, <1>9, Preserved

\* The heart of PublishedIsPushed: without force, a push only adds.
LEMMA PushStep ==
  ASSUME IInv, NEW p \in Operator, Push(p)
  PROVE  IInv'
<1> PICK r : r = job[p].run
  OBVIOUS
<1> DEFINE b == BranchOf(r)
<1>0. /\ r \in Run /\ plan[r] # "none" /\ PlansPr(r) /\ maker[r] = r /\ Has(tree[r], r)
      /\ b \in Branch
  BY JobFacts DEF Push, At, JobOK, Publishing, BranchOf, Branch
<1>1. UNCHANGED <<stored, prs, followUps, told, commits, issued>>
  BY DEF Push
<1>2. CASE branch[b] \subseteq tree[r]
  <2> DEFINE s == IF plan[r] = "update_pr" THEN "update" ELSE "open"
  <2>1. branch' = [branch EXCEPT ![b] = tree[r]] /\ Go(p, s)
    BY <1>2 DEF Push
  <2>2. s \in Step  BY DEF Step
  <2>3. /\ branch' \in [Branch -> History] /\ branch'[b] = tree[r]
        /\ \A e \in Branch : branch[e] \subseteq branch'[e]
    <3> HIDE DEF b
    <3> QED BY <1>0, <1>2, <2>1 DEF IInv, TypeOK
  <2>4. Keeps
    BY <1>1, <2>3 DEF Keeps, stored
  <2>5. PICK k \in Job : job' = [job EXCEPT ![p] = k] /\ k.step = s /\ k.run = r
    <3> HIDE DEF s
    <3> QED BY <2>1, <2>2, JobFacts, StepTo
  <2>6. JobOK(k)'
    <3>1. PlansPr(r)' /\ BranchOf(r)' = b /\ plan' = plan /\ maker' = maker
      BY <1>0, <1>1 DEF PlansPr, BranchOf, stored
    <3>2. Has(branch'[b], r)
      BY <1>0, <2>3
    <3> QED BY <1>0, <2>5, <3>1, <3>2 DEF JobOK, Publishing, Reviewing, PlansPr
  <2>7. \A q \in Operator : JobOK(job[q])'
    BY <2>4, <2>5, <2>6, JobsKept
  <2>8. \A q \in Run : RunOK(q)'
    BY <1>1, <2>4, RunsKept DEF stored
  <2>9. TypeOK'
    <3>1. job' \in [Operator -> Job]  BY <2>5, JobType DEF IInv
    <3> QED BY <1>1, <2>3, <3>1 DEF IInv, TypeOK, stored, PlansPr
  <2> QED BY <2>4, <2>7, <2>8, <2>9, Preserved
<1>3. CASE ~(branch[b] \subseteq tree[r])
  <2>1. Stop(p) /\ UNCHANGED <<stored, github>>
    BY <1>1, <1>3 DEF Push, github
  <2> QED BY <1>1, <2>1, IdleType, IdleOK, JobOnly, JobFacts DEF Stop
<1> QED BY <1>2, <1>3

\* Steps that touch the pull requests of GitHub, and no branch.
LEMMA PrStep ==
  ASSUME IInv, NEW p \in Operator, NEW n \in DOMAIN prs',
         job[p].step \in {"open", "update"}, SetsPr(p, "record", n),
         prs' \in Seq(PullRequest), prs'[n].branch = BranchOf(job[p].run),
         \A m \in DOMAIN prs : m \in DOMAIN prs' /\ prs'[m].branch = prs[m].branch,
         UNCHANGED <<stored, branch, followUps, told, commits, issued>>
  PROVE  IInv'
<1> PICK r : r = job[p].run
  OBVIOUS
<1>0. /\ r \in Run /\ plan[r] # "none" /\ PlansPr(r) /\ maker[r] = r
      /\ Has(branch[BranchOf(r)], r)
  BY JobFacts DEF JobOK, Publishing
<1>1. Keeps
  BY DEF Keeps, stored
<1>2. PICK k \in Job : job' = [job EXCEPT ![p] = k] /\ k.step = "record" /\ k.run = r /\ k.pr = n
  <2>1. "record" \in Step /\ n \in Nat  BY DEF Step
  <2> QED BY <2>1, JobFacts, StepWithPr
<1>3. JobOK(k)'
  <2>1. PlansPr(r)' /\ BranchOf(r)' = BranchOf(r) /\ plan' = plan /\ maker' = maker
    BY <1>0 DEF PlansPr, BranchOf, stored
  <2>2. Placed(r, n)'
    BY <2>1 DEF Placed
  <2> QED BY <1>0, <1>2, <2>1, <2>2 DEF JobOK, Publishing, Reviewing
<1>4. \A q \in Operator : JobOK(job[q])'
  BY <1>1, <1>2, <1>3, JobsKept
<1>5. \A q \in Run : RunOK(q)'
  BY <1>1, RunsKept DEF stored
<1>6. TypeOK'
  <2>1. job' \in [Operator -> Job]  BY <1>2, JobType DEF IInv
  <2> QED BY <2>1 DEF IInv, TypeOK, stored, PlansPr
<1> QED BY <1>1, <1>4, <1>5, <1>6, Preserved

LEMMA OpenStep ==
  ASSUME IInv, NEW p \in Operator, Open(p)
  PROVE  IInv'
<1> PICK r : r = job[p].run
  OBVIOUS
<1> DEFINE opened == \E n \in DOMAIN prs : prs[n].branch = r
<1>0. /\ r \in Run /\ plan[r] = "draft_pr" /\ BranchOf(r) = r /\ prs \in Seq(PullRequest)
  BY JobFacts DEF Open, At, JobOK, Publishing, BranchOf, IInv, TypeOK
<1>1. CASE opened
  <2>1. Stop(p) /\ UNCHANGED <<stored, github, commits, issued>>
    BY <1>1 DEF Open, github
  <2> QED BY <2>1, IdleType, IdleOK, JobOnly, JobFacts DEF Stop
<1>2. CASE ~opened
  <2> DEFINE new == [branch |-> r, body |-> r]
             n   == Len(prs) + 1
  <2>1. /\ prs' = Append(prs, new) /\ SetsPr(p, "record", n)
        /\ UNCHANGED <<stored, branch, followUps, told, commits, issued>>
    BY <1>2 DEF Open, SetsPr
  <2>2. new \in PullRequest /\ new.branch = r
    BY <1>0 DEF PullRequest, Branch
  <2> HIDE DEF new
  <2>3. /\ prs' \in Seq(PullRequest) /\ n \in DOMAIN prs' /\ prs'[n] = new
        /\ \A m \in DOMAIN prs : m \in DOMAIN prs' /\ prs'[m] = prs[m]
    BY <1>0, <2>1, <2>2
  <2> HIDE DEF n
  <2> QED BY <1>0, <2>1, <2>2, <2>3, PrStep DEF Open, At
<1> QED BY <1>1, <1>2

LEMMA UpdateStep ==
  ASSUME IInv, NEW p \in Operator, Update(p)
  PROVE  IInv'
<1> PICK r : r = job[p].run
  OBVIOUS
<1>0. /\ r \in Run /\ plan[r] = "update_pr" /\ BranchOf(r) = Old /\ prs \in Seq(PullRequest)
      /\ 1 \in DOMAIN prs /\ prs[1].branch = Old
  BY JobFacts DEF Update, At, JobOK, Publishing, BranchOf, IInv, TypeOK
<1> DEFINE new == [prs[1] EXCEPT !.body = r]
<1>1. /\ prs' = [prs EXCEPT ![1] = new] /\ SetsPr(p, "record", 1)
      /\ UNCHANGED <<stored, branch, followUps, told, commits, issued>>
  BY DEF Update, SetsPr
<1>2. new \in PullRequest /\ new.branch = Old
  <2>1. prs[1] \in PullRequest  BY <1>0
  <2> QED BY <1>0, <2>1 DEF PullRequest
<1> HIDE DEF new
<1>3. /\ prs' \in Seq(PullRequest) /\ 1 \in DOMAIN prs' /\ prs'[1] = new
      /\ \A m \in DOMAIN prs : m \in DOMAIN prs' /\ (m # 1 => prs'[m] = prs[m])
  BY <1>0, <1>1, <1>2
<1> QED BY <1>0, <1>1, <1>2, <1>3, PrStep DEF Update, At

LEMMA CreateStep ==
  ASSUME IInv, NEW p \in Operator, Create(p)
  PROVE  IInv'
<1> PICK r : r = job[p].run
  OBVIOUS
<1>0. r \in Run /\ plan[r] # "none" /\ ~PlansPr(r)
  BY JobFacts DEF Create, At, JobOK, Publishing
<1>1. /\ followUps' = followUps + 1 /\ Go(p, "record")
      /\ UNCHANGED <<stored, branch, prs, told, commits, issued>>
  BY DEF Create
<1>2. Keeps
  BY <1>1 DEF Keeps, stored
<1>3. PICK k \in Job : job' = [job EXCEPT ![p] = k] /\ k.step = "record" /\ k.run = r
  <2>1. "record" \in Step  BY DEF Step
  <2> QED BY <1>1, <2>1, JobFacts, StepTo
<1>4. JobOK(k)'
  BY <1>0, <1>1, <1>3 DEF JobOK, Publishing, Reviewing, PlansPr, stored
<1>5. \A q \in Operator : JobOK(job[q])'
  BY <1>2, <1>3, <1>4, JobsKept
<1>6. \A q \in Run : RunOK(q)'
  BY <1>1, <1>2, RunsKept DEF stored
<1>7. TypeOK'
  <2>1. job' \in [Operator -> Job]  BY <1>3, JobType DEF IInv
  <2> QED BY <1>1, <2>1 DEF IInv, TypeOK, stored, PlansPr
<1> QED BY <1>2, <1>5, <1>6, <1>7, Preserved

\* What is recorded as published is placed, and pushed.
LEMMA RecordStep ==
  ASSUME IInv, NEW p \in Operator, Record(p)
  PROVE  IInv'
<1> PICK r : r = job[p].run
  OBVIOUS
<1> DEFINE rs == [published |-> TRUE, pr |-> job[p].pr]
<1>0. /\ r \in Run /\ plan[r] # "none" /\ RunOK(r)
      /\ PlansPr(r) => /\ maker[r] = r /\ Has(branch[BranchOf(r)], r)
                       /\ Placed(r, job[p].pr)
  BY JobFacts DEF Record, At, JobOK, Publishing, IInv
<1>1. /\ result' = [result EXCEPT ![r] = rs]
      /\ IF PlansPr(r) THEN Go(p, "fetch") ELSE Stop(p)
      /\ UNCHANGED <<plan, repo, tree, review, maker, github, commits, issued>>
  BY DEF Record
<1>2. rs \in [published : BOOLEAN, pr : Nat] /\ rs.published /\ rs.pr = job[p].pr
  BY JobFacts DEF Job
<1> HIDE DEF rs
<1>3. /\ result' \in [Run -> [published : BOOLEAN, pr : Nat]] /\ result'[r] = rs
      /\ \A q \in Run : q # r => result'[q] = result[q]
  BY <1>0, <1>1, <1>2 DEF IInv, TypeOK
<1>4. Keeps
  BY <1>1, <1>2, <1>3 DEF Keeps, github
<1>5. \A q \in Run : RunOK(q)'
  <2> SUFFICES ASSUME NEW q \in Run PROVE RunOK(q)'
    OBVIOUS
  <2>1. CASE q = r
    <3>1. PlansPr(r)' <=> PlansPr(r)  BY <1>1 DEF PlansPr
    <3>2. BranchOf(r)' = BranchOf(r)  BY <1>1 DEF BranchOf
    <3>3. Published(r)' => Placed(r, result[r].pr)' /\ Has(branch[BranchOf(r)], maker[r])'
      BY <1>0, <1>1, <1>2, <1>3, <3>1, <3>2 DEF Published, Placed, Has, github
    <3>4. /\ Backed(r, review[r]) => Backed(r, review[r])'
          /\ Reported(r, review[r]) => Reported(r, review[r])'
      BY <1>1, <3>2 DEF Backed, Reported, github
    <3> QED BY <1>0, <1>1, <1>2, <1>3, <2>1, <3>3, <3>4 DEF RunOK
  <2>2. CASE q # r
    <3>1. RunOK(q)  BY DEF IInv
    <3>2. CASE plan[q] # "none"
      BY <1>1, <1>3, <1>4, <2>2, <3>1, <3>2, RunKept
    <3>3. CASE plan[q] = "none"
      BY <1>1, <1>3, <2>2, <3>1, <3>3, RunUnjudged
    <3> QED BY <3>2, <3>3
  <2> QED BY <2>1, <2>2
<1>6. PICK k \in Job : /\ job' = [job EXCEPT ![p] = k]
                       /\ k = Idle \/ (k.step = "fetch" /\ k.run = r /\ PlansPr(r))
  <2>1. CASE PlansPr(r)
    <3>1. "fetch" \in Step  BY DEF Step
    <3> QED BY <1>1, <2>1, <3>1, JobFacts, StepTo
  <2>2. CASE ~PlansPr(r)
    BY <1>1, <2>2, IdleType DEF Stop
  <2> QED BY <2>1, <2>2
<1>7. JobOK(k)'
  <2>1. CASE k = Idle
    BY <2>1, IdleOK
  <2>2. CASE k.step = "fetch" /\ k.run = r /\ PlansPr(r)
    <3>1. Published(r)'
      BY <1>1, <1>2, <1>3, <2>2 DEF Published, PlansPr
    <3> QED BY <1>0, <1>1, <2>2, <3>1 DEF JobOK, Publishing, Reviewing
  <2> QED BY <1>6, <2>1, <2>2
<1>8. \A q \in Operator : JobOK(job[q])'
  BY <1>4, <1>6, <1>7, JobsKept
<1>9. TypeOK'
  <2>1. job' \in [Operator -> Job]  BY <1>6, JobType DEF IInv
  <2>2. \A q \in Run : (result[q].published /\ PlansPr(q) => result[q].pr \in DOMAIN prs)'
    BY <1>5 DEF RunOK, Published, Placed
  <2> QED BY <1>1, <1>3, <2>1, <2>2 DEF IInv, TypeOK, github
<1> QED BY <1>4, <1>5, <1>8, <1>9, Preserved

-----------------------------------------------------------------------------
(* The end of a review.                                                    *)

LEMMA TellStep ==
  ASSUME IInv, NEW p \in Operator, Tell(p)
  PROVE  IInv'
<1> PICK r : r = job[p].run
  OBVIOUS
<1> PICK rv : rv = job[p].review
  OBVIOUS
<1> DEFINE it == [run |-> r, verdict |-> rv.verdict, head |-> rv.head]
<1>0. r \in Run /\ plan[r] # "none" /\ rv.verdict \in Objection
  BY JobFacts DEF Tell, At, JobOK, Reviewing
<1>1. /\ told' = told \union {it} /\ Go(p, "save")
      /\ UNCHANGED <<stored, branch, prs, followUps, commits, issued>>
  BY DEF Tell
<1>2. told' \subseteq [run : Run, verdict : Verdict, head : History]
  <2>1. it \in [run : Run, verdict : Verdict, head : History]
    BY <1>0, JobFacts DEF Job, Review
  <2> HIDE DEF it
  <2> QED BY <1>1, <2>1 DEF IInv, TypeOK
<1>3. Keeps
  BY <1>1 DEF Keeps, stored
<1>4. PICK k \in Job : job' = [job EXCEPT ![p] = k] /\ k.step = "save" /\ k.run = r /\ k.review = rv
  <2>1. "save" \in Step  BY DEF Step
  <2> QED BY <1>1, <2>1, JobFacts, StepTo
<1>5. JobOK(k)'
  <2>1. Reported(r, k.review)'  BY <1>1, <1>4 DEF Reported
  <2> QED BY <1>0, <1>1, <1>4, <2>1 DEF JobOK, Publishing, Reviewing, stored
<1>6. \A q \in Operator : JobOK(job[q])'
  BY <1>3, <1>4, <1>5, JobsKept
<1>7. \A q \in Run : RunOK(q)'
  BY <1>1, <1>3, RunsKept DEF stored
<1>8. TypeOK'
  <2>1. job' \in [Operator -> Job]  BY <1>4, JobType DEF IInv
  <2> QED BY <1>1, <1>2, <2>1 DEF IInv, TypeOK, stored, PlansPr
<1> QED BY <1>3, <1>6, <1>7, <1>8, Preserved

LEMMA SaveStep ==
  ASSUME IInv, NEW p \in Operator, Save(p)
  PROVE  IInv'
<1> PICK r : r = job[p].run
  OBVIOUS
<1> PICK rv : rv = job[p].review
  OBVIOUS
<1>0. /\ r \in Run /\ plan[r] # "none" /\ RunOK(r) /\ rv \in Review
      /\ \/ rv.verdict = "approved" /\ Backed(r, rv)
         \/ rv.verdict \in Objection /\ Reported(r, rv)
  BY JobFacts DEF Save, At, JobOK, Reviewing, IInv, Job
<1>1. /\ review' = [review EXCEPT ![r] = rv] /\ job' = [job EXCEPT ![p] = Idle]
      /\ UNCHANGED <<plan, repo, tree, result, maker, github, commits, issued>>
  BY DEF Save, Stop
<1>2. /\ review' \in [Run -> Review] /\ review'[r] = rv
      /\ \A q \in Run : q # r => review'[q] = review[q]
  BY <1>0, <1>1 DEF IInv, TypeOK
<1>3. Keeps
  BY <1>1 DEF Keeps, github
<1>4. \A q \in Run : RunOK(q)'
  <2> SUFFICES ASSUME NEW q \in Run PROVE RunOK(q)'
    OBVIOUS
  <2>1. CASE q = r
    <3>1. BranchOf(r)' = BranchOf(r) /\ (Published(r)' <=> Published(r))
      BY <1>1 DEF BranchOf, Published, PlansPr
    <3>2. (Backed(r, rv) => Backed(r, rv)') /\ (Reported(r, rv) => Reported(r, rv)')
      BY <1>1, <3>1 DEF Backed, Reported, github
    <3>3. Published(r)' => Placed(r, result[r].pr)' /\ Has(branch[BranchOf(r)], maker[r])'
      BY <1>0, <1>1, <3>1 DEF RunOK, Placed, Has, github
    <3>4. rv.verdict = "approved" => rv.verdict \notin Objection
      BY DEF Objection
    <3>5. (Backed(r, review[r])' <=> Backed(r, rv)') /\ (Reported(r, review[r])' <=> Reported(r, rv)')
      BY <1>2 DEF Backed, Reported
    <3> QED BY <1>0, <1>1, <1>2, <2>1, <3>2, <3>3, <3>4, <3>5 DEF RunOK
  <2>2. CASE q # r
    <3>1. RunOK(q)  BY DEF IInv
    <3>2. CASE plan[q] # "none"
      BY <1>1, <1>2, <1>3, <2>2, <3>1, <3>2, RunKept
    <3>3. CASE plan[q] = "none"
      BY <1>1, <1>2, <2>2, <3>1, <3>3, RunUnjudged
    <3> QED BY <3>2, <3>3
  <2> QED BY <2>1, <2>2
<1>5. \A q \in Operator : JobOK(job[q])'
  BY <1>1, <1>3, IdleType, IdleOK, JobsKept
<1>6. TypeOK'
  <2>1. job' \in [Operator -> Job]  BY <1>1, IdleType, JobType DEF IInv
  <2> QED BY <1>1, <1>2, <2>1 DEF IInv, TypeOK, github, PlansPr
<1> QED BY <1>3, <1>4, <1>5, <1>6, Preserved

-----------------------------------------------------------------------------
(* The invariant, and what follows from it.                                *)

LEMMA InitIInv ==
  ASSUME Assumptions, Init
  PROVE  IInv
<1>1. TypeOK
  <2>1. /\ prs \in Seq(PullRequest) /\ 1 \in DOMAIN prs /\ prs[1].branch = Old
    BY DEF Init, PullRequest, Branch
  <2>2. job \in [Operator -> Job]
    BY IdleType DEF Init
  <2>3. review \in [Run -> Review]
    BY DEF Init, NoReview, Review, Verdict, History
  <2>4. branch \in [Branch -> History]
    BY DEF Init, Branch, History, Commit
  <2>5. \A r \in Run : ~result[r].published
    BY DEF Init, Unpublished
  <2>6. /\ plan \in [Run -> Plan] /\ repo \in [Run -> History] /\ tree \in [Run -> History]
        /\ result \in [Run -> [published : BOOLEAN, pr : Nat]] /\ maker \in [Run -> Run]
    BY DEF Init, Plan, History, Unpublished
  <2> QED BY <2>1, <2>2, <2>3, <2>4, <2>5, <2>6 DEF Init, TypeOK, Assumptions
<1>2. \A r \in Run : RunOK(r)
  BY DEF Init, RunOK, Unpublished, NoReview, Published, Objection
<1>3. \A p \in Operator : JobOK(job[p])
  BY DEF Init, Idle, JobOK, Publishing, Reviewing
<1>4. 1 \in DOMAIN prs /\ prs[1].branch = Old
  BY DEF Init
<1> QED BY <1>1, <1>2, <1>3, <1>4 DEF IInv

LEMMA Stuttering ==
  ASSUME IInv, UNCHANGED vars
  PROVE  IInv'
<1>1. Keeps
  BY DEF vars, stored, github, Keeps
<1>2. \A r \in Run : RunOK(r)'
  BY <1>1, RunsKept DEF vars, stored
<1>3. \A q \in Operator : JobOK(job[q])'
  BY <1>1, JobsUntouched DEF vars
<1>4. TypeOK'
  BY DEF IInv, TypeOK, vars, stored, github, PlansPr
<1> QED BY <1>1, <1>2, <1>3, <1>4, Preserved

LEMMA NextIInv ==
  ASSUME Assumptions, IInv, [Next]_vars
  PROVE  IInv'
<1>1. ASSUME NEW r \in Run, Arrive(r) PROVE IInv'
  BY <1>1, ArriveStep
<1>2. ASSUME NEW b \in Branch, PushByOthers(b) PROVE IInv'
  BY <1>2, PushByOthersStep
<1>3. ASSUME NEW p \in Operator, Command(p) PROVE IInv'
  BY <1>3, PublishRunStep, ReviewImplStep, ResumeReviewStep DEF Command
<1>4. ASSUME NEW p \in Operator, Advance(p) PROVE IInv'
  BY <1>4, PrepareStep, PushStep, OpenStep, UpdateStep, LookStep, CreateStep, PostStep, RecordStep,
     FetchStep, CheckStep, DiffStep, JudgeStep, TellStep, SaveStep DEF Advance
<1>5. ASSUME NEW p \in Operator, Crash(p) PROVE IInv'
  BY <1>5, CrashStep
<1>6. CASE UNCHANGED vars
  BY <1>6, Stuttering
<1> QED BY <1>1, <1>2, <1>3, <1>4, <1>5, <1>6 DEF Next

LEMMA AlwaysIInv == Spec => []IInv
<1>1. Assumptions
  BY AssumptionsHold
<1>2. Init => IInv
  BY <1>1, InitIInv
<1>3. IInv /\ [Next]_vars => IInv'
  BY <1>1, NextIInv
<1> QED BY <1>2, <1>3, PTL DEF Spec

\* Every record and every job has its type, and a run that is published as a pull
\* request names one that exists (publish_executor.py, publish-result.json).
THEOREM PublicationTypeCorrect == Spec => []TypeOK
<1>1. IInv => TypeOK
  BY DEF IInv
<1> QED BY <1>1, AlwaysIInv, PTL

\* An approval on record whose head is still the head of the pull request is about the
\* diff the agents read: the diff was read after the head (so it holds at least that
\* head), and branches only grow (so it holds no more than the present one).
THEOREM ApprovalIsOfHead == Spec => []FreshApprovalIsOfHead
<1>1. IInv => FreshApprovalIsOfHead
  <2> SUFFICES ASSUME IInv, NEW r \in Run, Published(r), review[r].verdict = "approved",
                      review[r].head = HeadOf(result[r].pr)
               PROVE  review[r].seen = review[r].head
    BY DEF FreshApprovalIsOfHead
  <2>1. HeadOf(result[r].pr) = branch[BranchOf(r)]
    BY PublishedHead
  <2>2. review[r].head \subseteq review[r].seen /\ review[r].seen \subseteq branch[BranchOf(r)]
    BY DEF IInv, RunOK, Backed
  <2> QED BY <2>1, <2>2
<1> QED BY <1>1, AlwaysIInv, PTL

\* A review on record that did not approve was reported on the issue, with its verdict
\* and for its head, wherever the processes died (_finalize_non_approved_impl_review
\* comments before it saves).
THEOREM ObjectionsReported == Spec => []ObjectionReported
<1>1. IInv => ObjectionReported
  BY DEF IInv, RunOK, Reported, Objection, ObjectionReported
<1> QED BY <1>1, AlwaysIInv, PTL

\* What a run has published, or taken over from the run it resumes, is on the branch of
\* the pull request it names and stays there (_publish_draft_pull_request pushes without
\* force, so that git refuses what would take a commit away).
THEOREM PublishedStaysPushed == Spec => []PublishedIsPushed
<1>1. IInv => PublishedIsPushed
  <2> SUFFICES ASSUME IInv, NEW r \in Run, Published(r)
               PROVE  \E c \in HeadOf(result[r].pr) : c.by = maker[r]
    BY DEF PublishedIsPushed
  <2>1. HeadOf(result[r].pr) = branch[BranchOf(r)]
    BY PublishedHead
  <2>2. Has(branch[BranchOf(r)], maker[r])
    BY DEF IInv, RunOK
  <2> QED BY <2>1, <2>2 DEF Has
<1> QED BY <1>1, AlwaysIInv, PTL

-----------------------------------------------------------------------------
(* How many follow-up issues there can be: each that is opened uses up the *)
(* search of an operator who found none.                                   *)

Creators == {p \in Operator : At(p, "create")}

Budget == IsFiniteSet(Operator) /\ followUps + Cardinality(Creators) <= Cardinality(Operator)

\* The job of p, and no other, goes to step s.
Moves(p, s) ==
  /\ job'[p].step = s
  /\ \A q \in Operator : q # p => job'[q] = job[q]

LEMMA CreatorsFinite ==
  ASSUME IsFiniteSet(Operator)
  PROVE  /\ IsFiniteSet(Creators) /\ Cardinality(Creators) \in Nat
         /\ Cardinality(Creators) <= Cardinality(Operator) /\ Cardinality(Operator) \in Nat
<1>1. Creators \subseteq Operator
  BY DEF Creators
<1> QED BY <1>1, FS_Subset, FS_CardinalityType

\* A step of which no search comes back empty-handed, and that opens nothing.
LEMMA NoSearch ==
  ASSUME IInv, Budget, followUps' = followUps, NEW p \in Operator, NEW s \in Step,
         s # "create", Moves(p, s)
  PROVE  Budget'
<1>1. Creators' \subseteq Creators
  BY DEF Creators, At, Moves
<1>2. IsFiniteSet(Creators) /\ Cardinality(Creators) \in Nat /\ Cardinality(Operator) \in Nat
  BY CreatorsFinite DEF Budget
<1>3. Cardinality(Creators') <= Cardinality(Creators) /\ Cardinality(Creators') \in Nat
  BY <1>1, <1>2, FS_Subset, FS_CardinalityType
<1> QED BY <1>2, <1>3 DEF Budget, IInv, TypeOK

LEMMA NoMove ==
  ASSUME Budget, followUps' = followUps, job' = job
  PROVE  Budget'
<1>1. Creators' = Creators
  BY DEF Creators, At
<1> QED BY <1>1 DEF Budget

LEMMA GoMoves ==
  ASSUME IInv, NEW p \in Operator, NEW s \in Step, Go(p, s)
  PROVE  Moves(p, s)
BY StepTo, JobFacts DEF Moves

LEMMA StopMoves ==
  ASSUME IInv, NEW p \in Operator, Stop(p)
  PROVE  Moves(p, "idle")
BY IdleType, JobFacts DEF Stop, Moves

LEMMA SetsPrMoves ==
  ASSUME IInv, NEW p \in Operator, NEW n \in Nat, SetsPr(p, "record", n)
  PROVE  Moves(p, "record")
<1>1. "record" \in Step  BY DEF Step
<1> QED BY <1>1, StepWithPr, JobFacts DEF Moves

LEMMA SetsVerdictMoves ==
  ASSUME IInv, NEW p \in Operator, NEW s \in Step, NEW v \in Verdict, SetsVerdict(p, s, v)
  PROVE  Moves(p, s)
BY StepWithVerdict, JobFacts DEF Moves

LEMMA SetsHeadMoves ==
  ASSUME IInv, NEW p \in Operator, NEW h \in History, SetsHead(p, "check", h)
  PROVE  Moves(p, "check")
<1>1. "check" \in Step  BY DEF Step
<1> QED BY <1>1, StepWithHead, JobFacts DEF Moves

LEMMA SetsSeenMoves ==
  ASSUME IInv, NEW p \in Operator, NEW h \in History, SetsSeen(p, "judge", h)
  PROVE  Moves(p, "judge")
<1>1. "judge" \in Step  BY DEF Step
<1> QED BY <1>1, StepWithSeen, JobFacts DEF Moves

\* What the steps of a review and of a pull request's publication do to their job.
LEMMA StepsMove ==
  ASSUME IInv, NEW p \in Operator,
         \/ Prepare(p) \/ Push(p) \/ Open(p) \/ Update(p) \/ Post(p) \/ Record(p) \/ Fetch(p)
         \/ Check(p) \/ Diff(p) \/ Judge(p) \/ Tell(p) \/ Save(p) \/ Crash(p)
  PROVE  followUps' = followUps /\ \E s \in Step \ {"create"} : Moves(p, s)
<1>0. followUps' = followUps
  BY DEF Prepare, Push, Open, Update, Post, Record, Fetch, Check, Diff, Judge, Tell, Save, Crash,
         github
<1> DEFINE Quiet == Step \ {"create"}
<1> SUFFICES \E s \in Quiet : Moves(p, s)
  BY <1>0
<1>1. /\ {"idle", "push", "open", "update", "record", "fetch", "check", "diff"} \subseteq Quiet
      /\ {"judge", "tell", "save"} \subseteq Quiet
      /\ Quiet \subseteq Step
  BY DEF Step
<1> HIDE DEF Quiet
<1>2. CASE \E s \in Quiet : Go(p, s)
  BY <1>1, <1>2, GoMoves
<1>3. CASE Stop(p)
  BY <1>1, <1>3, StopMoves
<1>4. CASE \E s \in Quiet, v \in Verdict : SetsVerdict(p, s, v)
  BY <1>1, <1>4, SetsVerdictMoves
<1>5. CASE Prepare(p)
  BY <1>1, <1>2, <1>5 DEF Prepare
<1>6. CASE Push(p)
  BY <1>1, <1>2, <1>3, <1>6 DEF Push
<1>7. CASE Open(p)
  <2>1. SetsPr(p, "record", Len(prs) + 1) \/ Stop(p)
    BY <1>7 DEF Open, SetsPr
  <2>2. Len(prs) + 1 \in Nat
    BY DEF IInv, TypeOK
  <2> QED BY <1>1, <1>3, <2>1, <2>2, SetsPrMoves
<1>8. CASE Update(p)
  <2>1. SetsPr(p, "record", 1)
    BY <1>8 DEF Update, SetsPr
  <2> QED BY <1>1, <2>1, SetsPrMoves
<1>9. CASE Record(p)
  BY <1>1, <1>2, <1>3, <1>9 DEF Record
<1>10. Block(p) => SetsVerdict(p, "tell", "blocked") /\ "blocked" \in Verdict
  BY DEF Block, SetsVerdict, Verdict
<1>11. job[p].step \in {"fetch", "diff"} => HeadOf(result[job[p].run].pr) \in History
  BY JobFacts, PublishedHead DEF JobOK, Reviewing, Publishing, IInv, RunOK, Published,
     Placed, HeadOf, TypeOK
<1>12. CASE Fetch(p)
  <2>1. Block(p) \/ SetsHead(p, "check", HeadOf(result[job[p].run].pr))
    BY <1>12 DEF Fetch, SetsHead
  <2> QED BY <1>1, <1>4, <1>10, <1>11, <1>12, <2>1, SetsHeadMoves DEF Fetch, At
<1>13. CASE Check(p)
  BY <1>1, <1>2, <1>4, <1>10, <1>13 DEF Check
<1>14. CASE Diff(p)
  <2>1. Block(p) \/ SetsSeen(p, "judge", HeadOf(result[job[p].run].pr))
    BY <1>14 DEF Diff, SetsSeen
  <2> QED BY <1>1, <1>4, <1>10, <1>11, <1>14, <2>1, SetsSeenMoves DEF Diff, At
<1>15. CASE Judge(p)
  <2>1. PICK v \in Verdict : SetsVerdict(p, IF v = "approved" THEN "save" ELSE "tell", v)
    BY <1>15 DEF Judge, SetsVerdict
  <2> QED BY <1>1, <1>4, <2>1
<1>16. CASE Tell(p)
  BY <1>1, <1>2, <1>16 DEF Tell
<1>17. CASE Save(p) \/ Crash(p)
  BY <1>3, <1>17 DEF Save, Crash
<1>18. CASE Post(p)
  BY <1>1, <1>2, <1>18 DEF Post
<1> QED BY <1>5, <1>6, <1>7, <1>8, <1>9, <1>12, <1>13, <1>14, <1>15, <1>16, <1>17, <1>18

LEMMA CommandMoves ==
  ASSUME IInv, NEW p \in Operator, Command(p)
  PROVE  followUps' = followUps /\ \E s \in Step \ {"create"} : Moves(p, s)
<1>0. PICK r \in Run : PublishRun(p, r) \/ ReviewImpl(p, r) \/ \E t \in Run : ResumeReview(p, r, t)
  BY DEF Command
<1>1. followUps' = followUps
  BY <1>0 DEF PublishRun, ReviewImpl, ResumeReview, github
<1>2. ASSUME NEW s \in Step, job' = [job EXCEPT ![p] = [Idle EXCEPT !.run = r, !.step = s]]
      PROVE  Moves(p, s)
  BY <1>2, NewJob, JobFacts DEF Moves
<1>3. CASE PublishRun(p, r)
  <2> DEFINE s == IF Published(r) THEN "fetch" ELSE IF PlansPr(r) THEN "prepare"
                  ELSE IF plan[r] = "issue" THEN "look" ELSE "post"
  <2>1. s \in Step \ {"create"}  BY DEF Step
  <2>2. job' = [job EXCEPT ![p] = [Idle EXCEPT !.run = r, !.step = s]]
    BY <1>3 DEF PublishRun, Issue
  <2> HIDE DEF s
  <2> QED BY <1>1, <1>2, <2>1, <2>2
<1>4. CASE ReviewImpl(p, r)
  <2> DEFINE s  == IF PlansPr(r) THEN "fetch" ELSE "tell"
             rv == IF PlansPr(r) THEN NoReview ELSE [NoReview EXCEPT !.verdict = "blocked"]
             k  == [Idle EXCEPT !.run = r, !.step = s, !.review = rv]
  <2>1. s \in Step \ {"create"}  BY DEF Step
  <2>2. job' = [job EXCEPT ![p] = k]
    BY <1>4 DEF ReviewImpl, Issue
  <2>3. k.step = s
    <3> HIDE DEF s, rv
    <3> QED BY IdleType DEF Job
  <2> HIDE DEF k
  <2>4. Moves(p, s)
    BY <2>2, <2>3, JobFacts DEF Moves
  <2> HIDE DEF s
  <2> QED BY <1>1, <2>1, <2>4
<1>5. CASE \E t \in Run : ResumeReview(p, r, t)
  <2>1. "fetch" \in Step \ {"create"}  BY DEF Step
  <2>2. job' = [job EXCEPT ![p] = [Idle EXCEPT !.run = r, !.step = "fetch"]]
    BY <1>5 DEF ResumeReview, Issue
  <2> QED BY <1>1, <1>2, <2>1, <2>2
<1> QED BY <1>0, <1>3, <1>4, <1>5

\* A search that finds nothing was made when there was no issue yet.
LEMMA LookKeepsBudget ==
  ASSUME IInv, Budget, NEW p \in Operator, Look(p)
  PROVE  Budget'
<1>0. followUps' = followUps /\ followUps \in Nat
  BY DEF Look, github, IInv, TypeOK
<1>1. CASE followUps > 0
  <2>1. Go(p, "record") /\ "record" \in Step
    BY <1>1 DEF Look, Step
  <2> QED BY <1>0, <2>1, GoMoves, NoSearch
<1>2. CASE followUps = 0
  <2>1. Creators' \subseteq Operator /\ IsFiniteSet(Operator)
    BY DEF Creators, Budget
  <2>2. Cardinality(Creators') \in Nat /\ Cardinality(Creators') <= Cardinality(Operator)
    BY <2>1, FS_Subset, FS_CardinalityType
  <2> QED BY <1>0, <1>2, <2>1, <2>2 DEF Budget
<1> QED BY <1>0, <1>1, <1>2

\* An issue that is opened is paid for by its search.
LEMMA CreateKeepsBudget ==
  ASSUME IInv, Budget, NEW p \in Operator, Create(p)
  PROVE  Budget'
<1>0. followUps' = followUps + 1 /\ followUps \in Nat /\ p \in Creators
  BY DEF Create, Creators, IInv, TypeOK
<1>1. Moves(p, "record")
  <2>1. Go(p, "record") /\ "record" \in Step
    BY DEF Create, Step
  <2> QED BY <2>1, GoMoves
<1>2. Creators' \subseteq Creators \ {p}
  BY <1>1 DEF Creators, At, Moves
<1>3. /\ IsFiniteSet(Creators) /\ Cardinality(Creators) \in Nat
      /\ Cardinality(Operator) \in Nat
  BY CreatorsFinite DEF Budget
<1>4. /\ IsFiniteSet(Creators \ {p})
      /\ Cardinality(Creators \ {p}) = Cardinality(Creators) - 1
  BY <1>0, <1>3, FS_RemoveElement
<1>5. Cardinality(Creators') <= Cardinality(Creators) - 1 /\ Cardinality(Creators') \in Nat
  BY <1>2, <1>4, FS_Subset, FS_CardinalityType
<1> QED BY <1>0, <1>3, <1>5 DEF Budget

\* Publishing again, after a crash or by another run, does not multiply the follow-up
\* issues about a docs blocker: however many runs publish it and however often, there are
\* no more than processes at work at once (find_open_docs_remediation_issue).
THEOREM FollowUpsStayBounded == Spec => []FollowUpsBounded
<1>1. Init => Budget
  <2> SUFFICES ASSUME Init PROVE Budget
    OBVIOUS
  <2>1. IsFiniteSet(Operator) /\ followUps = 0 /\ Creators = {}
    BY AssumptionsHold DEF Assumptions, Init, Creators, At, Idle
  <2> QED BY <2>1, FS_EmptySet, FS_CardinalityType DEF Budget
<1>2. IInv /\ Budget /\ [Next]_vars => Budget'
  <2> SUFFICES ASSUME IInv, Budget, [Next]_vars PROVE Budget'
    OBVIOUS
  <2>1. CASE UNCHANGED vars
    BY <2>1, NoMove DEF vars, github
  <2>2. ASSUME NEW r \in Run, Arrive(r) PROVE Budget'
    BY <2>2, NoMove DEF Arrive, github
  <2>3. ASSUME NEW b \in Branch, PushByOthers(b) PROVE Budget'
    BY <2>3, NoMove DEF PushByOthers
  <2>4. ASSUME NEW p \in Operator, Command(p) \/ Crash(p) \/ (Advance(p) /\ ~Look(p) /\ ~Create(p))
        PROVE  Budget'
    <3>1. followUps' = followUps /\ \E s \in Step \ {"create"} : Moves(p, s)
      BY <2>4, CommandMoves, StepsMove DEF Advance
    <3> QED BY <3>1, NoSearch
  <2>5. ASSUME NEW p \in Operator, Look(p) \/ Create(p) PROVE Budget'
    BY <2>5, LookKeepsBudget, CreateKeepsBudget
  <2> QED BY <2>1, <2>2, <2>3, <2>4, <2>5 DEF Next, Advance
<1>3. IInv /\ Budget => FollowUpsBounded
  BY CreatorsFinite DEF Budget, FollowUpsBounded, IInv, TypeOK
<1> QED BY <1>1, <1>2, <1>3, AlwaysIInv, PTL DEF Spec
=============================================================================
