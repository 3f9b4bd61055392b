---------------------------- MODULE Publication ----------------------------
(***************************************************************************)
(* Publishing a run and reviewing what was published: `publish run`,       *)
(* `review impl` and the last stages of `repair issue`, against a GitHub   *)
(* that other runs and other people write to as well                       *)
(* (publish_executor.py, publish_run and review_impl in coordinator.py,    *)
(* run_impl_review in post_publish_review.py).                             *)
(*                                                                         *)
(* A branch is the set of its commits: branches are never rewound, so this *)
(* set stands for the head, and a push is a fast-forward iff it adds.      *)
(* Every call of GitHub is a step of its own; a process that fails in one, *)
(* or is killed, is a Crash before it (not carried out) or after it.       *)
(* Runs that publish a docs blocker all report one and the same.           *)
(***************************************************************************)
EXTENDS Naturals, Sequences, FiniteSets

CONSTANTS
  Run, Operator,
  Old,           \* the branch of the pull request a rejected review named
  Others,        \* everybody else who commits or opened pull requests
  MaxCommits,    \* bound: commits made in a behaviour
  MaxCommands    \* bound: commands issued in a behaviour

ASSUME OldAssumption == Old \notin Run
ASSUME OperatorAssumption == IsFiniteSet(Operator)
ASSUME OthersAssumption == Others \notin Run
ASSUME MaxCommitsAssumption == MaxCommits \in Nat
ASSUME MaxCommandsAssumption == MaxCommands \in Nat

VARIABLES
  plan,        \* plan[r]: what publish-plan.json of run r asks for
  repo,        \* repo[r]: the commits its repair-workspace was cloned with
  tree,        \* tree[r]: the commits of its publish-workspace
  result,      \* publish-result.json
  review,      \* impl-review.json and its mirror
  maker,       \* maker[r]: the run that published, for r or a run it resumes (observed)
  branch, prs, \* GitHub: branches, and pull requests by number
  followUps,   \* open follow-up issues about the docs blocker
  told,        \* reviews reported on the source issue
  job,
  commits, issued   \* counters (bound the model)

github == <<branch, prs, followUps, told>>
stored == <<plan, repo, tree, result, review, maker>>
vars   == <<stored, github, job, commits, issued>>

Commit  == [by : Run \union {Others}, n : Nat]
History == SUBSET Commit
Branch  == Run \union {Old}

PullRequest == [branch : Branch, body : Run \union {Others}]   \* body: its Run ID marker

\* "update_pr": the plan names the rejected pull request, which is number 1. "issue": a
\* follow-up issue whose body has the fingerprint of a docs blocker. "message": one about
\* side issues, or a comment on the source issue.
Plan    == {"none", "draft_pr", "update_pr", "issue", "message"}
Verdict == {"none", "approved", "changes_requested", "blocked"}

\* seen: the diff the agents were given, which the code does not record.
Review == [verdict : Verdict, head : History, seen : History]

NoReview == [verdict |-> "none", head |-> {}, seen |-> {}]
Unpublished == [published |-> FALSE, pr |-> 0]

Job == [step : {"idle", "prepare", "push", "open", "update", "look", "create", "post", "record",
                "fetch", "check", "diff", "judge", "tell", "save"},
        run : Run \union {Others}, pr : Nat, review : Review]

Idle == [step |-> "idle", run |-> Others, pr |-> 0, review |-> NoReview]

Init ==
  /\ plan = [r \in Run |-> "none"] /\ repo = [r \in Run |-> {}]
  /\ tree = [r \in Run |-> {}] /\ maker = [r \in Run |-> r]
  /\ result = [r \in Run |-> Unpublished] /\ review = [r \in Run |-> NoReview]
  /\ branch = [b \in Branch |-> IF b = Old THEN {[by |-> Others, n |-> 0]} ELSE {}]
  /\ prs = <<[branch |-> Old, body |-> Others]>>
  /\ followUps = 0 /\ told = {}
  /\ job = [p \in Operator |-> Idle]
  /\ commits = 0 /\ issued = 0

At(p, s) == job[p].step = s

Go(p, s)  == job' = [job EXCEPT ![p].step = s]
Stop(p)   == job' = [job EXCEPT ![p] = Idle]

\* The head of a pull request, as GitHub shows it.
HeadOf(n) == branch[prs[n].branch]

PlansPr(r)  == plan[r] \in {"draft_pr", "update_pr"}
Published(r) == result[r].published /\ PlansPr(r)

BranchOf(r) == IF plan[r] = "update_pr" THEN Old ELSE r

-----------------------------------------------------------------------------
(* The world around: runs are judged, others push to the branches.         *)

\* A run that takes up a pull request works on its branch as it is now, or, if GitHub
\* did not answer, on the default branch without anybody noticing.
Arrive(r) ==
  /\ plan[r] = "none"
  /\ \E k \in Plan \ {"none"} :
       /\ plan' = [plan EXCEPT ![r] = k]
       /\ \E h \in {{}} \union (IF k = "update_pr" THEN {branch[Old]} ELSE {}) :
            repo' = [repo EXCEPT ![r] = h]
  /\ UNCHANGED <<tree, result, review, maker, github, job, commits, issued>>

PushByOthers(b) ==
  /\ branch[b] # {} /\ commits < MaxCommits
  /\ commits' = commits + 1
  /\ branch' = [branch EXCEPT ![b] = @ \union {[by |-> Others, n |-> commits + 1]}]
  /\ UNCHANGED <<stored, prs, followUps, told, job, issued>>

-----------------------------------------------------------------------------
(* Commands.                                                               *)

Issue(p, j) ==
  /\ At(p, "idle") /\ issued < MaxCommands
  /\ issued' = issued + 1
  /\ job' = [job EXCEPT ![p] = j]

\* A review is repeated if it came to nothing, or the pull request has moved since.
Stale(r) ==
  \/ review[r].verdict \in {"none", "blocked"}
  \/ review[r].head # HeadOf(result[r].pr)

\* `publish run`, and `repair issue` once it has planned the publication.
PublishRun(p, r) ==
  /\ plan[r] # "none"
  /\ Published(r) => Stale(r)
  /\ result[r].published => PlansPr(r)
  /\ Issue(p, [Idle EXCEPT !.run = r,
                           !.step = IF Published(r) THEN "fetch"
                                    ELSE IF PlansPr(r) THEN "prepare"
                                    ELSE IF plan[r] = "issue" THEN "look" ELSE "post"])
  /\ UNCHANGED <<stored, github, commits>>

\* A review of what is no published pull request is blocked at once.
ReviewImpl(p, r) ==
  /\ result[r].published
  /\ Issue(p, [Idle EXCEPT !.run = r, !.step = IF PlansPr(r) THEN "fetch" ELSE "tell",
                           !.review = IF PlansPr(r) THEN NoReview
                                      ELSE [NoReview EXCEPT !.verdict = "blocked"]])
  /\ UNCHANGED <<stored, github, commits>>

\* A new attempt resumed from s at `review impl`: the publication is copied. A pull request
\* that was newly opened is on record without its number, which the resume asks for.
ResumeReview(p, r, s) ==
  /\ plan[r] = "none" /\ Published(s) /\ plan[s] = "update_pr"
  /\ plan' = [plan EXCEPT ![r] = plan[s]]
  /\ result' = [result EXCEPT ![r] = result[s]]
  /\ maker' = [maker EXCEPT ![r] = maker[s]]
  /\ Issue(p, [Idle EXCEPT !.run = r, !.step = "fetch"])
  /\ UNCHANGED <<repo, tree, review, github, commits>>

-----------------------------------------------------------------------------
(* Publishing a pull request.                                              *)

\* The publish workspace is made anew; two processes of one run share it.
Prepare(p) ==
  LET r == job[p].run
  IN  /\ At(p, "prepare") /\ commits < MaxCommits
      /\ commits' = commits + 1
      /\ tree' = [tree EXCEPT ![r] = repo[r] \union {[by |-> r, n |-> commits + 1]}]
      /\ Go(p, "push")
      /\ UNCHANGED <<plan, repo, result, review, maker, github, issued>>

\* Slip: a forced push.
PushForced(p) ==
  LET r == job[p].run
  IN  /\ At(p, "push")
      /\ branch' = [branch EXCEPT ![BranchOf(r)] = tree[r]]
      /\ Go(p, IF plan[r] = "update_pr" THEN "update" ELSE "open")
      /\ UNCHANGED <<stored, prs, followUps, told, commits, issued>>

\* git refuses a push that is not a fast-forward.
Push(p) ==
  LET r == job[p].run
      b == BranchOf(r)
  IN  /\ At(p, "push")
      /\ IF branch[b] \subseteq tree[r]
         THEN /\ branch' = [branch EXCEPT ![b] = tree[r]]
              /\ Go(p, IF plan[r] = "update_pr" THEN "update" ELSE "open")
         ELSE Stop(p) /\ UNCHANGED branch
      /\ UNCHANGED <<stored, prs, followUps, told, commits, issued>>

\* GitHub refuses a second pull request for one branch.
Open(p) ==
  LET r == job[p].run
      opened == \E n \in DOMAIN prs : prs[n].branch = r
  IN  /\ At(p, "open")
      /\ IF opened
         THEN Stop(p) /\ UNCHANGED prs
         ELSE /\ prs' = Append(prs, [branch |-> r, body |-> r])
              /\ job' = [job EXCEPT ![p].step = "record", ![p].pr = Len(prs) + 1]
      /\ UNCHANGED <<stored, branch, followUps, told, commits, issued>>

Update(p) ==
  /\ At(p, "update")
  /\ prs' = [prs EXCEPT ![1].body = job[p].run]
  /\ job' = [job EXCEPT ![p].step = "record", ![p].pr = 1]
  /\ UNCHANGED <<stored, branch, followUps, told, commits, issued>>

-----------------------------------------------------------------------------
(* Publishing a follow-up issue, or a message.                             *)

\* Slip: the open issues are not searched.
LookBlindly(p) ==
  /\ At(p, "look")
  /\ Go(p, "create")
  /\ UNCHANGED <<stored, github, commits, issued>>

Look(p) ==
  /\ At(p, "look")
  /\ Go(p, IF followUps > 0 THEN "record" ELSE "create")
  /\ UNCHANGED <<stored, github, commits, issued>>

Create(p) ==
  /\ At(p, "create")
  /\ followUps' = followUps + 1
  /\ Go(p, "record")
  /\ UNCHANGED <<stored, branch, prs, told, commits, issued>>

\* Without a fingerprint nothing is searched for: what is posted is posted anew each time,
\* and no step looks at it.
Post(p) ==
  /\ At(p, "post")
  /\ Go(p, "record")
  /\ UNCHANGED <<stored, github, commits, issued>>

\* A published pull request is reviewed right away (if that was not declined, which is as if
\* the process ended here).
Record(p) ==
  LET r == job[p].run
  IN  /\ At(p, "record")
      /\ result' = [result EXCEPT ![r] = [published |-> TRUE, pr |-> job[p].pr]]
      /\ IF PlansPr(r) THEN Go(p, "fetch") ELSE Stop(p)
      /\ UNCHANGED <<plan, repo, tree, review, maker, github, commits, issued>>

-----------------------------------------------------------------------------
(* Reviewing a pull request.                                               *)

Block(p) ==
  job' = [job EXCEPT ![p].step = "tell", ![p].review.verdict = "blocked"]

\* The head the review is about is the one seen first.
Fetch(p) ==
  /\ At(p, "fetch")
  /\ \/ Block(p)
     \/ job' = [job EXCEPT ![p].step = "check",
                           ![p].review.head = HeadOf(result[job[p].run].pr)]
  /\ UNCHANGED <<stored, github, commits, issued>>

\* The pull request has to name the run under review.
Provenance(r) == prs[result[r].pr].body = r

Check(p) ==
  /\ At(p, "check")
  /\ Block(p) \/ (Provenance(job[p].run) /\ Go(p, "diff"))
  /\ UNCHANGED <<stored, github, commits, issued>>

\* The agents get the diff as it is by then.
Diff(p) ==
  /\ At(p, "diff")
  /\ \/ Block(p)
     \/ job' = [job EXCEPT ![p].step = "judge",
                           ![p].review.seen = HeadOf(result[job[p].run].pr)]
  /\ UNCHANGED <<stored, github, commits, issued>>

\* Slip: the verdict is put down to the head the pull request has by now.
JudgeLate(p) ==
  /\ At(p, "judge")
  /\ \E v \in Verdict \ {"none"} :
       job' = [job EXCEPT ![p].step = IF v = "approved" THEN "save" ELSE "tell",
                          ![p].review.verdict = v,
                          ![p].review.head = HeadOf(result[job[p].run].pr)]
  /\ UNCHANGED <<stored, github, commits, issued>>

\* Slip: the verdict of the agents is not translated.
JudgeRejects(p) ==
  /\ At(p, "judge")
  /\ \E v \in {"approved", "rejected"} :
       job' = [job EXCEPT ![p].step = IF v = "approved" THEN "save" ELSE "tell",
                          ![p].review.verdict = v]
  /\ UNCHANGED <<stored, github, commits, issued>>

\* Slip: the review is saved before the issue is told.
JudgeAndSave(p) ==
  /\ At(p, "judge")
  /\ \E v \in Verdict \ {"none"} :
       /\ job' = [job EXCEPT ![p].step = IF v = "approved" THEN "save" ELSE "tell",
                             ![p].review.verdict = v]
       /\ review' = [review EXCEPT ![job[p].run] = [job[p].review EXCEPT !.verdict = v]]
  /\ UNCHANGED <<plan, repo, tree, result, maker, github, commits, issued>>

\* Both agents approve, one of them objects, or one fails.
Judge(p) ==
  /\ At(p, "judge")
  /\ \E v \in Verdict \ {"none"} :
       job' = [job EXCEPT ![p].step = IF v = "approved" THEN "save" ELSE "tell",
                          ![p].review.verdict = v]
  /\ UNCHANGED <<stored, github, commits, issued>>

\* The issue is commented on and reopened.
Tell(p) ==
  LET rv == job[p].review
  IN  /\ At(p, "tell")
      /\ told' = told \union {[run |-> job[p].run, verdict |-> rv.verdict, head |-> rv.head]}
      /\ Go(p, "save")
      /\ UNCHANGED <<stored, branch, prs, followUps, commits, issued>>

Save(p) ==
  /\ At(p, "save")
  /\ review' = [review EXCEPT ![job[p].run] = job[p].review]
  /\ Stop(p)
  /\ UNCHANGED <<plan, repo, tree, result, maker, github, commits, issued>>

Crash(p) ==
  /\ ~At(p, "idle")
  /\ Stop(p)
  /\ UNCHANGED <<stored, github, commits, issued>>

-----------------------------------------------------------------------------
Command(p) ==
  \E r \in Run :
    \/ PublishRun(p, r)
    \/ ReviewImpl(p, r)
    \/ \E s \in Run : ResumeReview(p, r, s)

Advance(p) ==
  \/ Prepare(p) \/ Push(p) \/ Open(p) \/ Update(p)
  \/ Look(p) \/ Create(p) \/ Post(p) \/ Record(p)
  \/ Fetch(p) \/ Check(p) \/ Diff(p) \/ Judge(p) \/ Tell(p) \/ Save(p)

Next ==
  \/ \E r \in Run : Arrive(r)
  \/ \E b \in Branch : PushByOthers(b)
  \/ \E p \in Operator : Command(p) \/ Advance(p) \/ Crash(p)

Spec == Init /\ [][Next]_vars

-----------------------------------------------------------------------------
(* Properties.                                                             *)

TypeOK ==
  /\ plan \in [Run -> Plan]
  /\ repo \in [Run -> History] /\ tree \in [Run -> History]
  /\ result \in [Run -> [published : BOOLEAN, pr : Nat]]
  /\ \A r \in Run : result[r].published /\ PlansPr(r) => result[r].pr \in DOMAIN prs
  /\ review \in [Run -> Review]
  /\ maker \in [Run -> Run]
  /\ branch \in [Branch -> History]
  /\ prs \in Seq(PullRequest)
  /\ followUps \in Nat
  /\ told \subseteq [run : Run, verdict : Verdict, head : History]
  /\ job \in [Operator -> Job]
  /\ commits \in 0..MaxCommits /\ issued \in 0..MaxCommands

\* An approval that is not stale is about what is there: as long as the pull request
\* still has the head a review was recorded for, its diff is the diff the agents read,
\* although others may push at any moment of the review (run_impl_review records the
\* head it fetched first; _post_publish_review_is_stale compares it).
FreshApprovalIsOfHead ==
  \A r \in Run :
    Published(r) /\ review[r].verdict = "approved" /\ review[r].head = HeadOf(result[r].pr) =>
      review[r].seen = review[r].head

\* No objection is lost: a review on record that did not approve was reported on the
\* issue, for that head, wherever processes died (_finalize_non_approved_impl_review).
ObjectionReported ==
  \A r \in Run :
    review[r].verdict \in {"changes_requested", "blocked"} =>
      [run |-> r, verdict |-> review[r].verdict, head |-> review[r].head] \in told

\* What a run has on record as published is in the pull request it names, and stays
\* there whatever other runs publish onto the same branch (_publish_draft_pull_request
\* pushes without force).
PublishedIsPushed ==
  \A r \in Run :
    Published(r) => \E c \in HeadOf(result[r].pr) : c.by = maker[r]

\* Publishing again, after a crash or by another run, does not multiply the follow-up
\* issues about a docs blocker: there are no more than processes that looked for one at the
\* same time (find_open_docs_remediation_issue).
FollowUpsBounded == followUps <= Cardinality(Operator)

\* tests/test_retry.py: a resumed review impl succeeds. Its checks hold of the pull
\* request that the run it resumes has published.
ResumedReviewPasses ==
  \A p \in Operator :
    LET r == job[p].run
    IN  At(p, "check") /\ prs[result[r].pr].body = maker[r] => Provenance(r)
=============================================================================
