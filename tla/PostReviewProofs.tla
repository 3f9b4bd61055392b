-------------------------- MODULE PostReviewProofs --------------------------
(***************************************************************************)
(* Proofs about PostReview, for any operators and any number of calls: a   *)
(* step of the automation is entered only after the one before it was      *)
(* carried out or counted as such, whatever answers are lost or misread    *)
(* and requests arrive late.                                               *)
(***************************************************************************)
EXTENDS PostReview, TLAPS

\* What is behind a call over gh, which takes nothing but a 409 for more than it is.
OverGh(p) ==
  /\ At(p, "merge_pull_request") \/ At(p, "close_issue") \/ outcome[p] = "success" =>
       "mark_pull_request_ready" \in carried
  /\ At(p, "close_issue") \/ outcome[p] = "success" =>
       "merge_pull_request" \in carried \/ conflict
  /\ outcome[p] = "success" => "close_issue" \in carried

\* What is behind a call that has come as far as it has.
Behind(p) ==
  /\ Busy(p) => outcome[p] = "none"
  /\ At(p, "merge_pull_request") => "mark_pull_request_ready" \in Counted
  /\ At(p, "close_issue") => {"mark_pull_request_ready", "merge_pull_request"} \subseteq Counted
  /\ outcome[p] = "success" => Operation \subseteq Counted
  /\ transport[p] = "cli" => OverGh(p)

\* What is behind a request of the automation, counted as carried out or on its way.
GitHubOK ==
  /\ pr = "merged" => "merge_pull_request" \in carried
  /\ "close_issue" \in late \union Counted => "merge_pull_request" \in Counted
  /\ "merge_pull_request" \in late \union Counted => "mark_pull_request_ready" \in Counted

\* What must count as carried out before a request for op.
Due(op) ==
  /\ op = "merge_pull_request" => "mark_pull_request_ready" \in Counted
  /\ op = "close_issue" => {"mark_pull_request_ready", "merge_pull_request"} \subseteq Counted

IInv == TypeOK /\ GitHubOK /\ \A p \in Operator : Behind(p)

\* What no step takes away.
Keeps ==
  /\ carried \subseteq carried' /\ misread \subseteq misread' /\ (conflict => conflict')
  /\ Counted \subseteq Counted'

-----------------------------------------------------------------------------
LEMMA SelectionsType == Selections \subseteq Transport
BY DEF Selections, Select, Transport

LEMMA CountedKept ==
  ASSUME carried \subseteq carried', misread \subseteq misread', conflict => conflict'
  PROVE  Keeps
BY DEF Keeps, Counted

\* Nothing of what was observed changes.
LEMMA ObservedKept ==
  ASSUME UNCHANGED <<carried, conflict, misread>>
  PROVE  Keeps /\ Counted' = Counted
BY DEF Keeps, Counted

LEMMA KeptBehind ==
  ASSUME Keeps, NEW q, Behind(q), job'[q] = job[q], outcome'[q] = outcome[q],
         transport'[q] = transport[q]
  PROVE  Behind(q)'
BY DEF Keeps, Behind, OverGh, Busy, At

\* The calls other than p's, when p moves.
LEMMA OthersBehind ==
  ASSUME IInv, Keeps, NEW p \in Operator, Behind(p)',
         \A q \in Operator : q # p => /\ job'[q] = job[q] /\ outcome'[q] = outcome[q]
                                     /\ transport'[q] = transport[q]
  PROVE  \A q \in Operator : Behind(q)'
BY KeptBehind DEF IInv

\* p's call alone is written down, with values of their types.
Writes(p) ==
  /\ \E j \in [step : Operation \union {"idle"}, lost : 0..1] : job' = [job EXCEPT ![p] = j]
  /\ outcome' = outcome \/ \E s \in Status : outcome' = [outcome EXCEPT ![p] = s]

LEMMA WritesType ==
  ASSUME TypeOK, NEW p \in Operator, Writes(p)
  PROVE  /\ job' \in [Operator -> [step : Operation \union {"idle"}, lost : 0..1]]
         /\ outcome' \in [Operator -> Status]
         /\ \A q \in Operator : q # p => job'[q] = job[q] /\ outcome'[q] = outcome[q]
BY DEF TypeOK, Writes

LEMMA ReturnWrites ==
  ASSUME IInv, NEW p \in Operator, NEW s \in Status, Return(p, s)
  PROVE  Writes(p) /\ job'[p] = Idle /\ outcome'[p] = s
<1>1. Idle \in [step : Operation \union {"idle"}, lost : 0..1]
  BY DEF Idle
<1>2. job' = [job EXCEPT ![p] = Idle] /\ outcome' = [outcome EXCEPT ![p] = s]
  BY DEF Return
<1> QED BY <1>1, <1>2 DEF IInv, TypeOK, Writes

LEMMA ProceedWrites ==
  ASSUME IInv, NEW p \in Operator, NEW op \in Operation, Proceed(p, op)
  PROVE  Writes(p) /\ job'[p].step = op /\ outcome'[p] = outcome[p]
<1> DEFINE j == [step |-> op, lost |-> 0]
<1>1. j \in [step : Operation \union {"idle"}, lost : 0..1] /\ j.step = op
  OBVIOUS
<1>2. job' = [job EXCEPT ![p] = j] /\ outcome' = outcome
  BY DEF Proceed
<1> HIDE DEF j
<1> QED BY <1>1, <1>2 DEF IInv, TypeOK, Writes

\* A return that claims nothing.
LEMMA ReturnBehind ==
  ASSUME IInv, Keeps, NEW p \in Operator, NEW s \in Status, s # "success", Return(p, s)
  PROVE  Behind(p)'
BY ReturnWrites DEF Behind, OverGh, Busy, At, Idle

\* The operation under way counts as carried out; over gh, it was or it is a merge.
LEMMA CompletedBehind ==
  ASSUME IInv, Keeps, NEW p \in Operator, Busy(p), Completed(p), UNCHANGED transport,
         job[p].step \in Counted',
         transport[p] = "cli" =>
           job[p].step \in carried' \/ (At(p, "merge_pull_request") /\ conflict')
  PROVE  Writes(p) /\ Behind(p)'
<1>0. Behind(p) /\ outcome[p] = "none" /\ job[p].step \in Operation
  BY DEF IInv, TypeOK, Busy, Behind
<1>1. CASE At(p, "mark_pull_request_ready")
  <2>1. Proceed(p, "merge_pull_request")  BY <1>1 DEF Completed, At
  <2>2. /\ Writes(p) /\ job'[p].step = "merge_pull_request" /\ outcome'[p] = "none"
    BY <1>0, <2>1, ProceedWrites DEF Operation
  <2> QED BY <1>1, <2>2 DEF Behind, OverGh, At
<1>2. CASE At(p, "merge_pull_request")
  <2>1. Proceed(p, "close_issue")  BY <1>2 DEF Completed, At
  <2>2. /\ Writes(p) /\ job'[p].step = "close_issue" /\ outcome'[p] = "none"
    BY <1>0, <2>1, ProceedWrites DEF Operation
  <2> QED BY <1>0, <1>2, <2>2 DEF Behind, OverGh, At, Keeps
<1>3. CASE At(p, "close_issue")
  <2>1. Return(p, "success") /\ "success" \in Status  BY <1>3 DEF Completed, At, Status
  <2>2. /\ Writes(p) /\ job'[p].step = "idle" /\ outcome'[p] = "success"
    BY <2>1, ReturnWrites DEF Idle
  <2> QED BY <1>0, <1>3, <2>2 DEF Behind, OverGh, At, Keeps, Busy, Operation
<1> QED BY <1>0, <1>1, <1>2, <1>3 DEF Operation, At

LEMMA TimedOutBehind ==
  ASSUME IInv, Keeps, NEW p \in Operator, Busy(p), TimedOut(p), UNCHANGED transport
  PROVE  Writes(p) /\ Behind(p)'
<1>1. CASE job[p].lost = 0
  <2>1. job' = [job EXCEPT ![p].lost = 1] /\ outcome' = outcome  BY <1>1 DEF TimedOut
  <2>2. Writes(p) /\ job'[p].step = job[p].step
    <3> DEFINE j == [job[p] EXCEPT !.lost = 1]
    <3>1. /\ j \in [step : Operation \union {"idle"}, lost : 0..1] /\ j.step = job[p].step
          /\ job \in [Operator -> [step : Operation \union {"idle"}, lost : 0..1]]
      BY DEF IInv, TypeOK
    <3>2. job' = [job EXCEPT ![p] = j]
      BY <2>1
    <3> HIDE DEF j
    <3> QED BY <2>1, <3>1, <3>2 DEF Writes
  <2> QED BY <2>1, <2>2 DEF IInv, Behind, OverGh, Keeps, Busy, At
<1>2. CASE job[p].lost # 0
  <2>1. Return(p, "failed") /\ "failed" \in Status  BY <1>2 DEF TimedOut, Status
  <2> QED BY <2>1, ReturnWrites, ReturnBehind
<1> QED BY <1>1, <1>2

-----------------------------------------------------------------------------
(* GitHub.                                                                 *)

LEMMA CarryOutKeeps ==
  ASSUME IInv, NEW op \in Operation, CarryOut(op), Due(op),
         late' \subseteq late
  PROVE  /\ Keeps /\ GitHubOK' /\ op \in carried' /\ op \in Counted'
         /\ pr' \in {"draft", "ready", "merged", "closed"} /\ issue' \in {"open", "closed"}
         /\ carried' \subseteq Operation /\ conflict' = conflict /\ misread' = misread
<1>1. carried' = carried \union {op} /\ conflict' = conflict /\ misread' = misread
  BY DEF CarryOut
<1>2. Counted' = Counted \union {op}
  BY <1>1 DEF Counted
<1>3. Keeps
  BY <1>1, CountedKept
<1>4. pr' \in {"draft", "ready", "merged", "closed"} /\ issue' \in {"open", "closed"}
  BY DEF CarryOut, IInv, TypeOK
<1>5. pr' = "merged" => "merge_pull_request" \in carried'
  BY <1>1 DEF IInv, GitHubOK, CarryOut
<1>6. GitHubOK'
  BY <1>1, <1>2, <1>5 DEF IInv, GitHubOK, Due
<1> QED BY <1>1, <1>2, <1>3, <1>4, <1>6 DEF IInv, TypeOK

LEMMA DueBehind ==
  ASSUME IInv, NEW p \in Operator, Busy(p)
  PROVE  /\ job[p].step \in Operation
         /\ Due(job[p].step)
BY DEF IInv, TypeOK, Behind, Busy, At, Due

LEMMA SucceedsStep ==
  ASSUME IInv, NEW p \in Operator, Succeeds(p)
  PROVE  IInv'
<1>1. CarryOut(job[p].step) /\ Busy(p) /\ Completed(p) /\ UNCHANGED <<transport, late, calls>>
  BY DEF Succeeds
<1>2. PICK op \in Operation : op = job[p].step
  BY <1>1, DueBehind
<1>3. /\ Keeps /\ GitHubOK' /\ op \in carried' /\ op \in Counted'
      /\ pr' \in {"draft", "ready", "merged", "closed"} /\ issue' \in {"open", "closed"}
      /\ carried' \subseteq Operation /\ conflict' = conflict /\ misread' = misread
  BY <1>1, <1>2, DueBehind, CarryOutKeeps
<1>4. Writes(p) /\ Behind(p)'
  BY <1>1, <1>2, <1>3, CompletedBehind
<1> QED BY <1>1, <1>3, <1>4, WritesType, OthersBehind DEF IInv, TypeOK

\* An operation under way that is taken for done, though it was not carried out.
LEMMA TakenKeeps ==
  ASSUME IInv, NEW op \in Operation, Due(op), UNCHANGED <<pr, late, carried>>,
         misread \subseteq misread', conflict => conflict', Counted' \subseteq Counted \union {op}
  PROVE  Keeps /\ GitHubOK'
<1>1. Keeps
  BY CountedKept
<1> QED BY <1>1 DEF IInv, GitHubOK, Due, Keeps

LEMMA RefusesStep ==
  ASSUME IInv, NEW p \in Operator, Refuses(p)
  PROVE  IInv'
<1>0. UNCHANGED <<transport, late, calls, pr, issue, carried, misread>> /\ Busy(p)
  BY DEF Refuses, github
<1>1. CASE Return(p, "failed") /\ UNCHANGED conflict
  <2>1. Keeps /\ GitHubOK' /\ "failed" \in Status
    BY <1>0, <1>1, ObservedKept DEF IInv, GitHubOK, Status
  <2>2. Writes(p) /\ Behind(p)'
    BY <1>1, <2>1, ReturnWrites, ReturnBehind
  <2> QED BY <1>0, <1>1, <2>1, <2>2, WritesType, OthersBehind DEF IInv, TypeOK
<1>2. ASSUME At(p, "merge_pull_request"), NEW answer \in Refusals("merge_pull_request"),
             answer \in {"already merged", "409"}, Completed(p),
             conflict' = (conflict \/ answer = "409")
      PROVE  IInv'
  <2>1. Due("merge_pull_request") /\ "merge_pull_request" \in Operation /\ conflict' \in BOOLEAN
    BY <1>0, <1>2, DueBehind DEF At, IInv, TypeOK
  <2>2. (conflict => conflict') /\ Counted' \subseteq Counted \union {"merge_pull_request"}
    BY <1>0, <1>2 DEF Counted
  <2>3. Keeps /\ GitHubOK'
    BY <1>0, <2>1, <2>2, TakenKeeps
  <2>4. "merge_pull_request" \in carried' \/ conflict'
    BY <1>0, <1>2 DEF Refusals, IInv, GitHubOK
  <2>5. "merge_pull_request" \in Counted'
    BY <2>4 DEF Counted
  <2>6. Writes(p) /\ Behind(p)'
    BY <1>0, <1>2, <2>3, <2>4, <2>5, CompletedBehind DEF At
  <2> QED BY <1>0, <2>1, <2>3, <2>6, WritesType, OthersBehind DEF IInv, TypeOK
<1> QED BY <1>1, <1>2 DEF Refuses, TakenForMerged, At

LEMMA RefusalMisreadStep ==
  ASSUME IInv, NEW p \in Operator, RefusalMisread(p)
  PROVE  IInv'
<1>0. /\ UNCHANGED <<transport, late, calls, pr, issue, carried, conflict>> /\ Busy(p)
      /\ transport[p] = "mcp" /\ Completed(p)
  BY DEF RefusalMisread, github
<1>1. PICK op \in Operation : op = job[p].step /\ Due(op)
  BY <1>0, DueBehind
<1>2. misread' = misread \union {op}
  BY <1>1 DEF RefusalMisread
<1>3. Counted' = Counted \union {op}
  BY <1>0, <1>2 DEF Counted
<1>4. Keeps /\ GitHubOK'
  BY <1>0, <1>1, <1>2, <1>3, TakenKeeps
<1>5. Writes(p) /\ Behind(p)'
  BY <1>0, <1>1, <1>3, <1>4, CompletedBehind
<1> QED BY <1>0, <1>2, <1>4, <1>5, WritesType, OthersBehind DEF IInv, TypeOK

LEMMA LosesAnswerStep ==
  ASSUME IInv, NEW p \in Operator, LosesAnswer(p)
  PROVE  IInv'
<1>0. UNCHANGED <<transport, calls>> /\ Busy(p)
  BY DEF LosesAnswer
<1>1. /\ Keeps /\ GitHubOK' /\ late' \subseteq Operation
      /\ pr' \in {"draft", "ready", "merged", "closed"} /\ issue' \in {"open", "closed"}
      /\ carried' \subseteq Operation /\ conflict' = conflict /\ misread' = misread
  <2>1. PICK op \in Operation : op = job[p].step /\ Due(op)
    BY <1>0, DueBehind
  <2>2. CASE CarryOut(op) /\ UNCHANGED late
    BY <2>1, <2>2, CarryOutKeeps DEF IInv, TypeOK
  <2>3. CASE Nothing /\ late' \in {late, late \union {op}}
    BY <2>1, <2>3, ObservedKept DEF Nothing, github, observed, IInv, TypeOK, GitHubOK, Due
  <2> QED BY <2>1, <2>2, <2>3 DEF LosesAnswer
<1>2. Writes(p) /\ Behind(p)'
  <2>1. CASE TimedOut(p)
    BY <1>0, <1>1, <2>1, TimedOutBehind
  <2>2. CASE Return(p, "failed")
    <3>1. "failed" \in Status  BY DEF Status
    <3> QED BY <1>1, <2>2, <3>1, ReturnWrites, ReturnBehind
  <2> QED BY <2>1, <2>2 DEF LosesAnswer
<1> QED BY <1>0, <1>1, <1>2, WritesType, OthersBehind DEF IInv, TypeOK

\* No call moves, and nothing is taken away.
LEMMA CallsUntouched ==
  ASSUME IInv, Keeps, UNCHANGED <<transport, job, outcome>>
  PROVE  \A q \in Operator : Behind(q)'
BY KeptBehind DEF IInv

LEMMA LateArrivalStep ==
  ASSUME IInv, NEW op \in Operation, LateArrival(op)
  PROVE  IInv'
<1>0. /\ op \in late /\ late' = late \ {op} /\ UNCHANGED <<transport, job, outcome, calls>>
      /\ CarryOut(op) \/ Nothing
  BY DEF LateArrival
<1>1. CASE CarryOut(op)
  <2>1. Due(op)
    BY <1>0 DEF IInv, GitHubOK, Due
  <2>2. late' \subseteq late
    BY <1>0
  <2> QED BY <1>0, <1>1, <2>1, <2>2, CarryOutKeeps, CallsUntouched DEF IInv, TypeOK
<1>2. CASE Nothing
  <2>1. Keeps /\ GitHubOK'
    BY <1>0, <1>2, ObservedKept DEF Nothing, github, observed, IInv, GitHubOK
  <2> QED BY <1>0, <1>2, <2>1, CallsUntouched DEF IInv, TypeOK, Nothing, github, observed
<1> QED BY <1>0, <1>1, <1>2

LEMMA OthersStep ==
  ASSUME IInv, Others
  PROVE  IInv'
<1>1. Keeps /\ GitHubOK'
  BY ObservedKept DEF Others, observed, IInv, GitHubOK
<1> QED BY <1>1, CallsUntouched DEF Others, observed, IInv, TypeOK

-----------------------------------------------------------------------------
(* The function's entry and its ends.                                      *)

LEMMA ApplyStep ==
  ASSUME IInv, NEW p \in Operator, Apply(p)
  PROVE  IInv'
<1>0. /\ UNCHANGED <<transport, pr, issue, late, carried, conflict, misread>> /\ ~Busy(p)
      /\ calls' \in 0..MaxCalls
  BY MaxCallsAssumption DEF Apply, github, observed, IInv, TypeOK
<1>1. Keeps /\ GitHubOK'
  BY <1>0, ObservedKept DEF IInv, GitHubOK
<1>2. CASE /\ outcome' = [outcome EXCEPT ![p] = "none"]
           /\ job' = [job EXCEPT ![p].step = "mark_pull_request_ready"]
  <2>1. Writes(p) /\ job'[p].step = "mark_pull_request_ready" /\ outcome'[p] = "none"
    BY <1>2 DEF IInv, TypeOK, Writes, Operation, Status
  <2>2. Behind(p)'
    BY <2>1 DEF Behind, OverGh, At
  <2> QED BY <1>0, <1>1, <2>1, <2>2, WritesType, OthersBehind DEF IInv, TypeOK
<1>3. ASSUME NEW early \in {"skipped", "failed", "raised"},
             outcome' = [outcome EXCEPT ![p] = early], job' = job
      PROVE  IInv'
  <2>1. /\ job' \in [Operator -> [step : Operation \union {"idle"}, lost : 0..1]]
        /\ outcome' \in [Operator -> Status] /\ outcome'[p] = early
        /\ \A q \in Operator : q # p => job'[q] = job[q] /\ outcome'[q] = outcome[q]
    BY <1>3 DEF IInv, TypeOK, Status
  <2>2. Behind(p)'
    BY <1>0, <1>3, <2>1 DEF Behind, OverGh, Busy, At
  <2> QED BY <1>0, <1>1, <2>1, <2>2, OthersBehind DEF IInv, TypeOK
<1> QED BY <1>2, <1>3 DEF Apply

LEMMA ExitStep ==
  ASSUME IInv, NEW p \in Operator, Exit(p)
  PROVE  IInv'
<1>1. Return(p, "none") /\ "none" \in Status
  BY DEF Exit, Return, Status
<1>2. Keeps /\ GitHubOK' /\ UNCHANGED <<pr, issue, late, carried, conflict, misread, calls>>
  BY ObservedKept DEF Exit, github, observed, IInv, GitHubOK
<1>3. Writes(p) /\ Behind(p)'
  BY <1>1, <1>2, ReturnWrites, ReturnBehind
<1>4. /\ transport' \in [Operator -> Transport]
      /\ \A q \in Operator : q # p => transport'[q] = transport[q]
  BY SelectionsType DEF Exit, IInv, TypeOK
<1> QED BY <1>2, <1>3, <1>4, WritesType, OthersBehind DEF IInv, TypeOK

-----------------------------------------------------------------------------
(* The invariant, and what follows from it.                                *)

LEMMA InitIInv == Init => IInv
<1> SUFFICES ASSUME Init PROVE IInv
  OBVIOUS
<1>1. TypeOK
  <2>1. transport \in [Operator -> Transport]
    BY SelectionsType DEF Init
  <2>2. job \in [Operator -> [step : Operation \union {"idle"}, lost : 0..1]]
    BY DEF Init, Idle
  <2>3. outcome \in [Operator -> Status]
    BY DEF Init, Status
  <2>4. calls \in 0..MaxCalls
    BY MaxCallsAssumption DEF Init
  <2>5. /\ pr \in {"draft", "ready", "merged", "closed"} /\ issue \in {"open", "closed"}
        /\ late \subseteq Operation /\ carried \subseteq Operation /\ conflict \in BOOLEAN
        /\ misread \subseteq Operation
    BY DEF Init
  <2> QED BY <2>1, <2>2, <2>3, <2>4, <2>5 DEF TypeOK
<1>2. GitHubOK
  BY DEF Init, GitHubOK, Counted
<1>3. \A p \in Operator : Behind(p)
  BY DEF Init, Behind, OverGh, Busy, At, Idle
<1> QED BY <1>1, <1>2, <1>3 DEF IInv

LEMMA NextIInv == IInv /\ [Next]_vars => IInv'
<1> SUFFICES ASSUME IInv, [Next]_vars PROVE IInv'
  OBVIOUS
<1>1. ASSUME NEW p \in Operator, Apply(p) \/ Advance(p) \/ Exit(p) PROVE IInv'
  BY <1>1, ApplyStep, ExitStep, SucceedsStep, RefusesStep, RefusalMisreadStep, LosesAnswerStep
     DEF Advance
<1>2. ASSUME NEW op \in Operation, LateArrival(op) PROVE IInv'
  BY <1>2, LateArrivalStep
<1>3. CASE Others
  BY <1>3, OthersStep
<1>4. CASE UNCHANGED vars
  <2>1. Keeps /\ GitHubOK'
    BY <1>4, ObservedKept DEF vars, github, observed, IInv, GitHubOK
  <2> QED BY <1>4, <2>1, CallsUntouched DEF vars, github, observed, IInv, TypeOK
<1> QED BY <1>1, <1>2, <1>3, <1>4 DEF Next

LEMMA AlwaysIInv == Spec => []IInv
BY InitIInv, NextIInv, PTL DEF Spec

\* The variables keep their types: a call has lost at most one answer, and there is
\* never a request other than the three of the automation.
THEOREM PostReviewTypeCorrect == Spec => []TypeOK
<1>1. IInv => TypeOK
  BY DEF IInv
<1> QED BY <1>1, AlwaysIInv, PTL

\* A reported success was one: each operation was carried out by some request, or counts as
\* carried out for a 409 to a merge or a refusal that MCP hands over as a result; over gh,
\* only the merge may, and only for a 409. Whatever answers are lost and however many calls
\* overlap (apply_post_review_automation, _execute_with_retry, _call_mcp_tool).
THEOREM SuccessWasDone == Spec => []SuccessIsDone
<1>1. IInv => SuccessIsDone
  BY DEF IInv, Behind, OverGh, SuccessIsDone
<1> QED BY <1>1, AlwaysIInv, PTL

\* The issue is not closed for a pull request that was not merged, not even by a request
\* that arrives late, but for the merges that were answered 409 and the refusals that MCP
\* hands over as results.
THEOREM IssueClosedAfterMerge == Spec => []ClosedAfterMerge
<1>1. IInv => ClosedAfterMerge
  BY DEF IInv, GitHubOK, Counted, ClosedAfterMerge
<1> QED BY <1>1, AlwaysIInv, PTL

-----------------------------------------------------------------------------
(* The automation lands a change as Landing has it: each step is a step of *)
(* Landing or none.                                                        *)

Told == { p \in Operator : outcome[p] = "success" }

Sim == [Promise!Next]_(Promise!vars)

\* Whoever is at an operation has not been told, and is told by what ends it only.
LEMMA ToldByEnding ==
  ASSUME IInv, NEW p \in Operator, NEW s \in Status
  PROVE  /\ outcome' = outcome => Told' = Told
         /\ s # "success" /\ outcome' = [outcome EXCEPT ![p] = s] => Told' = Told \ {p}
         /\ outcome' = [outcome EXCEPT ![p] = "success"] => Told' = Told \union {p}
         /\ Busy(p) => Told \ {p} = Told
BY DEF IInv, TypeOK, Behind, Told

\* An operation that ends without a success tells nobody anything.
LEMMA QuietReturn ==
  ASSUME IInv, NEW p \in Operator, Busy(p), NEW s \in Status, s # "success", Return(p, s)
  PROVE  Told' = Told
<1>1. outcome' = [outcome EXCEPT ![p] = s]
  BY DEF Return
<1>2. Told' = Told \ {p} /\ Told \ {p} = Told
  BY <1>1, ToldByEnding
<1> QED BY <1>2

LEMMA QuietTimeout ==
  ASSUME IInv, NEW p \in Operator, Busy(p), TimedOut(p)
  PROVE  Told' = Told
<1>1. "failed" \in Status  BY DEF Status
<1> QED BY <1>1, ToldByEnding, QuietReturn DEF TimedOut

\* The steps that Landing takes to be believed.
Believed == Counted \ carried

\* A step of the automation goes over those that Landing has before it.
LEMMA DueIsDue ==
  ASSUME NEW op \in Operation, Due(op)
  PROVE  Promise!Due(op)
<1>1. Promise!Counted = Counted
  BY DEF Promise!Counted, Counted
<1> QED BY <1>1 DEF Promise!Due, Promise!Before, Due, Operation

LEMMA CarriedOut ==
  ASSUME NEW op, CarryOut(op)
  PROVE  /\ Promise!Take(op) /\ Promise!Counted' = Counted \union {op}
         /\ carried' = carried \union {op}
<1>1. carried' = carried \union {op} /\ conflict' = conflict /\ misread' = misread
  BY DEF CarryOut
<1>2. Counted' = Counted \union {op}
  BY <1>1 DEF Counted
<1>3. carried' \union (Counted \ carried)' = Counted'
  BY DEF Counted
<1>4. Promise!Counted' = Counted'
  BY <1>3 DEF Promise!Counted
<1>5. (Counted \ carried)' = (Counted \ carried) \ {op}
  BY <1>1, <1>2
<1>6. Promise!Take(op)
  BY <1>1, <1>5 DEF Promise!Take
<1> QED BY <1>1, <1>2, <1>4, <1>6

\* A request that is carried out, whoever sent it and whether or not anybody is told.
LEMMA CarryOutSim ==
  ASSUME IInv, NEW op \in Operation, CarryOut(op), Due(op),
         \/ Told' = Told
         \/ op = "close_issue" /\ \E p \in Operator : Told' = Told \union {p}
  PROVE  Sim
<1>0. Promise!Take(op) /\ Promise!Counted' = Counted \union {op} /\ Promise!Due(op)
  BY CarriedOut, DueIsDue
<1>1. CASE op = "mark_pull_request_ready"
  <2>1. Promise!MarkReady
    BY <1>0, <1>1 DEF CarryOut, Possible, Promise!MarkReady, Told
  <2> QED BY <2>1 DEF Sim, Promise!Next
<1>2. CASE op = "merge_pull_request"
  <2>1. Promise!Merge
    BY <1>0, <1>2 DEF CarryOut, Possible, Promise!Merge, Told
  <2> QED BY <2>1 DEF Sim, Promise!Next
<1>3. CASE op = "close_issue"
  <2>1. issue' = "closed" /\ UNCHANGED pr
    BY <1>3 DEF CarryOut
  <2>2. Promise!Step \subseteq Promise!Counted'
    BY <1>0, <1>3 DEF Due, Promise!Step
  <2>3. Promise!Tell
    BY <1>3, <2>2 DEF Promise!Tell, Told
  <2>4. Promise!Close
    BY <1>0, <1>3, <2>1, <2>3 DEF Promise!Close
  <2> QED BY <2>4 DEF Sim, Promise!Next
<1> QED BY <1>1, <1>2, <1>3 DEF Operation

\* An operation under way that is taken for done.
LEMMA TakenSim ==
  ASSUME IInv, NEW op \in Operation, Due(op), UNCHANGED <<github, carried>>,
         Counted' = Counted \union {op},
         \/ Told' = Told
         \/ op = "close_issue" /\ \E p \in Operator : Told' = Told \union {p}
  PROVE  Sim
<1>1. Promise!Due(op) /\ Promise!Counted' = Counted'
  BY DueIsDue DEF Promise!Counted, Counted
<1>2. Believed' = Believed \union ({op} \ carried)
  BY DEF Believed
<1>3. op = "close_issue" => Promise!Tell
  BY <1>1 DEF Due, Promise!Tell, Promise!Step, Told
<1>4. Promise!Believe(op)
  BY <1>1, <1>2, <1>3 DEF Promise!Believe, github, Believed, Told
<1> QED BY <1>4 DEF Sim, Promise!Next, Promise!Step, Operation

LEMMA NothingSim ==
  ASSUME Nothing, Told' = Told
  PROVE  Sim
<1>1. UNCHANGED <<pr, issue, carried, Counted>>
  BY ObservedKept DEF Nothing, github, observed
<1> QED BY <1>1 DEF Sim, Promise!vars, Told

\* Who is told when an operation is completed.
LEMMA CompletedTold ==
  ASSUME IInv, NEW p \in Operator, NEW op \in Operation, op = job[p].step, Completed(p)
  PROVE  \/ Told' = Told
         \/ op = "close_issue" /\ \E q \in Operator : Told' = Told \union {q}
<1>0. "none" \in Status  BY DEF Status
<1>1. CASE op # "close_issue"
  <2>1. outcome' = outcome
    BY <1>1 DEF Completed, Proceed, At, Operation
  <2> QED BY <1>0, <2>1, ToldByEnding
<1>2. CASE op = "close_issue"
  <2>1. outcome' = [outcome EXCEPT ![p] = "success"]
    BY <1>2 DEF Completed, At, Return
  <2> QED BY <1>0, <1>2, <2>1, ToldByEnding
<1> QED BY <1>1, <1>2

LEMMA SucceedsSim ==
  ASSUME IInv, NEW p \in Operator, Succeeds(p)
  PROVE  Sim
<1>0. Busy(p) /\ CarryOut(job[p].step) /\ Completed(p)
  BY DEF Succeeds
<1>1. PICK op \in Operation : op = job[p].step /\ Due(op)
  BY <1>0, DueBehind
<1> QED BY <1>0, <1>1, CompletedTold, CarryOutSim

LEMMA RefusesSim ==
  ASSUME IInv, NEW p \in Operator, Refuses(p)
  PROVE  Sim
<1>0. Busy(p) /\ UNCHANGED <<github, carried, misread>> /\ "failed" \in Status
  BY DEF Refuses, Status
<1>1. CASE Return(p, "failed") /\ UNCHANGED conflict
  <2>1. Nothing
    BY <1>0, <1>1 DEF Nothing, observed
  <2> QED BY <1>0, <1>1, <2>1, QuietReturn, NothingSim
<1>2. ASSUME At(p, "merge_pull_request"), NEW answer \in Refusals("merge_pull_request"),
             answer \in {"already merged", "409"}, Completed(p),
             conflict' = (conflict \/ answer = "409")
      PROVE  Sim
  <2>1. PICK op \in Operation : op = job[p].step /\ Due(op) /\ op = "merge_pull_request"
    BY <1>0, <1>2, DueBehind DEF At
  <2>2. "merge_pull_request" \in carried' \/ conflict'
    BY <1>0, <1>2 DEF Refusals, IInv, GitHubOK
  <2>3. Counted' = Counted \union {op}
    BY <1>0, <1>2, <2>1, <2>2 DEF Counted
  <2> QED BY <1>0, <1>2, <2>1, <2>3, CompletedTold, TakenSim
<1> QED BY <1>1, <1>2 DEF Refuses, TakenForMerged, At

LEMMA RefusalMisreadSim ==
  ASSUME IInv, NEW p \in Operator, RefusalMisread(p)
  PROVE  Sim
<1>0. /\ Busy(p) /\ Completed(p) /\ UNCHANGED <<github, carried, conflict>>
      /\ misread' = misread \union {job[p].step}
  BY DEF RefusalMisread
<1>1. PICK op \in Operation : op = job[p].step /\ Due(op)
  BY <1>0, DueBehind
<1>2. Counted' = Counted \union {op}
  BY <1>0, <1>1 DEF Counted
<1> QED BY <1>0, <1>1, <1>2, CompletedTold, TakenSim

LEMMA LosesAnswerSim ==
  ASSUME IInv, NEW p \in Operator, LosesAnswer(p)
  PROVE  Sim
<1>0. Busy(p) /\ "failed" \in Status
  BY DEF LosesAnswer, Status
<1>1. Told' = Told
  BY <1>0, QuietTimeout, QuietReturn DEF LosesAnswer
<1>2. PICK op \in Operation : op = job[p].step /\ Due(op)
  BY <1>0, DueBehind
<1> QED BY <1>1, <1>2, CarryOutSim, NothingSim DEF LosesAnswer

LEMMA LateArrivalSim ==
  ASSUME IInv, NEW op \in Operation, LateArrival(op)
  PROVE  Sim
<1>1. Due(op) /\ Told' = Told
  BY DEF LateArrival, IInv, GitHubOK, Due, Told
<1> QED BY <1>1, CarryOutSim, NothingSim DEF LateArrival

\* Callers come and go; who had been told is forgotten.
LEMMA CallerSim ==
  ASSUME IInv, NEW p \in Operator, Apply(p) \/ Exit(p)
  PROVE  Sim
<1>0. Nothing
  BY DEF Apply, Exit, Nothing
<1>1. PICK s \in Status \ {"success"} : outcome' = [outcome EXCEPT ![p] = s]
  BY DEF Apply, Exit, Status
<1>2. Told' = Told \ {p}
  BY <1>1, ToldByEnding
<1>3. Promise!Forget(p)
  BY <1>0, <1>2, ObservedKept DEF Promise!Forget, Nothing, github, observed, Told
<1> QED BY <1>3 DEF Sim, Promise!Next

LEMMA OthersSim ==
  ASSUME IInv, Others
  PROVE  Sim
<1>1. Promise!People
  BY ObservedKept DEF Others, observed, Promise!People
<1> QED BY <1>1 DEF Sim, Promise!Next

LEMMA NextSim == IInv /\ [Next]_vars => Sim
<1> SUFFICES ASSUME IInv, [Next]_vars PROVE Sim
  OBVIOUS
<1>1. CASE UNCHANGED vars
  <2>1. Nothing /\ Told' = Told
    BY <1>1 DEF vars, Nothing, Told
  <2> QED BY <2>1, NothingSim
<1>2. CASE Next
  BY <1>2, SucceedsSim, RefusesSim, RefusalMisreadSim, LosesAnswerSim, LateArrivalSim,
     CallerSim, OthersSim
     DEF Next, Advance
<1> QED BY <1>1, <1>2

\* For any number of callers and calls, whatever is lost, misread, repeated or late: the
\* change lands in the three steps of Landing, each over the ones before or over what was
\* taken for them, and its landing is told after all three (apply_post_review_automation
\* and the clients under it).
THEOREM PostReviewImplementsLanding == Spec => ImplementsLanding
<1>1. Init => Promise!Init
  BY DEF Init, Promise!Init, Counted
<1>2. IInv /\ [Next]_vars => [Promise!Next]_(Promise!vars)
  BY NextSim DEF Sim
<1> QED BY <1>1, <1>2, AlwaysIInv, PTL DEF Spec, ImplementsLanding, Promise!Spec
=============================================================================
