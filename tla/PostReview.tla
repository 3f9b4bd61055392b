----------------------------- MODULE PostReview -----------------------------
(***************************************************************************)
(* What follows an approved review: apply_post_review_automation           *)
(* (publishing.py) marks the pull request ready, merges it and closes the  *)
(* issue, over the transport that github_transport.py selects and with the *)
(* answers the clients of github_client.py make of GitHub's.               *)
(*                                                                         *)
(* Every call of GitHub is one step, in which it is carried out or not and *)
(* its answer arrives or not. A request whose answer timed out may be      *)
(* carried out later still. Nothing under src/ calls the function yet: a   *)
(* process is any caller of it, which may call it again when it failed.    *)
(***************************************************************************)
EXTENDS Naturals

CONSTANTS
  Operator,
  MaxCalls       \* bound: calls of the automation in a behaviour

ASSUME MaxCallsAssumption == MaxCalls \in Nat

VARIABLES
  transport,     \* transport[p]: what the process resolved, cached while it lives
  job,           \* job[p]: the operation under way and the answers lost so far
  outcome,       \* outcome[p]: the PostReviewAutomationResult of its last call
  pr, issue,     \* GitHub: the pull request and the source issue
  late,          \* requests given up by their senders and still on their way
  carried,       \* operations some request of the automation carried out (observed)
  conflict,      \* a 409 was taken for a merge (observed)
  misread,       \* operations of which a refusal was taken for a success (observed)
  calls          \* counter (bounds the model)

github   == <<pr, issue>>
observed == <<carried, conflict, misread>>
vars     == <<transport, job, outcome, github, late, observed, calls>>

Operation == {"mark_pull_request_ready", "merge_pull_request", "close_issue"}
Transport == {"mcp", "cli", "none"}

Status == {"none", "skipped", "success", "failed", "raised"}

Idle == [step |-> "idle", lost |-> 0]

Busy(p)   == job[p].step # "idle"
At(p, op) == job[p].step = op

\* Slip: the mode asked for is taken for the transport.
SelectAsAsked(mode, mcp, gh) ==
  IF mcp \/ gh THEN mode ELSE "none"

\* GITHUB_TRANSPORT asks for one of the two or, by default, for either.
Select(mode, mcp, gh) ==
  IF mode \in {"auto", "mcp"} /\ mcp THEN "mcp"
  ELSE IF mode \in {"auto", "cli"} /\ gh THEN "cli"
  ELSE "none"

\* A mode that is misspelt selects nothing.
Selections ==
  { Select(mode, mcp, gh) : mode \in {"auto", "mcp", "cli", "misspelt"},
                            mcp \in BOOLEAN, gh \in BOOLEAN }

Init ==
  /\ transport \in [Operator -> Selections]
  /\ job = [p \in Operator |-> Idle]
  /\ outcome = [p \in Operator |-> "none"]
  /\ pr = "draft" /\ issue = "open"
  /\ late = {} /\ carried = {} /\ conflict = FALSE /\ misread = {} /\ calls = 0

-----------------------------------------------------------------------------
(* The function's entry and its ends.                                      *)

\* Early returns: not approved; no run record, no review result or one without its pull
\* request. A client that cannot be made raises past the function: no token, no transport.
Apply(p) ==
  /\ ~Busy(p) /\ calls < MaxCalls
  /\ calls' = calls + 1
  /\ \/ /\ outcome' = [outcome EXCEPT ![p] = "none"]
        /\ transport[p] # "none"
        /\ job' = [job EXCEPT ![p].step = "mark_pull_request_ready"]
     \/ /\ \E early \in {"skipped", "failed", "raised"} :
             outcome' = [outcome EXCEPT ![p] = early]
        /\ UNCHANGED job
  /\ UNCHANGED <<transport, github, late, observed>>

Return(p, status) ==
  /\ outcome' = [outcome EXCEPT ![p] = status]
  /\ job' = [job EXCEPT ![p] = Idle]

Proceed(p, op) ==
  /\ job' = [job EXCEPT ![p] = [step |-> op, lost |-> 0]]
  /\ UNCHANGED outcome

\* Slip: the issue is closed first.
CompletedClosing(p) ==
  CASE At(p, "mark_pull_request_ready") -> Proceed(p, "close_issue")
    [] At(p, "close_issue")             -> Proceed(p, "merge_pull_request")
    [] At(p, "merge_pull_request")      -> Return(p, "success")

\* The operation is among operations_completed; the next one follows.
Completed(p) ==
  CASE At(p, "mark_pull_request_ready") -> Proceed(p, "merge_pull_request")
    [] At(p, "merge_pull_request")      -> Proceed(p, "close_issue")
    [] At(p, "close_issue")             -> Return(p, "success")

\* Slip: after a second timeout the automation goes on.
TimedOutGoingOn(p) ==
  IF job[p].lost = 0
  THEN job' = [job EXCEPT ![p].lost = 1] /\ UNCHANGED outcome
  ELSE Completed(p)

\* Slip: every timeout is followed by another attempt.
TimedOutForever(p) ==
  job' = [job EXCEPT ![p].lost = 1] /\ UNCHANGED outcome

\* _execute_with_retry: one more attempt after a timeout.
TimedOut(p) ==
  IF job[p].lost = 0
  THEN job' = [job EXCEPT ![p].lost = 1] /\ UNCHANGED outcome
  ELSE Return(p, "failed")

-----------------------------------------------------------------------------
(* GitHub.                                                                 *)

\* What a request does when it is carried out, and whether it can be.
Possible(op) ==
  CASE op = "mark_pull_request_ready" -> pr # "closed"
    [] op = "merge_pull_request"      -> pr = "ready"
    [] op = "close_issue"             -> TRUE

CarryOut(op) ==
  /\ Possible(op)
  /\ pr' = CASE op = "mark_pull_request_ready" /\ pr = "draft" -> "ready"
             [] op = "merge_pull_request" -> "merged"
             [] OTHER -> pr
  /\ issue' = IF op = "close_issue" THEN "closed" ELSE issue
  /\ carried' = carried \union {op}
  /\ UNCHANGED <<conflict, misread>>

Nothing == UNCHANGED <<github, observed>>

\* How GitHub refuses: for want of a right, of the object or of a state that allows it. Of
\* a merge it may say that it is done already, that it cannot be, or that something
\* changed meanwhile.
Refusals(op) ==
  IF op # "merge_pull_request" THEN {"refused"}
  ELSE {"405", "409"} \union (IF pr = "merged" THEN {"already merged"} ELSE {})

\* The two of merge_pull_request that count as a merge, in an error that has the words.
TakenForMerged(op, answer) ==
  op = "merge_pull_request" /\ answer \in {"already merged", "409"}

Succeeds(p) ==
  /\ Busy(p)
  /\ CarryOut(job[p].step)
  /\ Completed(p)
  /\ UNCHANGED <<transport, late, calls>>

\* The refusal reaches the code as an error with GitHub's words in it: always by gh, and
\* by MCP where its library raises.
Refuses(p) ==
  /\ Busy(p)
  /\ \E answer \in Refusals(job[p].step) :
       IF TakenForMerged(job[p].step, answer)
       THEN Completed(p) /\ conflict' = (conflict \/ answer = "409")
       ELSE Return(p, "failed") /\ UNCHANGED conflict
  /\ UNCHANGED <<transport, github, late, carried, misread, calls>>

\* Or as the result of an MCP tool, whose error flag nobody looks at: JSON, or nothing at
\* all, is taken for success.
RefusalMisread(p) ==
  /\ Busy(p) /\ transport[p] = "mcp"
  /\ misread' = misread \union {job[p].step}
  /\ Completed(p)
  /\ UNCHANGED <<transport, github, late, carried, conflict, calls>>

\* The answer is lost or cannot be read, as MCP's are that are plain text, whatever they
\* say. Some errors of MCP are called a timeout, in the words that are looked for; gh's are
\* numbers, and end the automation.
LosesAnswer(p) ==
  /\ Busy(p)
  /\ \/ CarryOut(job[p].step) /\ UNCHANGED late
     \/ Nothing /\ late' \in {late, late \union {job[p].step}}
  /\ \/ transport[p] = "mcp" /\ TimedOut(p)
     \/ Return(p, "failed")
  /\ UNCHANGED <<transport, calls>>

LateArrival(op) ==
  /\ op \in late
  /\ late' = late \ {op}
  /\ CarryOut(op) \/ Nothing
  /\ UNCHANGED <<transport, job, outcome, calls>>

\* People close and reopen what they like, but leave merging to the automation.
Others ==
  /\ \/ pr' \in {"draft", "ready", "closed"} /\ pr # "merged" /\ UNCHANGED issue
     \/ issue' \in {"open", "closed"} /\ UNCHANGED pr
  /\ UNCHANGED <<transport, job, outcome, late, observed, calls>>

\* The caller's process ends; the next one resolves its transport anew.
Exit(p) ==
  /\ job' = [job EXCEPT ![p] = Idle]
  /\ outcome' = [outcome EXCEPT ![p] = "none"]
  /\ \E t \in Selections : transport' = [transport EXCEPT ![p] = t]
  /\ UNCHANGED <<github, late, observed, calls>>

-----------------------------------------------------------------------------
Advance(p) == Succeeds(p) \/ Refuses(p) \/ RefusalMisread(p) \/ LosesAnswer(p)

Next ==
  \/ \E p \in Operator : Apply(p) \/ Advance(p) \/ Exit(p)
  \/ \E op \in Operation : LateArrival(op)
  \/ Others

\* Every call of GitHub is answered or given up at last.
Spec == Init /\ [][Next]_vars /\ \A p \in Operator : WF_vars(Advance(p))

-----------------------------------------------------------------------------
(* Properties.                                                             *)

TypeOK ==
  /\ transport \in [Operator -> Transport]
  /\ job \in [Operator -> [step : Operation \union {"idle"}, lost : 0..1]]
  /\ outcome \in [Operator -> Status]
  /\ pr \in {"draft", "ready", "merged", "closed"} /\ issue \in {"open", "closed"}
  /\ late \subseteq Operation /\ carried \subseteq Operation
  /\ conflict \in BOOLEAN /\ misread \subseteq Operation /\ calls \in 0..MaxCalls

\* The operations that some caller counts among the completed ones.
Counted ==
  carried \union misread \union (IF conflict THEN {"merge_pull_request"} ELSE {})

\* A reported success was one: each of the three operations was carried out by some
\* request, whatever answers were lost in between. Over gh only a merge may rest on a 409,
\* which says that it was not; over MCP an operation may rest on a refusal taken for a
\* success (apply_post_review_automation, _execute_with_retry, _call_mcp_tool).
SuccessIsDone ==
  \A p \in Operator : outcome[p] = "success" =>
    /\ Operation \subseteq Counted
    /\ transport[p] = "cli" =>
         /\ {"mark_pull_request_ready", "close_issue"} \subseteq carried
         /\ "merge_pull_request" \in carried \/ conflict

\* The issue is never closed by the automation for a pull request it did not merge, not
\* even by a request that arrives late, but for the merges that were answered 409 and the
\* refusals that MCP hands over as results.
ClosedAfterMerge ==
  "close_issue" \in carried => "merge_pull_request" \in Counted

\* The change as Landing sees it.
Promise == INSTANCE Landing WITH landed <- carried, believed <- Counted \ carried,
                                 told <- { p \in Operator : outcome[p] = "success" }

\* However many callers repeat which calls, over whatever transport and with whatever is
\* lost or late: GitHub is moved by people, or by the three steps of the automation in
\* their order, each over the ones before or over what was taken for them, and success is
\* told of all three only (apply_post_review_automation, _execute_with_retry,
\* merge_pull_request, _call_mcp_tool).
ImplementsLanding == Promise!Spec

\* The automation ends, whatever times out.
Concludes == \A p \in Operator : Busy(p) ~> ~Busy(p)
=============================================================================
