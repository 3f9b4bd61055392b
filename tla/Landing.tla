------------------------------- MODULE Landing -------------------------------
(***************************************************************************)
(* What post-review automation promises of GitHub, without calls, answers, *)
(* repetitions or transports: an approved change lands in three steps, one *)
(* over the other, and only those who saw all three are told that it did.  *)
(***************************************************************************)

CONSTANT Operator

VARIABLES
  pr, issue,  \* GitHub: the pull request and the source issue
  landed,     \* the steps that were taken
  believed,   \* the others that are counted as taken, on an answer that said no
  told        \* who has been told that the change has landed

vars == <<pr, issue, landed, believed, told>>

Step == {"mark_pull_request_ready", "merge_pull_request", "close_issue"}

\* The steps a step goes over.
Before(step) ==
  CASE step = "mark_pull_request_ready" -> {}
    [] step = "merge_pull_request"      -> {"mark_pull_request_ready"}
    [] step = "close_issue"             -> {"mark_pull_request_ready", "merge_pull_request"}

Counted    == landed \union believed
Due(step)  == Before(step) \subseteq Counted
Take(step) == landed' = landed \union {step} /\ believed' = believed \ {step}

Init == pr = "draft" /\ issue = "open" /\ landed = {} /\ believed = {} /\ told = {}

\* Each step may be taken again; none takes back what another did.
MarkReady ==
  /\ pr # "closed"
  /\ pr' = IF pr = "draft" THEN "ready" ELSE pr
  /\ Take("mark_pull_request_ready")
  /\ UNCHANGED <<issue, told>>

Merge ==
  /\ Due("merge_pull_request")
  /\ pr = "ready" /\ pr' = "merged"
  /\ Take("merge_pull_request")
  /\ UNCHANGED <<issue, told>>

\* The one who takes the last step, or believes that it is taken, may be told at once.
Tell == told' = told \/ \E p \in Operator : Step \subseteq Counted' /\ told' = told \union {p}

Close ==
  /\ Due("close_issue")
  /\ issue' = "closed"
  /\ Take("close_issue")
  /\ Tell
  /\ UNCHANGED pr

Believe(step) ==
  /\ Due(step)
  /\ believed' = believed \union ({step} \ landed)
  /\ IF step = "close_issue" THEN Tell ELSE UNCHANGED told
  /\ UNCHANGED <<pr, issue, landed>>

\* Whoever asks again, or is gone, has not been told.
Forget(p) == told' = told \ {p} /\ UNCHANGED <<pr, issue, landed, believed>>

\* People do what they like, but leave merging to the automation.
People ==
  /\ pr = "merged" => pr' = "merged"
  /\ pr # "merged" => pr' # "merged"
  /\ UNCHANGED <<landed, believed, told>>

Next ==
  \/ MarkReady \/ Merge \/ Close
  \/ \E step \in Step : Believe(step)
  \/ \E p \in Operator : Forget(p)
  \/ People

Spec == Init /\ [][Next]_vars
=============================================================================
