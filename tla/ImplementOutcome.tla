-------------------------- MODULE ImplementOutcome --------------------------
(***************************************************************************)
(* What one implement stage can come to, as its caller sees it: Workflow   *)
(* takes any of these in one step, RepairLoop works them out.              *)
(***************************************************************************)

\* How the repair ended ("none": nothing was repaired), whether QA results were
\* written, and whether evaluation and governance approve. A run whose repair ended
\* without a result can be approved on the QA of an earlier iteration of the repair
\* loop; docs remediation writes no QA result.
Outcomes ==
  { o \in [repair : {"none", "completed", "incomplete"}, qa : BOOLEAN,
           approved : BOOLEAN] :
      /\ o.repair = "none" => ~o.qa /\ ~o.approved
      /\ o.repair = "incomplete" /\ ~o.qa => ~o.approved }
=============================================================================
