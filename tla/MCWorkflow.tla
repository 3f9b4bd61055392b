----------------------------- MODULE MCWorkflow -----------------------------
(* Instances of Workflow for TLC: runs and operators are interchangeable.  *)
EXTENDS Workflow, FiniteSets, TLC

ChainCommands  == {"repair_issue", "publish_run"}
StagedCommands == AllCommands
RaceCommands   == {"repair_issue", "review_issue", "plan", "review_plan", "implement"}
AllIntakes     == Intake
Runnable       == {"runnable"}
RunSymmetry    == Permutations(RunId)
PlanSymmetry   == Permutations(RunId) \union Permutations(Operator) \union Permutations(GoodPlan)
RaceSymmetry   == Permutations(RunId) \union Permutations(Operator)

\* A bound: the last run there is room for is made by an operator who works alone, to publish
\* anew what an earlier run has.
LastToPublish ==
  (\A r \in RunId : Exists(r)) =>
    /\ Cardinality({p \in Operator : ~At(p, "idle")}) <= 1
    /\ \A p \in Operator : ~At(p, "idle") => job[p].from = "publish"
=============================================================================
