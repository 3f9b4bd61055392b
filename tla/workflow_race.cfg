SPECIFICATION SpecPlannedOnce
CONSTANTS
  RunId = {r1, r2}
  Operator = {op1, op2}
  GoodPlan = {good1, good2}
  ThinPlan = {}
  Intakes <- Runnable
  MaxAttempts = 2
  Commands <- RaceCommands
  MaxCommands = 3
  MayCrash = FALSE
  NoRun = NoRun
  NoPlan = NoPlan
SYMMETRY PlanSymmetry
INVARIANTS
  GateOrder
  NothingWithoutIssue
  ImplementsReviewedIssue
  ApprovalIsOfPlan
PROPERTIES
  IssueApprovalStands
  ImplementsPlanning
  BuildsReviewedPlan
CHECK_DEADLOCK FALSE
