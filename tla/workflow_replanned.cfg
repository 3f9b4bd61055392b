SPECIFICATION Spec
CONSTANTS
  RunId = {r1, r2}
  Operator = {op}
  GoodPlan = {good1, good2}
  ThinPlan = {}
  Intakes <- Runnable
  MaxAttempts = 2
  Commands <- StagedCommands
  MaxCommands = 3
  MayCrash = FALSE
  NoRun = NoRun
  NoPlan = NoPlan
SYMMETRY RunSymmetry
INVARIANTS
  ReviewedPlanIsConsumed
CHECK_DEADLOCK FALSE
