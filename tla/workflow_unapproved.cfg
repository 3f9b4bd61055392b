SPECIFICATION Spec
CONSTANTS
  RunId = {r1, r2}
  Operator = {op}
  GoodPlan = {good}
  ThinPlan = {}
  Intakes <- Runnable
  MaxAttempts = 2
  Commands <- StagedCommands
  MaxCommands = 3
  MayCrash = FALSE
  NoRun = NoRun
  NoPlan = NoPlan
SYMMETRY RunSymmetry
INVARIANTS
  PublishOnlyWhenApproved
CHECK_DEADLOCK FALSE
