SPECIFICATION Spec
CONSTANTS
  RunId = {r1, r2, r3}
  Operator = {op1, op2}
  GoodPlan = {good}
  ThinPlan = {}
  Intakes <- Runnable
  MaxAttempts = 1
  Commands <- StagedCommands
  MaxCommands = 3
  MayCrash = TRUE
  NoRun = NoRun
  NoPlan = NoPlan
SYMMETRY RaceSymmetry
INVARIANTS
  DraftPrWithinCap
CHECK_DEADLOCK FALSE
