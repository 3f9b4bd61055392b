SPECIFICATION Spec
CONSTANTS
  RunId = {r1, r2, r3}
  Operator = {op1, op2}
  GoodPlan = {good}
  ThinPlan = {thin}
  Intakes <- AllIntakes
  MaxAttempts = 3
  Commands <- ChainCommands
  MaxCommands = 3
  MayCrash = TRUE
  NoRun = NoRun
  NoPlan = NoPlan
SYMMETRY RaceSymmetry
INVARIANTS
  TypeOK
  LineageCounted
  EvidenceFollowsRun
  PublishedAsJudged
PROPERTIES
  ImplementsGates
CONSTRAINT LastToPublish
ACTION_CONSTRAINTS
  LeftAlone
  NotRetried
  WholeSource
CHECK_DEADLOCK FALSE
