SPECIFICATION Spec
CONSTANTS
  op1 = op1
  op2 = op2
  Operator = {op1, op2}
  MaxCalls = 2
INVARIANTS
  TypeOK
  SuccessIsDone
  ClosedAfterMerge
PROPERTIES
  ImplementsLanding
  Concludes
CHECK_DEADLOCK FALSE
