SPECIFICATION Spec
CONSTANTS
  r1 = r1
  r2 = r2
  op1 = op1
  op2 = op2
  Run = {r1, r2}
  Operator = {op1, op2}
  Old = Old
  Others = Others
  MaxCommits = 3
  MaxCommands = 3
SYMMETRY Interchangeable
INVARIANTS
  TypeOK
  FreshApprovalIsOfHead
  ObjectionReported
  PublishedIsPushed
  FollowUpsBounded
CHECK_DEADLOCK FALSE
