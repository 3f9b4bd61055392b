SPECIFICATION Spec
CONSTANTS
  t1 = t1
  t2 = t2
  t3 = t3
  m1 = m1
  m2 = m2
  m3 = m3
  Test = {t1, t2, t3}
  Marker = {m1, m2, m3}
  SetupLines = {m3}
  MarkerOf <- TwoLines
  Finding = {f1, f2}
  Snapshots <- Apart
  Issues <- AnyIssue
  MaxIterations = 2
  Trouble <- AnyTrouble
  MaxMoves = 1
  NoRepo = NoRepo
INVARIANTS
  TypeOK
  ApprovedWorkspacePasses
  ImprovesOnBaseline
  DocsCleared
  OutcomeForeseen
PROPERTIES
  Concludes
CHECK_DEADLOCK FALSE
