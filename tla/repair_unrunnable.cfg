SPECIFICATION Spec
CONSTANTS
  t1 = t1
  t2 = t2
  t3 = t3
  m1 = m1
  m2 = m2
  m3 = m3
  Test = {t1, t2, t3}
  Marker = {m1, m2, m3}
  SetupLines = {}
  MarkerOf <- TwoLines
  Finding = {}
  Snapshots <- NoDocs
  Issues <- CodeIssue
  MaxIterations = 2
  Trouble <- Unrunnable
  MaxMoves = 0
  NoRepo = NoRepo
INVARIANTS
  UnrunnableQaBlocks
CHECK_DEADLOCK FALSE
