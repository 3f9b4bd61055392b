SPECIFICATION Spec
CONSTANTS
  MaxSteps = 5
INVARIANTS
  TypeOK
  RefusedWroteNothing
  DoneIsInstalled
  Idempotent
PROPERTIES
  UsersFilesKept
CHECK_DEADLOCK FALSE
