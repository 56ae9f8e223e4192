SPECIFICATION Spec
CONSTANTS
  Size = 2
  Failing <- Anything
  MaxMishaps = 2
  MaxTries = 3
CHECK_DEADLOCK FALSE
INVARIANTS TypeOK LeavesNothing NeverKillsLater
PROPERTY Deploys
