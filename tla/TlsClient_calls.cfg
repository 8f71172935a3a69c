SPECIFICATION Spec
CONSTANTS
  Calls = 3
INVARIANTS StateAlive OnlyTimeoutFails
PROPERTY WaitEnds
CHECK_DEADLOCK FALSE
