SPECIFICATION FairSpec
CONSTANTS
  t1 = t1
  t2 = t2
  Tasks = {t1, t2}
  NoTask = NoTask
  FifoDepth = 3
  RxTl = 1
  Requests <- MCRequests
  Paces = {"late", "timely", "prompt"}
  MayNack = TRUE
  StopOnDisable = TRUE
INVARIANTS TypeOK CommandStream FullReadIsTrue EveryCallComplete
PROPERTIES CallReturns ImplementsService
