SPECIFICATION Spec
CONSTANTS
  t1 = t1
  t2 = t2
  Tasks = {t1, t2}
  NoTask = NoTask
  FifoDepth = 3
  RxTl = 1
  Requests <- MCRequests
  Paces = {"late"}
  MayNack = FALSE
  StopOnDisable = FALSE
INVARIANTS OwnStop
