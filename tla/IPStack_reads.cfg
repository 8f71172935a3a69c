SPECIFICATION Spec
CONSTANTS
  BufSize = 4
  Packets = {1, 3, 6}
  Lens = {0, 1, 3, 5}
  MaxArrived = 10
  p1 = p1
  p2 = p2
  Pcbs = {p1, p2}
  NoPcb = NoPcb
  MayReset = TRUE
  MayFail = TRUE
INVARIANTS CountIsTrue CopiesInRing
PROPERTY RingIsChannel
