SPECIFICATION DhcpFairSpec
CONSTANTS
  a = a
  b = b
  Clients = {a, b}
  NoMac = NoMac
  NumSlots = 2
  Ticks = 16
  Grain = 2
  Lease = 3
  Reboot = FALSE
INVARIANTS Exclusive LeaseKnown OneSlotEach
PROPERTIES EachServed
