SPECIFICATION TcpSpec
CONSTANTS
  Conns = {c1, c2}
  Results = {0, 2}
  MaxRecv = 2
INVARIANTS StateWithConnection BytesLive
PROPERTY ConnectionsEnd
CHECK_DEADLOCK FALSE
