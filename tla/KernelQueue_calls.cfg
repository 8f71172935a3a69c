SPECIFICATION Spec
CONSTANTS
  t1 = t1
  t2 = t2
  t3 = t3
  Senders = {t1}
  Receivers = {t2}
  Peekers = {t3}
  Nobody = nobody
  Prio <- LastFirst
  Length = 2
  Items = {a, b}
  Positions = {"back", "front"}
  Ticks <- OneTimed
INVARIANT NoLostWake
PROPERTIES ImplementsQueue Served
