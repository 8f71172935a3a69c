SPECIFICATION Spec
CONSTANTS
  Tasks = {t1, t2}
  NoTask = none
  Pages = 2
  Block = 4
  Length = 2
  MaxWrites = 2
  DelayCovers = TRUE
INVARIANT Durable
PROPERTY ReadIsCurrent
