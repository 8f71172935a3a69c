SPECIFICATION Spec
CONSTANTS
  low = low
  mid = mid
  high = high
  Tasks = {low, mid, high}
  outer = outer
  inner = inner
  Mutexes = {outer, inner}
  Nobody = nobody
  Base <- Ascending
  Limits = {"none", "some", "forever"}
  Programs <- AllUses
  NewPriorities = {2}
INVARIANTS NoInversion PriorityRestored NoPriorityLeft
PROPERTY HighestServed
