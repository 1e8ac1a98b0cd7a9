SPECIFICATION Spec
CONSTANTS
  Readers = {r1, r2}
  Projects <- MCProjects
  None = None
  Stale = 2
  Longest = 1
INVARIANTS
  ShownWasTrue
  NothingFromBefore
SYMMETRY Alike
CHECK_DEADLOCK FALSE
