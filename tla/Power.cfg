SPECIFICATION Spec
CONSTANTS
  Machines <- MCMachines
  Threads = {t1, t2}
  Fleets <- MCFleets
  None = None
  Depth = 4
  MaxPresses = 3
  MaxHands = 1
INVARIANTS
  
  ButtonHasAWay

  
CHECK_DEADLOCK FALSE
