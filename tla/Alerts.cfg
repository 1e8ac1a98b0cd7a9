SPECIFICATION Spec
CONSTANTS
  Hosts = {nas, sensor}
  None = None
  Minutes = 2
  MaxPending = 2
  MaxCrashes = 1
  MaxEdits = 1

  
PROPERTIES
  NoBlips
  
CHECK_DEADLOCK FALSE
