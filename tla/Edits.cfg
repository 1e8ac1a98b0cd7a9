SPECIFICATION EditsSpec
CONSTANTS
  Names <- MCNames
  Addresses <- MCAddresses
  VmIds <- MCVmIds
  Forms <- MCForms
  Start <- MCStart
  Projects = {"site"}
  Jobs = {"update"}
  None = None
  NoId = NoId
  MaxEdits = 3
  Slugs = {inventory, notes}
  Tabs = {t1, t2}
  Texts = {a, b}
  Absent = Absent
  Nobody = Nobody
  MaxWrites = 2
INVARIANTS
  
  RenameIsRenaming
  BoxIsMeant
  OnDemandIsLeast
  
PROPERTIES
  HandWrittenKept
CHECK_DEADLOCK FALSE
