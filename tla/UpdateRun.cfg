SPECIFICATION FairSpec
CONSTANTS
    Configs <- Fleets
    None = "none"
    MaxSwitches = 2
CHECK_DEADLOCK FALSE
 
INVARIANT RightOnesInOrder
 
PROPERTY StopGoesNoFurther
PROPERTY RunEnds
