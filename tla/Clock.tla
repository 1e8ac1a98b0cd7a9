-------------------------------- MODULE Clock ---------------------------------
(***************************************************************************)
(* The time, and the process that runs or does not: what the loops of      *)
(* timar's scheduler have in common, being tasks of one process.  A        *)
(* datetime is a number of units since a midnight, in the container's      *)
(* local time; the unit is free.                                           *)
(***************************************************************************)
EXTENDS Integers

CONSTANTS
    Day,       \* the units of a day
    Tick,      \* TICK, a minute
    Horizon,   \* bound: the moment the clock stops
    MaxEdits,  \* bound: changes in the settings
    MaxCrashes \* bound: crashes of the process

ASSUME ClockAssumption ==
    /\ Day \in Nat \ {0} /\ Tick \in Nat \ {0}
    /\ Horizon \in Nat /\ MaxEdits \in Nat /\ MaxCrashes \in Nat

VARIABLES
    now,      \* datetime.now()
    up,       \* the process runs
    edits, crashes

None == -1

=============================================================================
