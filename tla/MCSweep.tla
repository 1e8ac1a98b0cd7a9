------------------------------- MODULE MCSweep --------------------------------
(***************************************************************************)
(* A job's loop (MCJobLoop), and the work of a job, a log sweep: of four   *)
(* servers, one with a question of every kind that is treated differently, *)
(* one that the sweep leaves out, one that is asked about its logs, and    *)
(* one that is only watched.  The loop and the work have no state in       *)
(* common, so a behaviour is one of either.                                *)
(***************************************************************************)
EXTENDS MCJobLoop, Sweep

MCAsked == << {Journal, JobLogs, Checks}, {Disk}, {Containers, WatchLogs}, {} >>

VARIABLE part   \* which of the two a behaviour is of

LoopAndSweepInit ==
    /\ Init /\ SweepInit
    /\ \/ part = "loop" /\ awake = {} /\ enrolled = {}
       \/ part = "sweep" /\ late = 0 /\ sched = Never

LoopAndSweepNext ==
    /\ \/ part = "loop" /\ Next /\ UNCHANGED sweepVars
       \/ part = "sweep" /\ SweepNext /\ UNCHANGED vars
    /\ UNCHANGED part

LoopAndSweepSpec == LoopAndSweepInit /\ [][LoopAndSweepNext]_<<vars, sweepVars, part>>

=============================================================================
