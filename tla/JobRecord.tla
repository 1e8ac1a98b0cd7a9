------------------------------ MODULE JobRecord ------------------------------
(***************************************************************************)
(* What the records of the scheduler promise a reader of the dashboard and *)
(* of the archive, whatever happens to the process: the runs of a job come *)
(* one after the other, each is closed before the next one begins, and the *)
(* archive tells of a run at most once, after it is closed and before the  *)
(* next one begins.  Scheduler implements it (property RecordsKept).       *)
(***************************************************************************)
EXTENDS Naturals

CONSTANTS Jobs, MaxRuns

VARIABLES
    open,   \* the jobs whose latest run is in progress
    run,    \* per job, its latest run
    told    \* per job, the runs the archive tells of, with their outcome

vars == <<open, run, told>>

Outcomes == {"ok", "failed", "interrupted"}

Init ==
    /\ open = {}
    /\ run = [j \in Jobs |-> 0]
    /\ told = [j \in Jobs |-> {}]

\* A run begins once the one before it has been closed.
Begin(j) ==
    /\ j \notin open /\ run[j] < MaxRuns
    /\ open' = open \cup {j}
    /\ run' = [run EXCEPT ![j] = @ + 1]
    /\ UNCHANGED told

Close(j) ==
    /\ j \in open
    /\ open' = open \ {j}
    /\ UNCHANGED <<run, told>>

\* The archive may miss a run (a crash, a full volume), never tell it twice.
Tell(j) ==
    /\ j \notin open
    /\ \A e \in told[j] : e.run # run[j]
    /\ \E o \in Outcomes :
          told' = [told EXCEPT ![j] = @ \cup {[run |-> run[j], outcome |-> o]}]
    /\ UNCHANGED <<open, run>>

Next == \E j \in Jobs : Begin(j) \/ Close(j) \/ Tell(j)

Spec == Init /\ [][Next]_vars

=============================================================================
