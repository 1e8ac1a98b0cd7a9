------------------------------- MODULE JobLoop --------------------------------
(***************************************************************************)
(* Scheduler._job_loop (timar/scheduler.py) against a clock: when the loop *)
(* of one job asks next_run, how long it sleeps, and when the job starts.  *)
(* Scheduler has the same loop without time and with everything else it    *)
(* interleaves with.                                                       *)
(*                                                                         *)
(* A sleep ends up to `late` units after its time: the event loop's timers *)
(* are never early, and late by what the loop was doing meanwhile (a       *)
(* sleep of TICK after a computation of some milliseconds comes late).     *)
(* Between two awaits no unit of time passes.                              *)
(***************************************************************************)
EXTENDS Schedule

CONSTANTS
    MaxLate,  \* bound: how late a timer may be
    Schedules \* what the operator may set the job's schedule to

ASSUME JobLoopAssumption ==
    /\ Tick < Hour
    /\ MaxLate \in Nat
    /\ Schedules \subseteq Schedule
    /\ Never \in Schedules

VARIABLES
    late,     \* how many units a timer may be late, the same all the time
    sched,    \* schedules.<job> of config.yaml
    last,     \* last_run of state.json, or None
    next,     \* next_run of state.json, or None
    loop,     \* the loop: "tick" (asleep, or about to ask), "due" or "run"
    wake,     \* the moment its sleep ends
    manual,   \* when the manual run that has the job's lock began, or None
    began,    \* when the latest run of the loop's own began, or None
    former,   \* the schedules changed since the process started: [sched, until]
    since     \* the latest change of the schedule, or start of the process

vars == <<now, late, up, sched, last, next, loop, wake, manual, began, former, since,
          edits, crashes>>

Init ==
    /\ now = 0
    /\ late \in 0 .. MaxLate
    /\ up = TRUE
    /\ sched \in Schedules
    /\ last = None
    /\ next = None
    /\ loop = "tick"
    /\ wake = 0
    /\ manual = None
    /\ began = None
    /\ former = {}
    /\ since = 0
    /\ edits = 0
    /\ crashes = 0

\* Time passes, but not over a timer that is due for longer than late.
Pass ==
    /\ now < Horizon
    /\ up /\ loop # "run" => now < wake + late
    /\ now' = now + 1
    /\ UNCHANGED <<late, up, sched, last, next, loop, wake, manual, began, former, since,
                   edits, crashes>>

\* What the loop does with the moment it was told: sleep to it and run, or sleep
\* a TICK and ask again.  The suffixed ones are mistakes to test properties with;
\* the second is the one the comment in the code tells of.
SleepInOneGo(due) ==
    IF due = None THEN loop' = "tick" /\ wake' = now + Tick
    ELSE loop' = "due" /\ wake' = due
SleepAndAsk(due) ==
    /\ loop' = "tick"
    /\ wake' = IF due = None \/ due - now > Tick THEN now + Tick ELSE due
Sleep(due) ==
    IF due = None \/ due - now > Tick THEN loop' = "tick" /\ wake' = now + Tick
    ELSE loop' = "due" /\ wake' = due

\* A round of the loop: ask next_run, record the answer, sleep.
Ask ==
    LET due == IF Invalid(sched) THEN None ELSE NextRun(sched, now, last)
    IN
    /\ up /\ loop = "tick" /\ now >= wake
    /\ next' = due
    /\ Sleep(due)
    /\ UNCHANGED <<now, late, up, sched, last, manual, began, former, since, edits, crashes>>

\* The due moment has come: the job runs without asking again, or run() refuses
\* it because a manual run has the lock, and the loop goes straight round.
Fire ==
    /\ up /\ loop = "due" /\ now >= wake
    /\ wake' = now
    /\ \/ manual = None /\ loop' = "run" /\ began' = now
       \/ manual # None /\ loop' = "tick" /\ UNCHANGED began
    /\ UNCHANGED <<now, late, up, sched, last, next, manual, former, since, edits, crashes>>

\* mark_finished stamps last_run with the moment the run ended.
Finish ==
    /\ up /\ loop = "run"
    /\ loop' = "tick" /\ wake' = now
    /\ last' = now
    /\ UNCHANGED <<now, late, up, sched, next, manual, began, former, since, edits, crashes>>

\* The button: run() is refused while the loop's own run has the lock.
ManualStart ==
    /\ up /\ manual = None /\ loop # "run"
    /\ manual' = now
    /\ UNCHANGED <<now, late, up, sched, last, next, loop, wake, began, former, since,
                   edits, crashes>>

ManualFinish ==
    /\ up /\ manual # None
    /\ manual' = None /\ last' = now
    /\ UNCHANGED <<now, late, up, sched, next, loop, wake, began, former, since, edits, crashes>>

\* validate.schedules: one that does not resolve is refused at the form, also if it is
\* disabled.  (It can still be written by hand: Init.)
Resolves(s) == ~Invalid([s EXCEPT !.enabled = TRUE])

\* save_job: the settings page saves another schedule, and clears next_run.
Edit ==
    /\ up
    /\ edits < MaxEdits
    /\ edits' = edits + 1
    /\ sched' \in {s \in Schedules \ {sched} : Resolves(s)}
    /\ former' = former \cup {[sched |-> sched, until |-> now]}
    /\ since' = now
    /\ next' = None
    /\ UNCHANGED <<now, late, up, last, loop, wake, manual, began, crashes>>

Crash ==
    /\ up
    /\ crashes < MaxCrashes
    /\ crashes' = crashes + 1
    /\ up' = FALSE
    /\ UNCHANGED <<now, late, sched, last, next, loop, wake, manual, began, former, since, edits>>

\* A new process: mark_interrupted stamps last_run with the moment the run began.
Boot ==
    /\ ~up
    /\ up' = TRUE
    /\ last' = IF loop = "run" THEN began ELSE IF manual # None THEN manual ELSE last
    /\ loop' = "tick" /\ wake' = now
    /\ manual' = None
    /\ former' = {}
    /\ since' = now
    /\ UNCHANGED <<now, late, sched, next, began, edits, crashes>>

Next ==
    \/ Pass
    \/ Ask \/ Fire \/ Finish
    \/ ManualStart \/ ManualFinish \/ Edit
    \/ Crash \/ Boot

Spec == Init /\ [][Next]_vars

-----------------------------------------------------------------------------
(* Properties.                                                             *)

Times == 0 .. Horizon

\* Every variable keeps to the values the code can give it.
TypeOK ==
    /\ now \in Times
    /\ late \in 0 .. MaxLate
    /\ up \in BOOLEAN
    /\ sched \in Schedules /\ former \subseteq [sched : Schedules, until : Times]
    /\ {last, began, manual} \subseteq Times \cup {None}
    /\ next \in Nat \cup {None}
    /\ loop \in {"tick", "due", "run"}
    /\ wake \in Nat
    /\ since \in Times
    /\ edits \in 0 .. MaxEdits /\ crashes \in 0 .. MaxCrashes

Calendar(s) == s.enabled /\ ~Invalid(s) /\ s.kind # "interval"
Relative(s) == s.enabled /\ ~Invalid(s) /\ s.kind = "interval"

\* Schedule s has the job start now: a moment it names has just come, or its
\* interval is over.  A manual run that ended since the loop last asked, at most
\* a TICK ago, does not put the loop's own run off.
IsDue(s) ==
    \/ Calendar(s) /\ \E m \in now - late .. now : IsMoment(s, m)
    \/ /\ Relative(s) /\ last # None
       /\ now >= last + Hour * s.every \/ now <= last + Tick + late

\* The loop starts the job only when a schedule says so, be it one that was
\* changed a TICK ago at most: one edited away is not slept through to its moment
\* (scheduler.py: "ignore a schedule changed in the meantime").
OnlyWhenDue ==
    [][loop # "run" /\ loop' = "run" =>
         \/ IsDue(sched)
         \/ \E f \in former : now <= f.until + Tick + late /\ IsDue(f.sched)]_vars

\* A moment of a daily or weekly schedule starts the job once: the loop that
\* comes round in the same minute is told the next one.  Two starts of an interval
\* schedule are the interval apart.
OncePerMoment ==
    [][loop # "run" /\ loop' = "run" /\ since + Tick + late < now =>
         /\ Calendar(sched) => \E m \in now - late .. now : IsMoment(sched, m) /\ began < m
         /\ Relative(sched) /\ began # None => now >= began + Hour * sched.every]_vars

\* Each start of the loop's own is one that a schedule has due, and that no start
\* before it was for.
EachStartIsOwed == OnlyWhenDue /\ OncePerMoment

\* A job with an interval and a last run never waits for longer than the
\* interval, restarts and edits aside (a restart does not reset the clock), but
\* for two timers: the one it asks after and the one it runs after may be late.
IntervalServed ==
    up /\ Relative(sched) /\ last # None /\ loop # "run" /\ manual = None =>
        \/ now <= last + Hour * sched.every + 2 * late
        \/ now <= since + Tick + 2 * late

\* A moment of a daily or weekly schedule that passes while the process is up
\* starts the job, or finds it running.
MomentServed ==
    up /\ Calendar(sched) /\ loop # "run" =>
        \A m \in since + Tick + late + 1 .. now - late - 1 :
            IsMoment(sched, m) => began >= m \/ manual # None \/ last >= m

\* ... if the timers are exact: the loop that sleeps in steps of a TICK and the one
\* that sleeps to the moment leave no gap between them.
ServedOnTime == late = 0 => MomentServed

\* A job set to an interval for the first time runs once that has passed
\* (test_scheduler.py: test_interval_with_no_history_starts_from_now).
FirstRunComes ==
    up /\ Relative(sched) /\ last = None /\ loop # "run" /\ manual = None =>
        now <= since + Hour * sched.every + Tick + 2 * late

\* The moment the dashboard shows is one the job's schedule names, from the
\* instant the schedule is changed on (settings.py, save_job).
ShownIsNamed == Calendar(sched) /\ next # None => IsMoment(sched, next)

\* The schedule is kept: an interval and a moment of the calendar are served alike, what
\* is shown is what comes, and every variable keeps to the values the code can give it.
ScheduleKept == TypeOK /\ IntervalServed /\ ServedOnTime /\ ShownIsNamed

=============================================================================
