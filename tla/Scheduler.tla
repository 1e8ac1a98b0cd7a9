------------------------------ MODULE Scheduler ------------------------------
(***************************************************************************)
(* The scheduler of timar/scheduler.py and the two records it keeps of a   *)
(* run: state.json (timar/state.py) and the report archive                 *)
(* (timar/reports.py).                                                     *)
(*                                                                         *)
(* One asyncio event loop runs the job loops, the window loop, the manual  *)
(* runs the web handlers start and the task that finishes a handed-off     *)
(* update.  A task owns the event loop ("turn") from one await to the      *)
(* next, so its code is atomic towards the other tasks, but not towards    *)
(* the worker threads: every write of state.json is a load of the whole    *)
(* file followed by a save of the whole file, and the update run's thread  *)
(* does the same from its side.  A crash may fall between any two steps.   *)
(*                                                                         *)
(* A definition named like the one below it, with a suffix (NextDueAgain), *)
(* is that definition with a mistake in it, to test the properties with.   *)
(*                                                                         *)
(* Abstracted: time (a job loop sleeps until its timer fires; only whether *)
(* an interval schedule is overdue is kept; module JobLoop has the clock), *)
(* the work of a run (module UpdateRun) and the fields of state.json no    *)
(* decision of the scheduler reads back (heartbeat, next_run, summary,     *)
(* report, windows): writing one of those still rewrites the whole file.   *)
(***************************************************************************)
EXTENDS Naturals

CONSTANTS
    Jobs,        \* the names in jobs.JOBS
    Update,      \* the update job, the one whose thread writes state.json
    Interval,    \* the jobs scheduled "every n hours"
    SelfHosted,  \* timar's own host is in the fleet: its update is handed off
    Windows,     \* number of machines with an update window of their own
    MaxRuns,     \* bound: runs per job
    MaxCrashes,  \* bound: crashes and shutdowns of the process
    MaxFaults    \* bound: saves refused by the volume (OSError)

ASSUME SchedulerAssumption ==
    /\ Update \in Jobs
    /\ Interval \subseteq Jobs
    /\ SelfHosted \in BOOLEAN
    /\ Windows \in Nat
    /\ MaxRuns \in Nat \ {0}
    /\ MaxCrashes \in Nat
    /\ MaxFaults \in Nat

RunIds == 1 .. MaxRuns

VARIABLES
    proc,      \* the process: "down", "boot" (start()), "up" or "stopping"
    crashes,   \* how often it went down so far (bounded by MaxCrashes)
    faults,    \* how many saves failed so far (bounded by MaxFaults)
    file,      \* state.json
    archive,   \* the report archive: per job, the entries written
    turn,      \* who owns the event loop, and where in its code it is
    copy,      \* the contents the event loop has loaded and not yet saved
    lock,      \* Scheduler._locks: who holds the lock of each job
    running,   \* Scheduler._running
    stop,      \* cancel._requests: the events set, each with the run it is for
    runs,      \* how many runs of each job have been marked started
    loopAt,    \* what each job loop is waiting for
    windowAt,  \* what the window loop is waiting for
    queue,     \* due machines the window loop has not gone through yet
    todo,      \* interrupted jobs start() still has to close out
    overdue,   \* interval jobs whose next moment has passed
    work,      \* the worker thread of each run
    wcopy      \* the contents the update thread has loaded and not yet saved

disk == <<file, archive>>
loops == <<loopAt, windowAt, queue>>
threads == <<work, wcopy>>
memory == <<lock, running, stop>>
bounds == <<crashes, faults>>
vars == <<proc, bounds, disk, turn, copy, memory, runs, loops, todo, overdue,
          threads>>

-----------------------------------------------------------------------------
(* The values.                                                             *)

Statuses == {"none", "running", "ok", "failed"}
Holders == {"none", "loop", "manual", "window", "finisher"}
Ops == {"none", "beat", "next", "enter", "start", "finish", "archive", "tried"}
Outcomes == {"ok", "failed", "interrupted"}
AtWork == {"busy", "window", "launched", "saving", "waiting", "recording"}
Ended == {"ok", "raised"}

Files == [status : [Jobs -> Statuses],    \* status
          run : [Jobs -> 0 .. MaxRuns],   \* started_at: the run described
          last : [Jobs -> 0 .. MaxRuns],  \* last_run: 0 when absent
          handoff : [Jobs -> 0 .. MaxRuns]]  \* handoff: the run, or 0 for None
Entries == [run : 0 .. MaxRuns, outcome : Outcomes]
Turns == [who : Holders \cup {"boot"}, job : Jobs, op : Ops, loaded : BOOLEAN]

Blank == [status |-> [j \in Jobs |-> "none"], run |-> [j \in Jobs |-> 0],
          last |-> [j \in Jobs |-> 0], handoff |-> [j \in Jobs |-> 0]]
Free == [who |-> "none", job |-> Update, op |-> "none", loaded |-> FALSE]
At(who, j, op) == [who |-> who, job |-> j, op |-> op, loaded |-> FALSE]

\* What the process holds in memory when it has just started, or is gone.
MemoryLost ==
    /\ turn' = Free
    /\ copy' = Blank
    /\ lock' = [j \in Jobs |-> "none"]
    /\ running' = {}
    /\ stop' = {}
    /\ loopAt' = [j \in Jobs |-> "tick"]
    /\ windowAt' = "tick"
    /\ queue' = 0
    /\ todo' = {}
    /\ work' = [j \in Jobs |-> [r \in RunIds |-> "none"]]
    /\ wcopy' = Blank

Init ==
    /\ proc = "down"
    /\ crashes = 0
    /\ faults = 0
    /\ file = Blank
    /\ archive = [j \in Jobs |-> {}]
    /\ turn = Free
    /\ copy = Blank
    /\ lock = [j \in Jobs |-> "none"]
    /\ running = {}
    /\ stop = {}
    /\ runs = [j \in Jobs |-> 0]
    /\ loopAt = [j \in Jobs |-> "tick"]
    /\ windowAt = "tick"
    /\ queue = 0
    /\ todo = {}
    /\ overdue = {}
    /\ work = [j \in Jobs |-> [r \in RunIds |-> "none"]]
    /\ wcopy = Blank

-----------------------------------------------------------------------------
(* Writing state.json from the event loop: load, then save.  A save the    *)
(* volume refuses raises, and each section says where the exception goes.  *)

\* state.load() of the write the turn is at.
Load ==
    /\ turn.op \in {"beat", "next", "start", "finish", "tried"}
    /\ ~turn.loaded
    /\ copy' = file
    /\ turn' = [turn EXCEPT !.loaded = TRUE]
    /\ UNCHANGED <<proc, bounds, disk, memory, runs, loops, todo, overdue, threads>>

\* state.mark_started, mark_finished, set_handoff and mark_interrupted: what they
\* change in the contents f they loaded.  The last dates the run to its start.
Started(f, j, r) == [f EXCEPT !.status[j] = "running", !.run[j] = r, !.handoff[j] = 0]
FinishedStillRunning(f, j, r, end) == [f EXCEPT !.last[j] = r, !.handoff[j] = 0]
FinishedStillHandedOff(f, j, r, end) ==
    [f EXCEPT !.status[j] = IF end = "ok" THEN "ok" ELSE "failed", !.last[j] = r]
Finished(f, j, r, end) == [f EXCEPT !.status[j] = IF end = "ok" THEN "ok" ELSE "failed",
                                    !.last[j] = r, !.handoff[j] = 0]
HandedOff(f, r) == [f EXCEPT !.handoff[Update] = r]
Interrupted(f, j) == [f EXCEPT !.status[j] = "failed", !.last[j] = f.run[j]]

Save(contents) ==
    /\ file' = contents
    /\ copy' = Blank
    /\ UNCHANGED faults

SaveRefused ==
    /\ faults < MaxFaults
    /\ faults' = faults + 1
    /\ copy' = Blank
    /\ UNCHANGED file

\* An exception that leaves a supervised loop ends its turn; _supervise starts
\* the loop again after RESTART_DELAY.  Any other task is gone.
LoopRaises(who, j) ==
    /\ turn' = Free
    /\ loopAt' = IF who = "loop" THEN [loopAt EXCEPT ![j] = "tick"] ELSE loopAt
    /\ windowAt' = IF who = "window" THEN "tick" ELSE windowAt
    /\ queue' = IF who = "window" THEN 0 ELSE queue

-----------------------------------------------------------------------------
(* The job loop and the window loop.                                       *)

\* The loop of job j wakes: from a TICK (or a restart), or at its due moment,
\* and then it runs the job without asking the schedule again.
Wake(j) ==
    /\ proc = "up" /\ turn = Free
    /\ \/ loopAt[j] = "tick" /\ turn' = At("loop", j, "beat")
       \/ loopAt[j] = "due" /\ turn' = At("loop", j, "enter")
    /\ loopAt' = [loopAt EXCEPT ![j] = "awake"]
    /\ UNCHANGED <<proc, bounds, disk, copy, memory, runs, windowAt, queue, todo,
                   overdue, threads>>

WakeWindow ==
    /\ proc = "up" /\ turn = Free
    /\ windowAt = "tick"
    /\ turn' = At("window", Update, "beat")
    /\ windowAt' = "awake"
    /\ UNCHANGED <<proc, bounds, disk, copy, memory, runs, loopAt, queue, todo,
                   overdue, threads>>

\* The window loop asks update_window.due once; n machines are due.
Due(n) ==
    /\ queue' = n
    /\ IF n = 0 THEN turn' = Free /\ windowAt' = "tick"
       ELSE turn' = At("window", Update, "enter") /\ UNCHANGED windowAt
    /\ UNCHANGED loopAt

\* state.beat, the first statement of both loops.
Beat ==
    /\ turn.op = "beat" /\ turn.loaded
    /\ \/ /\ Save(copy)
          /\ \/ /\ turn.who = "loop"
                /\ turn' = At("loop", turn.job, "next")
                /\ UNCHANGED loops
             \/ /\ turn.who = "window"
                /\ \E n \in 0 .. Windows :
                      /\ n > 0 => runs[Update] < MaxRuns
                      /\ Due(n)
       \/ SaveRefused /\ LoopRaises(turn.who, turn.job)
    /\ UNCHANGED <<proc, crashes, archive, memory, runs, todo, overdue, threads>>

\* An interval schedule without a last run is always hours ahead.
Reachable(j) == j \in Interval => copy.last[j] # 0
\* The bound: past it a loop only ticks.
WithinBound(j) == lock[j] # "none" \/ runs[j] < MaxRuns

\* next_run, state.set_next_run and the choice between sleeping a TICK,
\* sleeping to the due moment, and running now because it has passed.
NextRun ==
    /\ turn.op = "next" /\ turn.loaded
    /\ \/ /\ Save(copy)
          /\ \/ /\ turn.job \in overdue /\ WithinBound(turn.job)
                /\ turn' = At("loop", turn.job, "enter")
                /\ UNCHANGED loops
             \/ /\ ~(turn.job \in overdue /\ WithinBound(turn.job))
                /\ turn' = Free
                /\ \E at \in {"tick", "due"} :
                      /\ at = "due" => Reachable(turn.job) /\ runs[turn.job] < MaxRuns
                      /\ loopAt' = [loopAt EXCEPT ![turn.job] = at]
                /\ UNCHANGED <<windowAt, queue>>
       \/ SaveRefused /\ LoopRaises(turn.who, turn.job)
    /\ UNCHANGED <<proc, crashes, archive, memory, runs, todo, overdue, threads>>

NextDueAgain ==
    /\ turn' = At("window", Update, "enter")
    /\ UNCHANGED loops

\* The next due machine of the window loop, or a TICK when that was the last.
NextDue ==
    /\ queue' = queue - 1
    /\ IF queue = 1 THEN turn' = Free /\ windowAt' = "tick"
       ELSE turn' = At("window", Update, "enter") /\ UNCHANGED windowAt
    /\ UNCHANGED loopAt

\* update_window.mark_tried, once run() has returned True.
MarkTried ==
    /\ turn.op = "tried" /\ turn.loaded
    /\ \/ Save(copy) /\ NextDue
       \/ SaveRefused /\ LoopRaises("window", Update)
    /\ UNCHANGED <<proc, crashes, archive, memory, runs, todo, overdue, threads>>

-----------------------------------------------------------------------------
(* Scheduler.run.                                                          *)

\* "if lock.locked(): return False": the lock is asked for only when it is
\* free, and then there is no await before it is taken.
MayRunAnyway(j) == runs[j] < MaxRuns
MayRun(j) == lock[j] = "none" /\ runs[j] < MaxRuns

\* cancel.clear
Uncleared(j) == stop
Cleared(j) == {s \in stop : s[1] # j}

\* run() finds the lock taken and returns False, without an await: the job
\* loop goes straight round, the window loop to its next machine.
Refuse ==
    /\ turn.op = "enter"
    /\ ~MayRun(turn.job)
    /\ \/ turn.who = "loop" /\ turn' = At("loop", turn.job, "beat") /\ UNCHANGED loops
       \/ turn.who = "manual" /\ turn' = Free /\ UNCHANGED loops
       \/ turn.who = "window" /\ NextDue
    /\ UNCHANGED <<proc, bounds, disk, copy, memory, runs, todo, overdue, threads>>

\* run() takes the lock, forgets a stop asked for before, and is running.
Enter ==
    /\ turn.op = "enter"
    /\ MayRun(turn.job)
    /\ lock' = [lock EXCEPT ![turn.job] = turn.who]
    /\ running' = running \cup {turn.job}
    /\ stop' = Cleared(turn.job)
    /\ turn' = At(turn.who, turn.job, "start")
    /\ UNCHANGED <<proc, bounds, disk, copy, runs, loops, todo, overdue, threads>>

\* mark_started, then the worker thread.  It stands before the "try": when
\* the save is refused the lock is released and _running keeps the job.
StartRun ==
    LET j == turn.job
        r == runs[j] + 1
    IN
    /\ turn.op = "start" /\ turn.loaded
    /\ \/ /\ Save(Started(copy, j, r))
          /\ runs' = [runs EXCEPT ![j] = r]
          /\ work' = [work EXCEPT ![j][r] = IF turn.who = "window" THEN "window" ELSE "busy"]
          /\ turn' = Free
          /\ UNCHANGED <<lock, loops>>
       \/ /\ SaveRefused
          /\ lock' = [lock EXCEPT ![j] = "none"]
          /\ LoopRaises(turn.who, j)
          /\ UNCHANGED <<runs, work>>
    /\ UNCHANGED <<proc, crashes, archive, running, stop, todo, overdue, wcopy>>

\* The thread is done and the task that awaited it has the event loop again.
Resume(j) ==
    /\ proc \in {"up", "stopping"} /\ turn = Free
    /\ lock[j] # "none"
    /\ runs[j] \in RunIds /\ work[j][runs[j]] \in Ended
    /\ turn' = At(lock[j], j, "finish")
    /\ UNCHANGED <<proc, bounds, disk, copy, memory, runs, loops, todo, overdue, threads>>

LeaveLocked(who, j) ==
    /\ UNCHANGED lock
    /\ running' = running \ {j}
    /\ stop' = IF who = "finisher" THEN stop ELSE Cleared(j)
    /\ work' = [work EXCEPT ![j][runs[j]] = "none"]

\* The "finally" and the end of "async with": finish_handed_off clears no stop.
Leave(who, j) ==
    /\ lock' = [lock EXCEPT ![j] = "none"]
    /\ running' = running \ {j}
    /\ stop' = IF who = "finisher" THEN stop ELSE Cleared(j)
    /\ work' = [work EXCEPT ![j][runs[j]] = "none"]

\* mark_finished.  Refused for a run that ended well, it is tried again as a
\* failed one ("except Exception"); refused for a failed one, it propagates.
MarkFinished ==
    LET j == turn.job
        end == work[j][runs[j]]
    IN
    /\ turn.op = "finish" /\ turn.loaded
    /\ \/ /\ Save(Finished(copy, j, runs[j], end))
          /\ turn' = At(turn.who, j, "archive")
          /\ overdue' = overdue \ {j}
          /\ UNCHANGED <<memory, loops, work>>
       \/ /\ SaveRefused /\ end = "ok"
          /\ work' = [work EXCEPT ![j][runs[j]] = "raised"]
          /\ turn' = At(turn.who, j, "finish")
          /\ UNCHANGED <<memory, loops, overdue>>
       \/ /\ SaveRefused /\ end = "raised"
          /\ Leave(turn.who, j)
          /\ LoopRaises(turn.who, j)
          /\ UNCHANGED overdue
    /\ UNCHANGED <<proc, crashes, archive, runs, todo, wcopy>>

\* reports.archive, which never raises; then run() returns True.
Archive ==
    LET j == turn.job
        entry == [run |-> runs[j],
                  outcome |-> IF work[j][runs[j]] = "ok" THEN "ok" ELSE "failed"]
    IN
    /\ turn.op = "archive" /\ turn.who # "boot"
    /\ \/ /\ archive' = [archive EXCEPT ![j] = @ \cup {entry}]
          /\ UNCHANGED faults
       \/ /\ faults < MaxFaults
          /\ faults' = faults + 1
          /\ UNCHANGED archive
    /\ Leave(turn.who, j)
    /\ turn' = CASE turn.who = "loop" -> At("loop", j, "beat")
                 [] turn.who = "window" -> At("window", j, "tried")
                 [] OTHER -> Free
    /\ UNCHANGED <<proc, crashes, file, copy, runs, loops, todo, overdue, wcopy>>

-----------------------------------------------------------------------------
(* The operator and the clock.                                             *)

\* POST /jobs/{name}/run: a task of its own calls run().
Press(j) ==
    /\ proc = "up" /\ turn = Free
    /\ runs[j] < MaxRuns
    /\ turn' = At("manual", j, "enter")
    /\ UNCHANGED <<proc, bounds, disk, copy, memory, runs, loops, todo, overdue, threads>>

\* request_stop: refused unless the job is in _running.
RequestStop(j) ==
    /\ proc = "up" /\ turn = Free
    /\ j \in running
    /\ stop' = stop \cup {<<j, runs[j]>>}
    /\ UNCHANGED <<proc, bounds, disk, turn, copy, lock, running, runs, loops, todo,
                   overdue, threads>>

\* The interval of job j passes since its last run.
Elapse(j) ==
    /\ j \in Interval \ overdue
    /\ file.last[j] # 0
    /\ overdue' = overdue \cup {j}
    /\ UNCHANGED <<proc, bounds, disk, turn, copy, memory, runs, loops, todo, threads>>

-----------------------------------------------------------------------------
(* The worker threads.  Only the update job's writes state.json: the fleet  *)
(* run its hand-off record, a machine's own run the date of its update.     *)

ThreadUnchanged == UNCHANGED <<proc, crashes, archive, turn, copy, memory, runs,
                               loops, todo, overdue>>

\* The runner returns its outcome, or raises.
WorkEnds(j, r) ==
    /\ work[j][r] \in {"busy", "window"}
    /\ \E end \in Ended : work' = [work EXCEPT ![j][r] = end]
    /\ UNCHANGED <<faults, file, wcopy>>
    /\ ThreadUnchanged

\* update_window.record, once run_updates has returned: of a machine's own run,
\* and of a fleet's run that updated a guest which has a window besides.  The
\* process after a restart records no window.
RecordWindow(r) ==
    \/ /\ \/ work[Update][r] = "window"
          \/ /\ work[Update][r] \in {"busy", "waiting"}
             /\ Windows > 0 /\ lock[Update] # "finisher"
       /\ work' = [work EXCEPT ![Update][r] = "recording"]
       /\ wcopy' = file
       /\ UNCHANGED <<faults, file>>
       /\ ThreadUnchanged
    \/ /\ work[Update][r] = "recording"
       /\ \/ /\ file' = wcopy
             /\ work' = [work EXCEPT ![Update][r] = "ok"]
             /\ UNCHANGED faults
          \/ /\ faults < MaxFaults
             /\ faults' = faults + 1
             /\ work' = [work EXCEPT ![Update][r] = "raised"]
             /\ UNCHANGED file
       /\ wcopy' = Blank
       /\ ThreadUnchanged

\* The last step of the fleet's run, timar's own host: its update is started
\* under the host's systemd ...
HandOff(r) ==
    /\ SelfHosted
    /\ work[Update][r] = "busy"
    /\ work' = [work EXCEPT ![Update][r] = "launched"]
    /\ UNCHANGED <<faults, file, wcopy>>
    /\ ThreadUnchanged

\* ... then on_handoff records it with state.set_handoff ...
SetHandoff(r) ==
    \/ /\ work[Update][r] = "launched"
       /\ work' = [work EXCEPT ![Update][r] = "saving"]
       /\ wcopy' = file
       /\ UNCHANGED <<faults, file>>
       /\ ThreadUnchanged
    \/ /\ work[Update][r] = "saving"
       /\ \/ /\ file' = HandedOff(wcopy, r)
             /\ work' = [work EXCEPT ![Update][r] = "waiting"]
             /\ UNCHANGED faults
          \/ /\ faults < MaxFaults
             /\ faults' = faults + 1
             /\ work' = [work EXCEPT ![Update][r] = "raised"]
             /\ UNCHANGED file
       /\ wcopy' = Blank
       /\ ThreadUnchanged

\* ... and wait_for_self_update returns: done, gone, or past the deadline.
\* In the process after a restart, finish_handed_off_update does the same.
WaitEnds(r) ==
    /\ work[Update][r] = "waiting"
    /\ \E end \in Ended : work' = [work EXCEPT ![Update][r] = end]
    /\ UNCHANGED <<faults, file, wcopy>>
    /\ ThreadUnchanged

-----------------------------------------------------------------------------
(* The process: start(), stop() and what may happen to it in between.      *)

\* The jobs a dead process left "running".  An update with a hand-off on record
\* is not one of them.
LeftRunningButUpdate == {j \in Jobs : file.status[j] = "running" /\ j # Update}
LeftRunning == {j \in Jobs : /\ file.status[j] = "running"
                             /\ ~(j = Update /\ file.handoff[Update] # 0)}

\* The container starts the process; start() looks for them first.
Boot ==
    /\ proc = "down"
    /\ proc' = "boot"
    /\ todo' = LeftRunning
    /\ UNCHANGED <<bounds, disk, turn, copy, memory, runs, loops, overdue, threads>>

\* The synchronous part of start(): no other task exists yet.
MarkInterrupted(j) ==
    /\ proc = "boot" /\ turn = Free /\ j \in todo
    /\ file' = Interrupted(file, j)
    /\ turn' = At("boot", j, "archive")
    /\ UNCHANGED <<proc, bounds, archive, copy, memory, runs, loops, todo, overdue, threads>>

\* The archive's entry of an interrupted run, dated to when it started.
ArchiveInterrupted ==
    /\ turn.who = "boot"
    /\ archive' = [archive EXCEPT ![turn.job] =
                      @ \cup {[run |-> file.run[turn.job], outcome |-> "interrupted"]}]
    /\ turn' = Free
    /\ todo' = todo \ {turn.job}
    /\ UNCHANGED <<proc, bounds, file, copy, memory, runs, loops, overdue, threads>>

\* The loops are created, after the task that finishes a handed-off update:
\* the event loop's queue is first in, first out, so that one has the lock
\* before any loop asks for it.
BootEnds ==
    /\ proc = "boot" /\ turn = Free /\ todo = {}
    /\ proc' = "up"
    /\ IF file.status[Update] = "running" /\ file.handoff[Update] # 0
       THEN /\ lock' = [lock EXCEPT ![Update] = "finisher"]
            /\ running' = running \cup {Update}
            /\ work' = [work EXCEPT ![Update][file.handoff[Update]] = "waiting"]
       ELSE UNCHANGED <<lock, running, work>>
    /\ UNCHANGED <<bounds, disk, turn, copy, stop, runs, loops, todo, overdue, wcopy>>

\* stop(), once the event loop is free: the scheduler's own tasks are
\* cancelled where they wait, their "finally" runs and nothing is recorded.
\* Their threads go on, and so does a manual run's task, until the exit.
Shutdown ==
    LET cut == {j \in Jobs : lock[j] \in {"loop", "window", "finisher"}}
    IN
    /\ proc = "up" /\ turn = Free
    /\ crashes < MaxCrashes
    /\ crashes' = crashes + 1
    /\ proc' = "stopping"
    /\ lock' = [j \in Jobs |-> IF j \in cut THEN "none" ELSE lock[j]]
    /\ running' = running \ cut
    /\ stop' = {s \in stop : s[1] \notin cut \/ lock[s[1]] = "finisher"}
    /\ UNCHANGED <<faults, disk, turn, copy, runs, loops, todo, overdue, threads>>

Exit ==
    /\ proc = "stopping"
    /\ proc' = "down"
    /\ MemoryLost
    /\ UNCHANGED <<bounds, disk, runs, overdue>>

\* The process is killed, at any point.
Crash ==
    /\ proc \in {"boot", "up"}
    /\ crashes < MaxCrashes
    /\ crashes' = crashes + 1
    /\ proc' = "down"
    /\ MemoryLost
    /\ UNCHANGED <<faults, disk, runs, overdue>>

-----------------------------------------------------------------------------

\* The task that owns the event loop goes on to its next step.
TurnStep ==
    \/ Load \/ Beat \/ NextRun \/ MarkTried
    \/ Refuse \/ Enter \/ StartRun \/ MarkFinished \/ Archive

ThreadStep ==
    \/ \E r \in RunIds : \/ \E j \in Jobs : WorkEnds(j, r)
                         \/ RecordWindow(r) \/ HandOff(r) \/ SetHandoff(r) \/ WaitEnds(r)

BootStep == Boot \/ ArchiveInterrupted \/ BootEnds \/ \E j \in Jobs : MarkInterrupted(j)

Next ==
    \/ TurnStep \/ ThreadStep \/ BootStep
    \/ WakeWindow \/ \E j \in Jobs : Wake(j)
    \/ \E j \in Jobs : Resume(j)
    \/ \E j \in Jobs : Press(j) \/ RequestStop(j) \/ Elapse(j)
    \/ Shutdown \/ Exit \/ Crash

Spec == Init /\ [][Next]_vars

\* What the platform guarantees: a task that owns the event loop goes on, a
\* thread is run, a process that is down is restarted, a stopping one exits, and
\* the ready queue is first in, first out, so a task that is ready gets its turn.
\* And what it does not: the commands a run waits for end (UpdateRun has what
\* follows if one does not).  Nobody has to press a button, and nothing has to
\* crash.
Fairness ==
    /\ WF_vars(TurnStep) /\ WF_vars(BootStep) /\ WF_vars(Exit)
    /\ \A j \in Jobs, r \in RunIds : WF_vars(WorkEnds(j, r))
    /\ \A r \in RunIds : /\ WF_vars(RecordWindow(r)) /\ WF_vars(SetHandoff(r))
                         /\ WF_vars(WaitEnds(r))
    /\ SF_vars(WakeWindow)
    /\ \A j \in Jobs : SF_vars(Wake(j)) /\ SF_vars(Resume(j))

FairSpec == Spec /\ Fairness

-----------------------------------------------------------------------------
(* Properties.                                                             *)

\* Every variable keeps to the values the code can give it.
TypeOK ==
    /\ proc \in {"down", "boot", "up", "stopping"}
    /\ crashes \in 0 .. MaxCrashes
    /\ faults \in 0 .. MaxFaults
    /\ file \in Files
    /\ archive \in [Jobs -> SUBSET Entries]
    /\ turn \in Turns
    /\ copy \in Files
    /\ lock \in [Jobs -> Holders]
    /\ running \in SUBSET Jobs
    /\ stop \in SUBSET (Jobs \X (0 .. MaxRuns))
    /\ runs \in [Jobs -> 0 .. MaxRuns]
    /\ loopAt \in [Jobs -> {"tick", "due", "awake"}]
    /\ windowAt \in {"tick", "awake"}
    /\ queue \in 0 .. Windows
    /\ todo \in SUBSET Jobs
    /\ overdue \in SUBSET Interval
    /\ work \in [Jobs -> [RunIds -> {"none"} \cup AtWork \cup Ended]]
    /\ wcopy \in Files

\* Two runs of one job never have a thread at the same time: neither two
\* scheduled ones, nor a manual run, a machine's own or a handed-off one on
\* top of them (scheduler.py, Scheduler.__init__ and run).
OneRunAtATime ==
    /\ TypeOK
    /\ \A j \in Jobs : \A r, s \in RunIds :
          work[j][r] # "none" /\ work[j][s] # "none" => r = s

\* A thread at work can only see a stop that was asked of its own run, never
\* one left over from the run before (run clears the event first).
StopIsForThisRun ==
    \A s \in stop : \A r \in RunIds :
        work[s[1]][r] \in AtWork => s[2] = r

\* A hand-off on record describes the run in progress and no other: state.py
\* says mark_started and mark_finished clear it, and nothing else has to.
HandoffDescribesRun ==
    file.handoff[Update] # 0 =>
        /\ file.status[Update] = "running"
        /\ file.run[Update] = file.handoff[Update]

\* The jobs whose record no worker thread can overwrite.  The update thread
\* rewrites the whole file, its own job's record included, but while it is
\* alive nobody else changes that record.
Undisturbed == IF SelfHosted \/ Windows > 0 THEN {Update} ELSE Jobs

\* The record says "running" while a run is at work, and (as long as no save
\* was refused) at no other time in a process that is up: the dashboard does
\* not call a job in progress that is not, or the other way round.
RecordIsTrue ==
    \A j \in Undisturbed :
        /\ \A r \in RunIds : work[j][r] \in AtWork =>
              file.status[j] = "running" /\ file.run[j] = r
        /\ proc = "up" /\ faults = 0 /\ file.status[j] = "running" => lock[j] # "none"

\* A run is archived at most once: crashes, restarts and refused saves never
\* make the archive tell two stories of one run.
SettledOnce ==
    \A j \in Undisturbed : \A a, b \in archive[j] : a.run = b.run => a = b

\* The records keep the promise of JobRecord, as long as no save is refused
\* (refused, a run's record can stay "running" until the next run begins).
Kept == INSTANCE JobRecord WITH
            open <- {j \in Jobs : file.status[j] = "running"},
            run <- file.run,
            told <- archive
RecordsKept == Kept!Spec

\* Whoever takes the event loop gives it back: the pages go on being served.
LoopReturns == turn # Free ~> turn = Free

\* A run that took its job's lock ends, and the job can run again.
EveryRunEnds == \A j \in Jobs : lock[j] # "none" ~> lock[j] = "none"

\* No record says "running" for good, whatever process wrote it.
EveryRecordSettles ==
    \A j \in Jobs : file.status[j] = "running" ~> file.status[j] # "running"

=============================================================================
