---------------------------- MODULE SchedulerProofs ----------------------------
(***************************************************************************)
(* Proofs about Scheduler, for every set of jobs, every deployment and     *)
(* every value of the bounds: type correctness, that two runs of one job   *)
(* never overlap, that a stop never reaches another run, and, further      *)
(* down, what state.json says of the runs.                                 *)
(***************************************************************************)
EXTENDS Scheduler, TLAPS

-----------------------------------------------------------------------------
(* The inductive invariant, by what it is about.                           *)

\* Where the owner of the event loop can be, given the process and the lock.
TurnInv ==
    /\ turn.op \in Ops \ {"none", "archive"} => turn.who \in Holders \ {"none"}
    /\ turn.op \in {"beat", "next", "enter", "start", "tried"} => proc = "up"
    /\ turn.op \in {"start", "finish", "archive"} /\ turn.who # "boot" =>
         turn.who # "none" /\ lock[turn.job] = turn.who

\* What the locks say of the process, and of the threads under them.
LockInv ==
    /\ proc = "stopping" => \A j \in Jobs : lock[j] \in {"none", "manual"}
    /\ proc \in {"down", "boot"} => \A j \in Jobs : lock[j] = "none"
    /\ proc # "stopping" =>
         \A j \in Jobs : lock[j] = "none" => \A r \in RunIds : work[j][r] = "none"

\* A thread belongs to the latest run of its job; a run being started has none
\* yet, and one being recorded has one that is done.
ThreadInv ==
    /\ \A j \in Jobs : \A r \in RunIds : work[j][r] # "none" => r = runs[j]
    /\ turn.op = "start" =>
         /\ runs[turn.job] < MaxRuns
         /\ \A r \in RunIds : work[turn.job][r] = "none"
    /\ turn.op \in {"finish", "archive"} /\ turn.who # "boot" =>
         runs[turn.job] \in RunIds /\ work[turn.job][runs[turn.job]] \in Ended

\* A hand-off, on disk or in a loaded copy, is of the latest update run.
HandoffInv ==
    /\ file.handoff[Update] \in {0, runs[Update]}
    /\ copy.handoff[Update] \in {0, runs[Update]}
    /\ wcopy.handoff[Update] \in {0, runs[Update]}
    /\ (\A r \in RunIds : work[Update][r] \notin {"saving", "recording"}) =>
         wcopy.handoff[Update] = 0

\* The window loop is one task: it waits, owns the event loop or holds the
\* lock, and counts down its due machines.
WindowInv ==
    /\ turn.who = "window" => turn.job = Update /\ windowAt = "awake"
    /\ turn.who = "window" /\ turn.op # "beat" => queue > 0
    /\ turn.op = "tried" => turn.who = "window"
    /\ \A j \in Jobs : lock[j] = "window" => j = Update /\ windowAt = "awake" /\ queue > 0
    /\ lock[Update] = "window" /\ turn.who = "window" =>
         turn.op \in {"start", "finish", "archive"}

\* A stop is of the run that is at work, and none is left when one starts.
StopInv ==
    /\ proc \in {"down", "boot"} => stop = {}
    /\ turn.op = "start" => \A s \in stop : s[1] # turn.job
    /\ StopIsForThisRun

IInv == TypeOK /\ TurnInv /\ LockInv /\ ThreadInv /\ HandoffInv /\ WindowInv /\ StopInv

-----------------------------------------------------------------------------
(* The values the actions build.                                           *)

\* The empty state.json holds no hand-off.
LEMMA BlankType == Blank \in Files /\ Blank.handoff[Update] = 0
  BY SchedulerAssumption DEF Blank, Files, Statuses

\* A hand-off on record names a run, or is absent.
LEMMA HandoffType == \A f \in Files : f.handoff[Update] \in 0 .. MaxRuns
  BY SchedulerAssumption DEF Files

\* mark_started returns a state.json, and clears the hand-off of its job only.
LEMMA StartedType ==
    \A f \in Files, j \in Jobs, r \in 0 .. MaxRuns :
        /\ Started(f, j, r) \in Files
        /\ Started(f, j, r).handoff[Update] = IF j = Update THEN 0 ELSE f.handoff[Update]
  <1> SUFFICES ASSUME NEW f \in Files, NEW j \in Jobs, NEW r \in 0 .. MaxRuns
               PROVE  /\ Started(f, j, r) \in Files
                      /\ Started(f, j, r).handoff[Update] =
                            IF j = Update THEN 0 ELSE f.handoff[Update]
    OBVIOUS
  <1>1. /\ [f.status EXCEPT ![j] = "running"] \in [Jobs -> Statuses]
        /\ [f.run EXCEPT ![j] = r] \in [Jobs -> 0 .. MaxRuns]
        /\ [f.handoff EXCEPT ![j] = 0] \in [Jobs -> 0 .. MaxRuns]
    BY SchedulerAssumption DEF Files, Statuses
  <1>2. Started(f, j, r) \in Files
    BY <1>1 DEF Started, Files
  <1>3. Started(f, j, r).handoff = [f.handoff EXCEPT ![j] = 0]
    BY DEF Started, Files
  <1>4. [f.handoff EXCEPT ![j] = 0][Update] = IF j = Update THEN 0 ELSE f.handoff[Update]
    BY SchedulerAssumption DEF Files
  <1> QED
    BY <1>2, <1>3, <1>4

\* mark_finished does the same.
LEMMA FinishedType ==
    \A f \in Files, j \in Jobs, r \in 0 .. MaxRuns, end \in Ended :
        /\ Finished(f, j, r, end) \in Files
        /\ Finished(f, j, r, end).handoff[Update] = IF j = Update THEN 0 ELSE f.handoff[Update]
  <1> SUFFICES ASSUME NEW f \in Files, NEW j \in Jobs, NEW r \in 0 .. MaxRuns,
                      NEW end \in Ended
               PROVE  /\ Finished(f, j, r, end) \in Files
                      /\ Finished(f, j, r, end).handoff[Update] =
                            IF j = Update THEN 0 ELSE f.handoff[Update]
    OBVIOUS
  <1>1. /\ [f.status EXCEPT ![j] = IF end = "ok" THEN "ok" ELSE "failed"] \in [Jobs -> Statuses]
        /\ [f.last EXCEPT ![j] = r] \in [Jobs -> 0 .. MaxRuns]
        /\ [f.handoff EXCEPT ![j] = 0] \in [Jobs -> 0 .. MaxRuns]
    BY SchedulerAssumption DEF Files, Statuses
  <1>2. Finished(f, j, r, end) \in Files
    BY <1>1 DEF Finished, Files
  <1>3. Finished(f, j, r, end).handoff = [f.handoff EXCEPT ![j] = 0]
    BY DEF Finished, Files
  <1>4. [f.handoff EXCEPT ![j] = 0][Update] = IF j = Update THEN 0 ELSE f.handoff[Update]
    BY SchedulerAssumption DEF Files
  <1> QED
    BY <1>2, <1>3, <1>4

\* set_handoff returns a state.json with the hand-off on record.
LEMMA HandedOffType ==
    \A f \in Files, r \in 0 .. MaxRuns :
        HandedOff(f, r) \in Files /\ HandedOff(f, r).handoff[Update] = r
  BY SchedulerAssumption DEF HandedOff, Files

\* mark_interrupted returns a state.json and keeps the hand-off.
LEMMA InterruptedType ==
    \A f \in Files, j \in Jobs :
        Interrupted(f, j) \in Files /\ Interrupted(f, j).handoff = f.handoff
  BY SchedulerAssumption DEF Interrupted, Files, Statuses

\* The turns an action hands out, and the fields of any turn.
LEMMA TurnTypes ==
    /\ Free \in Turns /\ Free.op = "none" /\ Free.who = "none"
    /\ \A who \in Holders \cup {"boot"}, j \in Jobs, op \in Ops :
          /\ At(who, j, op) \in Turns
          /\ At(who, j, op).who = who
          /\ At(who, j, op).job = j
          /\ At(who, j, op).op = op
    /\ \A t \in Turns :
          /\ t.who \in Holders \cup {"boot"} /\ t.job \in Jobs /\ t.op \in Ops
          /\ [t EXCEPT !.loaded = TRUE] \in Turns
  <1>1. Free \in Turns /\ Free.op = "none" /\ Free.who = "none"
    BY SchedulerAssumption DEF Free, Turns, Holders, Ops
  <1>2. ASSUME NEW who \in Holders \cup {"boot"}, NEW j \in Jobs, NEW op \in Ops
        PROVE  /\ At(who, j, op) \in Turns
               /\ At(who, j, op).who = who
               /\ At(who, j, op).job = j
               /\ At(who, j, op).op = op
    BY DEF At, Turns
  <1>3. ASSUME NEW t \in Turns
        PROVE  /\ t.who \in Holders \cup {"boot"} /\ t.job \in Jobs /\ t.op \in Ops
               /\ [t EXCEPT !.loaded = TRUE] \in Turns
    BY DEF Turns
  <1> QED
    BY <1>1, <1>2, <1>3

-----------------------------------------------------------------------------
(* The invariant holds at first, and every step keeps it.                  *)

\* A new volume, with the process down, satisfies the invariant.
LEMMA InitIInv == Init => IInv
  <1> SUFFICES ASSUME Init PROVE IInv
    OBVIOUS
  <1> USE SchedulerAssumption, BlankType, TurnTypes DEF Init
  <1>1. TypeOK
    BY DEF TypeOK, RunIds, Holders
  <1>2. TurnInv /\ LockInv /\ ThreadInv /\ HandoffInv /\ WindowInv /\ StopInv
    BY DEF TurnInv, LockInv, ThreadInv, HandoffInv, WindowInv, StopInv, StopIsForThisRun, Ops
  <1> QED
    BY <1>1, <1>2 DEF IInv

\* Every step of the event loop, the threads and the process keeps it.
LEMMA StepIInv == IInv /\ [Next]_vars => IInv'
  <1> SUFFICES ASSUME IInv, [Next]_vars PROVE IInv'
    OBVIOUS
  <1> USE SchedulerAssumption DEF disk, loops, threads, memory, bounds
  <1>a. TypeOK /\ TurnInv /\ LockInv /\ ThreadInv /\ HandoffInv /\ WindowInv
    BY DEF IInv
  <1>b. turn.who \in Holders \cup {"boot"} /\ turn.job \in Jobs /\ turn.op \in Ops
    BY <1>a, TurnTypes DEF TypeOK
  <1>c. /\ lock \in [Jobs -> Holders] /\ runs \in [Jobs -> 0 .. MaxRuns]
        /\ work \in [Jobs -> [RunIds -> {"none"} \cup AtWork \cup Ended]]
    BY <1>a DEF TypeOK
  <1>e. StopInv /\ ThreadInv /\ stop \in SUBSET (Jobs \X (0 .. MaxRuns))
    BY <1>a DEF IInv, TypeOK
  <1>d. /\ file \in Files /\ copy \in Files /\ wcopy \in Files
        /\ faults \in 0 .. MaxFaults /\ queue \in 0 .. Windows
    BY <1>a DEF TypeOK
  <1>1. CASE Load
    <2>1. TypeOK'
      BY <1>a, <1>1, BlankType, TurnTypes DEF Load, TypeOK, Holders, Ops
    <2>2. TurnInv'
      BY <1>a, <1>b, <1>c, <1>1 DEF Load, TurnInv, LockInv, Free, At, Holders, Ops
    <2>3. LockInv'
      BY <1>a, <1>b, <1>c, <1>1 DEF Load, TurnInv, LockInv, ThreadInv, Free, At, Holders, Ops
    <2>4. ThreadInv'
      BY <1>a, <1>b, <1>c, <1>1 DEF Load, TurnInv, LockInv, ThreadInv, Free, At, Holders, Ops
    <2>5. HandoffInv'
      BY <1>a, <1>b, <1>c, <1>d, <1>1, BlankType DEF Load, LockInv, ThreadInv, HandoffInv
    <2>6. WindowInv'
      BY <1>a, <1>b, <1>c, <1>d, <1>1 DEF Load, TurnInv, WindowInv, Free, At, Holders, Ops
    <2>7. StopInv'
      BY <1>b, <1>c, <1>e, <1>1 DEF Load, ThreadInv, StopInv, StopIsForThisRun, Free, At
    <2> QED
      BY <2>1, <2>2, <2>3, <2>4, <2>5, <2>6, <2>7 DEF IInv
  <1>2. CASE Beat
    <2>1. TypeOK'
      <3>1. turn' \in Turns
        BY <1>a, <1>b, <1>2, TurnTypes DEF Beat, Save, SaveRefused, LoopRaises, Due, TurnInv, Holders, Ops
      <3>2. /\ loopAt' \in [Jobs -> {"tick", "due", "awake"}]
            /\ windowAt' \in {"tick", "awake"}
            /\ queue' \in 0 .. Windows
        BY <1>a, <1>b, <1>2 DEF Beat, Save, SaveRefused, LoopRaises, Due, TypeOK, WindowInv
      <3>3. file' \in Files /\ copy' \in Files /\ faults' \in 0 .. MaxFaults
        BY <1>d, <1>2, BlankType DEF Beat, Save, SaveRefused, LoopRaises, Due
      <3> QED
        BY <1>a, <1>2, <3>1, <3>2, <3>3 DEF Beat, Save, SaveRefused, LoopRaises, Due, TypeOK
    <2>2. TurnInv'
      BY <1>a, <1>b, <1>c, <1>2 DEF Beat, Save, SaveRefused, LoopRaises, Due, TurnInv, LockInv, Free, At, Holders, Ops
    <2>3. LockInv'
      BY <1>a, <1>b, <1>c, <1>2 DEF Beat, Save, SaveRefused, LoopRaises, Due, TurnInv, LockInv, ThreadInv, Free, At, Holders, Ops
    <2>4. ThreadInv'
      BY <1>a, <1>b, <1>c, <1>2 DEF Beat, Save, SaveRefused, LoopRaises, Due, TurnInv, LockInv, ThreadInv, Free, At, Holders, Ops
    <2>5. HandoffInv'
      BY <1>a, <1>b, <1>c, <1>d, <1>2, BlankType DEF Beat, Save, SaveRefused, LoopRaises, Due, LockInv, ThreadInv, HandoffInv
    <2>6. WindowInv'
      BY <1>a, <1>b, <1>c, <1>d, <1>2 DEF Beat, Save, SaveRefused, LoopRaises, Due, TurnInv, WindowInv, Free, At, Holders, Ops
    <2>7. StopInv'
      BY <1>b, <1>c, <1>e, <1>2 DEF Beat, Save, SaveRefused, LoopRaises, Due, ThreadInv, StopInv, StopIsForThisRun, Free, At
    <2> QED
      BY <2>1, <2>2, <2>3, <2>4, <2>5, <2>6, <2>7 DEF IInv
  <1>3. CASE NextRun
    <2>1. TypeOK'
      <3>1. turn' \in Turns
        BY <1>a, <1>b, <1>3, TurnTypes DEF NextRun, Save, SaveRefused, LoopRaises, TurnInv, Holders, Ops
      <3>2. /\ loopAt' \in [Jobs -> {"tick", "due", "awake"}]
            /\ windowAt' \in {"tick", "awake"}
            /\ queue' \in 0 .. Windows
        BY <1>a, <1>b, <1>3 DEF NextRun, Save, SaveRefused, LoopRaises, TypeOK, WindowInv
      <3>3. file' \in Files /\ copy' \in Files /\ faults' \in 0 .. MaxFaults
        BY <1>d, <1>3, BlankType DEF NextRun, Save, SaveRefused, LoopRaises
      <3> QED
        BY <1>a, <1>3, <3>1, <3>2, <3>3 DEF NextRun, Save, SaveRefused, LoopRaises, TypeOK
    <2>2. TurnInv'
      BY <1>a, <1>b, <1>c, <1>3 DEF NextRun, Save, SaveRefused, LoopRaises, TurnInv, LockInv, Free, At, Holders, Ops
    <2>3. LockInv'
      BY <1>a, <1>b, <1>c, <1>3 DEF NextRun, Save, SaveRefused, LoopRaises, TurnInv, LockInv, ThreadInv, Free, At, Holders, Ops
    <2>4. ThreadInv'
      BY <1>a, <1>b, <1>c, <1>3 DEF NextRun, Save, SaveRefused, LoopRaises, TurnInv, LockInv, ThreadInv, Free, At, Holders, Ops
    <2>5. HandoffInv'
      BY <1>a, <1>b, <1>c, <1>d, <1>3, BlankType DEF NextRun, Save, SaveRefused, LoopRaises, LockInv, ThreadInv, HandoffInv
    <2>6. WindowInv'
      BY <1>a, <1>b, <1>c, <1>d, <1>3 DEF NextRun, Save, SaveRefused, LoopRaises, TurnInv, WindowInv, Free, At, Holders, Ops
    <2>7. StopInv'
      BY <1>b, <1>c, <1>e, <1>3 DEF NextRun, Save, SaveRefused, LoopRaises, ThreadInv, StopInv, StopIsForThisRun, Free, At
    <2> QED
      BY <2>1, <2>2, <2>3, <2>4, <2>5, <2>6, <2>7 DEF IInv
  <1>4. CASE MarkTried
    <2>1. TypeOK'
      <3>1. turn' \in Turns
        BY <1>a, <1>b, <1>4, TurnTypes DEF MarkTried, Save, SaveRefused, LoopRaises, NextDue, TurnInv, Holders, Ops
      <3>2. /\ loopAt' \in [Jobs -> {"tick", "due", "awake"}]
            /\ windowAt' \in {"tick", "awake"}
            /\ queue' \in 0 .. Windows
        BY <1>a, <1>b, <1>4 DEF MarkTried, Save, SaveRefused, LoopRaises, NextDue, TypeOK, WindowInv
      <3>3. file' \in Files /\ copy' \in Files /\ faults' \in 0 .. MaxFaults
        BY <1>d, <1>4, BlankType DEF MarkTried, Save, SaveRefused, LoopRaises, NextDue
      <3> QED
        BY <1>a, <1>4, <3>1, <3>2, <3>3 DEF MarkTried, Save, SaveRefused, LoopRaises, NextDue, TypeOK
    <2>2. TurnInv'
      BY <1>a, <1>b, <1>c, <1>4 DEF MarkTried, Save, SaveRefused, LoopRaises, NextDue, TurnInv, LockInv, Free, At, Holders, Ops
    <2>3. LockInv'
      BY <1>a, <1>b, <1>c, <1>4 DEF MarkTried, Save, SaveRefused, LoopRaises, NextDue, TurnInv, LockInv, ThreadInv, Free, At, Holders, Ops
    <2>4. ThreadInv'
      BY <1>a, <1>b, <1>c, <1>4 DEF MarkTried, Save, SaveRefused, LoopRaises, NextDue, TurnInv, LockInv, ThreadInv, Free, At, Holders, Ops
    <2>5. HandoffInv'
      BY <1>a, <1>b, <1>c, <1>d, <1>4, BlankType DEF MarkTried, Save, SaveRefused, LoopRaises, NextDue, LockInv, ThreadInv, HandoffInv
    <2>6. WindowInv'
      BY <1>a, <1>b, <1>c, <1>d, <1>4 DEF MarkTried, Save, SaveRefused, LoopRaises, NextDue, TurnInv, WindowInv, Free, At, Holders, Ops
    <2>7. StopInv'
      BY <1>b, <1>c, <1>e, <1>4 DEF MarkTried, Save, SaveRefused, LoopRaises, NextDue, ThreadInv, StopInv, StopIsForThisRun, Free, At
    <2> QED
      BY <2>1, <2>2, <2>3, <2>4, <2>5, <2>6, <2>7 DEF IInv
  <1>5. CASE Refuse
    <2>1. TypeOK'
      <3>1. turn' \in Turns
        BY <1>a, <1>b, <1>5, TurnTypes DEF Refuse, NextDue, TurnInv, Holders, Ops
      <3>2. /\ loopAt' \in [Jobs -> {"tick", "due", "awake"}]
            /\ windowAt' \in {"tick", "awake"}
            /\ queue' \in 0 .. Windows
        BY <1>a, <1>b, <1>5 DEF Refuse, NextDue, TypeOK, WindowInv
      <3>3. file' \in Files /\ copy' \in Files /\ faults' \in 0 .. MaxFaults
        BY <1>d, <1>5, BlankType DEF Refuse, NextDue
      <3> QED
        BY <1>a, <1>5, <3>1, <3>2, <3>3 DEF Refuse, NextDue, TypeOK
    <2>2. TurnInv'
      BY <1>a, <1>b, <1>c, <1>5 DEF Refuse, NextDue, MayRun, TurnInv, LockInv, Free, At, Holders, Ops
    <2>3. LockInv'
      BY <1>a, <1>b, <1>c, <1>5 DEF Refuse, NextDue, MayRun, TurnInv, LockInv, ThreadInv, Free, At, Holders, Ops
    <2>4. ThreadInv'
      BY <1>a, <1>b, <1>c, <1>5 DEF Refuse, NextDue, MayRun, TurnInv, LockInv, ThreadInv, Free, At, Holders, Ops
    <2>5. HandoffInv'
      BY <1>a, <1>b, <1>c, <1>d, <1>5, BlankType DEF Refuse, NextDue, MayRun, LockInv, ThreadInv, HandoffInv
    <2>6. WindowInv'
      BY <1>a, <1>b, <1>c, <1>d, <1>5 DEF Refuse, NextDue, MayRun, TurnInv, WindowInv, Free, At, Holders, Ops
    <2>7. StopInv'
      BY <1>b, <1>c, <1>e, <1>5 DEF Refuse, NextDue, MayRun, ThreadInv, StopInv, StopIsForThisRun, Free, At
    <2> QED
      BY <2>1, <2>2, <2>3, <2>4, <2>5, <2>6, <2>7 DEF IInv
  <1>6. CASE Enter
    <2>1. TypeOK'
      <3>1. turn.who \in Holders \ {"none"}
        BY <1>a, <1>6 DEF Enter, TurnInv, Ops
      <3>2. turn' \in Turns
        BY <1>b, <1>6, <3>1, TurnTypes DEF Enter, Ops
      <3>3. /\ lock' \in [Jobs -> Holders]
            /\ running' \in SUBSET Jobs
            /\ stop' \in SUBSET (Jobs \X (0 .. MaxRuns))
        BY <1>a, <1>b, <1>6, <3>1 DEF Enter, Cleared, TypeOK
      <3> QED
        BY <1>a, <1>6, <3>2, <3>3 DEF Enter, Cleared, TypeOK
    <2>2. TurnInv'
      BY <1>a, <1>b, <1>c, <1>6 DEF Enter, MayRun, Cleared, TurnInv, LockInv, Free, At, Holders, Ops
    <2>3. LockInv'
      BY <1>a, <1>b, <1>c, <1>6 DEF Enter, MayRun, Cleared, TurnInv, LockInv, ThreadInv, Free, At, Holders, Ops
    <2>4. ThreadInv'
      BY <1>a, <1>b, <1>c, <1>6 DEF Enter, MayRun, Cleared, TurnInv, LockInv, ThreadInv, Free, At, Holders, Ops
    <2>5. HandoffInv'
      BY <1>a, <1>b, <1>c, <1>d, <1>6, BlankType DEF Enter, MayRun, Cleared, LockInv, ThreadInv, HandoffInv
    <2>6. WindowInv'
      BY <1>a, <1>b, <1>c, <1>d, <1>6 DEF Enter, MayRun, Cleared, TurnInv, WindowInv, Free, At, Holders, Ops
    <2>7. StopInv'
      BY <1>b, <1>c, <1>e, <1>6 DEF Enter, MayRun, Cleared, ThreadInv, StopInv, StopIsForThisRun, Free, At
    <2> QED
      BY <2>1, <2>2, <2>3, <2>4, <2>5, <2>6, <2>7 DEF IInv
  <1>7. CASE StartRun
    <2>0. /\ runs[turn.job] + 1 \in RunIds
          /\ runs[turn.job] + 1 \in 0 .. MaxRuns
          /\ turn.who # "none"
      BY <1>a, <1>b, <1>c, <1>7 DEF StartRun, ThreadInv, TurnInv, RunIds, Ops
    <2>1. TypeOK'
      <3>1. turn' \in Turns
        BY <1>7, TurnTypes DEF StartRun, LoopRaises
      <3>2. /\ loopAt' \in [Jobs -> {"tick", "due", "awake"}]
            /\ windowAt' \in {"tick", "awake"}
            /\ queue' \in 0 .. Windows
        BY <1>a, <1>b, <1>7 DEF StartRun, LoopRaises, TypeOK
      <3>3. file' \in Files /\ copy' \in Files /\ faults' \in 0 .. MaxFaults
        BY <1>b, <1>d, <1>7, <2>0, BlankType, StartedType DEF StartRun, Save, SaveRefused
      <3>4. runs' \in [Jobs -> 0 .. MaxRuns]
        BY <1>b, <1>c, <1>7, <2>0 DEF StartRun
      <3>5. lock' \in [Jobs -> Holders]
        BY <1>b, <1>c, <1>7 DEF StartRun, Holders
      <3>6. work' \in [Jobs -> [RunIds -> {"none"} \cup AtWork \cup Ended]]
        <4>1. CASE work' = work
          BY <1>c, <4>1
        <4>2. ASSUME NEW s \in {"window", "busy"},
                     work' = [work EXCEPT ![turn.job][runs[turn.job] + 1] = s]
              PROVE  work' \in [Jobs -> [RunIds -> {"none"} \cup AtWork \cup Ended]]
          BY <1>b, <1>c, <2>0, <4>2 DEF AtWork
        <4> QED
          BY <1>7, <4>1, <4>2 DEF StartRun
      <3> QED
        BY <1>a, <1>7, <3>1, <3>2, <3>3, <3>4, <3>5, <3>6 DEF StartRun, Save, SaveRefused, TypeOK
    <2>2. TurnInv'
      BY <1>a, <1>b, <1>c, <1>7 DEF StartRun, Save, SaveRefused, LoopRaises, TurnInv, LockInv, Free, At, Holders, Ops
    <2>3. LockInv'
      BY <1>a, <1>b, <1>c, <1>7 DEF StartRun, Save, SaveRefused, LoopRaises, TurnInv, LockInv, ThreadInv, Free, At, Holders, Ops
    <2>4. ThreadInv'
      BY <1>a, <1>b, <1>c, <1>7 DEF StartRun, Save, SaveRefused, LoopRaises, TurnInv, LockInv, ThreadInv, Free, At, Holders, Ops
    <2>5. HandoffInv'
      <3>1. CASE UNCHANGED <<file, runs, work>> /\ copy' = Blank /\ wcopy' = wcopy
        BY <1>a, <3>1, BlankType DEF HandoffInv
      <3>2. CASE /\ file' = Started(copy, turn.job, runs[turn.job] + 1)
                 /\ copy' = Blank /\ wcopy' = wcopy
                 /\ runs' = [runs EXCEPT ![turn.job] = runs[turn.job] + 1]
        <4>1. file'.handoff[Update] = IF turn.job = Update THEN 0 ELSE copy.handoff[Update]
          BY <1>b, <1>d, <2>0, <3>2, StartedType
        <4>2. turn.job = Update => wcopy.handoff[Update] = 0
          BY <1>a, <1>7 DEF StartRun, ThreadInv, HandoffInv
        <4>3. turn.job # Update => runs'[Update] = runs[Update] /\ work'[Update] = work[Update]
          BY <1>b, <1>c, <1>7, <3>2 DEF StartRun
        <4> QED
          BY <1>a, <3>2, <4>1, <4>2, <4>3, BlankType DEF HandoffInv
      <3> QED
        BY <1>7, <3>1, <3>2 DEF StartRun, Save, SaveRefused
    <2>6. WindowInv'
      BY <1>a, <1>b, <1>c, <1>d, <1>7 DEF StartRun, Save, SaveRefused, LoopRaises, TurnInv, WindowInv, Free, At, Holders, Ops
    <2>7. StopInv'
      BY <1>b, <1>c, <1>e, <1>7 DEF StartRun, Save, SaveRefused, LoopRaises, ThreadInv, StopInv, StopIsForThisRun, Free, At
    <2> QED
      BY <2>1, <2>2, <2>3, <2>4, <2>5, <2>6, <2>7 DEF IInv
  <1>8. CASE MarkFinished
    <2>0. /\ runs[turn.job] \in RunIds /\ runs[turn.job] \in 0 .. MaxRuns
          /\ work[turn.job][runs[turn.job]] \in Ended
          /\ turn.who \in Holders \ {"none"}
      <3>1. turn.op = "finish"
        BY <1>8 DEF MarkFinished
      <3>2. turn.who \in Holders \ {"none"}
        BY <1>a, <3>1 DEF TurnInv, Ops
      <3> QED
        BY <1>a, <1>b, <1>c, <3>1, <3>2 DEF ThreadInv, Holders
    <2>1. TypeOK'
      <3>1. turn' \in Turns
        <4>1. \/ turn' = At(turn.who, turn.job, "archive")
              \/ turn' = At(turn.who, turn.job, "finish")
              \/ turn' = Free
          BY <1>8 DEF MarkFinished, LoopRaises
        <4>2. "archive" \in Ops /\ "finish" \in Ops
          BY DEF Ops
        <4> QED
          BY <1>b, <4>1, <4>2, TurnTypes
      <3>2. /\ loopAt' \in [Jobs -> {"tick", "due", "awake"}]
            /\ windowAt' \in {"tick", "awake"}
            /\ queue' \in 0 .. Windows
        BY <1>a, <1>b, <1>8 DEF MarkFinished, LoopRaises, TypeOK
      <3>3. file' \in Files /\ copy' \in Files /\ faults' \in 0 .. MaxFaults
        BY <1>b, <1>d, <1>8, <2>0, BlankType, FinishedType DEF MarkFinished, Save, SaveRefused
      <3>4. /\ lock' \in [Jobs -> Holders]
            /\ running' \in SUBSET Jobs
            /\ stop' \in SUBSET (Jobs \X (0 .. MaxRuns))
            /\ overdue' \in SUBSET Interval
        BY <1>a, <1>b, <1>8 DEF MarkFinished, Leave, Cleared, TypeOK, Holders
      <3>5. work' \in [Jobs -> [RunIds -> {"none"} \cup AtWork \cup Ended]]
        <4>1. \/ work' = work
              \/ work' = [work EXCEPT ![turn.job][runs[turn.job]] = "raised"]
              \/ work' = [work EXCEPT ![turn.job][runs[turn.job]] = "none"]
          BY <1>8 DEF MarkFinished, Leave
        <4> QED
          BY <1>b, <1>c, <2>0, <4>1 DEF Ended
      <3> QED
        BY <1>a, <1>8, <3>1, <3>2, <3>3, <3>4, <3>5 DEF MarkFinished, TypeOK
    <2>2. TurnInv'
      BY <1>a, <1>b, <1>c, <1>8 DEF MarkFinished, Save, SaveRefused, LoopRaises, Leave, Cleared, TurnInv, LockInv, Free, At, Holders, Ops
    <2>3. LockInv'
      <3>1. proc' = proc /\ lock[turn.job] # "none"
        BY <1>a, <1>8, <2>0 DEF MarkFinished, TurnInv, Holders
      <3>2. CASE lock' = lock /\ work' = work
        BY <1>a, <3>1, <3>2 DEF LockInv
      <3>3. CASE /\ lock' = lock
                 /\ work' = [work EXCEPT ![turn.job][runs[turn.job]] = "raised"]
        BY <1>a, <1>b, <1>c, <2>0, <3>1, <3>3 DEF LockInv
      <3>4. CASE /\ lock' = [lock EXCEPT ![turn.job] = "none"]
                 /\ work' = [work EXCEPT ![turn.job][runs[turn.job]] = "none"]
        BY <1>a, <1>b, <1>c, <2>0, <3>1, <3>4 DEF LockInv, ThreadInv
      <3> QED
        BY <1>8, <3>2, <3>3, <3>4 DEF MarkFinished, Leave
    <2>4. ThreadInv'
      <3>1. runs' = runs
        BY <1>8 DEF MarkFinished
      <3>2. CASE turn' = At(turn.who, turn.job, "archive") /\ work' = work
        BY <1>a, <1>b, <2>0, <3>1, <3>2 DEF ThreadInv, At
      <3>3. CASE /\ turn' = At(turn.who, turn.job, "finish")
                 /\ work' = [work EXCEPT ![turn.job][runs[turn.job]] = "raised"]
        BY <1>a, <1>b, <1>c, <2>0, <3>1, <3>3 DEF ThreadInv, At, Ended
      <3>4. CASE /\ turn' = Free
                 /\ work' = [work EXCEPT ![turn.job][runs[turn.job]] = "none"]
        BY <1>a, <1>b, <1>c, <2>0, <3>1, <3>4 DEF ThreadInv, Free
      <3> QED
        BY <1>8, <3>2, <3>3, <3>4 DEF MarkFinished, Leave, LoopRaises
    <2>5. HandoffInv'
      <3>0. /\ file.handoff[Update] \in {0, runs[Update]}
            /\ copy.handoff[Update] \in {0, runs[Update]}
        BY <1>a DEF HandoffInv
      <3>1. /\ UNCHANGED <<runs, wcopy>> /\ copy' = Blank
            /\ file' = file \/ file' = Finished(copy, turn.job, runs[turn.job],
                                               work[turn.job][runs[turn.job]])
        BY <1>8 DEF MarkFinished, Save, SaveRefused
      <3>2. file'.handoff[Update] \in {0, runs[Update]}
        BY <1>b, <1>d, <2>0, <3>0, <3>1, FinishedType
      <3>3. \A q \in RunIds : work[Update][q] \in {"saving", "recording"} =>
               work'[Update][q] = work[Update][q]
        <4>1. \A q \in RunIds : work[Update][q] \in {"saving", "recording"} =>
                 turn.job # Update \/ q # runs[turn.job]
          BY <2>0 DEF Ended
        <4> QED
          BY <1>b, <1>c, <1>8, <4>1 DEF MarkFinished, Leave
      <3> QED
        BY <1>a, <3>1, <3>2, <3>3, BlankType DEF HandoffInv
    <2>6. WindowInv'
      BY <1>a, <1>b, <1>c, <1>d, <1>8 DEF MarkFinished, Save, SaveRefused, LoopRaises, Leave, Cleared, TurnInv, WindowInv, Free, At, Holders, Ops
    <2>7. StopInv'
      <3>1. /\ turn'.op # "start" /\ proc' = proc /\ stop' \subseteq stop
            /\ \A i \in Jobs, q \in RunIds : work'[i][q] \in AtWork => work[i][q] \in AtWork
        BY <1>b, <1>c, <1>8 DEF MarkFinished, Leave, Cleared, LoopRaises, Free, At, AtWork
      <3> QED
        BY <1>e, <3>1 DEF StopInv, StopIsForThisRun
    <2> QED
      BY <2>1, <2>2, <2>3, <2>4, <2>5, <2>6, <2>7 DEF IInv
  <1>9. CASE Archive
    <2>1. TypeOK'
      <3>1. turn' \in Turns
        BY <1>b, <1>9, TurnTypes DEF Archive, Holders, Ops
      <3>2. /\ archive' \in [Jobs -> SUBSET Entries]
            /\ faults' \in 0 .. MaxFaults
        BY <1>a, <1>b, <1>c, <1>9 DEF Archive, TypeOK, Entries, Outcomes
      <3>3. /\ lock' \in [Jobs -> Holders]
            /\ running' \in SUBSET Jobs
            /\ stop' \in SUBSET (Jobs \X (0 .. MaxRuns))
        BY <1>a, <1>b, <1>9 DEF Archive, Leave, Cleared, TypeOK, Holders
      <3>4. work' \in [Jobs -> [RunIds -> {"none"} \cup AtWork \cup Ended]]
        BY <1>b, <1>c, <1>9 DEF Archive, Leave
      <3> QED
        BY <1>a, <1>9, <3>1, <3>2, <3>3, <3>4 DEF Archive, TypeOK
    <2>2. TurnInv'
      <3>1. lock[turn.job] = turn.who /\ turn.who # "none" /\ proc' = proc
        BY <1>a, <1>9 DEF Archive, TurnInv
      <3>2. CASE turn.who \in {"loop", "window"}
        <4>1. proc = "up"
          BY <1>a, <1>b, <3>1, <3>2 DEF LockInv, TypeOK
        <4>2. turn' = At("loop", turn.job, "beat") \/ turn' = At("window", turn.job, "tried")
          BY <1>9, <3>2 DEF Archive
        <4> QED
          BY <3>1, <4>1, <4>2 DEF TurnInv, At, Holders
      <3>3. CASE turn.who \notin {"loop", "window"}
        BY <1>9, <3>3 DEF Archive, TurnInv, Free
      <3> QED
        BY <3>2, <3>3
    <2>3. LockInv'
      BY <1>a, <1>b, <1>c, <1>9 DEF Archive, Leave, Cleared, TurnInv, LockInv, ThreadInv, Free, At, Holders, Ops
    <2>4. ThreadInv'
      BY <1>a, <1>b, <1>c, <1>9 DEF Archive, Leave, Cleared, TurnInv, LockInv, ThreadInv, Free, At, Holders, Ops
    <2>5. HandoffInv'
      <3>1. UNCHANGED <<runs, wcopy, copy, file>>
        BY <1>9 DEF Archive
      <3>2. work[turn.job][runs[turn.job]] \in Ended /\ runs[turn.job] \in RunIds
        BY <1>a, <1>9 DEF Archive, ThreadInv
      <3>3. \A q \in RunIds : work[Update][q] \in {"saving", "recording"} =>
               work'[Update][q] = work[Update][q]
        BY <1>b, <1>c, <1>9, <3>2 DEF Archive, Leave, Ended
      <3> QED
        BY <1>a, <3>1, <3>3 DEF HandoffInv
    <2>6. WindowInv'
      BY <1>a, <1>b, <1>c, <1>d, <1>9 DEF Archive, Leave, Cleared, TurnInv, WindowInv, Free, At, Holders, Ops
    <2>7. StopInv'
      <3>1. /\ turn'.op # "start" /\ proc' = proc /\ stop' \subseteq stop
            /\ \A i \in Jobs, q \in RunIds : work'[i][q] \in AtWork => work[i][q] \in AtWork
        BY <1>b, <1>c, <1>9 DEF Archive, Leave, Cleared, LoopRaises, Free, At, AtWork
      <3> QED
        BY <1>e, <3>1 DEF StopInv, StopIsForThisRun
    <2> QED
      BY <2>1, <2>2, <2>3, <2>4, <2>5, <2>6, <2>7 DEF IInv
  <1>10. ASSUME NEW r \in RunIds, NEW j \in Jobs, WorkEnds(j, r) PROVE IInv'
    <2>0. PICK s \in AtWork \cup Ended :
               work[j][r] \in AtWork /\ work' = [work EXCEPT ![j][r] = s]
      BY <1>10 DEF WorkEnds, AtWork, Ended
    <2>a. /\ turn' = turn /\ runs' = runs /\ proc' = proc /\ lock' = lock /\ stop' = stop
          /\ \A i \in Jobs : \A q \in RunIds :
                work'[i][q] = IF i = j /\ q = r THEN s ELSE work[i][q]
      BY <1>c, <1>10, <2>0 DEF WorkEnds, ThreadUnchanged
    <2>b. s # "none" /\ work[j][r] # "none" /\ work[j][r] \notin Ended
      BY <2>0 DEF AtWork, Ended
    <2>1. TypeOK'
      <3>1. work' \in [Jobs -> [RunIds -> {"none"} \cup AtWork \cup Ended]]
        BY <1>c, <2>0
      <3>2. file' \in Files /\ wcopy' \in Files /\ faults' \in 0 .. MaxFaults
        BY <1>d, <1>10, BlankType DEF WorkEnds
      <3> QED
        BY <1>a, <1>10, <3>1, <3>2 DEF WorkEnds, ThreadUnchanged, TypeOK
    <2>2. TurnInv'
      BY <1>a, <1>b, <1>c, <1>10 DEF WorkEnds, ThreadUnchanged, TurnInv, LockInv, Free, At, Holders, Ops
    <2>3. LockInv'
      BY <1>a, <2>a, <2>b DEF LockInv
    <2>4. ThreadInv'
      <3>1. turn.op \in {"finish", "archive"} /\ turn.who # "boot" =>
              ~(turn.job = j /\ runs[turn.job] = r)
        BY <1>a, <1>b, <2>b DEF ThreadInv
      <3> QED
        BY <1>a, <1>b, <2>a, <2>b, <3>1 DEF ThreadInv
    <2>5. HandoffInv'
      BY <1>a, <1>b, <1>c, <1>d, <1>10, BlankType DEF WorkEnds, ThreadUnchanged, LockInv, ThreadInv, HandoffInv
    <2>6. WindowInv'
      BY <1>a, <1>b, <1>c, <1>d, <1>10 DEF WorkEnds, ThreadUnchanged, TurnInv, WindowInv, Free, At, Holders, Ops
    <2>7. StopInv'
      BY <1>e, <2>0, <2>a DEF StopInv, StopIsForThisRun
    <2> QED
      BY <2>1, <2>2, <2>3, <2>4, <2>5, <2>6, <2>7 DEF IInv
  <1>11. ASSUME NEW r \in RunIds, RecordWindow(r) PROVE IInv'
    <2>0. PICK s \in AtWork \cup Ended :
               work[Update][r] \in AtWork /\ work' = [work EXCEPT ![Update][r] = s]
      BY <1>11 DEF RecordWindow, AtWork, Ended
    <2>a. /\ turn' = turn /\ runs' = runs /\ proc' = proc /\ lock' = lock /\ stop' = stop
          /\ \A i \in Jobs : \A q \in RunIds :
                work'[i][q] = IF i = Update /\ q = r THEN s ELSE work[i][q]
      BY <1>c, <1>11, <2>0 DEF RecordWindow, ThreadUnchanged
    <2>b. s # "none" /\ work[Update][r] # "none" /\ work[Update][r] \notin Ended
      BY <2>0 DEF AtWork, Ended
    <2>1. TypeOK'
      <3>1. work' \in [Jobs -> [RunIds -> {"none"} \cup AtWork \cup Ended]]
        BY <1>c, <2>0
      <3>2. file' \in Files /\ wcopy' \in Files /\ faults' \in 0 .. MaxFaults
        BY <1>d, <1>11, BlankType DEF RecordWindow
      <3> QED
        BY <1>a, <1>11, <3>1, <3>2 DEF RecordWindow, ThreadUnchanged, TypeOK
    <2>2. TurnInv'
      BY <1>a, <1>b, <1>c, <1>11 DEF RecordWindow, ThreadUnchanged, TurnInv, LockInv, Free, At, Holders, Ops
    <2>3. LockInv'
      BY <1>a, <2>a, <2>b DEF LockInv
    <2>4. ThreadInv'
      <3>1. turn.op \in {"finish", "archive"} /\ turn.who # "boot" =>
              ~(turn.job = Update /\ runs[turn.job] = r)
        BY <1>a, <1>b, <2>b DEF ThreadInv
      <3> QED
        BY <1>a, <1>b, <2>a, <2>b, <3>1 DEF ThreadInv
    <2>5. HandoffInv'
      BY <1>a, <1>b, <1>c, <1>d, <1>11, BlankType DEF RecordWindow, ThreadUnchanged, LockInv, ThreadInv, HandoffInv
    <2>6. WindowInv'
      BY <1>a, <1>b, <1>c, <1>d, <1>11 DEF RecordWindow, ThreadUnchanged, TurnInv, WindowInv, Free, At, Holders, Ops
    <2>7. StopInv'
      BY <1>e, <2>0, <2>a DEF StopInv, StopIsForThisRun
    <2> QED
      BY <2>1, <2>2, <2>3, <2>4, <2>5, <2>6, <2>7 DEF IInv
  <1>12. ASSUME NEW r \in RunIds, HandOff(r) PROVE IInv'
    <2>0. PICK s \in AtWork \cup Ended :
               work[Update][r] \in AtWork /\ work' = [work EXCEPT ![Update][r] = s]
      BY <1>12 DEF HandOff, AtWork, Ended
    <2>a. /\ turn' = turn /\ runs' = runs /\ proc' = proc /\ lock' = lock /\ stop' = stop
          /\ \A i \in Jobs : \A q \in RunIds :
                work'[i][q] = IF i = Update /\ q = r THEN s ELSE work[i][q]
      BY <1>c, <1>12, <2>0 DEF HandOff, ThreadUnchanged
    <2>b. s # "none" /\ work[Update][r] # "none" /\ work[Update][r] \notin Ended
      BY <2>0 DEF AtWork, Ended
    <2>1. TypeOK'
      <3>1. work' \in [Jobs -> [RunIds -> {"none"} \cup AtWork \cup Ended]]
        BY <1>c, <2>0
      <3>2. file' \in Files /\ wcopy' \in Files /\ faults' \in 0 .. MaxFaults
        BY <1>d, <1>12, BlankType DEF HandOff
      <3> QED
        BY <1>a, <1>12, <3>1, <3>2 DEF HandOff, ThreadUnchanged, TypeOK
    <2>2. TurnInv'
      BY <1>a, <1>b, <1>c, <1>12 DEF HandOff, ThreadUnchanged, TurnInv, LockInv, Free, At, Holders, Ops
    <2>3. LockInv'
      BY <1>a, <2>a, <2>b DEF LockInv
    <2>4. ThreadInv'
      <3>1. turn.op \in {"finish", "archive"} /\ turn.who # "boot" =>
              ~(turn.job = Update /\ runs[turn.job] = r)
        BY <1>a, <1>b, <2>b DEF ThreadInv
      <3> QED
        BY <1>a, <1>b, <2>a, <2>b, <3>1 DEF ThreadInv
    <2>5. HandoffInv'
      BY <1>a, <1>b, <1>c, <1>d, <1>12, BlankType DEF HandOff, ThreadUnchanged, LockInv, ThreadInv, HandoffInv
    <2>6. WindowInv'
      BY <1>a, <1>b, <1>c, <1>d, <1>12 DEF HandOff, ThreadUnchanged, TurnInv, WindowInv, Free, At, Holders, Ops
    <2>7. StopInv'
      BY <1>e, <2>0, <2>a DEF StopInv, StopIsForThisRun
    <2> QED
      BY <2>1, <2>2, <2>3, <2>4, <2>5, <2>6, <2>7 DEF IInv
  <1>13. ASSUME NEW r \in RunIds, SetHandoff(r) PROVE IInv'
    <2>0. PICK s \in AtWork \cup Ended :
               work[Update][r] \in AtWork /\ work' = [work EXCEPT ![Update][r] = s]
      BY <1>13 DEF SetHandoff, AtWork, Ended
    <2>a. /\ turn' = turn /\ runs' = runs /\ proc' = proc /\ lock' = lock /\ stop' = stop
          /\ \A i \in Jobs : \A q \in RunIds :
                work'[i][q] = IF i = Update /\ q = r THEN s ELSE work[i][q]
      BY <1>c, <1>13, <2>0 DEF SetHandoff, ThreadUnchanged
    <2>b. s # "none" /\ work[Update][r] # "none" /\ work[Update][r] \notin Ended
      BY <2>0 DEF AtWork, Ended
    <2>1. TypeOK'
      <3>1. work' \in [Jobs -> [RunIds -> {"none"} \cup AtWork \cup Ended]]
        BY <1>c, <2>0
      <3>2. file' \in Files /\ wcopy' \in Files /\ faults' \in 0 .. MaxFaults
        BY <1>d, <1>13, BlankType, HandedOffType DEF SetHandoff, RunIds
      <3> QED
        BY <1>a, <1>13, <3>1, <3>2 DEF SetHandoff, ThreadUnchanged, TypeOK
    <2>2. TurnInv'
      BY <1>a, <1>b, <1>c, <1>13 DEF SetHandoff, ThreadUnchanged, TurnInv, LockInv, Free, At, Holders, Ops
    <2>3. LockInv'
      BY <1>a, <2>a, <2>b DEF LockInv
    <2>4. ThreadInv'
      <3>1. turn.op \in {"finish", "archive"} /\ turn.who # "boot" =>
              ~(turn.job = Update /\ runs[turn.job] = r)
        BY <1>a, <1>b, <2>b DEF ThreadInv
      <3> QED
        BY <1>a, <1>b, <2>a, <2>b, <3>1 DEF ThreadInv
    <2>5. HandoffInv'
      <3>1. /\ r = runs[Update] /\ r \in 0 .. MaxRuns /\ runs' = runs /\ copy' = copy
            /\ file.handoff[Update] \in {0, r} /\ copy.handoff[Update] \in {0, r}
            /\ wcopy.handoff[Update] \in {0, r}
        BY <1>a, <1>13, <2>b DEF ThreadInv, HandoffInv, SetHandoff, ThreadUnchanged, RunIds
      <3>2. CASE work[Update][r] = "launched"
        <4>1. /\ file' = file /\ wcopy' = file /\ work'[Update][r] = "saving"
          BY <1>c, <1>13, <3>2 DEF SetHandoff
        <4> QED
          BY <3>1, <4>1 DEF HandoffInv
      <3>3. CASE work[Update][r] = "saving"
        <4>1. wcopy' = Blank /\ (file' = file \/ file' = HandedOff(wcopy, r))
          BY <1>13, <3>3 DEF SetHandoff
        <4>2. HandedOff(wcopy, r).handoff[Update] \in {0, r}
          BY <1>d, <3>1, HandedOffType
        <4>3. file'.handoff[Update] \in {0, r}
          BY <3>1, <4>1, <4>2
        <4> QED
          BY <3>1, <4>1, <4>3, BlankType DEF HandoffInv
      <3>4. work[Update][r] = "launched" \/ work[Update][r] = "saving"
        BY <1>13 DEF SetHandoff
      <3> QED
        BY <3>2, <3>3, <3>4
    <2>6. WindowInv'
      BY <1>a, <1>b, <1>c, <1>d, <1>13 DEF SetHandoff, ThreadUnchanged, TurnInv, WindowInv, Free, At, Holders, Ops
    <2>7. StopInv'
      BY <1>e, <2>0, <2>a DEF StopInv, StopIsForThisRun
    <2> QED
      BY <2>1, <2>2, <2>3, <2>4, <2>5, <2>6, <2>7 DEF IInv
  <1>14. ASSUME NEW r \in RunIds, WaitEnds(r) PROVE IInv'
    <2>0. PICK s \in AtWork \cup Ended :
               work[Update][r] \in AtWork /\ work' = [work EXCEPT ![Update][r] = s]
      BY <1>14 DEF WaitEnds, AtWork, Ended
    <2>a. /\ turn' = turn /\ runs' = runs /\ proc' = proc /\ lock' = lock /\ stop' = stop
          /\ \A i \in Jobs : \A q \in RunIds :
                work'[i][q] = IF i = Update /\ q = r THEN s ELSE work[i][q]
      BY <1>c, <1>14, <2>0 DEF WaitEnds, ThreadUnchanged
    <2>b. s # "none" /\ work[Update][r] # "none" /\ work[Update][r] \notin Ended
      BY <2>0 DEF AtWork, Ended
    <2>1. TypeOK'
      <3>1. work' \in [Jobs -> [RunIds -> {"none"} \cup AtWork \cup Ended]]
        BY <1>c, <2>0
      <3>2. file' \in Files /\ wcopy' \in Files /\ faults' \in 0 .. MaxFaults
        BY <1>d, <1>14, BlankType DEF WaitEnds
      <3> QED
        BY <1>a, <1>14, <3>1, <3>2 DEF WaitEnds, ThreadUnchanged, TypeOK
    <2>2. TurnInv'
      BY <1>a, <1>b, <1>c, <1>14 DEF WaitEnds, ThreadUnchanged, TurnInv, LockInv, Free, At, Holders, Ops
    <2>3. LockInv'
      BY <1>a, <2>a, <2>b DEF LockInv
    <2>4. ThreadInv'
      <3>1. turn.op \in {"finish", "archive"} /\ turn.who # "boot" =>
              ~(turn.job = Update /\ runs[turn.job] = r)
        BY <1>a, <1>b, <2>b DEF ThreadInv
      <3> QED
        BY <1>a, <1>b, <2>a, <2>b, <3>1 DEF ThreadInv
    <2>5. HandoffInv'
      BY <1>a, <1>b, <1>c, <1>d, <1>14, BlankType DEF WaitEnds, ThreadUnchanged, LockInv, ThreadInv, HandoffInv
    <2>6. WindowInv'
      BY <1>a, <1>b, <1>c, <1>d, <1>14 DEF WaitEnds, ThreadUnchanged, TurnInv, WindowInv, Free, At, Holders, Ops
    <2>7. StopInv'
      BY <1>e, <2>0, <2>a DEF StopInv, StopIsForThisRun
    <2> QED
      BY <2>1, <2>2, <2>3, <2>4, <2>5, <2>6, <2>7 DEF IInv
  <1>15. CASE Boot
    <2>1. TypeOK'
      BY <1>a, <1>15 DEF Boot, LeftRunning, TypeOK
    <2>2. TurnInv'
      BY <1>a, <1>b, <1>c, <1>15 DEF Boot, TurnInv, LockInv, Free, At, Holders, Ops
    <2>3. LockInv'
      BY <1>a, <1>b, <1>c, <1>15 DEF Boot, TurnInv, LockInv, ThreadInv, Free, At, Holders, Ops
    <2>4. ThreadInv'
      BY <1>a, <1>b, <1>c, <1>15 DEF Boot, TurnInv, LockInv, ThreadInv, Free, At, Holders, Ops
    <2>5. HandoffInv'
      BY <1>a, <1>b, <1>c, <1>d, <1>15, BlankType DEF Boot, LockInv, ThreadInv, HandoffInv
    <2>6. WindowInv'
      BY <1>a, <1>b, <1>c, <1>d, <1>15 DEF Boot, TurnInv, WindowInv, Free, At, Holders, Ops
    <2>7. StopInv'
      BY <1>b, <1>c, <1>e, <1>15 DEF Boot, ThreadInv, StopInv, StopIsForThisRun, Free, At
    <2> QED
      BY <2>1, <2>2, <2>3, <2>4, <2>5, <2>6, <2>7 DEF IInv
  <1>16. CASE ArchiveInterrupted
    <2>1. TypeOK'
      <3>1. turn' \in Turns
        BY <1>16, TurnTypes DEF ArchiveInterrupted
      <3>2. [run |-> file.run[turn.job], outcome |-> "interrupted"] \in Entries
        BY <1>a, <1>b DEF TypeOK, Files, Entries, Outcomes
      <3>3. archive' \in [Jobs -> SUBSET Entries] /\ todo' \in SUBSET Jobs
        BY <1>a, <1>b, <1>16, <3>2 DEF ArchiveInterrupted, TypeOK
      <3> QED
        BY <1>a, <1>16, <3>1, <3>3 DEF ArchiveInterrupted, TypeOK
    <2>2. TurnInv'
      BY <1>a, <1>b, <1>c, <1>16 DEF ArchiveInterrupted, TurnInv, LockInv, Free, At, Holders, Ops
    <2>3. LockInv'
      BY <1>a, <1>b, <1>c, <1>16 DEF ArchiveInterrupted, TurnInv, LockInv, ThreadInv, Free, At, Holders, Ops
    <2>4. ThreadInv'
      BY <1>a, <1>b, <1>c, <1>16 DEF ArchiveInterrupted, TurnInv, LockInv, ThreadInv, Free, At, Holders, Ops
    <2>5. HandoffInv'
      BY <1>a, <1>b, <1>c, <1>d, <1>16, BlankType DEF ArchiveInterrupted, LockInv, ThreadInv, HandoffInv
    <2>6. WindowInv'
      BY <1>a, <1>b, <1>c, <1>d, <1>16 DEF ArchiveInterrupted, TurnInv, WindowInv, Free, At, Holders, Ops
    <2>7. StopInv'
      BY <1>b, <1>c, <1>e, <1>16 DEF ArchiveInterrupted, ThreadInv, StopInv, StopIsForThisRun, Free, At
    <2> QED
      BY <2>1, <2>2, <2>3, <2>4, <2>5, <2>6, <2>7 DEF IInv
  <1>17. CASE BootEnds
    <2>0. \/ /\ UNCHANGED <<lock, work, running>>
          \/ /\ file.handoff[Update] = runs[Update] /\ runs[Update] \in RunIds
             /\ lock' = [lock EXCEPT ![Update] = "finisher"]
             /\ work' = [work EXCEPT ![Update][runs[Update]] = "waiting"]
      BY <1>a, <1>c, <1>17 DEF BootEnds, HandoffInv, RunIds
    <2>1. TypeOK'
      <3>1. lock' \in [Jobs -> Holders] /\ running' \in SUBSET Jobs
        BY <1>a, <1>17 DEF BootEnds, TypeOK, Holders
      <3>2. work' \in [Jobs -> [RunIds -> {"none"} \cup AtWork \cup Ended]]
        BY <1>c, <2>0 DEF AtWork
      <3> QED
        BY <1>a, <1>17, <3>1, <3>2 DEF BootEnds, TypeOK
    <2>2. TurnInv'
      BY <1>a, <1>b, <1>c, <1>17 DEF BootEnds, TurnInv, LockInv, Free, At, Holders, Ops
    <2>3. LockInv'
      BY <1>a, <1>b, <1>c, <1>17 DEF BootEnds, TurnInv, LockInv, ThreadInv, Free, At, Holders, Ops
    <2>4. ThreadInv'
      BY <1>a, <1>b, <1>c, <1>17, <2>0 DEF BootEnds, ThreadInv, LockInv, Free
    <2>5. HandoffInv'
      BY <1>a, <1>b, <1>c, <1>d, <1>17, BlankType DEF BootEnds, LockInv, ThreadInv, HandoffInv
    <2>6. WindowInv'
      BY <1>a, <1>b, <1>c, <1>d, <1>17 DEF BootEnds, TurnInv, WindowInv, Free, At, Holders, Ops
    <2>7. StopInv'
      BY <1>b, <1>c, <1>e, <1>17 DEF BootEnds, ThreadInv, StopInv, StopIsForThisRun, Free, At
    <2> QED
      BY <2>1, <2>2, <2>3, <2>4, <2>5, <2>6, <2>7 DEF IInv
  <1>18. ASSUME NEW j \in Jobs, MarkInterrupted(j) PROVE IInv'
    <2>1. TypeOK'
      BY <1>a, <1>18, InterruptedType, TurnTypes DEF MarkInterrupted, TypeOK, Ops
    <2>2. TurnInv'
      BY <1>a, <1>b, <1>c, <1>18 DEF MarkInterrupted, TurnInv, LockInv, Free, At, Holders, Ops
    <2>3. LockInv'
      BY <1>a, <1>b, <1>c, <1>18 DEF MarkInterrupted, TurnInv, LockInv, ThreadInv, Free, At, Holders, Ops
    <2>4. ThreadInv'
      BY <1>a, <1>b, <1>c, <1>18 DEF MarkInterrupted, TurnInv, LockInv, ThreadInv, Free, At, Holders, Ops
    <2>5. HandoffInv'
      BY <1>a, <1>d, <1>18, InterruptedType DEF MarkInterrupted, HandoffInv
    <2>6. WindowInv'
      BY <1>a, <1>b, <1>c, <1>d, <1>18 DEF MarkInterrupted, TurnInv, WindowInv, Free, At, Holders, Ops
    <2>7. StopInv'
      BY <1>b, <1>c, <1>e, <1>18 DEF MarkInterrupted, ThreadInv, StopInv, StopIsForThisRun, Free, At
    <2> QED
      BY <2>1, <2>2, <2>3, <2>4, <2>5, <2>6, <2>7 DEF IInv
  <1>19. CASE WakeWindow
    <2>1. TypeOK'
      BY <1>a, <1>19, BlankType, TurnTypes DEF WakeWindow, TypeOK, Holders, Ops
    <2>2. TurnInv'
      BY <1>a, <1>b, <1>c, <1>19 DEF WakeWindow, TurnInv, LockInv, Free, At, Holders, Ops
    <2>3. LockInv'
      BY <1>a, <1>b, <1>c, <1>19 DEF WakeWindow, TurnInv, LockInv, ThreadInv, Free, At, Holders, Ops
    <2>4. ThreadInv'
      BY <1>a, <1>b, <1>c, <1>19 DEF WakeWindow, TurnInv, LockInv, ThreadInv, Free, At, Holders, Ops
    <2>5. HandoffInv'
      BY <1>a, <1>b, <1>c, <1>d, <1>19, BlankType DEF WakeWindow, LockInv, ThreadInv, HandoffInv
    <2>6. WindowInv'
      BY <1>a, <1>b, <1>c, <1>d, <1>19 DEF WakeWindow, TurnInv, WindowInv, Free, At, Holders, Ops
    <2>7. StopInv'
      BY <1>b, <1>c, <1>e, <1>19 DEF WakeWindow, ThreadInv, StopInv, StopIsForThisRun, Free, At
    <2> QED
      BY <2>1, <2>2, <2>3, <2>4, <2>5, <2>6, <2>7 DEF IInv
  <1>20. ASSUME NEW j \in Jobs, Wake(j) PROVE IInv'
    <2>1. TypeOK'
      BY <1>a, <1>20, TurnTypes DEF Wake, TypeOK, Holders, Ops
    <2>2. TurnInv'
      BY <1>a, <1>b, <1>c, <1>20 DEF Wake, TurnInv, LockInv, Free, At, Holders, Ops
    <2>3. LockInv'
      BY <1>a, <1>b, <1>c, <1>20 DEF Wake, TurnInv, LockInv, ThreadInv, Free, At, Holders, Ops
    <2>4. ThreadInv'
      BY <1>a, <1>b, <1>c, <1>20 DEF Wake, TurnInv, LockInv, ThreadInv, Free, At, Holders, Ops
    <2>5. HandoffInv'
      BY <1>a, <1>b, <1>c, <1>d, <1>20, BlankType DEF Wake, LockInv, ThreadInv, HandoffInv
    <2>6. WindowInv'
      BY <1>a, <1>b, <1>c, <1>d, <1>20 DEF Wake, TurnInv, WindowInv, Free, At, Holders, Ops
    <2>7. StopInv'
      BY <1>b, <1>c, <1>e, <1>20 DEF Wake, ThreadInv, StopInv, StopIsForThisRun, Free, At
    <2> QED
      BY <2>1, <2>2, <2>3, <2>4, <2>5, <2>6, <2>7 DEF IInv
  <1>21. ASSUME NEW j \in Jobs, Resume(j) PROVE IInv'
    <2>1. TypeOK'
      <3>1. turn' \in Turns
        BY <1>c, <1>21, TurnTypes DEF Resume, Ops
      <3> QED
        BY <1>a, <1>21, <3>1 DEF Resume, TypeOK
    <2>2. TurnInv'
      BY <1>a, <1>b, <1>c, <1>21 DEF Resume, TurnInv, LockInv, Free, At, Holders, Ops
    <2>3. LockInv'
      BY <1>a, <1>b, <1>c, <1>21 DEF Resume, TurnInv, LockInv, ThreadInv, Free, At, Holders, Ops
    <2>4. ThreadInv'
      BY <1>a, <1>b, <1>c, <1>21 DEF Resume, TurnInv, LockInv, ThreadInv, Free, At, Holders, Ops
    <2>5. HandoffInv'
      BY <1>a, <1>b, <1>c, <1>d, <1>21, BlankType DEF Resume, LockInv, ThreadInv, HandoffInv
    <2>6. WindowInv'
      BY <1>a, <1>b, <1>c, <1>d, <1>21 DEF Resume, TurnInv, WindowInv, Free, At, Holders, Ops
    <2>7. StopInv'
      BY <1>b, <1>c, <1>e, <1>21 DEF Resume, ThreadInv, StopInv, StopIsForThisRun, Free, At
    <2> QED
      BY <2>1, <2>2, <2>3, <2>4, <2>5, <2>6, <2>7 DEF IInv
  <1>22. ASSUME NEW j \in Jobs, Press(j) PROVE IInv'
    <2>1. TypeOK'
      BY <1>a, <1>22, BlankType, TurnTypes DEF Press, TypeOK, Holders, Ops
    <2>2. TurnInv'
      BY <1>a, <1>b, <1>c, <1>22 DEF Press, TurnInv, LockInv, Free, At, Holders, Ops
    <2>3. LockInv'
      BY <1>a, <1>b, <1>c, <1>22 DEF Press, TurnInv, LockInv, ThreadInv, Free, At, Holders, Ops
    <2>4. ThreadInv'
      BY <1>a, <1>b, <1>c, <1>22 DEF Press, TurnInv, LockInv, ThreadInv, Free, At, Holders, Ops
    <2>5. HandoffInv'
      BY <1>a, <1>b, <1>c, <1>d, <1>22, BlankType DEF Press, LockInv, ThreadInv, HandoffInv
    <2>6. WindowInv'
      BY <1>a, <1>b, <1>c, <1>d, <1>22 DEF Press, TurnInv, WindowInv, Free, At, Holders, Ops
    <2>7. StopInv'
      BY <1>b, <1>c, <1>e, <1>22 DEF Press, ThreadInv, StopInv, StopIsForThisRun, Free, At
    <2> QED
      BY <2>1, <2>2, <2>3, <2>4, <2>5, <2>6, <2>7 DEF IInv
  <1>23. ASSUME NEW j \in Jobs, RequestStop(j) PROVE IInv'
    <2>1. TypeOK'
      BY <1>a, <1>23 DEF RequestStop, TypeOK
    <2>2. TurnInv'
      BY <1>a, <1>b, <1>c, <1>23 DEF RequestStop, TurnInv, LockInv, Free, At, Holders, Ops
    <2>3. LockInv'
      BY <1>a, <1>b, <1>c, <1>23 DEF RequestStop, TurnInv, LockInv, ThreadInv, Free, At, Holders, Ops
    <2>4. ThreadInv'
      BY <1>a, <1>b, <1>c, <1>23 DEF RequestStop, TurnInv, LockInv, ThreadInv, Free, At, Holders, Ops
    <2>5. HandoffInv'
      BY <1>a, <1>b, <1>c, <1>d, <1>23, BlankType DEF RequestStop, LockInv, ThreadInv, HandoffInv
    <2>6. WindowInv'
      BY <1>a, <1>b, <1>c, <1>d, <1>23 DEF RequestStop, TurnInv, WindowInv, Free, At, Holders, Ops
    <2>7. StopInv'
      <3>1. /\ turn = Free /\ proc = "up" /\ stop' = stop \cup {<<j, runs[j]>>}
            /\ UNCHANGED <<turn, proc, work>>
        BY <1>23 DEF RequestStop
      <3>2. ASSUME NEW s \in stop', NEW r \in RunIds, work[s[1]][r] \in AtWork
            PROVE  s[2] = r
        <4>1. CASE s \in stop
          BY <1>e, <3>2, <4>1 DEF StopInv, StopIsForThisRun
        <4>2. CASE s = <<j, runs[j]>>
          BY <1>e, <3>2, <4>2 DEF ThreadInv, AtWork
        <4> QED
          BY <3>1, <4>1, <4>2
      <3> QED
        BY <3>1, <3>2 DEF StopInv, StopIsForThisRun, Free
    <2> QED
      BY <2>1, <2>2, <2>3, <2>4, <2>5, <2>6, <2>7 DEF IInv
  <1>24. ASSUME NEW j \in Jobs, Elapse(j) PROVE IInv'
    <2>1. TypeOK'
      BY <1>a, <1>24 DEF Elapse, TypeOK
    <2>2. TurnInv'
      BY <1>a, <1>b, <1>c, <1>24 DEF Elapse, TurnInv, LockInv, Free, At, Holders, Ops
    <2>3. LockInv'
      BY <1>a, <1>b, <1>c, <1>24 DEF Elapse, TurnInv, LockInv, ThreadInv, Free, At, Holders, Ops
    <2>4. ThreadInv'
      BY <1>a, <1>b, <1>c, <1>24 DEF Elapse, TurnInv, LockInv, ThreadInv, Free, At, Holders, Ops
    <2>5. HandoffInv'
      BY <1>a, <1>b, <1>c, <1>d, <1>24, BlankType DEF Elapse, LockInv, ThreadInv, HandoffInv
    <2>6. WindowInv'
      BY <1>a, <1>b, <1>c, <1>d, <1>24 DEF Elapse, TurnInv, WindowInv, Free, At, Holders, Ops
    <2>7. StopInv'
      BY <1>b, <1>c, <1>e, <1>24 DEF Elapse, ThreadInv, StopInv, StopIsForThisRun, Free, At
    <2> QED
      BY <2>1, <2>2, <2>3, <2>4, <2>5, <2>6, <2>7 DEF IInv
  <1>25. CASE Shutdown
    <2>1. TypeOK'
      <3>1. lock' \in [Jobs -> Holders]
        BY <1>c, <1>25 DEF Shutdown, Holders
      <3>2. /\ running' \in SUBSET Jobs
            /\ stop' \in SUBSET (Jobs \X (0 .. MaxRuns))
            /\ crashes' \in 0 .. MaxCrashes
        BY <1>a, <1>25 DEF Shutdown, TypeOK
      <3> QED
        BY <1>a, <1>25, <3>1, <3>2 DEF Shutdown, TypeOK
    <2>2. TurnInv'
      BY <1>a, <1>b, <1>c, <1>25 DEF Shutdown, TurnInv, LockInv, Free, At, Holders, Ops
    <2>3. LockInv'
      BY <1>a, <1>b, <1>c, <1>25 DEF Shutdown, TurnInv, LockInv, ThreadInv, Free, At, Holders, Ops
    <2>4. ThreadInv'
      BY <1>a, <1>b, <1>c, <1>25 DEF Shutdown, TurnInv, LockInv, ThreadInv, Free, At, Holders, Ops
    <2>5. HandoffInv'
      BY <1>a, <1>b, <1>c, <1>d, <1>25, BlankType DEF Shutdown, LockInv, ThreadInv, HandoffInv
    <2>6. WindowInv'
      BY <1>a, <1>b, <1>c, <1>d, <1>25 DEF Shutdown, TurnInv, WindowInv, Free, At, Holders, Ops
    <2>7. StopInv'
      BY <1>b, <1>c, <1>e, <1>25 DEF Shutdown, ThreadInv, StopInv, StopIsForThisRun, Free, At
    <2> QED
      BY <2>1, <2>2, <2>3, <2>4, <2>5, <2>6, <2>7 DEF IInv
  <1>26. CASE Exit
    <2>1. TypeOK'
      BY <1>a, <1>26, BlankType, TurnTypes DEF Exit, MemoryLost, TypeOK, Holders
    <2>2. TurnInv'
      BY <1>a, <1>b, <1>c, <1>26 DEF Exit, MemoryLost, TurnInv, LockInv, Free, At, Holders, Ops
    <2>3. LockInv'
      BY <1>a, <1>b, <1>c, <1>26 DEF Exit, MemoryLost, TurnInv, LockInv, ThreadInv, Free, At, Holders, Ops
    <2>4. ThreadInv'
      BY <1>a, <1>b, <1>c, <1>26 DEF Exit, MemoryLost, TurnInv, LockInv, ThreadInv, Free, At, Holders, Ops
    <2>5. HandoffInv'
      BY <1>a, <1>b, <1>c, <1>d, <1>26, BlankType DEF Exit, MemoryLost, LockInv, ThreadInv, HandoffInv
    <2>6. WindowInv'
      BY <1>a, <1>b, <1>c, <1>d, <1>26 DEF Exit, MemoryLost, TurnInv, WindowInv, Free, At, Holders, Ops
    <2>7. StopInv'
      BY <1>b, <1>c, <1>e, <1>26 DEF Exit, MemoryLost, ThreadInv, StopInv, StopIsForThisRun, Free, At
    <2> QED
      BY <2>1, <2>2, <2>3, <2>4, <2>5, <2>6, <2>7 DEF IInv
  <1>27. CASE Crash
    <2>1. TypeOK'
      BY <1>a, <1>27, BlankType, TurnTypes DEF Crash, MemoryLost, TypeOK, Holders
    <2>2. TurnInv'
      BY <1>a, <1>b, <1>c, <1>27 DEF Crash, MemoryLost, TurnInv, LockInv, Free, At, Holders, Ops
    <2>3. LockInv'
      BY <1>a, <1>b, <1>c, <1>27 DEF Crash, MemoryLost, TurnInv, LockInv, ThreadInv, Free, At, Holders, Ops
    <2>4. ThreadInv'
      BY <1>a, <1>b, <1>c, <1>27 DEF Crash, MemoryLost, TurnInv, LockInv, ThreadInv, Free, At, Holders, Ops
    <2>5. HandoffInv'
      BY <1>a, <1>b, <1>c, <1>d, <1>27, BlankType DEF Crash, MemoryLost, LockInv, ThreadInv, HandoffInv
    <2>6. WindowInv'
      BY <1>a, <1>b, <1>c, <1>d, <1>27 DEF Crash, MemoryLost, TurnInv, WindowInv, Free, At, Holders, Ops
    <2>7. StopInv'
      BY <1>b, <1>c, <1>e, <1>27 DEF Crash, MemoryLost, ThreadInv, StopInv, StopIsForThisRun, Free, At
    <2> QED
      BY <2>1, <2>2, <2>3, <2>4, <2>5, <2>6, <2>7 DEF IInv
  <1>28. CASE UNCHANGED vars
    <2>1. TypeOK'
      BY <1>a, <1>28, BlankType, TurnTypes DEF vars, TypeOK, Holders, Ops
    <2>2. TurnInv'
      BY <1>a, <1>b, <1>c, <1>28 DEF vars, TurnInv, LockInv, Free, At, Holders, Ops
    <2>3. LockInv'
      BY <1>a, <1>b, <1>c, <1>28 DEF vars, TurnInv, LockInv, ThreadInv, Free, At, Holders, Ops
    <2>4. ThreadInv'
      BY <1>a, <1>b, <1>c, <1>28 DEF vars, TurnInv, LockInv, ThreadInv, Free, At, Holders, Ops
    <2>5. HandoffInv'
      BY <1>a, <1>b, <1>c, <1>d, <1>28, BlankType DEF vars, LockInv, ThreadInv, HandoffInv
    <2>6. WindowInv'
      BY <1>a, <1>b, <1>c, <1>d, <1>28 DEF vars, TurnInv, WindowInv, Free, At, Holders, Ops
    <2>7. StopInv'
      BY <1>b, <1>c, <1>e, <1>28 DEF vars, ThreadInv, StopInv, StopIsForThisRun, Free, At
    <2> QED
      BY <2>1, <2>2, <2>3, <2>4, <2>5, <2>6, <2>7 DEF IInv
  <1> QED
    BY <1>1, <1>2, <1>3, <1>4, <1>5, <1>6, <1>7, <1>8, <1>9, <1>10, <1>11, <1>12, <1>13, <1>14, <1>15, <1>16, <1>17, <1>18, <1>19, <1>20, <1>21, <1>22, <1>23, <1>24, <1>25, <1>26, <1>27, <1>28 DEF Next, TurnStep, ThreadStep, BootStep

-----------------------------------------------------------------------------

\* Every variable keeps to its type, and with it: every write of state.json
\* keeps to the records the pages read.
THEOREM TypeCorrect == Spec => []TypeOK
  <1>1. IInv => TypeOK
    BY DEF IInv
  <1> QED
    BY <1>1, InitIInv, StepIInv, PTL DEF Spec

\* However scheduled runs, manual runs, machines' own runs, hand-offs, crashes
\* and refused saves interleave, a job never has two threads (Scheduler.run).
THEOREM MutualExclusion == Spec => []OneRunAtATime
  <1>1. IInv => OneRunAtATime
    BY DEF IInv, ThreadInv, OneRunAtATime
  <1> QED
    BY <1>1, InitIInv, StepIInv, PTL DEF Spec

\* A stop asked of one run never reaches the thread of another (cancel.clear
\* in Scheduler.run).
THEOREM StopsAreNotStale == Spec => []StopIsForThisRun
  <1>1. IInv => StopIsForThisRun
    BY DEF IInv, StopInv
  <1> QED
    BY <1>1, InitIInv, StepIInv, PTL DEF Spec

-----------------------------------------------------------------------------
(***************************************************************************)
(* The records: true of the runs, with a hand-off only of the run in       *)
(* progress and no run archived twice; and without refused saves JobRecord *)
(* is implemented.                                                         *)
(*                                                                         *)
(* The argument is one about three copies of state.json: the file, what    *)
(* the event loop has loaded, and what the update's thread has.  The loop  *)
(* may save over the thread and the thread over the loop, but what either  *)
(* puts back of an undisturbed job's status and run is what is there.      *)
(***************************************************************************)

WritesFile == SelfHosted \/ Windows > 0
Writing == {"window", "launched", "saving", "recording"}
AtArchive(j) == turn.op = "archive" /\ turn.job = j
Same(f, g, j) == f.status[j] = g.status[j] /\ f.run[j] = g.run[j]

\* Only a thread that there is reason for writes the file, and start() closes out
\* interrupted runs before there is anything else.
KindInv ==
  /\ \A r \in RunIds : work[Update][r] \in Writing => WritesFile
  /\ turn.who = "boot" => proc = "boot" /\ turn.op = "archive"

\* The record is of the latest run, running as long as its thread is not recorded.
RunInv ==
  \A j \in Undisturbed :
    /\ file.run[j] = runs[j]
    /\ \A r \in RunIds : work[j][r] # "none" /\ ~AtArchive(j) => file.status[j] = "running"
    /\ AtArchive(j) => file.status[j] # "running"

\* The copies agree with the file.
CopyInv ==
  /\ turn.loaded => \A j \in Undisturbed : Same(copy, file, j)
  /\ \A r \in RunIds :
       work[Update][r] \in {"saving", "recording"} => Same(wcopy, file, Update)

\* What HandoffDescribesRun says, of each of the three.
Describes(f) ==
  f.handoff[Update] # 0 => f.status[Update] = "running" /\ f.run[Update] = f.handoff[Update]
HandInv == Describes(file) /\ Describes(copy) /\ Describes(wcopy)

\* start() has still to close out exactly the runs that were left running.
TodoInv ==
  /\ \A j \in Undisturbed \cap todo :
       /\ proc = "boot"
       /\ ~AtArchive(j) =>
            file.status[j] = "running" /\ (j = Update => file.handoff[Update] = 0)
  /\ proc = "boot" => \A j \in Undisturbed :
       file.status[j] = "running" => j \in todo \/ (j = Update /\ file.handoff[Update] # 0)

\* While no save was refused, what is running has its lock, and what is about to
\* start is not running.
OpenInv ==
  \A j \in Undisturbed :
    proc = "up" /\ faults = 0 /\ file.status[j] = "running" =>
      lock[j] # "none" /\ ~(turn.op = "start" /\ turn.job = j)

\* The archive tells of earlier runs, and of the latest once it is closed.
ToldInv ==
  /\ \A j \in Undisturbed : \A a \in archive[j] :
       /\ a.run <= runs[j]
       /\ a.run = runs[j] => file.status[j] # "running" /\ ~AtArchive(j)
  /\ SettledOnce

RInv == KindInv /\ RunInv /\ CopyInv /\ HandInv /\ TodoInv /\ OpenInv /\ ToldInv

-----------------------------------------------------------------------------
(* What the writes make of one record.                                     *)

LEMMA UndisturbedIs ==
  /\ Undisturbed \subseteq Jobs /\ Update \in Undisturbed
  /\ WritesFile => Undisturbed = {Update}
BY SchedulerAssumption DEF Undisturbed, WritesFile

LEMMA StartedIs ==
  ASSUME NEW f \in Files, NEW j \in Jobs, NEW r \in 0 .. MaxRuns, NEW k \in Jobs
  PROVE  /\ Started(f, j, r).status[k] = IF k = j THEN "running" ELSE f.status[k]
         /\ Started(f, j, r).run[k] = IF k = j THEN r ELSE f.run[k]
         /\ Started(f, j, r).handoff[k] = IF k = j THEN 0 ELSE f.handoff[k]
BY DEF Started, Files

LEMMA FinishedIs ==
  ASSUME NEW f \in Files, NEW j \in Jobs, NEW r \in 0 .. MaxRuns, NEW end, NEW k \in Jobs
  PROVE  /\ Finished(f, j, r, end).status[k] =
              IF k = j THEN IF end = "ok" THEN "ok" ELSE "failed" ELSE f.status[k]
         /\ Finished(f, j, r, end).run[k] = f.run[k]
         /\ Finished(f, j, r, end).handoff[k] = IF k = j THEN 0 ELSE f.handoff[k]
BY DEF Finished, Files

LEMMA InterruptedIs ==
  ASSUME NEW f \in Files, NEW j \in Jobs, NEW k \in Jobs
  PROVE  /\ Interrupted(f, j).status[k] = IF k = j THEN "failed" ELSE f.status[k]
         /\ Interrupted(f, j).run[k] = f.run[k]
         /\ Interrupted(f, j).handoff[k] = f.handoff[k]
BY DEF Interrupted, Files

LEMMA HandedOffIs ==
  ASSUME NEW f \in Files, NEW r \in 0 .. MaxRuns, NEW k \in Jobs
  PROVE  /\ HandedOff(f, r).status[k] = f.status[k]
         /\ HandedOff(f, r).run[k] = f.run[k]
         /\ HandedOff(f, r).handoff[Update] = r
BY SchedulerAssumption DEF HandedOff, Files

LEMMA BlankDescribes == Describes(Blank)
BY BlankType DEF Describes

-----------------------------------------------------------------------------
(* A step that leaves the records of the undisturbed jobs and their runs as *)
(* they are, whichever copy of the file it saves.                          *)

LEMMA Calm ==
  ASSUME RInv,
         UNCHANGED <<proc, archive, runs, todo>>,
         \A j \in Undisturbed : Same(file', file, j),
         Describes(file'), Describes(copy'), Describes(wcopy'),
         proc = "boot" => file' = file,
         turn'.loaded => \A j \in Undisturbed : Same(copy', file', j),
         \A j \in Undisturbed : \A r \in RunIds : work'[j][r] # "none" => work[j][r] # "none",
         \A r \in RunIds : work'[Update][r] \in Writing => WritesFile,
         \A r \in RunIds :
           work'[Update][r] \in {"saving", "recording"} => Same(wcopy', file', Update),
         \/ turn' = turn
         \/ turn.op # "archive" /\ turn'.op # "archive" /\ turn'.who # "boot",
         faults' = 0 =>
           /\ faults = 0
           /\ \A j \in Undisturbed : lock[j] # "none" => lock'[j] # "none"
           /\ turn'.op = "start" =>
                (turn.op = "start" /\ turn'.job = turn.job) \/ lock[turn'.job] = "none"
  PROVE  RInv'
<1>1. \A j : AtArchive(j)' <=> AtArchive(j)
  BY DEF AtArchive
<1>2. KindInv'
  BY DEF RInv, KindInv, Writing
<1>3. Undisturbed' = Undisturbed /\ \A j \in Undisturbed :
        file'.status[j] = file.status[j] /\ file'.run[j] = file.run[j]
  BY DEF Same, Undisturbed
<1>4. RunInv'
  BY <1>1, <1>3 DEF RInv, RunInv
<1>5. CopyInv'
  BY <1>3 DEF CopyInv, Same
<1>6. HandInv'
  BY DEF HandInv, Describes
<1>7. TodoInv'
  BY <1>1, <1>3 DEF RInv, TodoInv
<1>8. OpenInv'
  BY <1>3 DEF RInv, OpenInv
<1>9. ToldInv'
  <2>1. SettledOnce'
    BY <1>3 DEF RInv, ToldInv, SettledOnce
  <2> QED
    BY <1>1, <1>3, <2>1 DEF RInv, ToldInv
<1> QED
  BY <1>2, <1>4, <1>5, <1>6, <1>7, <1>8, <1>9 DEF RInv

-----------------------------------------------------------------------------
(* The turn's steps, but for those that begin or end a run.                *)

LEMMA TurnIs ==
  ASSUME TypeOK
  PROVE  /\ turn.job \in Jobs
         /\ Free.op = "none" /\ Free.who = "none" /\ ~Free.loaded /\ Free.job = Update
         /\ \A who, j, op : /\ At(who, j, op).who = who /\ At(who, j, op).job = j
                            /\ At(who, j, op).op = op /\ ~At(who, j, op).loaded
BY DEF TypeOK, Turns, Free, At

LEMMA SameAsFile ==
  ASSUME RInv
  PROVE  /\ \A j \in Undisturbed : Same(file, file, j)
         /\ Describes(file) /\ Describes(copy) /\ Describes(wcopy)
         /\ turn.loaded => \A j \in Undisturbed : Same(copy, file, j)
         /\ \A r \in RunIds : work[Update][r] \in Writing => WritesFile
         /\ \A r \in RunIds :
              work[Update][r] \in {"saving", "recording"} => Same(wcopy, file, Update)
BY DEF RInv, HandInv, CopyInv, KindInv, Same

LEMMA LoadKeeps ==
  ASSUME IInv, RInv, Load
  PROVE  RInv'
<1>1. turn'.loaded = TRUE /\ turn'.op = turn.op /\ turn'.who = turn.who /\ turn'.job = turn.job
  BY DEF Load, IInv, TypeOK, Turns
<1>2. turn.op # "archive" /\ turn'.who # "boot"
  BY <1>1 DEF Load, RInv, KindInv
<1>3. copy' = file /\ UNCHANGED <<proc, faults, file, archive, lock, runs, todo, work, wcopy>>
  BY DEF Load, bounds, disk, memory, threads
<1> QED
  BY <1>1, <1>2, <1>3, SameAsFile, Calm DEF Same, Describes

\* beat, set_next_run and mark_tried save what was loaded, or are refused.
LEMMA SavesKeep ==
  ASSUME IInv, RInv,
         Beat \/ NextRun \/ MarkTried
  PROVE  RInv'
<1> DEFINE Saved == /\ turn.loaded /\ turn.op \in {"beat", "next", "tried"}
                    /\ copy' = Blank
                    /\ \/ file' = copy /\ faults' = faults
                       \/ file' = file /\ faults' = faults + 1
                    /\ UNCHANGED <<proc, archive, lock, runs, todo, work, wcopy>>
           Turned == ~turn'.loaded /\ turn'.op \notin {"archive", "start"} /\ turn'.who # "boot"
<1>1. Saved
  <2>1. CASE Beat
    BY <2>1 DEF Beat, Save, SaveRefused, memory, threads
  <2>2. CASE NextRun
    BY <2>2 DEF NextRun, Save, SaveRefused, memory, threads
  <2>3. CASE MarkTried
    BY <2>3 DEF MarkTried, Save, SaveRefused, memory, threads
  <2> QED
    BY <2>1, <2>2, <2>3
<1>t. TypeOK
  BY DEF IInv
<1>2. turn' = Free \/ (\E who \in {"loop", "window"}, op \in {"next", "enter"} : \E j \in Jobs : turn' = At(who, j, op))
  <2>1. CASE Beat
    BY <2>1, <1>t, TurnIs, SchedulerAssumption DEF Beat, Due, LoopRaises
  <2>2. CASE NextRun
    BY <2>2, <1>t, TurnIs DEF NextRun, LoopRaises
  <2>3. CASE MarkTried
    BY <2>3, <1>t, SchedulerAssumption DEF MarkTried, NextDue, LoopRaises
  <2> QED
    BY <2>1, <2>2, <2>3
<1>3. Turned
  BY <1>2, <1>t, TurnIs
<1>4. proc # "boot"
  BY <1>1 DEF IInv, TurnInv
<1>5. faults' = 0 => faults = 0
  BY <1>1, <1>t DEF TypeOK
<1>6. (\A j \in Undisturbed : Same(file', file, j)) /\ Describes(file')
  BY <1>1, SameAsFile DEF Describes
<1>7. /\ Describes(copy') /\ Describes(wcopy')
      /\ \A r \in RunIds : work'[Update][r] \in Writing => WritesFile
      /\ \A r \in RunIds :
           work'[Update][r] \in {"saving", "recording"} => Same(wcopy', file', Update)
  BY <1>1, <1>6, SameAsFile, BlankDescribes, UndisturbedIs DEF Describes, Same
<1> QED
  BY <1>1, <1>3, <1>4, <1>5, <1>6, <1>7, Calm

\* What only moves the turn, or takes a lock that is free.
LEMMA TurnsKeep ==
  ASSUME IInv, RInv,
         \/ WakeWindow \/ Refuse \/ Enter
         \/ \E j \in Jobs : Wake(j) \/ Resume(j) \/ Press(j)
  PROVE  RInv'
<1>t. TypeOK
  BY DEF IInv
<1>1. /\ turn.op \in {"none", "enter"}
      /\ UNCHANGED <<proc, faults, file, archive, copy, runs, todo, work, wcopy>>
  BY <1>t, TurnIs DEF WakeWindow, Refuse, Enter, Wake, Resume, Press, disk, bounds, memory, threads
<1>h. \A j \in Jobs : lock[j] \in Holders
  BY <1>t DEF TypeOK
<1>2. \/ turn' = Free
      \/ \E who \in Holders, op \in {"beat", "enter", "finish"} : \E j \in Jobs : turn' = At(who, j, op)
      \/ Enter
  <2>1. CASE WakeWindow
    BY <2>1, SchedulerAssumption DEF WakeWindow, Holders
  <2>2. CASE Refuse
    BY <2>2, <1>t, TurnIs, SchedulerAssumption DEF Refuse, NextDue, Holders
  <2>3. ASSUME NEW j \in Jobs, Wake(j)
        PROVE  \E who \in Holders, op \in {"beat", "enter", "finish"} : turn' = At(who, j, op)
    BY <2>3 DEF Wake, Holders
  <2>4. ASSUME NEW j \in Jobs, Resume(j)
        PROVE  turn' = At(lock[j], j, "finish")
    BY <2>4 DEF Resume
  <2>5. ASSUME NEW j \in Jobs, Press(j)
        PROVE  turn' = At("manual", j, "enter")
    BY <2>5 DEF Press
  <2> QED
    BY <1>h, <2>1, <2>2, <2>3, <2>4, <2>5 DEF Holders
<1>3. CASE Enter
  <2>1. turn' = At(turn.who, turn.job, "start") /\ lock[turn.job] = "none"
    BY <1>3 DEF Enter, MayRun
  <2>2. turn.who # "boot"
    BY <1>1 DEF RInv, KindInv
  <2>3. \A j \in Undisturbed : lock[j] # "none" => lock'[j] # "none"
    BY <1>3, UndisturbedIs DEF Enter, MayRun, IInv, TypeOK
  <2>4. ~turn'.loaded /\ turn'.op = "start" /\ turn'.who # "boot" /\ turn'.job = turn.job
    BY <2>1, <2>2, TurnIs DEF IInv
  <2> QED
    BY <1>1, <2>1, <2>3, <2>4, SameAsFile, Calm DEF Same, Describes
<1>4. CASE ~Enter
  <2>1. lock' = lock
    BY <1>4 DEF WakeWindow, Refuse, Wake, Resume, Press, memory
  <2>2. ~turn'.loaded /\ turn'.op \notin {"archive", "start"} /\ turn'.who # "boot"
    BY <1>2, <1>4, TurnIs DEF IInv, Holders
  <2> QED
    BY <1>1, <2>1, <2>2, SameAsFile, Calm DEF Same, Describes
<1> QED
  BY <1>3, <1>4

\* What the records do not see.
LEMMA OthersKeep ==
  ASSUME RInv,
         UNCHANGED vars \/ \E j \in Jobs : RequestStop(j) \/ Elapse(j)
  PROVE  RInv'
<1>1. UNCHANGED <<proc, faults, file, archive, turn, copy, lock, runs, todo, work, wcopy>>
  BY DEF vars, RequestStop, Elapse, disk, bounds, memory, threads
<1> QED
  BY <1>1, SameAsFile, Calm DEF Same, Describes

-----------------------------------------------------------------------------
(* A run begins and ends.                                                  *)

\* The threads a job has left when a run of it is over.
LEMMA LeaveIs ==
  ASSUME IInv, NEW who, NEW j \in Jobs, runs[j] \in RunIds, Leave(who, j)
  PROVE  \A k \in Jobs : \A r \in RunIds :
           work'[k][r] = IF k = j THEN "none" ELSE work[k][r]
<1>1. work \in [Jobs -> [RunIds -> {"none"} \cup AtWork \cup Ended]]
  BY DEF IInv, TypeOK
<1>2. work' = [work EXCEPT ![j][runs[j]] = "none"]
  BY DEF Leave
<1>3. \A r \in RunIds : work[j][r] # "none" => r = runs[j]
  BY DEF IInv, ThreadInv
<1> QED
  BY <1>1, <1>2, <1>3

\* mark_started, refused: the lock is free again, but nothing was started.
LEMMA RefusedStartKeeps ==
  ASSUME IInv, RInv, StartRun, SaveRefused
  PROVE  RInv'
<1>t. TypeOK
  BY DEF IInv
<1>1. /\ turn.op = "start" /\ file' = file /\ copy' = Blank /\ faults' = faults + 1
      /\ UNCHANGED <<proc, archive, todo, wcopy>>
  BY DEF StartRun, SaveRefused
<1>2. faults' # 0
  BY <1>1, <1>t DEF TypeOK
<1>3. PICK unsaved \in {TRUE} : UNCHANGED <<runs, work>> /\ turn' = Free
  <2>1. runs[turn.job] + 1 # runs[turn.job] /\ faults' # faults
    BY <1>1, <1>t DEF TypeOK, Turns
  <2> QED
    BY <2>1 DEF StartRun, Save, LoopRaises
<1> QED
  BY <1>1, <1>2, <1>3, <1>t, TurnIs, SameAsFile, BlankDescribes, Calm DEF Same, Describes

\* mark_started, and the thread.
LEMMA StartKeeps ==
  ASSUME IInv, RInv, StartRun, ~SaveRefused
  PROVE  RInv'
<1>t. TypeOK /\ turn.job \in Jobs /\ runs[turn.job] \in 0 .. MaxRuns /\ MaxRuns \in Nat
  BY TurnIs, SchedulerAssumption DEF IInv, TypeOK
<1>j. PICK j \in Jobs, r \in RunIds :
        /\ j = turn.job /\ r = runs[turn.job] + 1
        /\ r \in 0 .. MaxRuns /\ runs[j] < r /\ runs[j] # r
  <2>1. runs[turn.job] < MaxRuns
    BY DEF StartRun, IInv, ThreadInv
  <2> QED
    BY <1>t, <2>1 DEF RunIds
<1>1. /\ turn.op = "start" /\ turn.loaded /\ turn' = Free
      /\ file' = Started(copy, j, r) /\ copy' = Blank /\ faults' = faults
      /\ runs' = [runs EXCEPT ![j] = r]
      /\ work' = [work EXCEPT ![j][r] = IF turn.who = "window" THEN "window" ELSE "busy"]
      /\ UNCHANGED <<proc, archive, lock, todo, wcopy>>
  BY <1>j DEF StartRun, Save
<1>2. /\ \A q \in RunIds : work[j][q] = "none"
      /\ lock[j] = turn.who /\ turn.who # "none" /\ proc = "up"
      /\ turn.who = "window" => j = Update /\ WritesFile
  <2>1. turn.who # "boot"
    BY <1>1 DEF RInv, KindInv
  <2>2. turn.who = "window" => turn.job = Update /\ Windows > 0
    BY <1>1, <1>t, SchedulerAssumption DEF IInv, WindowInv, TypeOK
  <2> QED
    BY <1>1, <1>j, <2>1, <2>2 DEF IInv, ThreadInv, TurnInv, WritesFile
<1>3. \A k \in Jobs : runs'[k] = IF k = j THEN r ELSE runs[k]
  BY <1>1, <1>t DEF TypeOK
<1>w. \A k \in Jobs : \A q \in RunIds :
        IF k = j /\ q = r THEN work'[k][q] \in {"busy", "window"} ELSE work'[k][q] = work[k][q]
  BY <1>1, <1>t DEF TypeOK
<1>b. work'[j][r] = "window" => j = Update /\ WritesFile
  BY <1>1, <1>2, <1>t DEF TypeOK
<1>4. \A k \in Jobs : /\ file'.status[k] = IF k = j THEN "running" ELSE copy.status[k]
                      /\ file'.run[k] = IF k = j THEN r ELSE copy.run[k]
                      /\ file'.handoff[k] = IF k = j THEN 0 ELSE copy.handoff[k]
  <2>1. copy \in Files
    BY <1>t DEF TypeOK
  <2> QED
    BY <1>1, <1>j, <2>1, StartedIs
<1>s. \A k \in Undisturbed : copy.status[k] = file.status[k] /\ copy.run[k] = file.run[k]
  BY <1>1 DEF RInv, CopyInv, Same
<1>5. turn'.op = "none" /\ turn'.who = "none" /\ ~turn'.loaded
  BY <1>1, <1>t, TurnIs
<1>6. \A k : ~AtArchive(k) /\ ~AtArchive(k)'
  BY <1>1, <1>5 DEF AtArchive
<1>u. Undisturbed' = Undisturbed /\ Undisturbed \subseteq Jobs /\ Update \in Undisturbed
  BY UndisturbedIs DEF Undisturbed
<1>f. \A k \in Undisturbed : /\ file'.status[k] = IF k = j THEN "running" ELSE file.status[k]
                             /\ file'.run[k] = IF k = j THEN r ELSE file.run[k]
  BY <1>4, <1>s, <1>u
<1>7. KindInv'
  <2>1. \A q \in RunIds : work[Update][q] \in Writing => WritesFile
    BY DEF RInv, KindInv
  <2>2. ASSUME NEW q \in RunIds, work'[Update][q] \in Writing
        PROVE  WritesFile
    BY <1>w, <1>b, <2>1, <2>2, SchedulerAssumption DEF Writing
  <2> QED
    BY <1>5, <2>2 DEF KindInv, WritesFile, Writing
<1>8. RunInv'
  <2>1. ASSUME NEW k \in Undisturbed
        PROVE  /\ file'.run[k] = runs'[k]
               /\ \A q \in RunIds : work'[k][q] # "none" => file'.status[k] = "running"
    <3>1. file.run[k] = runs[k] /\ \A q \in RunIds : work[k][q] # "none" => file.status[k] = "running"
      BY <1>6 DEF RInv, RunInv
    <3> QED
      BY <1>3, <1>w, <1>f, <1>u, <3>1
  <2> QED
    BY <1>6, <1>u, <2>1 DEF RunInv
<1>9. CopyInv'
  <2>1. ASSUME NEW q \in RunIds, work'[Update][q] \in {"saving", "recording"}
        PROVE  Same(wcopy, file, Update) /\ Update # j
    BY <1>2, <1>w, <2>1, SchedulerAssumption DEF RInv, CopyInv
  <2>2. ASSUME NEW q \in RunIds, work'[Update][q] \in {"saving", "recording"}
        PROVE  Same(wcopy', file', Update)
    BY <1>1, <1>f, <1>u, <2>1, <2>2 DEF Same
  <2> QED
    BY <1>5, <2>2 DEF CopyInv
<1>10. HandInv'
  <2>1. Describes(copy) /\ Describes(wcopy)
    BY DEF RInv, HandInv
  <2>2. Describes(file')
    BY <1>4, <2>1, SchedulerAssumption DEF Describes
  <2>3. Describes(copy') /\ Describes(wcopy')
    BY <1>1, <2>1, BlankDescribes DEF Describes
  <2> QED
    BY <2>2, <2>3 DEF HandInv, Describes
<1>11. TodoInv'
  <2>1. proc' = "up" /\ Undisturbed \cap todo' = {}
    BY <1>1, <1>2 DEF RInv, TodoInv
  <2> QED
    BY <1>u, <2>1 DEF TodoInv
<1>12. OpenInv'
  <2>1. ASSUME NEW k \in Undisturbed, faults = 0, file'.status[k] = "running"
        PROVE  lock[k] # "none"
    BY <1>2, <1>f, <2>1 DEF RInv, OpenInv
  <2> QED
    BY <1>1, <1>5, <1>u, <2>1 DEF OpenInv
<1>13. ToldInv'
  <2>1. SettledOnce'
    BY <1>1, <1>u DEF RInv, ToldInv, SettledOnce
  <2>2. \A k \in Undisturbed : \A a \in archive[k] : a.run \in Nat /\ runs[k] \in Nat
    BY <1>t, <1>u DEF TypeOK, Entries
  <2>3. ASSUME NEW k \in Undisturbed, NEW a \in archive[k]
        PROVE  a.run <= runs'[k] /\ (a.run = runs'[k] => file'.status[k] # "running")
    <3>1. a.run <= runs[k] /\ (a.run = runs[k] => file.status[k] # "running")
      BY DEF RInv, ToldInv
    <3>2. CASE k = j
      BY <1>j, <1>3, <2>2, <3>1, <3>2
    <3>3. CASE k # j
      BY <1>3, <1>f, <1>u, <3>1, <3>3
    <3> QED
      BY <3>2, <3>3
  <2> QED
    BY <1>1, <1>6, <1>u, <2>1, <2>3 DEF ToldInv
<1> QED
  BY <1>7, <1>8, <1>9, <1>10, <1>11, <1>12, <1>13 DEF RInv

\* What a turn that ends a run finds: its thread is done, and it is not start()'s.
LEMMA EndingIs ==
  ASSUME IInv, RInv, turn.op = "finish" \/ (turn.op = "archive" /\ turn.who # "boot")
  PROVE  /\ turn.job \in Jobs /\ runs[turn.job] \in RunIds
         /\ work[turn.job][runs[turn.job]] \in Ended
         /\ \A q \in RunIds : work[turn.job][q] \in {"none"} \cup Ended
         /\ turn.who # "boot" /\ proc # "boot" /\ Undisturbed \cap todo = {}
<1>t. TypeOK /\ turn.job \in Jobs
  BY TurnIs DEF IInv
<1>1. turn.who # "boot"
  BY DEF RInv, KindInv
<1>2. runs[turn.job] \in RunIds /\ work[turn.job][runs[turn.job]] \in Ended
  BY <1>1 DEF IInv, ThreadInv
<1>3. \A q \in RunIds : work[turn.job][q] # "none" => q = runs[turn.job]
  BY <1>t DEF IInv, ThreadInv
<1>4. proc # "boot"
  BY <1>t, <1>1 DEF IInv, TurnInv, LockInv
<1> QED
  BY <1>t, <1>1, <1>2, <1>3, <1>4 DEF RInv, TodoInv

\* mark_finished, saved.
LEMMA FinishKeeps ==
  ASSUME IInv, RInv, MarkFinished, ~SaveRefused
  PROVE  RInv'
<1>t. TypeOK /\ turn.op = "finish" /\ turn.loaded
  BY DEF IInv, MarkFinished
<1>e. /\ turn.job \in Jobs /\ runs[turn.job] \in RunIds
      /\ work[turn.job][runs[turn.job]] \in Ended
      /\ \A q \in RunIds : work[turn.job][q] \in {"none"} \cup Ended
      /\ turn.who # "boot" /\ proc # "boot" /\ Undisturbed \cap todo = {}
  BY <1>t, EndingIs
<1>j. PICK j \in Jobs : j = turn.job
  BY <1>e
<1>r. PICK end \in Ended : end = work[j][runs[j]]
  BY <1>e, <1>j
<1>1. /\ turn' = At(turn.who, j, "archive")
      /\ file' = Finished(copy, j, runs[j], end) /\ copy' = Blank /\ faults' = faults
      /\ UNCHANGED <<proc, archive, lock, runs, work, todo, wcopy>>
  BY <1>j, <1>r DEF MarkFinished, Save, memory
<1>4. \A k \in Jobs : /\ file'.status[k] = IF k = j THEN IF end = "ok" THEN "ok" ELSE "failed"
                                           ELSE copy.status[k]
                      /\ file'.run[k] = copy.run[k]
                      /\ file'.handoff[k] = IF k = j THEN 0 ELSE copy.handoff[k]
  <2>1. copy \in Files /\ runs[j] \in 0 .. MaxRuns
    BY <1>t DEF TypeOK
  <2> QED
    BY <1>1, <2>1, FinishedIs
<1>5. turn'.op = "archive" /\ turn'.who # "boot" /\ turn'.job = j /\ ~turn'.loaded
  BY <1>1, <1>t, <1>e, TurnIs
<1>6. \A k : ~AtArchive(k) /\ (AtArchive(k)' <=> k = j)
  BY <1>t, <1>5 DEF AtArchive
<1>u. Undisturbed' = Undisturbed /\ Undisturbed \subseteq Jobs /\ Update \in Undisturbed
  BY UndisturbedIs DEF Undisturbed
<1>f. \A k \in Undisturbed : /\ k = j => file'.status[k] # "running"
                             /\ k # j => file'.status[k] = file.status[k]
                             /\ file'.run[k] = file.run[k]
  <2>1. \A k \in Undisturbed : copy.status[k] = file.status[k] /\ copy.run[k] = file.run[k]
    BY <1>t DEF RInv, CopyInv, Same
  <2> QED
    BY <1>4, <1>u, <2>1
<1>7. KindInv'
  BY <1>1, <1>5 DEF RInv, KindInv, WritesFile
<1>8. RunInv'
  BY <1>1, <1>6, <1>f, <1>u DEF RInv, RunInv
<1>9. CopyInv'
  <2>1. ASSUME NEW q \in RunIds, work'[Update][q] \in {"saving", "recording"}
        PROVE  Same(wcopy, file, Update) /\ Update # j
    BY <1>1, <1>j, <1>e, <2>1 DEF RInv, CopyInv, Ended
  <2>2. ASSUME NEW q \in RunIds, work'[Update][q] \in {"saving", "recording"}
        PROVE  Same(wcopy', file', Update)
    BY <1>1, <1>f, <1>u, <2>1, <2>2 DEF Same
  <2> QED
    BY <1>5, <2>2 DEF CopyInv
<1>10. HandInv'
  <2>1. Describes(copy) /\ Describes(wcopy)
    BY DEF RInv, HandInv
  <2>2. Describes(file')
    BY <1>4, <2>1, SchedulerAssumption DEF Describes
  <2>3. Describes(copy') /\ Describes(wcopy')
    BY <1>1, <2>1, BlankDescribes DEF Describes
  <2> QED
    BY <2>2, <2>3 DEF HandInv, Describes
<1>11. TodoInv'
  BY <1>1, <1>e, <1>u DEF TodoInv
<1>12. OpenInv'
  BY <1>1, <1>5, <1>f, <1>u DEF RInv, OpenInv
<1>13. ToldInv'
  <2>1. SettledOnce'
    BY <1>1, <1>u DEF RInv, ToldInv, SettledOnce
  <2>2. ASSUME NEW k \in Undisturbed, NEW a \in archive[k]
        PROVE  a.run <= runs[k] /\ (a.run = runs[k] => file'.status[k] # "running" /\ k # j)
    <3>1. a.run <= runs[k] /\ (a.run = runs[k] => file.status[k] # "running")
      BY DEF RInv, ToldInv
    <3>2. k = j => file.status[k] = "running"
      BY <1>e, <1>j, <1>6 DEF RInv, RunInv, Ended
    <3> QED
      BY <1>f, <3>1, <3>2
  <2> QED
    BY <1>1, <1>6, <1>u, <2>1, <2>2 DEF ToldInv
<1> QED
  BY <1>7, <1>8, <1>9, <1>10, <1>11, <1>12, <1>13 DEF RInv

\* mark_finished, refused: tried again as a failure, or the exception leaves run().
LEMMA RefusedFinishKeeps ==
  ASSUME IInv, RInv, MarkFinished, SaveRefused
  PROVE  RInv'
<1>t. TypeOK /\ turn.op = "finish"
  BY DEF IInv, MarkFinished
<1>e. /\ turn.job \in Jobs /\ runs[turn.job] \in RunIds
      /\ work[turn.job][runs[turn.job]] \in Ended
      /\ \A q \in RunIds : work[turn.job][q] \in {"none"} \cup Ended
      /\ turn.who # "boot" /\ proc # "boot"
  BY <1>t, EndingIs
<1>1. /\ file' = file /\ copy' = Blank /\ faults' # 0
      /\ UNCHANGED <<proc, archive, runs, todo, wcopy>>
  BY <1>t DEF MarkFinished, SaveRefused, TypeOK
<1>2. faults' # faults
  BY <1>t DEF SaveRefused, TypeOK
<1>3. CASE Leave(turn.who, turn.job) /\ LoopRaises(turn.who, turn.job)
  <2>1. \A k \in Jobs : \A q \in RunIds :
          work'[k][q] = IF k = turn.job THEN "none" ELSE work[k][q]
    BY <1>3, <1>e, LeaveIs
  <2>2. ~turn'.loaded /\ turn'.op = "none" /\ turn'.who = "none"
    BY <1>3, <1>t, TurnIs DEF LoopRaises
  <2>3. \A q \in RunIds : work'[Update][q] # "none" => work'[Update][q] = work[Update][q]
    BY <2>1, SchedulerAssumption
  <2>4. \A k \in Undisturbed : \A q \in RunIds : work'[k][q] # "none" => work[k][q] # "none"
    BY <2>1, UndisturbedIs
  <2> QED
    BY <1>1, <1>t, <2>2, <2>3, <2>4, SameAsFile, BlankDescribes, Calm DEF Same, Describes, Writing
<1>4. CASE /\ work' = [work EXCEPT ![turn.job][runs[turn.job]] = "raised"]
           /\ turn' = At(turn.who, turn.job, "finish")
  <2>1. \A k \in Jobs : \A q \in RunIds :
          work'[k][q] = work[k][q] \/ (work'[k][q] = "raised" /\ work[k][q] # "none")
    BY <1>4, <1>e, <1>t DEF TypeOK, Ended
  <2>2. ~turn'.loaded /\ turn'.op = "finish" /\ turn'.who # "boot"
    BY <1>4, <1>t, <1>e, TurnIs
  <2>3. \A q \in RunIds : work'[Update][q] # "raised" => work'[Update][q] = work[Update][q]
    BY <2>1, SchedulerAssumption
  <2>4. \A k \in Undisturbed : \A q \in RunIds : work'[k][q] # "none" => work[k][q] # "none"
    BY <2>1, UndisturbedIs
  <2> QED
    BY <1>1, <1>t, <2>2, <2>3, <2>4, SameAsFile, BlankDescribes, Calm DEF Same, Describes, Writing
<1> QED
  BY <1>2, <1>3, <1>4 DEF MarkFinished, Save

\* reports.archive, and run() is over.
LEMMA ArchiveKeeps ==
  ASSUME IInv, RInv, Archive
  PROVE  RInv'
<1>t. TypeOK /\ turn.op = "archive" /\ turn.who # "boot"
  BY DEF IInv, Archive
<1>e. /\ turn.job \in Jobs /\ runs[turn.job] \in RunIds
      /\ proc # "boot" /\ Undisturbed \cap todo = {}
  BY <1>t, EndingIs
<1>j. PICK j \in Jobs : j = turn.job
  BY <1>e
<1>1. /\ UNCHANGED <<proc, file, copy, runs, todo, wcopy>>
      /\ lock' = [lock EXCEPT ![j] = "none"]
      /\ faults' = 0 => faults = 0
  BY <1>t, <1>j DEF Archive, Leave, TypeOK
<1>2. \A k \in Jobs : \A a \in archive'[k] : a \in archive[k] \/ (k = j /\ a.run = runs[j])
  BY <1>j, <1>t DEF Archive, TypeOK
<1>s. \A k \in Jobs : \A a, b \in archive'[k] :
        a \notin archive[k] /\ b \notin archive[k] => a = b
  BY <1>j, <1>t DEF Archive, TypeOK
<1>3. \A k \in Jobs : \A q \in RunIds : work'[k][q] = IF k = j THEN "none" ELSE work[k][q]
  BY <1>j, <1>e, LeaveIs DEF Archive
<1>5. ~turn'.loaded /\ turn'.op \notin {"archive", "start"} /\ turn'.who # "boot"
  BY <1>t, TurnIs DEF Archive
<1>6. \A k : (AtArchive(k) <=> k = j) /\ ~AtArchive(k)'
  BY <1>j, <1>t, <1>5 DEF AtArchive
<1>u. Undisturbed' = Undisturbed /\ Undisturbed \subseteq Jobs /\ Update \in Undisturbed
  BY UndisturbedIs DEF Undisturbed
<1>7. KindInv'
  BY <1>1, <1>3, <1>5, SchedulerAssumption DEF RInv, KindInv, WritesFile, Writing
<1>8. RunInv'
  BY <1>1, <1>3, <1>6, <1>u DEF RInv, RunInv
<1>9. CopyInv'
  BY <1>1, <1>3, <1>5, <1>u DEF RInv, CopyInv, Same
<1>10. HandInv'
  BY <1>1 DEF RInv, HandInv, Describes
<1>11. TodoInv'
  BY <1>1, <1>e, <1>u DEF TodoInv
<1>12. OpenInv'
  <2>1. \A k \in Undisturbed : file.status[k] = "running" => k # j /\ lock'[k] = lock[k]
    BY <1>1, <1>6, <1>u, <1>t DEF RInv, RunInv, TypeOK
  <2> QED
    BY <1>1, <1>5, <1>u, <2>1 DEF RInv, OpenInv
<1>13. ToldInv'
  <2>1. ASSUME NEW k \in Undisturbed, NEW a \in archive[k]
        PROVE  /\ a.run <= runs[k] /\ (a.run = runs[k] => file.status[k] # "running")
               /\ k = j => a.run # runs[k]
    BY <1>6 DEF RInv, ToldInv
  <2>2. runs[j] <= runs[j] /\ (j \in Undisturbed => file.status[j] # "running")
    BY <1>6, <1>t DEF RInv, RunInv, TypeOK
  <2>3. SettledOnce'
    <3>1. ASSUME NEW k \in Undisturbed, NEW a \in archive'[k], NEW b \in archive'[k], a.run = b.run
          PROVE  a = b
      <4>1. CASE a \in archive[k] /\ b \in archive[k]
        BY <3>1, <4>1 DEF RInv, ToldInv, SettledOnce
      <4>2. CASE a \notin archive[k] /\ b \notin archive[k]
        BY <1>s, <1>u, <4>2
      <4>3. CASE (a \in archive[k] /\ b \notin archive[k]) \/ (a \notin archive[k] /\ b \in archive[k])
        BY <1>2, <1>u, <2>1, <3>1, <4>3
      <4> QED
        BY <4>1, <4>2, <4>3
    <3> QED
      BY <1>u, <3>1 DEF SettledOnce
  <2> QED
    BY <1>1, <1>2, <1>6, <1>u, <2>1, <2>2, <2>3 DEF ToldInv
<1> QED
  BY <1>7, <1>8, <1>9, <1>10, <1>11, <1>12, <1>13 DEF RInv

-----------------------------------------------------------------------------
(* The worker threads.                                                     *)

\* A thread that is there: the process is not starting, and the run is the latest.
LEMMA ThreadIs ==
  ASSUME IInv, RInv, NEW j \in Jobs, NEW r \in RunIds, work[j][r] # "none"
  PROVE  /\ proc # "boot"
         /\ r = runs[j]
         /\ \A q \in RunIds : q # r => work[j][q] = "none"
         /\ work[j][r] \notin Ended => ~AtArchive(j)
<1>1. proc # "boot"
  BY DEF IInv, LockInv
<1>2. \A q \in RunIds : work[j][q] # "none" => q = runs[j]
  BY DEF IInv, ThreadInv
<1>3. AtArchive(j) => work[j][runs[j]] \in Ended
  BY <1>1 DEF AtArchive, RInv, KindInv, IInv, ThreadInv
<1> QED
  BY <1>1, <1>2, <1>3

\* A thread goes on without touching the file.
LEMMA GoesOn ==
  ASSUME IInv, RInv, NEW j \in Jobs, NEW r \in RunIds, NEW at,
         work[j][r] # "none",
         work' = [work EXCEPT ![j][r] = at],
         j = Update /\ at \in Writing => WritesFile,
         \/ wcopy' = wcopy /\ at \notin {"saving", "recording"}
         \/ j = Update /\ wcopy' = file
         \/ j = Update /\ wcopy' = Blank /\ at \notin {"saving", "recording"},
         file' = file,
         faults' = faults \/ faults' # 0,
         ThreadUnchanged
  PROVE  RInv'
<1>t. TypeOK
  BY DEF IInv
<1>1. UNCHANGED <<proc, archive, turn, copy, lock, runs, todo>>
  BY DEF ThreadUnchanged, memory
<1>2. \A k \in Jobs : \A q \in RunIds :
        work'[k][q] = IF k = j /\ q = r THEN at ELSE work[k][q]
  BY <1>t DEF TypeOK
<1>3. \A k \in Undisturbed : \A q \in RunIds : work'[k][q] # "none" => work[k][q] # "none"
  BY <1>2, UndisturbedIs
<1>4. \A q \in RunIds : work'[Update][q] \in Writing => WritesFile
  BY <1>2, SameAsFile, SchedulerAssumption
<1>5. \A q \in RunIds : work'[Update][q] \in {"saving", "recording"} => Same(wcopy', file', Update)
  <2>1. ASSUME NEW q \in RunIds, work'[Update][q] \in {"saving", "recording"}
        PROVE  wcopy' = file \/ (wcopy' = wcopy /\ work[Update][q] \in {"saving", "recording"})
    <3>1. j = Update => q = r
      BY <1>2, <2>1, ThreadIs
    <3> QED
      BY <1>2, <2>1, <3>1, SchedulerAssumption
  <2> QED
    BY <2>1, SameAsFile DEF Same
<1>6. Describes(file') /\ Describes(copy') /\ Describes(wcopy')
  BY <1>1, SameAsFile, BlankDescribes DEF Describes
<1> QED
  BY <1>1, <1>3, <1>4, <1>5, <1>6, SameAsFile, Calm DEF Same

\* The thread saves what it has loaded, with or without a hand-off of its run.
LEMMA ThreadSaves ==
  ASSUME IInv, RInv, NEW r \in RunIds,
         work[Update][r] \in {"saving", "recording"},
         \E end \in {"ok", "waiting"} : work' = [work EXCEPT ![Update][r] = end],
         file' = wcopy \/ file' = HandedOff(wcopy, r),
         wcopy' = Blank, faults' = faults,
         ThreadUnchanged
  PROVE  RInv'
<1>t. TypeOK /\ wcopy \in Files /\ runs[Update] \in 0 .. MaxRuns /\ Update \in Jobs
  BY SchedulerAssumption DEF IInv, TypeOK
<1>1. UNCHANGED <<proc, archive, turn, copy, lock, runs, todo>>
  BY DEF ThreadUnchanged, memory
<1>2. /\ Undisturbed = {Update} /\ Same(wcopy, file, Update)
      /\ turn.loaded => Same(copy, file, Update)
  BY UndisturbedIs, SameAsFile DEF Writing
<1>3. /\ proc # "boot" /\ r = runs[Update] /\ ~AtArchive(Update)
      /\ \A q \in RunIds : q # r => work[Update][q] = "none"
  BY <1>t, ThreadIs DEF Ended
<1>4. /\ file'.status[Update] = wcopy.status[Update]
      /\ file'.run[Update] = wcopy.run[Update]
      /\ file' # wcopy => file'.handoff[Update] = r
  BY <1>t, <1>3, HandedOffIs
<1>5. file.status[Update] = "running" /\ file.run[Update] = r
  BY <1>2, <1>3 DEF RInv, RunInv
<1>6. Describes(file') /\ Describes(copy') /\ Describes(wcopy')
  <2>1. Describes(wcopy) /\ Describes(copy)
    BY SameAsFile
  <2>2. Describes(file')
    BY <1>2, <1>4, <1>5, <2>1 DEF Describes, Same
  <2> QED
    BY <1>1, <2>1, <2>2, BlankDescribes DEF Describes
<1>7. \A q \in RunIds : work'[Update][q] \in {"none", "ok", "waiting"}
  BY <1>t, <1>3 DEF TypeOK
<1>8. /\ \A k \in Undisturbed : Same(file', file, k)
      /\ turn'.loaded => \A k \in Undisturbed : Same(copy', file', k)
  BY <1>1, <1>2, <1>4 DEF Same
<1>9. \A k \in Undisturbed : \A q \in RunIds : work'[k][q] # "none" => work[k][q] # "none"
  <2>1. work[Update][r] # "none" /\ \A q \in RunIds : q # r => work'[Update][q] = work[Update][q]
    BY <1>t DEF TypeOK
  <2> QED
    BY <1>2, <2>1
<1>10. \A q \in RunIds : work'[Update][q] \notin Writing
  BY <1>7 DEF Writing
<1>11. \A q \in RunIds : work'[Update][q] \notin {"saving", "recording"}
  BY <1>10 DEF Writing
<1> QED
  BY <1>1, <1>3, <1>6, <1>8, <1>9, <1>10, <1>11, Calm

LEMMA ThreadsKeep ==
  ASSUME IInv, RInv, ThreadStep
  PROVE  RInv'
<1>t. TypeOK /\ Update \in Jobs
  BY SchedulerAssumption DEF IInv
<1>f. \A n \in Nat : n + 1 # 0
  OBVIOUS
<1>n. faults \in Nat
  BY <1>t DEF TypeOK
<1>1. ASSUME NEW j \in Jobs, NEW r \in RunIds, WorkEnds(j, r)
      PROVE  RInv'
  <2>1. PICK end \in Ended : work' = [work EXCEPT ![j][r] = end]
    BY <1>1 DEF WorkEnds
  <2>2. end \notin Writing /\ end \notin {"saving", "recording"}
    BY DEF Writing, Ended
  <2>3. wcopy' = wcopy /\ file' = file /\ faults' = faults /\ ThreadUnchanged /\ work[j][r] # "none"
    BY <1>1 DEF WorkEnds
  <2> QED
    BY <2>1, <2>2, <2>3, GoesOn
<1>2. ASSUME NEW r \in RunIds, WaitEnds(r)
      PROVE  RInv'
  <2>1. PICK end \in Ended : work' = [work EXCEPT ![Update][r] = end]
    BY <1>2 DEF WaitEnds
  <2>2. end \notin Writing /\ end \notin {"saving", "recording"}
    BY DEF Writing, Ended
  <2>3. wcopy' = wcopy /\ file' = file /\ faults' = faults /\ ThreadUnchanged
        /\ work[Update][r] # "none"
    BY <1>2 DEF WaitEnds
  <2> QED
    BY <1>t, <2>1, <2>2, <2>3, GoesOn
<1>3. ASSUME NEW r \in RunIds, HandOff(r)
      PROVE  RInv'
  <2>1. /\ work' = [work EXCEPT ![Update][r] = "launched"] /\ WritesFile
        /\ wcopy' = wcopy /\ file' = file /\ faults' = faults /\ ThreadUnchanged
        /\ work[Update][r] # "none"
    BY <1>3 DEF HandOff, WritesFile
  <2> QED
    BY <1>t, <2>1, GoesOn
<1>4. ASSUME NEW r \in RunIds, SetHandoff(r)
      PROVE  RInv'
  <2>1. CASE /\ work[Update][r] = "launched"
             /\ work' = [work EXCEPT ![Update][r] = "saving"]
             /\ wcopy' = file
    <3>1. WritesFile
      BY <2>1, SameAsFile DEF Writing
    <3>2. file' = file /\ faults' = faults /\ ThreadUnchanged
      BY <1>4, <2>1 DEF SetHandoff
    <3> QED
      BY <1>t, <2>1, <3>1, <3>2, GoesOn
  <2>2. CASE work[Update][r] = "saving" /\ file' = HandedOff(wcopy, r)
                /\ work' = [work EXCEPT ![Update][r] = "waiting"] /\ faults' = faults
    <3>1. wcopy' = Blank /\ ThreadUnchanged
      BY <1>4, <2>2 DEF SetHandoff
    <3> QED
      BY <2>2, <3>1, ThreadSaves
  <2>3. CASE work[Update][r] = "saving" /\ file' = file
                /\ work' = [work EXCEPT ![Update][r] = "raised"] /\ faults' = faults + 1
    <3>1. wcopy' = Blank /\ ThreadUnchanged /\ faults' # 0
      BY <1>4, <1>f, <1>n, <2>3 DEF SetHandoff
    <3> QED
      BY <1>t, <2>3, <3>1, GoesOn DEF Writing
  <2> QED
    BY <1>4, <2>1, <2>2, <2>3 DEF SetHandoff
<1>5. ASSUME NEW r \in RunIds, RecordWindow(r)
      PROVE  RInv'
  <2>1. CASE /\ \/ work[Update][r] = "window"
                \/ work[Update][r] \in {"busy", "waiting"} /\ Windows > 0
             /\ work' = [work EXCEPT ![Update][r] = "recording"]
             /\ wcopy' = file /\ file' = file /\ faults' = faults
    <3>1. WritesFile
      BY <2>1, SameAsFile DEF Writing, WritesFile
    <3>2. ThreadUnchanged
      BY <1>5 DEF RecordWindow
    <3> QED
      BY <1>t, <2>1, <3>1, <3>2, GoesOn
  <2>2. CASE work[Update][r] = "recording" /\ file' = wcopy
                /\ work' = [work EXCEPT ![Update][r] = "ok"] /\ faults' = faults
    <3>1. wcopy' = Blank /\ ThreadUnchanged
      BY <1>5, <2>2 DEF RecordWindow
    <3> QED
      BY <2>2, <3>1, ThreadSaves
  <2>3. CASE work[Update][r] = "recording" /\ file' = file
                /\ work' = [work EXCEPT ![Update][r] = "raised"] /\ faults' = faults + 1
    <3>1. wcopy' = Blank /\ ThreadUnchanged /\ faults' # 0
      BY <1>5, <1>f, <1>n, <2>3 DEF RecordWindow
    <3> QED
      BY <1>t, <2>3, <3>1, GoesOn DEF Writing
  <2> QED
    BY <1>5, <2>1, <2>2, <2>3 DEF RecordWindow
<1> QED
  BY <1>1, <1>2, <1>3, <1>4, <1>5 DEF ThreadStep

-----------------------------------------------------------------------------
(* The process.                                                            *)

\* A process that is down, or has not started its loops, has no threads.
LEMMA NoThreads ==
  ASSUME IInv, proc \in {"down", "boot"}
  PROVE  \A j \in Jobs : \A r \in RunIds : work[j][r] = "none"
BY DEF IInv, LockInv

LEMMA BootKeeps ==
  ASSUME IInv, RInv, Boot
  PROVE  RInv'
<1>1. /\ proc = "down" /\ proc' = "boot" /\ todo' = LeftRunning
      /\ UNCHANGED <<faults, file, archive, turn, copy, lock, runs, work, wcopy>>
  BY DEF Boot, disk, memory, threads, bounds
<1>2. turn.op # "archive"
  <2>1. turn.who # "boot"
    BY <1>1 DEF RInv, KindInv
  <2> QED
    BY <1>1, <2>1, TurnIs DEF IInv, TurnInv, LockInv
<1>3. \A k : ~AtArchive(k) /\ ~AtArchive(k)'
  BY <1>1, <1>2 DEF AtArchive
<1>u. Undisturbed' = Undisturbed /\ Undisturbed \subseteq Jobs
  BY UndisturbedIs DEF Undisturbed
<1>4. KindInv' /\ RunInv' /\ CopyInv' /\ HandInv'
  <2>1. KindInv'
    BY <1>1 DEF RInv, KindInv, WritesFile
  <2>2. RunInv'
    BY <1>1, <1>3, <1>u DEF RInv, RunInv
  <2>3. CopyInv'
    BY <1>1, <1>u DEF RInv, CopyInv, Same
  <2>4. HandInv'
    BY <1>1 DEF RInv, HandInv, Describes
  <2> QED
    BY <2>1, <2>2, <2>3, <2>4
<1>5. TodoInv'
  BY <1>1, <1>3, <1>u DEF TodoInv, LeftRunning
<1>6. OpenInv'
  BY <1>1 DEF OpenInv
<1>7. ToldInv'
  <2>1. SettledOnce'
    BY <1>1, <1>u DEF RInv, ToldInv, SettledOnce
  <2> QED
    BY <1>1, <1>3, <1>u, <2>1 DEF RInv, ToldInv
<1> QED
  BY <1>4, <1>5, <1>6, <1>7 DEF RInv

LEMMA InterruptKeeps ==
  ASSUME IInv, RInv, NEW j \in Jobs, MarkInterrupted(j)
  PROVE  RInv'
<1>t. TypeOK
  BY DEF IInv
<1>1. /\ proc = "boot" /\ turn.op = "none" /\ j \in todo
      /\ file' = Interrupted(file, j) /\ turn' = At("boot", j, "archive")
      /\ UNCHANGED <<proc, faults, archive, copy, lock, runs, todo, work, wcopy>>
  BY <1>t, TurnIs DEF MarkInterrupted, memory, threads, bounds
<1>2. \A k \in Jobs : /\ file'.status[k] = IF k = j THEN "failed" ELSE file.status[k]
                      /\ file'.run[k] = file.run[k]
                      /\ file'.handoff[k] = file.handoff[k]
  BY <1>1, <1>t, InterruptedIs DEF TypeOK
<1>3. turn'.op = "archive" /\ turn'.who = "boot" /\ turn'.job = j /\ ~turn'.loaded
  BY <1>1, <1>t, TurnIs
<1>4. \A k : ~AtArchive(k) /\ (AtArchive(k)' <=> k = j)
  BY <1>1, <1>3 DEF AtArchive
<1>5. \A k \in Jobs : \A r \in RunIds : work'[k][r] = "none"
  BY <1>1, NoThreads
<1>u. Undisturbed' = Undisturbed /\ Undisturbed \subseteq Jobs /\ Update \in Undisturbed
  BY UndisturbedIs DEF Undisturbed
<1>6. j \in Undisturbed => file.status[j] = "running" /\ (j = Update => file.handoff[Update] = 0)
  BY <1>1, <1>4 DEF RInv, TodoInv
<1>7. KindInv'
  BY <1>1, <1>3, <1>5, SchedulerAssumption DEF KindInv, Writing
<1>8. RunInv'
  BY <1>1, <1>2, <1>4, <1>5, <1>u DEF RInv, RunInv
<1>9. CopyInv'
  BY <1>3, <1>5, SchedulerAssumption DEF CopyInv
<1>10. HandInv'
  <2>1. Describes(file) /\ Describes(copy) /\ Describes(wcopy)
    BY SameAsFile
  <2>2. Describes(file')
    BY <1>2, <1>6, <1>u, <2>1 DEF Describes
  <2> QED
    BY <1>1, <2>1, <2>2 DEF HandInv, Describes
<1>11. TodoInv'
  <2>1. ASSUME NEW k \in Undisturbed, k # j
        PROVE  ~AtArchive(k)' /\ file'.status[k] = file.status[k]
    BY <1>2, <1>4, <1>u, <2>1
  <2>2. file'.handoff[Update] = file.handoff[Update] /\ (j \in Undisturbed => file'.status[j] # "running")
    BY <1>2, <1>u
  <2> QED
    BY <1>1, <1>4, <1>u, <2>1, <2>2 DEF RInv, TodoInv
<1>12. OpenInv'
  BY <1>1 DEF OpenInv
<1>13. ToldInv'
  <2>1. SettledOnce'
    BY <1>1, <1>u DEF RInv, ToldInv, SettledOnce
  <2>2. ASSUME NEW k \in Undisturbed, NEW a \in archive[k]
        PROVE  a.run <= runs[k] /\ (a.run = runs[k] => file'.status[k] # "running" /\ k # j)
    BY <1>2, <1>6, <1>u DEF RInv, ToldInv
  <2> QED
    BY <1>1, <1>4, <1>u, <2>1, <2>2 DEF ToldInv
<1> QED
  BY <1>7, <1>8, <1>9, <1>10, <1>11, <1>12, <1>13 DEF RInv

LEMMA ArchiveInterruptedKeeps ==
  ASSUME IInv, RInv, ArchiveInterrupted
  PROVE  RInv'
<1>t. TypeOK
  BY DEF IInv
<1>j. PICK j \in Jobs : j = turn.job
  BY <1>t, TurnIs
<1>1. /\ turn.who = "boot" /\ turn' = Free /\ todo' = todo \ {j}
      /\ archive' = [archive EXCEPT ![j] =
            archive[j] \cup {[run |-> file.run[j], outcome |-> "interrupted"]}]
      /\ UNCHANGED <<proc, faults, file, copy, lock, runs, work, wcopy>>
  BY <1>j DEF ArchiveInterrupted, memory, threads, bounds
<1>2. proc = "boot" /\ turn.op = "archive"
  BY <1>1 DEF RInv, KindInv
<1>3. turn'.op = "none" /\ turn'.who = "none" /\ ~turn'.loaded
  BY <1>1, <1>t, TurnIs
<1>4. \A k : (AtArchive(k) <=> k = j) /\ ~AtArchive(k)'
  BY <1>j, <1>2, <1>3 DEF AtArchive
<1>5. \A k \in Jobs : \A r \in RunIds : work'[k][r] = "none"
  BY <1>1, <1>2, NoThreads
<1>u. Undisturbed' = Undisturbed /\ Undisturbed \subseteq Jobs
  BY UndisturbedIs DEF Undisturbed
<1>6. /\ \A k \in Jobs : \A a \in archive'[k] :
            a \in archive[k] \/ (k = j /\ a.run = file.run[j])
      /\ \A k \in Jobs : \A a, b \in archive'[k] :
            a \notin archive[k] /\ b \notin archive[k] => a = b
  BY <1>1, <1>t DEF TypeOK
<1>7. KindInv'
  BY <1>3, <1>5, SchedulerAssumption DEF KindInv, Writing
<1>8. RunInv'
  BY <1>1, <1>4, <1>5, <1>u DEF RInv, RunInv
<1>9. CopyInv'
  BY <1>3, <1>5, SchedulerAssumption DEF CopyInv
<1>10. HandInv'
  BY <1>1 DEF RInv, HandInv, Describes
<1>11. TodoInv'
  <2>1. \A k \in Undisturbed : file.status[k] = "running" => k # j
    BY <1>4 DEF RInv, RunInv
  <2> QED
    BY <1>1, <1>2, <1>4, <1>u, <2>1 DEF RInv, TodoInv
<1>12. OpenInv'
  BY <1>1, <1>2 DEF OpenInv
<1>13. ToldInv'
  <2>1. ASSUME NEW k \in Undisturbed, NEW a \in archive[k]
        PROVE  /\ a.run <= runs[k] /\ (a.run = runs[k] => file.status[k] # "running")
               /\ k = j => a.run # runs[k]
    BY <1>4 DEF RInv, ToldInv
  <2>2. j \in Undisturbed =>
          file.run[j] = runs[j] /\ runs[j] <= runs[j] /\ file.status[j] # "running"
    BY <1>4, <1>t DEF RInv, RunInv, TypeOK
  <2>3. SettledOnce'
    <3>1. ASSUME NEW k \in Undisturbed, NEW a \in archive'[k], NEW b \in archive'[k], a.run = b.run
          PROVE  a = b
      <4>1. CASE a \in archive[k] /\ b \in archive[k]
        BY <3>1, <4>1 DEF RInv, ToldInv, SettledOnce
      <4>2. CASE a \notin archive[k] /\ b \notin archive[k]
        BY <1>6, <1>u, <4>2
      <4>3. CASE (a \in archive[k] /\ b \notin archive[k]) \/ (a \notin archive[k] /\ b \in archive[k])
        BY <1>6, <1>u, <2>1, <2>2, <3>1, <4>3
      <4> QED
        BY <4>1, <4>2, <4>3
    <3> QED
      BY <1>u, <3>1 DEF SettledOnce
  <2> QED
    BY <1>1, <1>6, <1>4, <1>u, <2>1, <2>2, <2>3 DEF ToldInv
<1> QED
  BY <1>7, <1>8, <1>9, <1>10, <1>11, <1>12, <1>13 DEF RInv

LEMMA BootEndsKeeps ==
  ASSUME IInv, RInv, BootEnds
  PROVE  RInv'
<1>t. TypeOK
  BY DEF IInv
<1>1. /\ proc = "boot" /\ proc' = "up" /\ turn.op = "none" /\ turn.who = "none" /\ ~turn.loaded
      /\ todo = {}
      /\ UNCHANGED <<faults, file, archive, turn, copy, runs, todo, wcopy>>
  BY <1>t, TurnIs DEF BootEnds, disk, bounds
<1>2. \A k : ~AtArchive(k) /\ ~AtArchive(k)'
  BY <1>1 DEF AtArchive
<1>3. \A k \in Jobs : \A r \in RunIds : work[k][r] = "none"
  BY <1>1, NoThreads
<1>4. \A k \in Jobs : \A r \in RunIds :
        work'[k][r] # "none" =>
          work'[k][r] = "waiting" /\ k = Update /\ file.status[Update] = "running"
  BY <1>3, <1>t DEF BootEnds, TypeOK
<1>u. Undisturbed' = Undisturbed /\ Undisturbed \subseteq Jobs /\ Update \in Jobs
  BY UndisturbedIs DEF Undisturbed
<1>5. \A k \in Undisturbed : file.status[k] = "running" =>
        k = Update /\ file.handoff[Update] # 0 /\ lock'[Update] = "finisher"
  <2>1. \A k \in Undisturbed : file.status[k] = "running" => k = Update /\ file.handoff[Update] # 0
    BY <1>1 DEF RInv, TodoInv
  <2>2. file.status[Update] = "running" /\ file.handoff[Update] # 0 => lock'[Update] = "finisher"
    BY <1>t, <1>u DEF BootEnds, TypeOK
  <2> QED
    BY <2>1, <2>2
<1>7. KindInv'
  BY <1>1, <1>4, <1>u DEF KindInv, Writing
<1>8. RunInv'
  BY <1>1, <1>2, <1>4, <1>u DEF RInv, RunInv
<1>9. CopyInv'
  BY <1>1, <1>4, <1>u DEF CopyInv
<1>10. HandInv'
  BY <1>1 DEF RInv, HandInv, Describes
<1>11. TodoInv'
  BY <1>1 DEF TodoInv
<1>12. OpenInv'
  BY <1>1, <1>5, <1>u DEF OpenInv
<1>13. ToldInv'
  <2>1. SettledOnce'
    BY <1>1, <1>u DEF RInv, ToldInv, SettledOnce
  <2> QED
    BY <1>1, <1>2, <1>u, <2>1 DEF RInv, ToldInv
<1> QED
  BY <1>7, <1>8, <1>9, <1>10, <1>11, <1>12, <1>13 DEF RInv

LEMMA ShutdownKeeps ==
  ASSUME IInv, RInv, Shutdown
  PROVE  RInv'
<1>1. /\ proc = "up" /\ proc' = "stopping" /\ turn.op = "none" /\ turn.who = "none"
      /\ UNCHANGED <<faults, file, archive, turn, copy, runs, todo, work, wcopy>>
  BY TurnIs DEF Shutdown, IInv, disk, threads
<1>2. \A k : ~AtArchive(k) /\ ~AtArchive(k)'
  BY <1>1 DEF AtArchive
<1>u. Undisturbed' = Undisturbed
  BY DEF Undisturbed
<1>7. KindInv'
  BY <1>1 DEF RInv, KindInv, WritesFile
<1>8. RunInv'
  BY <1>1, <1>2, <1>u DEF RInv, RunInv
<1>9. CopyInv'
  BY <1>1, <1>u DEF RInv, CopyInv, Same
<1>10. HandInv'
  BY <1>1 DEF RInv, HandInv, Describes
<1>11. TodoInv'
  BY <1>1, <1>u DEF RInv, TodoInv
<1>12. OpenInv'
  BY <1>1 DEF OpenInv
<1>13. ToldInv'
  <2>1. SettledOnce'
    BY <1>1, <1>u DEF RInv, ToldInv, SettledOnce
  <2> QED
    BY <1>1, <1>2, <1>u, <2>1 DEF RInv, ToldInv
<1> QED
  BY <1>7, <1>8, <1>9, <1>10, <1>11, <1>12, <1>13 DEF RInv

LEMMA DownKeeps ==
  ASSUME IInv, RInv, Exit \/ Crash
  PROVE  RInv'
<1>1. /\ proc' = "down" /\ MemoryLost
      /\ UNCHANGED <<faults, file, archive, runs>>
  BY DEF Exit, Crash, disk, bounds
<1>2. turn'.op = "none" /\ turn'.who = "none" /\ ~turn'.loaded
  BY <1>1, TurnIs DEF MemoryLost, IInv
<1>3. \A k : ~AtArchive(k)'
  BY <1>2 DEF AtArchive
<1>4. \A k \in Jobs : \A r \in RunIds : work'[k][r] = "none"
  BY <1>1 DEF MemoryLost
<1>5. copy' = Blank /\ wcopy' = Blank /\ todo' = {}
  BY <1>1 DEF MemoryLost
<1>u. Undisturbed' = Undisturbed /\ Undisturbed \subseteq Jobs /\ Update \in Jobs
  BY UndisturbedIs DEF Undisturbed
<1>7. KindInv'
  BY <1>2, <1>4, <1>u DEF KindInv, Writing
<1>8. RunInv'
  BY <1>1, <1>3, <1>4, <1>u DEF RInv, RunInv
<1>9. CopyInv'
  BY <1>2, <1>4, <1>u DEF CopyInv
<1>10. HandInv'
  BY <1>1, <1>5, BlankDescribes DEF RInv, HandInv, Describes
<1>11. TodoInv'
  BY <1>1, <1>5 DEF TodoInv
<1>12. OpenInv'
  BY <1>1 DEF OpenInv
<1>13. ToldInv'
  <2>1. SettledOnce'
    BY <1>1, <1>u DEF RInv, ToldInv, SettledOnce
  <2> QED
    BY <1>1, <1>3, <1>u, <2>1 DEF RInv, ToldInv
<1> QED
  BY <1>7, <1>8, <1>9, <1>10, <1>11, <1>12, <1>13 DEF RInv

-----------------------------------------------------------------------------
(* The invariant, and the theorems.                                        *)

LEMMA InitRInv == Init => RInv
<1> SUFFICES ASSUME Init PROVE RInv
  OBVIOUS
<1>1. /\ file = Blank /\ copy = Blank /\ wcopy = Blank /\ turn = Free /\ proc = "down"
      /\ todo = {}
      /\ \A j \in Jobs : archive[j] = {} /\ runs[j] = 0
      /\ \A j \in Jobs : \A r \in RunIds : work[j][r] = "none"
  BY DEF Init
<1>2. turn.op = "none" /\ turn.who = "none" /\ ~turn.loaded
  BY <1>1 DEF Free
<1>3. \A j \in Jobs : file.run[j] = 0
  BY <1>1 DEF Blank
<1>4. Undisturbed \subseteq Jobs /\ Update \in Jobs
  BY UndisturbedIs
<1>5. KindInv /\ RunInv /\ CopyInv
  BY <1>1, <1>2, <1>3, <1>4 DEF KindInv, RunInv, CopyInv, AtArchive, Writing
<1>6. HandInv /\ TodoInv /\ OpenInv
  BY <1>1, BlankDescribes DEF HandInv, TodoInv, OpenInv
<1>7. ToldInv
  BY <1>1, <1>4 DEF ToldInv, SettledOnce
<1> QED
  BY <1>5, <1>6, <1>7 DEF RInv

LEMMA StepRInv == IInv /\ RInv /\ [Next]_vars => RInv'
<1> SUFFICES ASSUME IInv, RInv, [Next]_vars PROVE RInv'
  OBVIOUS
<1>1. CASE TurnStep
  BY <1>1, LoadKeeps, SavesKeep, TurnsKeep, RefusedStartKeeps, StartKeeps,
     FinishKeeps, RefusedFinishKeeps, ArchiveKeeps DEF TurnStep
<1>2. CASE ThreadStep
  BY <1>2, ThreadsKeep
<1>3. CASE BootStep
  BY <1>3, BootKeeps, InterruptKeeps, ArchiveInterruptedKeeps, BootEndsKeeps DEF BootStep
<1>4. CASE WakeWindow \/ \E j \in Jobs : Wake(j) \/ Resume(j) \/ Press(j)
  BY <1>4, TurnsKeep
<1>5. CASE UNCHANGED vars \/ \E j \in Jobs : RequestStop(j) \/ Elapse(j)
  BY <1>5, OthersKeep
<1>6. CASE Shutdown \/ Exit \/ Crash
  BY <1>6, ShutdownKeeps, DownKeeps
<1> QED
  BY <1>1, <1>2, <1>3, <1>4, <1>5, <1>6 DEF Next

LEMMA RInvHolds == Spec => [](IInv /\ RInv)
<1>1. IInv /\ RInv /\ [Next]_vars => (IInv /\ RInv)'
  BY StepIInv, StepRInv
<1> QED
  BY <1>1, InitIInv, InitRInv, PTL DEF Spec

\* A hand-off on record is of the run the record says is in progress
\* (state.py, set_handoff): no restart finishes a run that is already over.
THEOREM HandoffIsOfThisRun == Spec => []HandoffDescribesRun
<1>1. IInv /\ RInv => HandoffDescribesRun
  BY DEF RInv, HandInv, Describes, HandoffDescribesRun
<1> QED
  BY <1>1, RInvHolds, PTL

\* The record says "running" of the run at work, and in a process that is up of
\* no run that is not, whatever the two sides save over each other.
THEOREM RecordsAreTrue == Spec => []RecordIsTrue
<1>1. IInv /\ RInv => RecordIsTrue
  <2> SUFFICES ASSUME IInv, RInv, NEW j \in Undisturbed
               PROVE  /\ \A r \in RunIds : work[j][r] \in AtWork =>
                           file.status[j] = "running" /\ file.run[j] = r
                      /\ proc = "up" /\ faults = 0 /\ file.status[j] = "running" => lock[j] # "none"
    BY DEF RecordIsTrue
  <2>1. ASSUME NEW r \in RunIds, work[j][r] \in AtWork
        PROVE  file.status[j] = "running" /\ file.run[j] = r
    <3>1. r = runs[j] /\ ~AtArchive(j)
      BY <2>1, UndisturbedIs, ThreadIs DEF AtWork, Ended
    <3> QED
      BY <2>1, <3>1 DEF RInv, RunInv, AtWork
  <2> QED
    BY <2>1 DEF RInv, OpenInv
<1> QED
  BY <1>1, RInvHolds, PTL

\* A run is archived at most once (reports.py), however the process ends.
THEOREM ArchivedOnce == Spec => []SettledOnce
<1>1. IInv /\ RInv => SettledOnce
  BY DEF RInv, ToldInv
<1> QED
  BY <1>1, RInvHolds, PTL

-----------------------------------------------------------------------------
(* JobRecord: where no save is refused, and no thread writes over another  *)
(* job's record, each step of the scheduler is a step of it or a stutter.  *)

LEMMA KeptStutters ==
  ASSUME TypeOK, TypeOK', Undisturbed = Jobs, archive' = archive,
         \A j \in Undisturbed : Same(file', file, j)
  PROVE  UNCHANGED Kept!vars
<1>1. \A j \in Jobs : file'.status[j] = file.status[j] /\ file'.run[j] = file.run[j]
  BY DEF Same
<1>2. file.run \in [Jobs -> 0 .. MaxRuns] /\ file'.run \in [Jobs -> 0 .. MaxRuns]
  BY DEF TypeOK, Files
<1>3. file'.run = file.run
  BY <1>1, <1>2
<1> QED
  BY <1>1, <1>3 DEF Kept!vars

\* mark_started begins a run of a job whose last run is closed.
LEMMA StartBegins ==
  ASSUME IInv, RInv, TypeOK', StartRun, ~SaveRefused, faults = 0, Undisturbed = Jobs
  PROVE  \E j \in Jobs : Kept!Begin(j)
<1>t. TypeOK /\ turn.job \in Jobs /\ runs[turn.job] \in 0 .. MaxRuns /\ MaxRuns \in Nat
  BY TurnIs, SchedulerAssumption DEF IInv, TypeOK
<1>j. PICK j \in Jobs : j = turn.job
  BY <1>t
<1>1. /\ turn.op = "start" /\ turn.loaded
      /\ file' = Started(copy, j, runs[j] + 1) /\ archive' = archive
  BY <1>j DEF StartRun, Save
<1>2. runs[j] < MaxRuns /\ proc = "up"
  BY <1>1, <1>j DEF IInv, ThreadInv, TurnInv
<1>3. runs[j] + 1 \in 0 .. MaxRuns
  BY <1>2, <1>j, <1>t
<1>4. \A k \in Jobs : /\ file'.status[k] = IF k = j THEN "running" ELSE copy.status[k]
                      /\ file'.run[k] = IF k = j THEN runs[j] + 1 ELSE copy.run[k]
  BY <1>1, <1>3, <1>t, StartedIs DEF TypeOK
<1>5. \A k \in Jobs : copy.status[k] = file.status[k] /\ copy.run[k] = file.run[k]
  BY <1>1 DEF RInv, CopyInv, Same
<1>6. file.status[j] # "running" /\ file.run[j] = runs[j]
  BY <1>1, <1>2, <1>j DEF RInv, OpenInv, RunInv
<1>7. file.run \in [Jobs -> 0 .. MaxRuns] /\ file'.run \in [Jobs -> 0 .. MaxRuns]
  BY <1>t DEF TypeOK, Files
<1>8. file'.run = [file.run EXCEPT ![j] = file.run[j] + 1]
  BY <1>4, <1>5, <1>6, <1>7
<1>9. {k \in Jobs : file'.status[k] = "running"} =
        {k \in Jobs : file.status[k] = "running"} \cup {j}
  BY <1>4, <1>5
<1> QED
  BY <1>1, <1>2, <1>6, <1>8, <1>9 DEF Kept!Begin

\* mark_finished and mark_interrupted close the run that is in progress.
LEMMA Closes ==
  ASSUME TypeOK, TypeOK', NEW j \in Jobs, file.status[j] = "running",
         file'.status[j] # "running", archive' = archive,
         \A k \in Jobs : k # j => file'.status[k] = file.status[k],
         \A k \in Jobs : file'.run[k] = file.run[k]
  PROVE  Kept!Close(j)
<1>1. file.run \in [Jobs -> 0 .. MaxRuns] /\ file'.run \in [Jobs -> 0 .. MaxRuns]
  BY DEF TypeOK, Files
<1>2. file'.run = file.run
  BY <1>1
<1>3. {k \in Jobs : file'.status[k] = "running"} =
        {k \in Jobs : file.status[k] = "running"} \ {j}
  OBVIOUS
<1> QED
  BY <1>2, <1>3 DEF Kept!Close

LEMMA FinishCloses ==
  ASSUME IInv, RInv, TypeOK', MarkFinished, ~SaveRefused, Undisturbed = Jobs
  PROVE  \E j \in Jobs : Kept!Close(j)
<1>t. TypeOK /\ turn.op = "finish" /\ turn.loaded
  BY DEF IInv, MarkFinished
<1>j. PICK j \in Jobs, end \in Ended :
        /\ j = turn.job /\ end = work[j][runs[j]] /\ runs[j] \in RunIds
  BY <1>t, EndingIs
<1>1. file' = Finished(copy, j, runs[j], end) /\ archive' = archive
  BY <1>j DEF MarkFinished, Save
<1>2. copy \in Files /\ runs[j] \in 0 .. MaxRuns
  BY <1>t DEF TypeOK
<1>3. \A k \in Jobs : /\ file'.status[k] = IF k = j THEN IF end = "ok" THEN "ok" ELSE "failed"
                                           ELSE copy.status[k]
                      /\ file'.run[k] = copy.run[k]
  BY <1>1, <1>2, FinishedIs
<1>4. \A k \in Jobs : copy.status[k] = file.status[k] /\ copy.run[k] = file.run[k]
  BY <1>t DEF RInv, CopyInv, Same
<1>5. file.status[j] = "running"
  <2>1. ~AtArchive(j)
    BY <1>t DEF AtArchive
  <2> QED
    BY <1>j, <2>1 DEF RInv, RunInv, Ended
<1>6. Kept!Close(j)
  BY <1>1, <1>3, <1>4, <1>5, <1>t, Closes
<1> QED
  BY <1>6

LEMMA InterruptCloses ==
  ASSUME IInv, RInv, TypeOK', NEW j \in Jobs, MarkInterrupted(j), Undisturbed = Jobs
  PROVE  Kept!Close(j)
<1>t. TypeOK /\ turn.op = "none"
  BY TurnIs DEF IInv, MarkInterrupted
<1>1. file' = Interrupted(file, j) /\ archive' = archive /\ j \in todo
  BY DEF MarkInterrupted
<1>2. \A k \in Jobs : /\ file'.status[k] = IF k = j THEN "failed" ELSE file.status[k]
                      /\ file'.run[k] = file.run[k]
  BY <1>1, <1>t, InterruptedIs DEF TypeOK
<1>3. file.status[j] = "running"
  BY <1>1, <1>t DEF RInv, TodoInv, AtArchive
<1> QED
  BY <1>1, <1>2, <1>3, <1>t, Closes

\* The archive tells of a run that is closed and that it has not told of.
LEMMA ArchiveTells ==
  ASSUME IInv, RInv, Archive \/ ArchiveInterrupted, MaxFaults = 0, Undisturbed = Jobs
  PROVE  \E j \in Jobs : Kept!Tell(j)
<1>t. TypeOK
  BY DEF IInv
<1>j. PICK j \in Jobs : j = turn.job
  BY <1>t, TurnIs
<1>1. AtArchive(j) /\ file' = file
  BY <1>j DEF Archive, ArchiveInterrupted, AtArchive, RInv, KindInv
<1>2. file.run[j] = runs[j] /\ file.status[j] # "running"
  BY <1>1 DEF RInv, RunInv
<1>3. \A a \in archive[j] : a.run # file.run[j]
  BY <1>1, <1>2 DEF RInv, ToldInv
<1>4. \E o \in Kept!Outcomes :
        archive' = [archive EXCEPT ![j] = archive[j] \cup {[run |-> file.run[j], outcome |-> o]}]
  <2>1. CASE Archive
    <3>1. ~(faults < MaxFaults)
      BY <1>t DEF TypeOK
    <3> QED
      BY <1>2, <1>j, <2>1, <3>1 DEF Archive, Kept!Outcomes
  <2>2. CASE ArchiveInterrupted
    BY <1>j, <2>2 DEF ArchiveInterrupted, Kept!Outcomes
  <2> QED
    BY <2>1, <2>2
<1>5. Kept!Tell(j)
  BY <1>1, <1>2, <1>3, <1>4 DEF Kept!Tell
<1> QED
  BY <1>5

\* Every other step leaves the records of the jobs as they are.
LEMMA OtherStepsStutter ==
  ASSUME IInv, RInv, MaxFaults = 0, Undisturbed = Jobs, [Next]_vars,
         ~StartRun, ~MarkFinished, ~Archive, ~ArchiveInterrupted,
         \A j \in Jobs : ~MarkInterrupted(j)
  PROVE  archive' = archive /\ \A j \in Undisturbed : Same(file', file, j)
<1>f. ~(faults < MaxFaults)
  BY DEF IInv, TypeOK
<1>1. CASE Beat \/ NextRun \/ MarkTried
  <2>1. turn.loaded /\ file' = copy /\ archive' = archive
    BY <1>1, <1>f DEF Beat, NextRun, MarkTried, Save, SaveRefused
  <2> QED
    BY <2>1, SameAsFile
<1>2. CASE \E r \in RunIds : RecordWindow(r) \/ SetHandoff(r)
  <2>1. PICK r \in RunIds : RecordWindow(r) \/ SetHandoff(r)
    BY <1>2
  <2>2. archive' = archive
    BY <2>1 DEF RecordWindow, SetHandoff, ThreadUnchanged
  <2>3. \/ file' = file
        \/ /\ work[Update][r] \in {"saving", "recording"}
           /\ file' = wcopy \/ file' = HandedOff(wcopy, r)
    BY <1>f, <2>1 DEF RecordWindow, SetHandoff
  <2>4. CASE /\ work[Update][r] \in {"saving", "recording"}
             /\ file' = wcopy \/ file' = HandedOff(wcopy, r)
    <3>1. Undisturbed = {Update} /\ Same(wcopy, file, Update)
      BY <2>4, UndisturbedIs, SameAsFile DEF Writing
    <3>2. wcopy \in Files /\ r \in 0 .. MaxRuns /\ Update \in Jobs
      BY SchedulerAssumption DEF IInv, TypeOK, RunIds
    <3>3. Same(file', wcopy, Update)
      BY <2>4, <3>2, HandedOffIs DEF Same
    <3> QED
      BY <2>2, <3>1, <3>3 DEF Same
  <2> QED
    BY <2>2, <2>3, <2>4, SameAsFile
<1>3. CASE ~(Beat \/ NextRun \/ MarkTried) /\ ~(\E r \in RunIds : RecordWindow(r) \/ SetHandoff(r))
  <2>1. CASE Load \/ Refuse \/ Enter \/ UNCHANGED vars
    BY <2>1, SameAsFile DEF Load, Refuse, Enter, vars, disk
  <2>2. CASE \E r \in RunIds : HandOff(r) \/ WaitEnds(r) \/ \E j \in Jobs : WorkEnds(j, r)
    BY <2>2, SameAsFile DEF HandOff, WaitEnds, WorkEnds, ThreadUnchanged
  <2>3. CASE Boot \/ BootEnds \/ Shutdown \/ Exit \/ Crash
    BY <2>3, SameAsFile DEF Boot, BootEnds, Shutdown, Exit, Crash, disk
  <2>4. CASE WakeWindow \/ \E j \in Jobs : Wake(j) \/ Resume(j)
    BY <2>4, SameAsFile DEF WakeWindow, Wake, Resume, disk
  <2>5. CASE \E j \in Jobs : Press(j) \/ RequestStop(j) \/ Elapse(j)
    BY <2>5, SameAsFile DEF Press, RequestStop, Elapse, disk
  <2> QED
    BY <1>3, <2>1, <2>2, <2>3, <2>4, <2>5 DEF Next, TurnStep, ThreadStep, BootStep
<1> QED
  BY <1>1, <1>2, <1>3

\* Where the volume takes every save and no thread rewrites another job's record,
\* the records keep JobRecord's promise: each run is closed before the next one
\* begins and is archived at most once, before that (scheduler.py, state.py).
THEOREM RecordsAreKept ==
  ASSUME MaxFaults = 0, Undisturbed = Jobs
  PROVE  Spec => RecordsKept
<1>1. Init => Kept!Init
  <2> SUFFICES ASSUME Init PROVE Kept!Init
    OBVIOUS
  <2>1. file = Blank /\ archive = [j \in Jobs |-> {}]
    BY DEF Init
  <2>2. \A j \in Jobs : Blank.status[j] = "none"
    BY DEF Blank
  <2>3. Blank.run = [j \in Jobs |-> 0]
    BY DEF Blank
  <2> QED
    BY <2>1, <2>2, <2>3 DEF Kept!Init
<1>2. (IInv /\ RInv) /\ (IInv /\ RInv)' /\ [Next]_vars => [Kept!Next]_(Kept!vars)
  <2> SUFFICES ASSUME IInv, RInv, IInv', [Next]_vars
               PROVE  Kept!Next \/ UNCHANGED Kept!vars
    OBVIOUS
  <2>t. TypeOK /\ TypeOK'
    BY DEF IInv
  <2>f. faults = 0 /\ ~SaveRefused
    BY <2>t DEF TypeOK, SaveRefused
  <2>1. CASE StartRun
    BY <2>1, <2>t, <2>f, StartBegins DEF Kept!Next
  <2>2. CASE MarkFinished
    BY <2>2, <2>t, <2>f, FinishCloses DEF Kept!Next
  <2>3. CASE Archive \/ ArchiveInterrupted
    BY <2>3, ArchiveTells DEF Kept!Next
  <2>4. CASE \E j \in Jobs : MarkInterrupted(j)
    BY <2>4, <2>t, InterruptCloses DEF Kept!Next
  <2>5. CASE /\ ~StartRun /\ ~MarkFinished /\ ~Archive /\ ~ArchiveInterrupted
             /\ \A j \in Jobs : ~MarkInterrupted(j)
    BY <2>5, <2>t, OtherStepsStutter, KeptStutters
  <2> QED
    BY <2>1, <2>2, <2>3, <2>4, <2>5
<1> QED
  BY <1>1, <1>2, RInvHolds, PTL DEF Spec, RecordsKept, Kept!Spec

=============================================================================
