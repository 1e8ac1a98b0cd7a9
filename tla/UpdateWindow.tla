----------------------------- MODULE UpdateWindow -----------------------------
(***************************************************************************)
(* The machines with an update window of their own: timar/update_window.py *)
(* and Scheduler._window_loop, against a clock.  The loop asks once for    *)
(* the machines that are due, runs them one after the other under the      *)
(* update job's lock, and marks each as tried in the window that was open  *)
(* when it asked.  What state.json keeps of a machine is when it was last  *)
(* updated and the opening of the window last tried.                       *)
(*                                                                         *)
(* The clock starts a day after the midnight it counts from.  Timers are   *)
(* exact (what their lateness does is JobLoop's question).  A run takes at *)
(* most RunLength: an assumption on the machines, for nothing in the code  *)
(* ends a command that does not.                                           *)
(*                                                                         *)
(* A definition named like the one below it, with a suffix, is that one    *)
(* with a mistake in it, to test the properties with.                      *)
(***************************************************************************)
EXTENDS Clock, Sequences

CONSTANTS
    Machines,  \* the machines of config.yaml with an update_window
    Order,     \* the order they are listed in
    Window,    \* their windows: [from, to] of the day
    Every,     \* their update_every_days
    RunLength  \* how many units a machine's own run takes at most

\* A window is open for a minute at least (update_window.py: parse), which is a TICK.
Constants ==
    /\ Order \in Seq(Machines)
    /\ \A m \in Machines : \E i \in 1 .. Len(Order) : Order[i] = m
    /\ Window \in [Machines -> [from : 0 .. Day - 1, to : 0 .. Day - 1]]
    /\ \A m \in Machines : Window[m].from # Window[m].to
    /\ Every \in [Machines -> Nat \ {0}]
    /\ RunLength \in Nat \ {0}
    /\ Day <= Horizon

ASSUME UpdateWindowAssumption == Constants

VARIABLES
    windowLoop, \* the loop: "tick" (asleep, or about to ask), "next", "run" or "ran"
    windowWake, \* the moment its sleep ends
    asked,      \* the `now` it asked with
    queue,      \* the due machines it has not gone through yet
    fleet,      \* the fleet's run, or a manual one, holds the update job's lock
    tried,      \* state.json: the opening of the window last tried, per machine
    updated,    \* state.json: when the machine was last updated
    out,        \* the machines membership leaves out of the job
    ownRun,     \* when the machine's latest run of its own began
    cut,        \* the machines whose latest run a crash cut short
    quiet       \* the latest start of the process, end of the fleet's run or change

record == <<tried, updated>>
history == <<ownRun, cut, quiet>>
windowVars == <<now, up, windowLoop, windowWake, asked, queue, fleet, record, out, history,
                edits, crashes>>

Slack == Day \div 2

WindowInit ==
    /\ now = Day
    /\ up = TRUE
    /\ windowLoop = "tick" /\ windowWake = Day /\ asked = None /\ queue = {}
    /\ fleet = FALSE
    /\ tried = [m \in Machines |-> None]
    /\ updated = [m \in Machines |-> None]
    /\ out = {}
    /\ ownRun = [m \in Machines |-> None]
    /\ cut = {}
    /\ quiet = Day
    /\ edits = 0 /\ crashes = 0

-----------------------------------------------------------------------------
(* opening, due and mark_tried.                                            *)

\* When the window that is open at t opened, or None.  A window may cross midnight.
Opening(w, t) ==
    LET today == t - (t % Day) + w.from
        clock == t % Day
    IN CASE w.from < w.to /\ w.from <= clock /\ clock < w.to -> today
         [] w.from > w.to /\ clock >= w.from -> today
         [] w.from > w.to /\ clock < w.to -> today - Day
         [] OTHER -> None

\* Updated too recently: a day counted as 24 hours would drift, hence the slack.
RecentToTheMinute(m, t) == updated[m] # None /\ t - updated[m] < Every[m] * Day
Recent(m, t) == updated[m] # None /\ t - updated[m] < Every[m] * Day - Slack

DueUntilUpdated(m, t) ==
    /\ m \notin out
    /\ Opening(Window[m], t) # None
    /\ ~Recent(m, t)
Due(m, t) ==
    /\ m \notin out
    /\ Opening(Window[m], t) # None
    /\ tried[m] # Opening(Window[m], t)
    /\ ~Recent(m, t)

-----------------------------------------------------------------------------
(* The loop.                                                               *)

\* The machine whose turn it is: they are gone through as the configuration lists them.
First(q) ==
    CHOOSE m \in q : \E i \in 1 .. Len(Order) :
        Order[i] = m /\ \A j \in 1 .. i - 1 : Order[j] \notin q

\* Time passes, but not over a timer that is due, nor over a step the loop takes
\* without awaiting, nor over the longest run.
WindowPass ==
    /\ now < Horizon
    /\ up => CASE windowLoop = "tick" -> now < windowWake
               [] windowLoop = "run" -> now < ownRun[First(queue)] + RunLength
               [] OTHER -> FALSE
    /\ now' = now + 1
    /\ UNCHANGED <<up, windowLoop, windowWake, asked, queue, fleet, record, out,
                   history, edits, crashes>>

\* One round: due(cfg, now), once for all the runs that follow.
WindowAsk ==
    /\ up /\ windowLoop = "tick" /\ now >= windowWake
    /\ asked' = now
    /\ queue' = {m \in Machines : Due(m, now)}
    /\ windowLoop' = "next"
    /\ UNCHANGED <<now, up, windowWake, fleet, record, out, history, edits, crashes>>

\* The next machine: its run begins, or run() is refused while the lock is taken,
\* which does not count as tried.
Begin ==
    /\ up /\ windowLoop = "next" /\ queue # {}
    /\ \/ /\ ~fleet
          /\ windowLoop' = "run"
          /\ ownRun' = [ownRun EXCEPT ![First(queue)] = now]
          /\ cut' = cut \ {First(queue)}
          /\ UNCHANGED queue
       \/ /\ fleet
          /\ queue' = queue \ {First(queue)}
          /\ UNCHANGED <<windowLoop, ownRun, cut>>
    /\ UNCHANGED <<now, up, windowWake, asked, fleet, record, out, quiet, edits,
                   crashes>>

\* run_update returns, and has recorded the machine if it was updated.  One that
\* was left out meanwhile is skipped.
RunEnds ==
    /\ up /\ windowLoop = "run"
    /\ windowLoop' = "ran"
    /\ \/ First(queue) \notin out /\ updated' = [updated EXCEPT ![First(queue)] = now]
       \/ UNCHANGED updated
    /\ UNCHANGED <<now, up, windowWake, asked, queue, fleet, tried, out, history, edits,
                   crashes>>

\* mark_tried, with the moment the loop asked.
MarkTried ==
    /\ up /\ windowLoop = "ran"
    /\ tried' = [tried EXCEPT ![First(queue)] = Opening(Window[First(queue)], asked)]
    /\ queue' = queue \ {First(queue)}
    /\ windowLoop' = "next"
    /\ UNCHANGED <<now, up, windowWake, asked, fleet, updated, out, history, edits,
                   crashes>>

\* The list is done: a TICK, and round again.
RestLonger ==
    /\ up /\ windowLoop = "next" /\ queue = {}
    /\ windowLoop' = "tick"
    /\ windowWake' = now + 5 * Tick
    /\ UNCHANGED <<now, up, asked, queue, fleet, record, out, history, edits, crashes>>
Rest ==
    /\ up /\ windowLoop = "next" /\ queue = {}
    /\ windowLoop' = "tick"
    /\ windowWake' = now + Tick
    /\ UNCHANGED <<now, up, asked, queue, fleet, record, out, history, edits, crashes>>

-----------------------------------------------------------------------------
(* Around it.                                                              *)

\* The fleet's run takes the lock, and releases it.  It updates no machine with
\* a window.
FleetBegins ==
    /\ up /\ ~fleet /\ windowLoop = "tick"
    /\ fleet' = TRUE
    /\ UNCHANGED <<now, up, windowLoop, windowWake, asked, queue, record, out, history,
                   edits, crashes>>

FleetEnds ==
    /\ up /\ fleet /\ windowLoop = "tick"
    /\ fleet' = FALSE
    /\ quiet' = now
    /\ UNCHANGED <<now, up, windowLoop, windowWake, asked, queue, record, out, ownRun,
                   cut, edits, crashes>>

\* The operator leaves a machine out of the job, or lets it join again.
Toggle(m) ==
    /\ up /\ windowLoop # "next"
    /\ edits < MaxEdits
    /\ edits' = edits + 1
    /\ out' = IF m \in out THEN out \ {m} ELSE out \cup {m}
    /\ quiet' = now
    /\ UNCHANGED <<now, up, windowLoop, windowWake, asked, queue, fleet, record, ownRun,
                   cut, crashes>>

WindowCrash ==
    /\ up /\ crashes < MaxCrashes
    /\ crashes' = crashes + 1
    /\ up' = FALSE
    /\ cut' = IF windowLoop \in {"run", "ran"} THEN cut \cup {First(queue)} ELSE cut
    /\ UNCHANGED <<now, windowLoop, windowWake, asked, queue, fleet, record, out,
                   ownRun, quiet, edits>>

WindowBoot ==
    /\ ~up
    /\ up' = TRUE
    /\ windowLoop' = "tick" /\ windowWake' = now /\ asked' = None /\ queue' = {}
    /\ fleet' = FALSE
    /\ quiet' = now
    /\ UNCHANGED <<now, record, out, ownRun, cut, edits, crashes>>

WindowNext ==
    \/ WindowPass
    \/ WindowAsk \/ Begin \/ RunEnds \/ MarkTried \/ Rest
    \/ FleetBegins \/ FleetEnds
    \/ \E m \in Machines : Toggle(m)
    \/ WindowCrash \/ WindowBoot

WindowSpec == WindowInit /\ [][WindowNext]_windowVars

-----------------------------------------------------------------------------
(* Properties.                                                             *)

WindowTimes == Day .. Horizon

\* How long the window of machine m is open, and whether it opens at o.
Length(m) == (Window[m].to - Window[m].from) % Day
IsOpening(m, o) == o % Day = Window[m].from
\* The latest opening of the window at t, or before it.
NightOf(m, t) == t - ((t - Window[m].from) % Day)

\* The longest a round of the loop takes.
Busy == RunLength * Len(Order)

\* The window has room for the runs of all, and the slack for two rounds of them.
Roomy(m) == Busy + Tick <= Length(m) /\ 2 * Busy + Tick <= Slack

\* Every variable keeps to the values the code can give it: what is recorded as
\* tried is the opening of a window of that machine.
WindowTypeOK ==
    /\ now \in WindowTimes /\ quiet \in WindowTimes
    /\ up \in BOOLEAN /\ fleet \in BOOLEAN
    /\ windowLoop \in {"tick", "next", "run", "ran"}
    /\ windowWake \in Nat /\ asked \in WindowTimes \cup {None}
    /\ queue \subseteq Machines
    /\ tried \in [Machines -> Int]
    /\ \A m \in Machines : tried[m] # None => IsOpening(m, tried[m])
    /\ updated \in [Machines -> WindowTimes \cup {None}]
    /\ ownRun \in [Machines -> WindowTimes \cup {None}]
    /\ out \subseteq Machines /\ cut \subseteq Machines
    /\ edits \in 0 .. MaxEdits /\ crashes \in 0 .. MaxCrashes

Starts(m) == windowLoop # "run" /\ windowLoop' = "run" /\ m = First(queue)

\* One attempt per window (update_window.py): a machine is not woken a second
\* time before its window has closed, unless a crash cut the first run short, or
\* the runs before its own kept it waiting into the next window.
OneAttemptUnlessCut ==
    [][\A m \in Machines : Starts(m) /\ Opening(Window[m], now) # None =>
          \/ ownRun[m] < Opening(Window[m], now) \/ m \in cut
          \/ Length(m) + Busy > Day]_windowVars

\* No night is left out: a machine is tried in a window that opened and closed while
\* the process was up and the fleet was not updated, if it was last updated Every nights
\* before or longer ago, however late in its window that was and whatever other machines
\* have their runs in this one (an update never drifts out of its window).
NoNightLeftOut ==
    up /\ ~fleet /\ windowLoop = "tick" =>
        \A m \in Machines \ out : Roomy(m) => \A o \in quiet + 1 .. now - Length(m) :
            /\ IsOpening(m, o) /\ now < o + Day
            /\ updated[m] # None => NightOf(m, updated[m]) + Every[m] * Day <= o
            => tried[m] = o

\* The machines' nights are kept, and the variables keep to their types.
NightsKept == WindowTypeOK /\ NoNightLeftOut

\* A machine that is due is kept waiting for a round and a TICK at most, while the fleet
\* is not updated.
NotKeptWaiting ==
    up /\ ~fleet /\ windowLoop = "tick" =>
        \A m \in Machines : Due(m, now) =>
            \/ now <= quiet + Busy + Tick
            \/ \E t \in now - Busy - Tick .. now : ~Due(m, t)

=============================================================================
