------------------------------ MODULE UpdateRun -------------------------------
(***************************************************************************)
(* The work of one update run: run_updates, update_server and update_self  *)
(* of timar/updater.py.  The run's thread goes through the machines one    *)
(* after the other: it wakes a sleeping one, updates it, its compose       *)
(* projects and the guests it starts, and puts back to sleep what it woke; *)
(* timar's own host comes last, and its update is handed off.  Or, with    *)
(* `only`, it is the run of one machine in its own window.                 *)
(*                                                                         *)
(* Around the thread the machines live their own lives: one that was woken *)
(* comes up early, late or never, a connection drops, a command goes on    *)
(* without the session that started it, someone presses a power button or  *)
(* asks the run to stop.  What happens when timar itself is restarted is   *)
(* module Scheduler's.                                                     *)
(*                                                                         *)
(* Abstracted: the commands (they end well, badly, or never), the compose  *)
(* projects of a machine (all of them are one), waiting times, the texts   *)
(* of the results, and why a machine is left out.  A definition named like *)
(* the one below it, with a suffix, is that one with a mistake in it, to   *)
(* test the properties with.                                               *)
(***************************************************************************)
EXTENDS Naturals, Sequences

CONSTANTS
    Configs,     \* what config.yaml and enrolled.json may say of the fleet
    None,        \* no machine
    MaxSwitches  \* bound: how often somebody else switches a machine on or off

Elements(s) == {s[i] : i \in 1 .. Len(s)}

VARIABLES
    cfg,       \* the configuration the run was given, and who is enrolled
    power,     \* per machine: "off", "booting" or "on"
    updating,  \* the machines on which a package update is going on
    switches,  \* how often somebody else used a power button
    only,      \* the machine whose window's run this is, or None
    own,       \* self_name: the machine found to be timar's own, or None
    stopped,   \* cancel.requested("update")
    at,        \* where the thread is
    left,      \* the servers it has not reached
    host,      \* the server it is on
    guests,    \* that server's guests it has not reached
    guest,     \* the guest it is on
    hostOff,   \* ~was_running of the server
    guestOff,  \* ~vm_was_running of the guest
    results,   \* all_results, as a set: nothing here depends on their order
    woken,     \* history: the machines it woke or started
    reached,   \* history: those of them that came up while it waited
    putBack,   \* history: those of them it asked to shut down again
    touched    \* history: the machines it woke or began to update

Order == cfg.order            \* the servers, in the order they are listed in
Machines == Elements(Order)
Guests == cfg.guests          \* manages_vms of each, in order
Own == cfg.own                \* the machine timar runs on, or None
LeftOut == cfg.leftOut        \* excluded from the job, not enrolled, or watched only
Watched == cfg.watched        \* those of LeftOut without SSH
Windowed == cfg.windowed      \* those with an update_window
Wakeable == cfg.wakeable      \* those with a wol_mac
ByHand == cfg.byHand          \* on_demand, but nothing to wake it
NoCommand == cfg.noCommand    \* no update command for its platform
Projects == cfg.projects      \* those with compose projects registered
Desktops == cfg.desktops      \* those whose platform asks for "in use" and restarts

ASSUME UpdateRunAssumption ==
    /\ MaxSwitches \in Nat
    /\ \A c \in Configs :
          LET machines == Elements(c.order) IN
          /\ None \notin machines
          /\ c.order \in Seq(machines)
          /\ c.guests \in [machines -> Seq(machines)]
          /\ c.own \in machines \cup {None}
          /\ c.watched \subseteq c.leftOut
          /\ c.leftOut \cup c.windowed \cup c.wakeable \cup c.byHand \cup c.noCommand
               \cup c.projects \cup c.desktops \subseteq machines
          /\ c.wakeable \cap c.byHand = {}

Hypervisors(m) == {h \in Machines : m \in Elements(Guests[h])}
IsGuest(m) == Hypervisors(m) # {}   \* managed_vms

world == <<power, updating, switches>>
place == <<at, left, host, guests, guest, hostOff, guestOff>>
history == <<woken, reached, putBack, touched>>
vars == <<world, cfg, only, own, stopped, place, results, history>>

Init ==
    /\ cfg \in Configs
    /\ power \in [Machines -> {"off", "on"}]
    /\ \A m \in Machines : \A h \in Hypervisors(m) : power[m] = "on" => power[h] = "on"
    /\ Own # None => power[Own] = "on"
    /\ updating = {}
    /\ switches = 0
    /\ only \in {None} \cup {m \in Windowed : ~IsGuest(m) /\ m \notin LeftOut}
    /\ own = None
    /\ stopped = FALSE
    /\ at = "begin"
    /\ left = <<>>
    /\ host = None /\ guests = <<>> /\ guest = None
    /\ hostOff = FALSE /\ guestOff = FALSE
    /\ results = {}
    /\ woken = {} /\ reached = {} /\ putBack = {} /\ touched = {}

-----------------------------------------------------------------------------
(* The report, and moving on.                                              *)

Result(m, part, verdict) == [server |-> m, part |-> part, verdict |-> verdict]
Machine(m, verdict) == Result(m, "machine", verdict)
Report(m, verdict) == results' = results \cup {Machine(m, verdict)}
SkippedAll(machines) == {Machine(m, "skipped") : m \in machines}

Verdicts == {"ok", "failed"}

\* update_server returns.
Return == IF only = None THEN "next" ELSE "end"
\* It returns after its guests, and with the server put back if it was off.
PutBackOrReturn == IF hostOff THEN "putback" ELSE Return
AfterGuest == IF guestOff THEN "gputback" ELSE "guests"

ReturnOnFailure == Return
\* `except Exception` around the server's own part: its guests are passed over.
Fail == PutBackOrReturn

Stay(next) ==
    /\ at' = next
    /\ UNCHANGED <<left, host, guests, guest, hostOff, guestOff>>

Off(m) == power[m] # "on"

-----------------------------------------------------------------------------
(* run_updates.                                                            *)

\* The run of one machine: it may have been left out since it was found due.
BeginOnly ==
    /\ at = "begin" /\ only # None
    /\ \/ /\ at' = "server"
          /\ host' = only
          /\ guests' = Guests[only]
          /\ UNCHANGED results
       \/ /\ at' = "end"
          /\ Report(only, "skipped")
          /\ UNCHANGED <<host, guests>>
    /\ UNCHANGED <<world, cfg, only, own, stopped, left, guest, hostOff, guestOff, history>>

\* find_self_host: only a machine with compose projects is asked, and it may
\* fail to answer.
BeginFleet ==
    /\ at = "begin" /\ only = None
    /\ own' \in {None} \cup ({Own} \cap Projects)
    /\ at' = "next"
    /\ left' = Order
    /\ UNCHANGED <<world, cfg, only, stopped, host, guests, guest, hostOff, guestOff, results, history>>

\* A guest is its hypervisor's, timar's own host comes last, and a watched
\* machine is no part of a run.
PassOver ==
    /\ at = "next" /\ left # <<>>
    /\ IsGuest(Head(left)) \/ Head(left) = own \/ Head(left) \in Watched
    /\ left' = Tail(left)
    /\ UNCHANGED <<world, cfg, only, own, stopped, at, host, guests, guest, hostOff, guestOff,
                   results, history>>

HasTurnInOrder ==
    /\ at = "next" /\ left # <<>>
    /\ ~(IsGuest(Head(left)) \/ Head(left) \in Watched)

HasTurn ==
    /\ at = "next" /\ left # <<>>
    /\ ~(IsGuest(Head(left)) \/ Head(left) = own \/ Head(left) \in Watched)

\* One with a window is listed, and left to its own run.
PassWindowed ==
    /\ HasTurn /\ Head(left) \in Windowed
    /\ left' = Tail(left)
    /\ Report(Head(left), "skipped")
    /\ UNCHANGED <<world, cfg, only, own, stopped, at, host, guests, guest, hostOff, guestOff, history>>

StopHere ==
    /\ HasTurn /\ Head(left) \notin Windowed
    /\ stopped
    /\ left' = <<>>
    /\ UNCHANGED <<world, cfg, only, own, stopped, at, host, guests, guest, hostOff, guestOff,
                   results, history>>

\* A server left out is not woken, and neither are the guests it starts.
PassLeftOutAlone ==
    /\ HasTurn /\ Head(left) \notin Windowed /\ ~stopped
    /\ Head(left) \in LeftOut
    /\ left' = Tail(left)
    /\ Report(Head(left), "skipped")
    /\ UNCHANGED <<world, cfg, only, own, stopped, at, host, guests, guest, hostOff, guestOff, history>>

PassLeftOut ==
    /\ HasTurn /\ Head(left) \notin Windowed /\ ~stopped
    /\ Head(left) \in LeftOut
    /\ left' = Tail(left)
    /\ results' = results \cup SkippedAll({Head(left)} \cup (Elements(Guests[Head(left)]) \ {own}))
    /\ UNCHANGED <<world, cfg, only, own, stopped, at, host, guests, guest, hostOff, guestOff, history>>

MayTakeIfStopped(m) == m \notin Windowed /\ m \notin LeftOut
MayTake(m) == ~stopped /\ m \notin Windowed /\ m \notin LeftOut

Take ==
    /\ HasTurn /\ MayTake(Head(left))
    /\ at' = "server"
    /\ left' = Tail(left)
    /\ host' = Head(left)
    /\ guests' = Guests[Head(left)]
    /\ UNCHANGED <<world, cfg, only, own, stopped, guest, hostOff, guestOff, results, history>>

-----------------------------------------------------------------------------
(* update_server: the server itself.                                       *)

\* Nothing to run, or off with nothing to wake it: skipped, its guests with it.
SkipServer ==
    /\ at = "server"
    /\ host \in NoCommand \/ (Off(host) /\ host \in ByHand)
    /\ Report(host, "skipped")
    /\ Stay(Return)
    /\ UNCHANGED <<world, cfg, only, own, stopped, history>>

Probe ==
    /\ at = "server"
    /\ host \notin NoCommand /\ ~(Off(host) /\ host \in ByHand)
    /\ hostOff' = Off(host)
    /\ at' = IF Off(host) THEN "wake" ELSE "connect"
    /\ UNCHANGED <<world, cfg, only, own, stopped, left, host, guests, guest, guestOff, results, history>>

\* The magic packet, which a machine may not answer, or may not even get.
Wake ==
    /\ at = "wake" /\ host \in Wakeable
    /\ woken' = woken \cup {host}
    /\ touched' = touched \cup {host}
    /\ \/ power[host] = "off" /\ power' = [power EXCEPT ![host] = "booting"]
       \/ UNCHANGED power
    /\ Stay("rise")
    /\ UNCHANGED <<updating, switches, cfg, only, own, stopped, results, reached, putBack>>

NotWokenForGood ==
    /\ at = "wake"
    /\ Report(host, "failed")
    /\ Stay(Return)
    /\ UNCHANGED <<world, cfg, only, own, stopped, history>>

\* No MAC, no relay (WolError), or not up when the wait was over.
NotWoken ==
    /\ at = "wake" \/ (at = "rise" /\ Off(host))
    /\ Report(host, "failed")
    /\ Stay(Return)
    /\ UNCHANGED <<world, cfg, only, own, stopped, history>>

Rise ==
    /\ at = "rise" /\ ~Off(host)
    /\ reached' = reached \cup {host}
    /\ Stay("connect")
    /\ UNCHANGED <<world, cfg, only, own, stopped, results, woken, putBack, touched>>

\* In use: skipped, and its projects too.
InUse ==
    /\ at = "connect" /\ ~Off(host) /\ host \in Desktops
    /\ Report(host, "skipped")
    /\ Stay("guests")
    /\ UNCHANGED <<world, cfg, only, own, stopped, history>>

Start ==
    /\ at = "connect" /\ ~Off(host)
    /\ updating' = updating \cup {host}
    /\ touched' = touched \cup {host}
    /\ Stay("command")
    /\ UNCHANGED <<power, switches, cfg, only, own, stopped, results, woken, reached, putBack>>

\* The update command ends, and the session says how; where a restart may be
\* due, asking for that comes before the result is kept, and may fail.
CommandEnds ==
    /\ at = "command" /\ host \in updating /\ ~Off(host)
    /\ updating' = updating \ {host}
    /\ \/ (\E v \in Verdicts : Report(host, v)) /\ Stay("projects")
       \/ host \in Desktops /\ Report(host, "failed") /\ Stay(Fail)
    /\ UNCHANGED <<power, switches, cfg, only, own, stopped, history>>

\* The connection fails, or drops: what was started goes on without it.
Raise ==
    /\ at \in {"connect", "command"} \/ (at = "projects" /\ host \in Projects)
    /\ Report(host, "failed")
    /\ Stay(Fail)
    /\ UNCHANGED <<world, cfg, only, own, stopped, history>>

\* _update_containers, on the same connection: no project is begun once a stop
\* was asked for, but asking docker for them may still fail.
ProjectResults(m) ==
    IF m \notin Projects THEN {{}}
    ELSE {{Result(m, "projects", v)} :
             v \in IF stopped THEN {"failed"} ELSE Verdicts \cup {"skipped"}}
         \cup IF stopped THEN {{}} ELSE {}

UpdateProjects ==
    /\ at = "projects" /\ (host \in Projects => ~Off(host))
    /\ \E r \in ProjectResults(host) : results' = results \cup r
    /\ Stay(IF host \in Desktops THEN "restart" ELSE "guests")
    /\ UNCHANGED <<world, cfg, only, own, stopped, history>>

\* The restart the update may have asked for, with nobody signed in.
Restart ==
    /\ at = "restart"
    /\ \/ UNCHANGED power /\ Stay("guests")
       \/ /\ power' = [m \in Machines |-> IF m = host /\ ~Off(host) THEN "booting"
                                          ELSE IF m \in Elements(Guests[host]) THEN "off"
                                          ELSE power[m]]
          /\ Stay("restarting")
       \/ UNCHANGED power /\ Stay("restarting")
    /\ updating' = {m \in updating : power'[m] = "on"}
    /\ UNCHANGED <<switches, cfg, only, own, stopped, results, history>>

\* It is back, or its result turns into a failure.
Restarted ==
    /\ at = "restarting"
    /\ IF Off(host)
       THEN results' = {IF r.server = host /\ r.part = "machine"
                        THEN Machine(host, "failed") ELSE r : r \in results}
       ELSE UNCHANGED results
    /\ Stay("guests")
    /\ UNCHANGED <<world, cfg, only, own, stopped, history>>

\* _shutdown_woken: the server goes down, its guests with it, or it cannot be
\* asked.
PutBack ==
    /\ at = "putback"
    /\ putBack' = putBack \cup {host}
    /\ \/ /\ ~Off(host)
          /\ power' = [m \in Machines |->
                          IF m = host \/ m \in Elements(Guests[host]) THEN "off" ELSE power[m]]
          /\ updating' = {m \in updating : power'[m] = "on"}
       \/ UNCHANGED <<power, updating>>
    /\ Stay(Return)
    /\ UNCHANGED <<switches, cfg, only, own, stopped, results, woken, reached, touched>>

-----------------------------------------------------------------------------
(* update_server: the guests it starts.                                    *)

\* A stop falls through to putting the server back.
GuestsDone ==
    /\ at = "guests"
    /\ guests = <<>> \/ stopped
    /\ Stay(PutBackOrReturn)
    /\ UNCHANGED <<world, cfg, only, own, stopped, results, history>>

\* timar's own host is left for later; one left out, or with nothing to run, is
\* skipped.
PassGuest ==
    /\ at = "guests" /\ guests # <<>> /\ ~stopped
    /\ guests' = Tail(guests)
    /\ \/ /\ Head(guests) = own
          /\ UNCHANGED results
       \/ /\ Head(guests) # own
          /\ Head(guests) \in LeftOut \cup NoCommand
          /\ Report(Head(guests), "skipped")
    /\ UNCHANGED <<world, cfg, only, own, stopped, at, left, host, guest, hostOff, guestOff, history>>

MayStart(g) == g # own /\ g \notin LeftOut \cup NoCommand

TakeGuest ==
    /\ at = "guests" /\ guests # <<>> /\ ~stopped
    /\ MayStart(Head(guests))
    /\ guest' = Head(guests)
    /\ guests' = Tail(guests)
    /\ guestOff' = Off(Head(guests))
    /\ at' = IF Off(Head(guests)) THEN "gstart" ELSE "gconnect"
    /\ UNCHANGED <<world, cfg, only, own, stopped, left, host, hostOff, results, history>>

\* "qm start": its exit status is not looked at.
StartGuest ==
    /\ at = "gstart" /\ ~Off(host)
    /\ woken' = woken \cup {guest}
    /\ touched' = touched \cup {guest}
    /\ \/ power[guest] = "off" /\ power' = [power EXCEPT ![guest] = "booting"]
       \/ UNCHANGED power
    /\ Stay("grise")
    /\ UNCHANGED <<updating, switches, cfg, only, own, stopped, results, reached, putBack>>

\* Its hypervisor does not answer, or it is not up when the wait is over.
GuestNotStarted ==
    /\ at = "gstart" \/ (at = "grise" /\ Off(guest))
    /\ Report(guest, "failed")
    /\ Stay("guests")
    /\ UNCHANGED <<world, cfg, only, own, stopped, history>>

GuestRises ==
    /\ at = "grise" /\ ~Off(guest)
    /\ reached' = reached \cup {guest}
    /\ Stay("gconnect")
    /\ UNCHANGED <<world, cfg, only, own, stopped, results, woken, putBack, touched>>

StartOnGuest ==
    /\ at = "gconnect" /\ ~Off(guest)
    /\ updating' = updating \cup {guest}
    /\ touched' = touched \cup {guest}
    /\ Stay("gcommand")
    /\ UNCHANGED <<power, switches, cfg, only, own, stopped, results, woken, reached, putBack>>

GuestCommandEnds ==
    /\ at = "gcommand" /\ guest \in updating /\ ~Off(guest)
    /\ updating' = updating \ {guest}
    /\ \E v \in Verdicts : Report(guest, v)
    /\ Stay("gprojects")
    /\ UNCHANGED <<power, switches, cfg, only, own, stopped, history>>

GuestProjects ==
    /\ at = "gprojects" /\ (guest \in Projects => ~Off(guest))
    /\ \E r \in ProjectResults(guest) : results' = results \cup r
    /\ Stay(AfterGuest)
    /\ UNCHANGED <<world, cfg, only, own, stopped, history>>

GuestRaises ==
    /\ at \in {"gconnect", "gcommand"} \/ (at = "gprojects" /\ guest \in Projects)
    /\ Report(guest, "failed")
    /\ Stay(AfterGuest)
    /\ UNCHANGED <<world, cfg, only, own, stopped, history>>

\* "qm shutdown" through its hypervisor, or that one does not answer.
PutGuestBack ==
    /\ at = "gputback"
    /\ putBack' = putBack \cup {guest}
    /\ \/ /\ ~Off(host)
          /\ power' = [power EXCEPT ![guest] = "off"]
          /\ updating' = updating \ {guest}
       \/ UNCHANGED <<power, updating>>
    /\ Stay("guests")
    /\ UNCHANGED <<switches, cfg, only, own, stopped, results, woken, reached, touched>>

-----------------------------------------------------------------------------
(* update_self: timar's own host, last.                                    *)

NoneLeft ==
    /\ at = "next" /\ left = <<>>
    /\ own = None \/ stopped
    /\ Stay("end")
    /\ UNCHANGED <<world, cfg, only, own, stopped, results, history>>

TakeOwn ==
    /\ at = "next" /\ left = <<>>
    /\ own # None /\ ~stopped
    /\ IF own \in LeftOut THEN Report(own, "skipped") /\ Stay("end")
       ELSE Stay("self") /\ UNCHANGED results
    /\ UNCHANGED <<world, cfg, only, own, stopped, history>>

\* Its containers first, and no more if there is nothing to run.
OwnProjects ==
    /\ at = "self"
    /\ \E r \in ProjectResults(own) :
          results' = results \cup r
             \cup IF own \in NoCommand THEN {Machine(own, "skipped")} ELSE {}
    /\ Stay(IF own \in NoCommand THEN "end" ELSE "handoff")
    /\ UNCHANGED <<world, cfg, only, own, stopped, history>>

\* systemd-run takes the update: from here on it is out of this process' hands.
HandOff ==
    /\ at = "handoff" /\ ~Off(own)
    /\ updating' = updating \cup {own}
    /\ touched' = touched \cup {own}
    /\ \/ Stay("wait") /\ UNCHANGED results
       \/ Stay("end") /\ Report(own, "failed")   \* the answer was lost
    /\ UNCHANGED <<power, switches, cfg, only, own, stopped, woken, reached, putBack>>

\* The connection fails or systemd refuses; or wait_for_self_update sees the
\* update done, gone, or past its deadline (and leaves it alone).
OwnEnds ==
    /\ \/ at \in {"self", "handoff"} /\ Report(own, "failed") /\ UNCHANGED updating
       \/ at = "wait" /\ own \in updating /\ Report(own, "failed") /\ UNCHANGED updating
       \/ at = "wait" /\ updating' = updating \ {own} /\ \E v \in Verdicts : Report(own, v)
    /\ Stay("end")
    /\ UNCHANGED <<power, switches, cfg, only, own, stopped, history>>

-----------------------------------------------------------------------------
(* What happens beside the run.                                            *)

WorldOnly == UNCHANGED <<cfg, only, own, stopped, place, results, history>>

\* A machine is up, or its start comes to nothing.  A guest needs its hypervisor.
Boots(m) ==
    /\ power[m] = "booting"
    /\ \/ (\A h \in Hypervisors(m) : ~Off(h)) /\ power' = [power EXCEPT ![m] = "on"]
       \/ power' = [power EXCEPT ![m] = "off"]
    /\ UNCHANGED <<updating, switches>>
    /\ WorldOnly

\* A command that lost its session ends on its own.
LateEnd(m) ==
    /\ m \in updating
    /\ ~(at = "command" /\ m = host) /\ ~(at = "gcommand" /\ m = guest)
    /\ updating' = updating \ {m}
    /\ UNCHANGED <<power, switches>>
    /\ WorldOnly

\* Somebody else switches a machine on or off (not the one timar runs on, which
\* is Scheduler's Crash).
Switch(m) ==
    /\ switches < MaxSwitches
    /\ switches' = switches + 1
    /\ Own # None => m # Own /\ m \notin Hypervisors(Own)
    /\ \/ /\ power[m] = "off"
          /\ \A h \in Hypervisors(m) : ~Off(h)
          /\ power' = [power EXCEPT ![m] = "on"]
          /\ UNCHANGED updating
       \/ /\ power[m] # "off"
          /\ power' = [n \in Machines |->
                          IF n = m \/ n \in Elements(Guests[m]) THEN "off" ELSE power[n]]
          /\ updating' = {n \in updating : power'[n] = "on"}
    /\ WorldOnly

\* The stop button.
RequestStop ==
    /\ at # "end" /\ ~stopped
    /\ stopped' = TRUE
    /\ UNCHANGED <<world, cfg, only, own, place, results, history>>

ServerStep ==
    \/ SkipServer \/ Probe \/ Wake \/ NotWoken \/ Rise
    \/ InUse \/ Start \/ Raise \/ UpdateProjects \/ Restart \/ Restarted \/ PutBack
GuestStep ==
    \/ GuestsDone \/ PassGuest \/ TakeGuest \/ StartGuest \/ GuestNotStarted \/ GuestRises
    \/ StartOnGuest \/ GuestProjects \/ GuestRaises \/ PutGuestBack
FleetStep ==
    \/ BeginOnly \/ BeginFleet
    \/ PassOver \/ PassWindowed \/ StopHere \/ PassLeftOut \/ Take
    \/ NoneLeft \/ TakeOwn \/ OwnProjects \/ HandOff \/ OwnEnds

Next ==
    \/ FleetStep \/ ServerStep \/ GuestStep
    \/ CommandEnds \/ GuestCommandEnds
    \/ \E m \in Machines : Boots(m) \/ LateEnd(m) \/ Switch(m)
    \/ RequestStop

Spec == Init /\ [][Next]_vars

\* The thread goes on: every wait of the run but the one for an update command
\* has a deadline (ssh.py: "recv_exit_status waits as long as the command does").
\* A connection lost in the middle of a command is only noticed by luck.
ThreadStep == at \notin {"command", "gcommand"} /\ (FleetStep \/ ServerStep \/ GuestStep)
ThreadFairness == WF_vars(ThreadStep)
\* The commands end, and a connection whose machine is gone is noticed.
CommandFairness ==
    /\ WF_vars(CommandEnds \/ (at = "command" /\ Raise))
    /\ WF_vars(GuestCommandEnds \/ (at = "gcommand" /\ GuestRaises))

FairSpec == Spec /\ ThreadFairness /\ CommandFairness

-----------------------------------------------------------------------------
(* Properties.                                                             *)

Places == {"begin", "next", "server", "wake", "rise", "connect", "command", "projects",
           "restart", "restarting", "putback", "guests", "gstart", "grise", "gconnect",
           "gcommand", "gprojects", "gputback", "self", "handoff", "wait", "end"}

\* Every variable keeps to the values the code can give it, a package
\* update goes on only on a machine that is on, and the histories are in step.
TypeOK ==
    /\ cfg \in Configs
    /\ power \in [Machines -> {"off", "booting", "on"}]
    /\ \A m \in updating : power[m] = "on"
    /\ {only, own, host, guest} \subseteq Machines \cup {None}
    /\ at \in Places
    /\ left \in Seq(Machines) /\ guests \in Seq(Machines)
    /\ {hostOff, guestOff, stopped} \subseteq BOOLEAN
    /\ results \subseteq [server : Machines, part : {"machine", "projects"},
                          verdict : Verdicts \cup {"skipped"}]
    /\ at = "putback" => hostOff
    /\ at = "gputback" => guestOff
    /\ reached \subseteq woken /\ woken \subseteq touched

\* The run goes from one server to the next, or on to timar's own host, only when
\* whatever came up for it has been asked to go down again: after a failed
\* update, a lost connection or a stop as well as after a good one.
NothingLeftAwake ==
    at \in {"next", "self", "handoff", "wait", "end"} => reached \subseteq putBack

\* It asks no machine to go down but those it woke: one that ran before stays up.
PutsBackOnlyItsOwn == putBack \subseteq woken

\* What came up for the run goes down again and nothing else does; and the variables
\* keep to their types.
PutsBackItsOwn == TypeOK /\ NothingLeftAwake /\ PutsBackOnlyItsOwn

\* Machines the run has business with: not left out, with something to run, and
\* not the guest of a server without that; a window is for its own run.
Member(m) == m \notin LeftOut \cup NoCommand
InRun(m) ==
    \/ m = own /\ Member(m)
    \/ /\ Member(m)
       /\ IF only # None THEN m = only \/ only \in Hypervisors(m)
          ELSE IF IsGuest(m) THEN \E h \in Hypervisors(m) : Member(h) /\ h \notin Windowed
          ELSE m \notin Windowed

\* The others are not woken and not updated (README.md: "not woken and not
\* connected to").
OnlyMembersTouched == \A m \in touched : InRun(m)

\* timar's own host, once found, is not updated over a session of this process'
\* own, and only when everything else is finished.
OwnHostLast ==
    own # None =>
        /\ at = "command" => host # own
        /\ at = "gcommand" => guest # own
        /\ own \in touched => left = <<>> /\ at \in {"wait", "end"}

\* A run has to do with its own machines alone, and with timar's host when it is done
\* with the others.
RightOnesInOrder == OnlyMembersTouched /\ OwnHostLast

Told(m) == \E r \in results : r.server = m /\ r.part = "machine"
Updated(m) ==
    /\ Told(m)
    /\ \A r \in results : r.server = m /\ r.part = "machine" => r.verdict = "ok"

\* Whether the run comes to the guests of h: not unless h is a server with a turn of
\* its own (the guests of a guest, or of timar's own host, are nobody's), and not
\* when it was to be left alone or something went wrong with it.
GuestsPassedOver(h) ==
    \/ IsGuest(h) \/ h = own
    \/ ~Updated(h) /\ (h \in LeftOut => h \in Watched \cup Windowed)

\* The report of a fleet's run that was not stopped has every machine in it: the
\* servers that are not only watched, timar's own host, and the guests of a
\* server that was updated or left out.
ReportTellsAll ==
    at = "end" /\ ~stopped /\ only = None =>
        \A m \in Elements(Order) :
            \/ Told(m)
            \/ m # own /\ IF IsGuest(m) THEN \E h \in Hypervisors(m) : GuestsPassedOver(h)
                           ELSE m \in Watched

\* A stop lets the machine in progress finish, and no other begin.
StopGoesNoFurther ==
    [][stopped /\ at # "begin" =>
          UNCHANGED <<host, guest>> /\ (at' = "self" => at = "self")]_vars

\* The run ends.
RunEnds == at # "end" ~> at = "end"

=============================================================================
