--------------------------- MODULE UpdateRunProofs ---------------------------
(***************************************************************************)
(* The safety properties of UpdateRun, for any fleet: whatever fails and   *)
(* whoever uses a power button, the run wakes, updates and puts back to    *)
(* sleep the machines it may, and timar's own host comes last.             *)
(*                                                                         *)
(* The invariant says, place by place of the thread, which server and      *)
(* which guest it is on (Work), which machines it has touched (Touch),     *)
(* what of those that came up for it is still to be put back (Undo), and   *)
(* of which machines the report tells already and which are to come        *)
(* (Tell).                                                                 *)
(*                                                                         *)
(* The second part is about the other job, the log sweep: how far it has   *)
(* come (Route, Halt), what the server it is on has answered (Asking), and *)
(* that every result agrees with the answers (Hearing).                    *)
(***************************************************************************)
EXTENDS UpdateRun, Sweep, TLAPS

GuestUp == {"gconnect", "gcommand", "gprojects", "gputback"}
GuestPlaces == {"gstart", "grise"} \cup GuestUp
HostUp == {"connect", "command", "projects", "restart", "restarting", "putback", "guests"}
            \cup GuestPlaces
HostPlaces == {"server", "wake", "rise"} \cup HostUp
OwnPlaces == {"self", "handoff", "wait"}

ResultType == [server : Machines, part : {"machine", "projects"},
               verdict : Verdicts \cup {"skipped"}]

Types ==
  /\ cfg \in Configs
  /\ power \in [Machines -> {"off", "booting", "on"}]
  /\ updating \subseteq Machines /\ \A m \in updating : power[m] = "on"
  /\ only \in Machines \cup {None} /\ own \in Machines \cup {None}
  /\ host \in Machines \cup {None} /\ guest \in Machines \cup {None}
  /\ at \in Places
  /\ left \in Seq(Machines) /\ guests \in Seq(Machines)
  /\ hostOff \in BOOLEAN /\ guestOff \in BOOLEAN /\ stopped \in BOOLEAN

\* Where the thread is says which machines it is on.
Work ==
  /\ only # None => only \in Windowed /\ only \notin LeftOut /\ ~IsGuest(only) /\ own = None
  /\ own # None => own = Own
  /\ at = "begin" => touched = {} /\ own = None
  /\ at = "next" => only = None
  /\ at \in HostPlaces =>
       /\ host \in Machines /\ host \notin LeftOut /\ ~IsGuest(host)
       /\ IF only = None THEN host \notin Windowed /\ host # own ELSE host = only
       /\ at # "server" => host \notin NoCommand
       /\ Elements(guests) \subseteq Elements(Guests[host])
  /\ at \in GuestPlaces =>
       /\ guest \in Elements(Guests[host]) /\ Member(guest) /\ guest # own
  /\ at \in OwnPlaces =>
       /\ own # None /\ own \notin LeftOut /\ left = <<>>
       /\ at # "self" => own \notin NoCommand

Touch ==
  /\ \A m \in touched : InRun(m)
  /\ own # None /\ own \in touched => left = <<>> /\ at \in {"wait", "end"}

Undo ==
  /\ reached \subseteq woken /\ woken \subseteq touched /\ putBack \subseteq woken
  /\ at \in {"wake", "rise", "putback"} => hostOff
  /\ at \in {"gstart", "grise", "gputback"} => guestOff
  /\ at = "rise" \/ (at \in HostUp /\ hostOff) => host \in woken
  /\ at = "grise" \/ (at \in GuestUp /\ guestOff) => guest \in woken
  /\ \A m \in reached : \/ m \in putBack
                        \/ at \in HostUp /\ hostOff /\ m = host
                        \/ at \in GuestUp /\ guestOff /\ m = guest

Results == results \subseteq ResultType

\* Places before the first result of the machine the thread is on.
HostAhead == {"server", "wake", "rise", "connect", "command"}
GuestAhead == {"gstart", "grise", "gconnect", "gcommand"}

\* A server with a turn of its own.
Turn(m) == m \in Machines /\ ~IsGuest(m) /\ m # own
InProgress(h, g) ==
  /\ at \in HostPlaces \ {"putback"} /\ host = h
  /\ g \in Elements(guests) \/ (at \in GuestAhead /\ guest = g)

\* What is in the report, and what is still to come.
TellPlaces ==
  /\ at = "begin" => results = {}
  /\ at \in HostAhead \cup {"projects", "restart", "restarting"} => guests = Guests[host]
  /\ at \in {"gprojects", "gputback"} => Told(guest)
TellServers ==
  \A m \in Machines : Turn(m) /\ m \notin Watched =>
     Told(m) \/ m \in Elements(left) \/ (at \in HostAhead /\ host = m)
TellLeftOut ==
  \A h \in Machines : Turn(h) /\ h \in LeftOut \ (Watched \cup Windowed) =>
     h \in Elements(left) \/ \A g \in Elements(Guests[h]) \ {own} : Told(g)
TellGuests ==
  \A h \in Machines : Turn(h) /\ Updated(h) =>
     \A g \in Elements(Guests[h]) \ {own} : Told(g) \/ InProgress(h, g)
TellEnd == at = "end" => left = <<>> /\ (own # None => Told(own))

Telling == only = None /\ ~stopped /\ at # "begin"
Tell ==
  /\ TellPlaces
  /\ Telling => TellServers /\ TellLeftOut /\ TellGuests /\ TellEnd

IInv == Types /\ Results /\ Work /\ Touch /\ Undo /\ Tell

\* What UpdateRunAssumption says of the configuration the run has.
LEMMA Fleet ==
  ASSUME cfg \in Configs
  PROVE  /\ None \notin Machines
         /\ Order \in Seq(Machines)
         /\ Guests \in [Machines -> Seq(Machines)]
         /\ Own \in Machines \cup {None}
         /\ Watched \subseteq LeftOut
         /\ LeftOut \subseteq Machines /\ Windowed \subseteq Machines
         /\ NoCommand \subseteq Machines /\ Projects \subseteq Machines
BY UpdateRunAssumption DEF Machines, Order, Guests, Own, Watched, LeftOut, Windowed,
   NoCommand, Projects

LEMMA ElementsIs ==
  ASSUME NEW S, NEW s \in Seq(S)
  PROVE  /\ Elements(s) \subseteq S
         /\ s # <<>> => /\ Head(s) \in Elements(s) /\ Head(s) \in S
                        /\ Tail(s) \in Seq(S) /\ Elements(Tail(s)) \subseteq Elements(s)
<1>1. Elements(s) \subseteq S
  BY DEF Elements
<1>2. ASSUME s # <<>>
      PROVE  /\ Head(s) \in Elements(s) /\ Head(s) \in S
             /\ Tail(s) \in Seq(S) /\ Elements(Tail(s)) \subseteq Elements(s)
  <2>1. Len(s) \in Nat /\ Len(s) >= 1 /\ Head(s) = s[1]
    BY <1>2
  <2>2. Head(s) \in Elements(s)
    BY <2>1 DEF Elements
  <2>3. Tail(s) \in Seq(S) /\ Len(Tail(s)) = Len(s) - 1
        /\ \A i \in 1 .. Len(s) - 1 : Tail(s)[i] = s[i + 1]
    BY <1>2
  <2>4. Elements(Tail(s)) \subseteq Elements(s)
    BY <2>1, <2>3 DEF Elements
  <2> QED
    BY <1>1, <2>2, <2>3, <2>4
<1> QED
  BY <1>1, <1>2

LEMMA GuestIs ==
  ASSUME cfg \in Configs, NEW h \in Machines, NEW g \in Elements(Guests[h])
  PROVE  g \in Machines /\ IsGuest(g) /\ h \in Hypervisors(g)
<1>1. Guests[h] \in Seq(Machines)
  BY Fleet
<1>2. g \in Machines
  BY <1>1, ElementsIs
<1>3. h \in Hypervisors(g) /\ IsGuest(g)
  BY DEF Hypervisors, IsGuest
<1> QED
  BY <1>2, <1>3

\* The configuration is the run's.
LEMMA SameFleet ==
  ASSUME UNCHANGED cfg
  PROVE  /\ Machines' = Machines /\ Guests' = Guests /\ Own' = Own /\ Order' = Order
         /\ LeftOut' = LeftOut /\ Windowed' = Windowed /\ NoCommand' = NoCommand
         /\ Projects' = Projects /\ Watched' = Watched
         /\ ResultType' = ResultType
         /\ \A m : Hypervisors(m)' = Hypervisors(m) /\ (IsGuest(m)' <=> IsGuest(m))
         /\ \A m : Member(m)' <=> Member(m)
BY DEF Machines, Guests, Own, Order, LeftOut, Windowed, NoCommand, Projects, Watched,
   Hypervisors, IsGuest, Member, ResultType


LEMMA ResultIs ==
  ASSUME NEW m \in Machines
  PROVE  /\ \A v \in Verdicts \cup {"skipped"} : Machine(m, v) \in ResultType
         /\ \A r \in ProjectResults(m) : r \subseteq ResultType
<1>1. \A v \in Verdicts \cup {"skipped"}, part \in {"machine", "projects"} :
         Result(m, part, v) \in ResultType
  BY DEF Result, ResultType
<1>2. \A r \in ProjectResults(m) : r \subseteq ResultType
  BY <1>1 DEF ProjectResults, Verdicts
<1> QED
  BY <1>1, <1>2 DEF Machine
LEMMA StepSame ==
  ASSUME Next
  PROVE  UNCHANGED <<cfg, only>>
BY DEF Next, FleetStep, ServerStep, GuestStep, BeginOnly, BeginFleet, PassOver,
   PassWindowed, StopHere, PassLeftOut, Take, NoneLeft, TakeOwn, OwnProjects, HandOff,
   OwnEnds, SkipServer, Probe, Wake, NotWoken, Rise, InUse, Start, Raise, UpdateProjects,
   Restart, Restarted, PutBack, GuestsDone, PassGuest, TakeGuest, StartGuest,
   GuestNotStarted, GuestRises, StartOnGuest, GuestProjects, GuestRaises, PutGuestBack,
   CommandEnds, GuestCommandEnds, Boots, LateEnd, Switch, RequestStop, WorldOnly

-----------------------------------------------------------------------------
\* What is in the report stays there, and a result of it can only get worse.

LEMMA ReportGrows ==
  ASSUME Next, ~Restarted
  PROVE  results \subseteq results'
<1>1. CASE BeginOnly
  BY <1>1 DEF BeginOnly, history, world, Report
<1>2. CASE BeginFleet
  BY <1>2 DEF BeginFleet, history, world
<1>3. CASE PassOver \/ PassWindowed \/ StopHere \/ PassLeftOut
  BY <1>3 DEF PassOver, PassWindowed, StopHere, PassLeftOut, history, world, HasTurn,
     Report, SkippedAll
<1>4. CASE Take
  BY <1>4 DEF Take, history, world, MayTake, HasTurn
<1>5. CASE NoneLeft \/ TakeOwn \/ OwnProjects \/ HandOff \/ OwnEnds
  BY <1>5 DEF NoneLeft, TakeOwn, OwnProjects, HandOff, OwnEnds, history, world, Stay,
     Report
<1>6. CASE SkipServer \/ Probe \/ Wake \/ NotWoken \/ Rise
  BY <1>6 DEF SkipServer, Probe, Wake, NotWoken, Rise, history, world, Off, Return,
     Report, Stay
<1>7. CASE InUse \/ Start \/ CommandEnds \/ Raise \/ UpdateProjects
  BY <1>7 DEF InUse, Start, CommandEnds, Raise, UpdateProjects, history, world, Off,
     Report, Stay, Fail, Return, PutBackOrReturn
<1>8. CASE Restart \/ PutBack
  BY <1>8 DEF Restart, Restarted, PutBack, history, Off, Stay, world, Return
<1>9. CASE GuestsDone
  BY <1>9 DEF GuestsDone, history, world, PutBackOrReturn, Return, Stay
<1>10. CASE PassGuest
  BY <1>10 DEF PassGuest, history, world, Report
<1>11. CASE TakeGuest
  BY <1>11 DEF TakeGuest, history, world, Off, MayStart
<1>12. CASE StartGuest \/ GuestNotStarted \/ GuestRises
  BY <1>12 DEF StartGuest, GuestNotStarted, GuestRises, Off, Stay, history, world,
     Report
<1>13. CASE StartOnGuest \/ GuestCommandEnds \/ GuestProjects \/ GuestRaises \/ PutGuestBack
  BY <1>13 DEF StartOnGuest, GuestCommandEnds, GuestProjects, GuestRaises, PutGuestBack,
     Off, Stay, history, Report, world, AfterGuest
<1>14. CASE (\E m \in Machines : Boots(m) \/ LateEnd(m) \/ Switch(m)) \/ RequestStop
  BY <1>14 DEF Boots, LateEnd, Switch, RequestStop, Off, WorldOnly, history, place,
     world
<1> QED
  BY <1>1, <1>2, <1>3, <1>4, <1>5, <1>6, <1>7, <1>8, <1>9, <1>10, <1>11, <1>12, <1>13,
     <1>14 DEF Next, FleetStep, ServerStep, GuestStep

LEMMA ToldStays ==
  ASSUME Next
  PROVE  \A m : Told(m) => Told(m)'
<1>1. CASE Restarted
  <2> SUFFICES ASSUME NEW m, Told(m)
               PROVE  Told(m)'
    OBVIOUS
  <2>1. PICK r \in results : r.server = m /\ r.part = "machine"
    BY DEF Told
  <2>2. CASE results' = results
    BY <2>1, <2>2 DEF Told
  <2>3. CASE results' = {IF x.server = host /\ x.part = "machine"
                         THEN Machine(host, "failed") ELSE x : x \in results}
    <3>1. CASE m = host
      <4>1. Machine(host, "failed") \in results'
        BY <2>1, <2>3, <3>1
      <4>2. Machine(host, "failed").server = m /\ Machine(host, "failed").part = "machine"
        BY <3>1 DEF Machine, Result
      <4> QED
        BY <4>1, <4>2 DEF Told
    <3>2. CASE m # host
      BY <2>1, <2>3, <3>2 DEF Told
    <3> QED
      BY <3>1, <3>2
  <2> QED
    BY <1>1, <2>2, <2>3 DEF Restarted
<1>2. CASE ~Restarted
  BY <1>2, ReportGrows DEF Told
<1> QED
  BY <1>1, <1>2

\* Only the end of an update puts a good result of a machine into the report.
LEMMA GoodResult ==
  ASSUME Next, ~Restarted, NEW r \in results', r \notin results,
         r.part = "machine", r.verdict = "ok"
  PROVE  \/ CommandEnds /\ r.server = host
         \/ GuestCommandEnds /\ r.server = guest
         \/ OwnEnds /\ r.server = own
<1>p. \A m \in {host, guest, own} : \A x \in ProjectResults(m) : r \notin x
  BY DEF ProjectResults, Result
<1>m. \A m, v : r = Machine(m, v) => r.server = m /\ v = "ok"
  BY DEF Machine, Result
<1>s. \A S : r \notin SkippedAll(S)
  BY <1>m DEF SkippedAll
<1>1. CASE BeginOnly
  BY <1>1, <1>p, <1>m, <1>s DEF BeginOnly, history, world, Report
<1>2. CASE BeginFleet
  BY <1>2, <1>p, <1>m, <1>s DEF BeginFleet, history, world
<1>3. CASE PassOver \/ PassWindowed \/ StopHere \/ PassLeftOut
  BY <1>3, <1>p, <1>m, <1>s DEF PassOver, PassWindowed, StopHere, PassLeftOut, history,
     world, HasTurn, Report
<1>4. CASE Take
  BY <1>4, <1>p, <1>m, <1>s DEF Take, history, world, MayTake, HasTurn
<1>5. CASE NoneLeft \/ TakeOwn \/ OwnProjects \/ HandOff \/ OwnEnds
  BY <1>5, <1>p, <1>m, <1>s DEF NoneLeft, TakeOwn, OwnProjects, HandOff, OwnEnds,
     history, world, Stay, Report
<1>6. CASE SkipServer \/ Probe \/ Wake \/ NotWoken \/ Rise
  BY <1>6, <1>p, <1>m, <1>s DEF SkipServer, Probe, Wake, NotWoken, Rise, history, world,
     Off, Return, Report, Stay
<1>7. CASE InUse \/ Start \/ CommandEnds \/ Raise \/ UpdateProjects
  BY <1>7, <1>p, <1>m, <1>s DEF InUse, Start, CommandEnds, Raise, UpdateProjects,
     history, world, Off, Report, Stay, Fail, Return, PutBackOrReturn
<1>8. CASE Restart \/ PutBack
  BY <1>8, <1>p, <1>m, <1>s DEF Restart, Restarted, PutBack, history, Off, Stay, world,
     Return
<1>9. CASE GuestsDone
  BY <1>9, <1>p, <1>m, <1>s DEF GuestsDone, history, world, PutBackOrReturn, Return,
     Stay
<1>10. CASE PassGuest
  BY <1>10, <1>p, <1>m, <1>s DEF PassGuest, history, world, Report
<1>11. CASE TakeGuest
  BY <1>11, <1>p, <1>m, <1>s DEF TakeGuest, history, world, Off, MayStart
<1>12. CASE StartGuest \/ GuestNotStarted \/ GuestRises
  BY <1>12, <1>p, <1>m, <1>s DEF StartGuest, GuestNotStarted, GuestRises, Off, Stay,
     history, world, Report
<1>13. CASE StartOnGuest \/ GuestCommandEnds \/ GuestProjects \/ GuestRaises \/ PutGuestBack
  BY <1>13, <1>p, <1>m, <1>s DEF StartOnGuest, GuestCommandEnds, GuestProjects,
     GuestRaises, PutGuestBack, Off, Stay, history, Report, world, AfterGuest
<1>14. CASE (\E m \in Machines : Boots(m) \/ LateEnd(m) \/ Switch(m)) \/ RequestStop
  BY <1>14, <1>p, <1>m, <1>s DEF Boots, LateEnd, Switch, RequestStop, Off, WorldOnly,
     history, place, world
<1> QED
  BY <1>1, <1>2, <1>3, <1>4, <1>5, <1>6, <1>7, <1>8, <1>9, <1>10, <1>11, <1>12, <1>13,
     <1>14 DEF Next, FleetStep, ServerStep, GuestStep

\* A server that has now been updated was before, or its update just ended.
LEMMA NewlyUpdated ==
  ASSUME Next, NEW m, m # own, at = "gcommand" => m # guest, Updated(m)', ~Updated(m)
  PROVE  CommandEnds /\ m = host
<1>1. CASE Restarted
  <2>1. CASE results' = results
    BY <2>1 DEF Updated, Told
  <2>2. CASE results' = {IF x.server = host /\ x.part = "machine"
                         THEN Machine(host, "failed") ELSE x : x \in results}
    <3>1. CASE m = host
      <4>1. PICK r \in results' : r.server = m /\ r.part = "machine" /\ r.verdict = "ok"
        BY DEF Updated, Told
      <4>2. PICK x \in results : r = IF x.server = host /\ x.part = "machine"
                                     THEN Machine(host, "failed") ELSE x
        BY <2>2, <4>1
      <4>3. Machine(host, "failed").verdict = "failed"
        BY DEF Machine, Result
      <4> QED
        BY <3>1, <4>1, <4>2, <4>3
    <3>2. CASE m # host
      <4>1. \A r : r.server = m => (r \in results <=> r \in results')
        <5>1. Machine(host, "failed").server = host
          BY DEF Machine, Result
        <5> QED
          BY <2>2, <3>2, <5>1
      <4> QED
        BY <4>1 DEF Updated, Told
    <3> QED
      BY <3>1, <3>2
  <2> QED
    BY <1>1, <2>1, <2>2 DEF Restarted
<1>2. CASE ~Restarted
  <2>1. results \subseteq results'
    BY <1>2, ReportGrows
  <2>2. ~Told(m)
    BY <2>1 DEF Updated, Told
  <2>3. PICK r \in results' : r.server = m /\ r.part = "machine" /\ r.verdict = "ok"
    BY DEF Updated, Told
  <2>4. r \notin results
    BY <2>2, <2>3 DEF Told
  <2> QED
    BY <1>2, <2>3, <2>4, GoodResult DEF GuestCommandEnds
<1> QED
  BY <1>1, <1>2

\* The machine of a result that is added has been told of.
LEMMA Tells ==
  ASSUME NEW m
  PROVE  /\ \A v : Machine(m, v) \in results' => Told(m)'
         /\ \A S : m \in S /\ SkippedAll(S) \subseteq results' => Told(m)'
<1>1. \A v : Machine(m, v).server = m /\ Machine(m, v).part = "machine"
  BY DEF Machine, Result
<1>2. \A v : Machine(m, v) \in results' => Told(m)'
  BY <1>1 DEF Told
<1>3. \A S : m \in S => Machine(m, "skipped") \in SkippedAll(S)
  BY DEF SkippedAll
<1> QED
  BY <1>2, <1>3

LEMMA TellPlacesStep ==
  ASSUME IInv, Next
  PROVE  TellPlaces'
<1>c. Guests' = Guests
  BY StepSame, SameFleet
<1>i. TellPlaces
  BY DEF IInv, Tell
<1>t. /\ \A m : Told(m) => Told(m)'
      /\ guest' = guest => \A v : Machine(guest, v) \in results' => Told(guest)'
  BY ToldStays, Tells DEF Told
<1>1. CASE BeginOnly
  BY <1>1, <1>c, <1>i, <1>t DEF BeginOnly, history, world, Report, TellPlaces, HostAhead
<1>2. CASE BeginFleet
  BY <1>2, <1>c, <1>i, <1>t DEF BeginFleet, history, world, TellPlaces, HostAhead
<1>3. CASE PassOver \/ PassWindowed \/ StopHere \/ PassLeftOut
  BY <1>3, <1>c, <1>i, <1>t DEF PassOver, PassWindowed, StopHere, PassLeftOut, history,
     world, HasTurn, Report, SkippedAll, TellPlaces, HostAhead
<1>4. CASE Take
  BY <1>4, <1>c, <1>i, <1>t DEF Take, history, world, MayTake, HasTurn, TellPlaces,
     HostAhead
<1>5. CASE NoneLeft \/ TakeOwn \/ OwnProjects \/ HandOff \/ OwnEnds
  BY <1>5, <1>c, <1>i, <1>t DEF NoneLeft, TakeOwn, OwnProjects, HandOff, OwnEnds,
     history, world, Stay, Report, TellPlaces, HostAhead
<1>6. CASE SkipServer \/ Probe \/ Wake \/ NotWoken \/ Rise
  BY <1>6, <1>c, <1>i, <1>t DEF SkipServer, Probe, Wake, NotWoken, Rise, history, world,
     Off, Return, Report, Stay, TellPlaces, HostAhead
<1>7. CASE InUse \/ Start \/ CommandEnds \/ Raise \/ UpdateProjects
  BY <1>7, <1>c, <1>i, <1>t DEF InUse, Start, CommandEnds, Raise, UpdateProjects,
     history, world, Off, Report, Stay, Fail, Return, PutBackOrReturn, TellPlaces,
     HostAhead
<1>8. CASE Restart \/ Restarted \/ PutBack
  BY <1>8, <1>c, <1>i, <1>t DEF Restart, Restarted, PutBack, history, Off, Stay, world,
     Return, TellPlaces, HostAhead
<1>9. CASE GuestsDone
  BY <1>9, <1>c, <1>i, <1>t DEF GuestsDone, history, world, PutBackOrReturn, Return,
     Stay, TellPlaces, HostAhead
<1>10. CASE PassGuest
  BY <1>10, <1>c, <1>i, <1>t DEF PassGuest, history, world, Report, TellPlaces,
     HostAhead
<1>11. CASE TakeGuest
  BY <1>11, <1>c, <1>i, <1>t DEF TakeGuest, history, world, Off, MayStart, TellPlaces,
     HostAhead
<1>12. CASE StartGuest \/ GuestNotStarted \/ GuestRises
  BY <1>12, <1>c, <1>i, <1>t DEF StartGuest, GuestNotStarted, GuestRises, Off, Stay,
     history, world, Report, TellPlaces, HostAhead
<1>13. CASE StartOnGuest \/ GuestCommandEnds \/ GuestProjects \/ GuestRaises \/ PutGuestBack
  BY <1>13, <1>c, <1>i, <1>t DEF StartOnGuest, GuestCommandEnds, GuestProjects,
     GuestRaises, PutGuestBack, Off, Stay, history, Report, world, AfterGuest,
     TellPlaces, HostAhead
<1>14. CASE (\E m \in Machines : Boots(m) \/ LateEnd(m) \/ Switch(m)) \/ RequestStop
  BY <1>14, <1>c, <1>i, <1>t DEF Boots, LateEnd, Switch, RequestStop, Off, WorldOnly,
     history, place, world, TellPlaces, HostAhead
<1> QED
  BY <1>1, <1>2, <1>3, <1>4, <1>5, <1>6, <1>7, <1>8, <1>9, <1>10, <1>11, <1>12, <1>13,
     <1>14 DEF Next, FleetStep, ServerStep, GuestStep

\* A step of a fleet's run that goes on leaves everything but the report, the
\* servers to come and the place of the thread as they were.
LEMMA TellingSame ==
  ASSUME Next, Telling', at # "begin"
  PROVE  /\ Telling /\ own' = own
         /\ \A m : Turn(m)' <=> Turn(m)
         /\ Watched' = Watched /\ LeftOut' = LeftOut /\ Windowed' = Windowed
         /\ Guests' = Guests /\ Machines' = Machines
<1>1. own' = own /\ (stopped => stopped')
  <2>1. CASE BeginOnly
    BY <2>1, at # "begin" DEF BeginOnly, history, world, Report
  <2>2. CASE BeginFleet
    BY <2>2, at # "begin" DEF BeginFleet, history, world
  <2>3. CASE PassOver \/ PassWindowed \/ StopHere \/ PassLeftOut
    BY <2>3, at # "begin" DEF PassOver, PassWindowed, StopHere, PassLeftOut, history,
       world, HasTurn, Report, SkippedAll
  <2>4. CASE Take
    BY <2>4, at # "begin" DEF Take, history, world, MayTake, HasTurn
  <2>5. CASE NoneLeft \/ TakeOwn \/ OwnProjects \/ HandOff \/ OwnEnds
    BY <2>5, at # "begin" DEF NoneLeft, TakeOwn, OwnProjects, HandOff, OwnEnds, history,
       world, Stay, Report
  <2>6. CASE SkipServer \/ Probe \/ Wake \/ NotWoken \/ Rise
    BY <2>6, at # "begin" DEF SkipServer, Probe, Wake, NotWoken, Rise, history, world,
       Off, Return, Report, Stay
  <2>7. CASE InUse \/ Start \/ CommandEnds \/ Raise \/ UpdateProjects
    BY <2>7, at # "begin" DEF InUse, Start, CommandEnds, Raise, UpdateProjects, history,
       world, Off, Report, Stay, Fail, Return, PutBackOrReturn
  <2>8. CASE Restart \/ Restarted \/ PutBack
    BY <2>8, at # "begin" DEF Restart, Restarted, PutBack, history, Off, Stay, world,
       Return
  <2>9. CASE GuestsDone
    BY <2>9, at # "begin" DEF GuestsDone, history, world, PutBackOrReturn, Return, Stay
  <2>10. CASE PassGuest
    BY <2>10, at # "begin" DEF PassGuest, history, world, Report
  <2>11. CASE TakeGuest
    BY <2>11, at # "begin" DEF TakeGuest, history, world, Off, MayStart
  <2>12. CASE StartGuest \/ GuestNotStarted \/ GuestRises
    BY <2>12, at # "begin" DEF StartGuest, GuestNotStarted, GuestRises, Off, Stay,
       history, world, Report
  <2>13. CASE StartOnGuest \/ GuestCommandEnds \/ GuestProjects \/ GuestRaises \/ PutGuestBack
    BY <2>13, at # "begin" DEF StartOnGuest, GuestCommandEnds, GuestProjects,
       GuestRaises, PutGuestBack, Off, Stay, history, Report, world, AfterGuest
  <2>14. CASE (\E m \in Machines : Boots(m) \/ LateEnd(m) \/ Switch(m)) \/ RequestStop
    BY <2>14, at # "begin" DEF Boots, LateEnd, Switch, RequestStop, Off, WorldOnly,
       history, place, world
  <2> QED
    BY <2>1, <2>2, <2>3, <2>4, <2>5, <2>6, <2>7, <2>8, <2>9, <2>10, <2>11, <2>12, <2>13,
       <2>14 DEF Next, FleetStep, ServerStep, GuestStep
<1>2. UNCHANGED <<cfg, only>>
  BY StepSame
<1> QED
  BY <1>1, <1>2, SameFleet DEF Telling, Turn

\* The elements of a sequence are its head and those of its tail.
LEMMA ElementsOf ==
  ASSUME NEW S, NEW s \in Seq(S), s # <<>>
  PROVE  \A m \in Elements(s) : m = Head(s) \/ m \in Elements(Tail(s))
<1> SUFFICES ASSUME NEW m \in Elements(s), m # s[1]
             PROVE  m \in Elements(Tail(s))
  OBVIOUS
<1>1. /\ Len(s) \in Nat /\ Len(s) >= 1
      /\ Len(Tail(s)) = Len(s) - 1 /\ \A i \in 1 .. Len(s) - 1 : Tail(s)[i] = s[i + 1]
  OBVIOUS
<1>2. PICK i \in 1 .. Len(s) : m = s[i]
  BY DEF Elements
<1>3. i - 1 \in 1 .. Len(s) - 1 /\ Tail(s)[i - 1] = s[i]
  BY <1>1, <1>2
<1> QED
  BY <1>1, <1>2, <1>3 DEF Elements

\* The run of a fleet begins with every machine to come, and an empty report.
LEMMA FleetBegins ==
  ASSUME IInv, Next, Telling', at = "begin"
  PROVE  /\ TellServers' /\ TellLeftOut' /\ TellGuests' /\ TellEnd'
<1>1. BeginFleet
  <2>1. CASE BeginOnly
    BY <2>1, at = "begin" DEF BeginOnly, history, world, Report, Telling, HasTurn
  <2>2. CASE BeginFleet
    BY <2>2, at = "begin" DEF BeginFleet, history, world, Telling, HasTurn
  <2>3. CASE PassOver \/ PassWindowed \/ StopHere \/ PassLeftOut
    BY <2>3, at = "begin" DEF PassOver, PassWindowed, StopHere, PassLeftOut, history,
       world, HasTurn, Report, SkippedAll, Telling, HasTurn
  <2>4. CASE Take
    BY <2>4, at = "begin" DEF Take, history, world, MayTake, HasTurn, Telling, HasTurn
  <2>5. CASE NoneLeft \/ TakeOwn \/ OwnProjects \/ HandOff \/ OwnEnds
    BY <2>5, at = "begin" DEF NoneLeft, TakeOwn, OwnProjects, HandOff, OwnEnds, history,
       world, Stay, Report, Telling, HasTurn
  <2>6. CASE SkipServer \/ Probe \/ Wake \/ NotWoken \/ Rise
    BY <2>6, at = "begin" DEF SkipServer, Probe, Wake, NotWoken, Rise, history, world,
       Off, Return, Report, Stay, Telling, HasTurn
  <2>7. CASE InUse \/ Start \/ CommandEnds \/ Raise \/ UpdateProjects
    BY <2>7, at = "begin" DEF InUse, Start, CommandEnds, Raise, UpdateProjects, history,
       world, Off, Report, Stay, Fail, Return, PutBackOrReturn, Telling, HasTurn
  <2>8. CASE Restart \/ Restarted \/ PutBack
    BY <2>8, at = "begin" DEF Restart, Restarted, PutBack, history, Off, Stay, world,
       Return, Telling, HasTurn
  <2>9. CASE GuestsDone
    BY <2>9, at = "begin" DEF GuestsDone, history, world, PutBackOrReturn, Return, Stay,
       Telling, HasTurn
  <2>10. CASE PassGuest
    BY <2>10, at = "begin" DEF PassGuest, history, world, Report, Telling, HasTurn
  <2>11. CASE TakeGuest
    BY <2>11, at = "begin" DEF TakeGuest, history, world, Off, MayStart, Telling,
       HasTurn
  <2>12. CASE StartGuest \/ GuestNotStarted \/ GuestRises
    BY <2>12, at = "begin" DEF StartGuest, GuestNotStarted, GuestRises, Off, Stay,
       history, world, Report, Telling, HasTurn
  <2>13. CASE StartOnGuest \/ GuestCommandEnds \/ GuestProjects \/ GuestRaises \/ PutGuestBack
    BY <2>13, at = "begin" DEF StartOnGuest, GuestCommandEnds, GuestProjects,
       GuestRaises, PutGuestBack, Off, Stay, history, Report, world, AfterGuest,
       Telling, HasTurn
  <2>14. CASE (\E m \in Machines : Boots(m) \/ LateEnd(m) \/ Switch(m)) \/ RequestStop
    BY <2>14, at = "begin" DEF Boots, LateEnd, Switch, RequestStop, Off, WorldOnly,
       history, place, world, Telling, HasTurn
  <2> QED
    BY <2>1, <2>2, <2>3, <2>4, <2>5, <2>6, <2>7, <2>8, <2>9, <2>10, <2>11, <2>12, <2>13,
       <2>14 DEF Next, FleetStep, ServerStep, GuestStep
<1>2. at' = "next" /\ left' = Order /\ results' = {}
  BY <1>1 DEF BeginFleet, IInv, Tell, TellPlaces
<1>3. \A m : ~Told(m)' /\ ~Updated(m)'
  BY <1>2 DEF Told, Updated
<1>4. Machines' = Elements(left')
  BY <1>2, StepSame, SameFleet DEF Machines
<1> QED
  BY <1>2, <1>3, <1>4 DEF TellServers, TellLeftOut, TellGuests, TellEnd

LEMMA TellServersStep ==
  ASSUME IInv, Next, Telling', at # "begin"
  PROVE  TellServers'
<1>0. /\ Telling /\ Machines' = Machines /\ Watched' = Watched
      /\ \A m : Turn(m)' <=> Turn(m)
  BY TellingSame
<1> SUFFICES ASSUME NEW m \in Machines, Turn(m), m \notin Watched
             PROVE  Told(m)' \/ m \in Elements(left') \/ (at' \in HostAhead /\ host' = m)
  BY <1>0 DEF TellServers
<1>i. Told(m) \/ m \in Elements(left) \/ (at \in HostAhead /\ host = m)
  BY <1>0 DEF IInv, Tell, TellServers
<1>t. /\ Told(m) => Told(m)'
      /\ \A v : Machine(m, v) \in results' => Told(m)'
      /\ \A S : m \in S /\ SkippedAll(S) \subseteq results' => Told(m)'
  BY ToldStays, Tells
<1>e. /\ left # <<>> /\ m \in Elements(left) => m = Head(left) \/ m \in Elements(Tail(left))
      /\ ~IsGuest(m) /\ m # own /\ ~stopped
  BY <1>0, ElementsOf DEF IInv, Types, Turn, Telling
<1>1. CASE BeginOnly
  BY <1>1, <1>i, <1>t, <1>e DEF BeginOnly, history, world, Report, HostAhead
<1>2. CASE BeginFleet
  BY <1>2, <1>i, <1>t, <1>e DEF BeginFleet, history, world, HostAhead
<1>3. CASE PassOver \/ PassWindowed \/ StopHere \/ PassLeftOut
  BY <1>3, <1>i, <1>t, <1>e DEF PassOver, PassWindowed, StopHere, PassLeftOut, history,
     world, HasTurn, Report, SkippedAll, HostAhead
<1>4. CASE Take
  BY <1>4, <1>i, <1>t, <1>e DEF Take, history, world, MayTake, HasTurn, HostAhead
<1>5. CASE NoneLeft \/ TakeOwn \/ OwnProjects \/ HandOff \/ OwnEnds
  BY <1>5, <1>i, <1>t, <1>e DEF NoneLeft, TakeOwn, OwnProjects, HandOff, OwnEnds,
     history, world, Stay, Report, HostAhead
<1>6. CASE SkipServer \/ Probe \/ Wake \/ NotWoken \/ Rise
  BY <1>6, <1>i, <1>t, <1>e DEF SkipServer, Probe, Wake, NotWoken, Rise, history, world,
     Off, Return, Report, Stay, HostAhead
<1>7. CASE InUse \/ Start \/ CommandEnds \/ Raise \/ UpdateProjects
  BY <1>7, <1>i, <1>t, <1>e DEF InUse, Start, CommandEnds, Raise, UpdateProjects,
     history, world, Off, Report, Stay, Fail, Return, PutBackOrReturn, HostAhead
<1>8. CASE Restart \/ Restarted \/ PutBack
  BY <1>8, <1>i, <1>t, <1>e DEF Restart, Restarted, PutBack, history, Off, Stay, world,
     Return, HostAhead
<1>9. CASE GuestsDone
  BY <1>9, <1>i, <1>t, <1>e DEF GuestsDone, history, world, PutBackOrReturn, Return,
     Stay, HostAhead
<1>10. CASE PassGuest
  BY <1>10, <1>i, <1>t, <1>e DEF PassGuest, history, world, Report, HostAhead
<1>11. CASE TakeGuest
  BY <1>11, <1>i, <1>t, <1>e DEF TakeGuest, history, world, Off, MayStart, HostAhead
<1>12. CASE StartGuest \/ GuestNotStarted \/ GuestRises
  BY <1>12, <1>i, <1>t, <1>e DEF StartGuest, GuestNotStarted, GuestRises, Off, Stay,
     history, world, Report, HostAhead
<1>13. CASE StartOnGuest \/ GuestCommandEnds \/ GuestProjects \/ GuestRaises \/ PutGuestBack
  BY <1>13, <1>i, <1>t, <1>e DEF StartOnGuest, GuestCommandEnds, GuestProjects,
     GuestRaises, PutGuestBack, Off, Stay, history, Report, world, AfterGuest, HostAhead
<1>14. CASE (\E x \in Machines : Boots(x) \/ LateEnd(x) \/ Switch(x)) \/ RequestStop
  BY <1>14, <1>i, <1>t, <1>e DEF Boots, LateEnd, Switch, RequestStop, Off, WorldOnly,
     history, place, world, HostAhead
<1> QED
  BY <1>1, <1>2, <1>3, <1>4, <1>5, <1>6, <1>7, <1>8, <1>9, <1>10, <1>11, <1>12, <1>13,
     <1>14 DEF Next, FleetStep, ServerStep, GuestStep

LEMMA TellEndStep ==
  ASSUME IInv, Next, Telling', at # "begin"
  PROVE  TellEnd'
<1>0. Telling /\ own' = own
  BY TellingSame
<1>i. /\ at = "end" => left = <<>> /\ (own # None => Told(own))
      /\ at \in OwnPlaces => left = <<>>
  BY <1>0 DEF IInv, Tell, TellEnd, Work
<1>t. /\ Told(own) => Told(own)'
      /\ \A v : Machine(own, v) \in results' => Told(own)'
  BY <1>0, ToldStays, Tells DEF Told
<1>e. only = None /\ ~stopped
  BY <1>0 DEF Telling
<1>1. CASE BeginOnly
  BY <1>1, <1>0, <1>i, <1>t, <1>e DEF BeginOnly, history, world, Report, TellEnd,
     OwnPlaces
<1>2. CASE BeginFleet
  BY <1>2, <1>0, <1>i, <1>t, <1>e DEF BeginFleet, history, world, TellEnd, OwnPlaces
<1>3. CASE PassOver \/ PassWindowed \/ StopHere \/ PassLeftOut
  BY <1>3, <1>0, <1>i, <1>t, <1>e DEF PassOver, PassWindowed, StopHere, PassLeftOut,
     history, world, HasTurn, Report, SkippedAll, TellEnd, OwnPlaces
<1>4. CASE Take
  BY <1>4, <1>0, <1>i, <1>t, <1>e DEF Take, history, world, MayTake, HasTurn, TellEnd,
     OwnPlaces
<1>5. CASE NoneLeft \/ TakeOwn \/ OwnProjects \/ HandOff \/ OwnEnds
  BY <1>5, <1>0, <1>i, <1>t, <1>e DEF NoneLeft, TakeOwn, OwnProjects, HandOff, OwnEnds,
     history, world, Stay, Report, TellEnd, OwnPlaces
<1>6. CASE SkipServer \/ Probe \/ Wake \/ NotWoken \/ Rise
  BY <1>6, <1>0, <1>i, <1>t, <1>e DEF SkipServer, Probe, Wake, NotWoken, Rise, history,
     world, Off, Return, Report, Stay, TellEnd, OwnPlaces
<1>7. CASE InUse \/ Start \/ CommandEnds \/ Raise \/ UpdateProjects
  BY <1>7, <1>0, <1>i, <1>t, <1>e DEF InUse, Start, CommandEnds, Raise, UpdateProjects,
     history, world, Off, Report, Stay, Fail, Return, PutBackOrReturn, TellEnd,
     OwnPlaces
<1>8. CASE Restart \/ Restarted \/ PutBack
  BY <1>8, <1>0, <1>i, <1>t, <1>e DEF Restart, Restarted, PutBack, history, Off, Stay,
     world, Return, TellEnd, OwnPlaces
<1>9. CASE GuestsDone
  BY <1>9, <1>0, <1>i, <1>t, <1>e DEF GuestsDone, history, world, PutBackOrReturn,
     Return, Stay, TellEnd, OwnPlaces
<1>10. CASE PassGuest
  BY <1>10, <1>0, <1>i, <1>t, <1>e DEF PassGuest, history, world, Report, TellEnd,
     OwnPlaces
<1>11. CASE TakeGuest
  BY <1>11, <1>0, <1>i, <1>t, <1>e DEF TakeGuest, history, world, Off, MayStart,
     TellEnd, OwnPlaces
<1>12. CASE StartGuest \/ GuestNotStarted \/ GuestRises
  BY <1>12, <1>0, <1>i, <1>t, <1>e DEF StartGuest, GuestNotStarted, GuestRises, Off,
     Stay, history, world, Report, TellEnd, OwnPlaces
<1>13. CASE StartOnGuest \/ GuestCommandEnds \/ GuestProjects \/ GuestRaises \/ PutGuestBack
  BY <1>13, <1>0, <1>i, <1>t, <1>e DEF StartOnGuest, GuestCommandEnds, GuestProjects,
     GuestRaises, PutGuestBack, Off, Stay, history, Report, world, AfterGuest, TellEnd,
     OwnPlaces
<1>14. CASE (\E m \in Machines : Boots(m) \/ LateEnd(m) \/ Switch(m)) \/ RequestStop
  BY <1>14, <1>0, <1>i, <1>t, <1>e DEF Boots, LateEnd, Switch, RequestStop, Off,
     WorldOnly, history, place, world, TellEnd, OwnPlaces
<1> QED
  BY <1>1, <1>2, <1>3, <1>4, <1>5, <1>6, <1>7, <1>8, <1>9, <1>10, <1>11, <1>12, <1>13,
     <1>14 DEF Next, FleetStep, ServerStep, GuestStep

LEMMA TellLeftOutStep ==
  ASSUME IInv, Next, Telling', at # "begin"
  PROVE  TellLeftOut'
<1>1. /\ Telling /\ Machines' = Machines /\ Watched' = Watched /\ LeftOut' = LeftOut
      /\ Windowed' = Windowed /\ Guests' = Guests /\ own' = own
      /\ \A m : Turn(m)' <=> Turn(m)
  BY TellingSame
<1> SUFFICES ASSUME NEW h \in Machines, Turn(h), h \in LeftOut \ (Watched \cup Windowed)
             PROVE  h \in Elements(left') \/ \A g \in Elements(Guests[h]) \ {own} : Told(g)'
  BY <1>1 DEF TellLeftOut
<1>i. h \in Elements(left) \/ \A g \in Elements(Guests[h]) \ {own} : Told(g)
  BY <1>1 DEF IInv, Tell, TellLeftOut
<1>t. \A g : Told(g) => Told(g)'
  BY ToldStays
<1>e. /\ left # <<>> /\ h \in Elements(left) => h = Head(left) \/ h \in Elements(Tail(left))
      /\ ~IsGuest(h) /\ h # own /\ ~stopped
  BY <1>1, ElementsOf DEF IInv, Types, Turn, Telling
<1>a. CASE left' = left
  BY <1>a, <1>i, <1>t
<1>b. CASE left # <<>> /\ left' = Tail(left) /\ h # Head(left)
  BY <1>b, <1>i, <1>t, <1>e
<1>f. CASE /\ h = Head(left)
           /\ results' = results \cup SkippedAll({Head(left)} \cup (Elements(Guests[Head(left)]) \ {own}))
  BY <1>f, Tells
<1>g. \/ left' = left
      \/ left # <<>> /\ left' = Tail(left) /\ h # Head(left)
      \/ h = Head(left) /\ results' = results \cup SkippedAll({Head(left)} \cup (Elements(Guests[Head(left)]) \ {own}))
  <2>1. CASE BeginOnly
    BY <2>1, at # "begin", <1>e DEF BeginOnly, history, world, Report, MayTake
  <2>2. CASE BeginFleet
    BY <2>2, at # "begin", <1>e DEF BeginFleet, history, world, MayTake
  <2>3. CASE PassOver \/ PassWindowed \/ StopHere \/ PassLeftOut
    BY <2>3, <1>e DEF PassOver, PassWindowed, StopHere, PassLeftOut,
       history, world, HasTurn, Report, SkippedAll, MayTake
  <2>4. CASE Take
    BY <2>4, at # "begin", <1>e DEF Take, history, world, MayTake, HasTurn, MayTake
  <2>5. CASE NoneLeft \/ TakeOwn \/ OwnProjects \/ HandOff \/ OwnEnds
    BY <2>5, at # "begin", <1>e DEF NoneLeft, TakeOwn, OwnProjects, HandOff, OwnEnds,
       history, world, Stay, Report, MayTake
  <2>6. CASE SkipServer \/ Probe \/ Wake \/ NotWoken \/ Rise
    BY <2>6, at # "begin", <1>e DEF SkipServer, Probe, Wake, NotWoken, Rise, history,
       world, Off, Return, Report, Stay, MayTake
  <2>7. CASE InUse \/ Start \/ CommandEnds \/ Raise \/ UpdateProjects
    BY <2>7, at # "begin", <1>e DEF InUse, Start, CommandEnds, Raise, UpdateProjects,
       history, world, Off, Report, Stay, Fail, Return, PutBackOrReturn, MayTake
  <2>8. CASE Restart \/ Restarted \/ PutBack
    BY <2>8, at # "begin", <1>e DEF Restart, Restarted, PutBack, history, Off, Stay,
       world, Return, MayTake
  <2>9. CASE GuestsDone
    BY <2>9, at # "begin", <1>e DEF GuestsDone, history, world, PutBackOrReturn, Return,
       Stay, MayTake
  <2>10. CASE PassGuest
    BY <2>10, at # "begin", <1>e DEF PassGuest, history, world, Report, MayTake
  <2>11. CASE TakeGuest
    BY <2>11, at # "begin", <1>e DEF TakeGuest, history, world, Off, MayStart, MayTake
  <2>12. CASE StartGuest \/ GuestNotStarted \/ GuestRises
    BY <2>12, at # "begin", <1>e DEF StartGuest, GuestNotStarted, GuestRises, Off, Stay,
       history, world, Report, MayTake
  <2>13. CASE StartOnGuest \/ GuestCommandEnds \/ GuestProjects \/ GuestRaises \/ PutGuestBack
    BY <2>13, at # "begin", <1>e DEF StartOnGuest, GuestCommandEnds, GuestProjects,
       GuestRaises, PutGuestBack, Off, Stay, history, Report, world, AfterGuest, MayTake
  <2>14. CASE (\E m \in Machines : Boots(m) \/ LateEnd(m) \/ Switch(m)) \/ RequestStop
    BY <2>14, at # "begin", <1>e DEF Boots, LateEnd, Switch, RequestStop, Off,
       WorldOnly, history, place, world, MayTake
  <2> QED
    BY <2>1, <2>2, <2>3, <2>4, <2>5, <2>6, <2>7, <2>8, <2>9, <2>10, <2>11, <2>12, <2>13,
       <2>14 DEF Next, FleetStep, ServerStep, GuestStep
<1> QED
  BY <1>a, <1>b, <1>f, <1>g

\* A machine with a result that is not good is not one that was updated.
LEMMA NotUpdated ==
  ASSUME NEW m, NEW v, v # "ok", Machine(m, v) \in results'
  PROVE  ~Updated(m)'
BY DEF Updated, Machine, Result

LEMMA TellGuestsStep ==
  ASSUME IInv, Next, Telling', at # "begin"
  PROVE  TellGuests'
<1>1. /\ Telling /\ Machines' = Machines /\ Guests' = Guests /\ own' = own
      /\ \A m : Turn(m)' <=> Turn(m)
  BY TellingSame
<1> SUFFICES ASSUME NEW h \in Machines, Turn(h), Updated(h)',
                    NEW g \in Elements(Guests[h]) \ {own}
             PROVE  Told(g)' \/ InProgress(h, g)'
  BY <1>1 DEF TellGuests
<1>2. at = "gcommand" => h # guest
  BY GuestIs DEF IInv, Work, Types, Turn, GuestPlaces, GuestUp, HostPlaces, HostUp
<1>3. \A v : v # "ok" => Machine(h, v) \notin results'
  BY NotUpdated
<1>4. CASE ~Updated(h)
  <2>1. at = "command" /\ CommandEnds /\ host = h
    BY <1>2, <1>4, NewlyUpdated DEF CommandEnds, Turn
  <2>2. at' = "projects" /\ host' = host /\ guests' = guests
    BY <1>3, <2>1 DEF CommandEnds, Report, Stay
  <2>3. guests = Guests[host]
    BY <2>1 DEF IInv, Tell, TellPlaces, HostAhead
  <2> QED
    BY <2>1, <2>2, <2>3 DEF InProgress, HostPlaces, HostUp
<1>5. CASE Updated(h)
  <2>i. Told(g) \/ InProgress(h, g)
    BY <1>1, <1>5 DEF IInv, Tell, TellGuests
  <2>t. /\ Told(g) => Told(g)'
        /\ \A v : Machine(g, v) \in results' => Told(g)'
    BY ToldStays, Tells
  <2>g. at \in {"gprojects", "gputback"} => Told(guest)
    BY DEF IInv, Tell, TellPlaces
  <2>e. /\ guests # <<>> /\ g \in Elements(guests) =>
             g = Head(guests) \/ g \in Elements(Tail(guests))
        /\ guests = <<>> => g \notin Elements(guests)
        /\ g # own /\ ~stopped
    <3>1. guests = <<>> => Elements(guests) = {}
      BY DEF Elements
    <3> QED
      BY <1>1, <3>1, ElementsOf DEF IInv, Types, Telling
  <2> SUFFICES ASSUME InProgress(h, g)
               PROVE  Told(g)' \/ InProgress(h, g)'
    BY <2>i, <2>t
  <2>1. CASE BeginOnly
    BY <2>1, <1>3, <2>t, <2>e DEF BeginOnly, history, world, Report, InProgress,
       HostPlaces, HostUp, GuestPlaces, GuestUp, GuestAhead
  <2>2. CASE BeginFleet
    BY <2>2, <1>3, <2>t, <2>e DEF BeginFleet, history, world, InProgress, HostPlaces,
       HostUp, GuestPlaces, GuestUp, GuestAhead
  <2>3. CASE PassOver \/ PassWindowed \/ StopHere \/ PassLeftOut
    BY <2>3, <1>3, <2>t, <2>e DEF PassOver, PassWindowed, StopHere, PassLeftOut,
       history, world, HasTurn, Report, SkippedAll, InProgress, HostPlaces, HostUp,
       GuestPlaces, GuestUp, GuestAhead
  <2>4. CASE Take
    BY <2>4, <1>3, <2>t, <2>e DEF Take, history, world, MayTake, HasTurn, InProgress,
       HostPlaces, HostUp, GuestPlaces, GuestUp, GuestAhead
  <2>5. CASE NoneLeft \/ TakeOwn \/ OwnProjects \/ HandOff \/ OwnEnds
    BY <2>5, <1>3, <2>t, <2>e DEF NoneLeft, TakeOwn, OwnProjects, HandOff, OwnEnds,
       history, world, Stay, Report, InProgress, HostPlaces, HostUp, GuestPlaces,
       GuestUp, GuestAhead
  <2>6. CASE SkipServer \/ Probe \/ Wake \/ NotWoken \/ Rise
    BY <2>6, <1>3, <2>t, <2>e DEF SkipServer, Probe, Wake, NotWoken, Rise, history,
       world, Off, Return, Report, Stay, InProgress, HostPlaces, HostUp, GuestPlaces,
       GuestUp, GuestAhead
  <2>7. CASE InUse \/ Start \/ CommandEnds \/ Raise \/ UpdateProjects
    BY <2>7, <1>3, <2>t, <2>e DEF InUse, Start, CommandEnds, Raise, UpdateProjects,
       history, world, Off, Report, Stay, Fail, Return, PutBackOrReturn, InProgress,
       HostPlaces, HostUp, GuestPlaces, GuestUp, GuestAhead
  <2>8. CASE Restart \/ Restarted \/ PutBack
    BY <2>8, <1>3, <2>t, <2>e DEF Restart, Restarted, PutBack, history, Off, Stay,
       world, Return, InProgress, HostPlaces, HostUp, GuestPlaces, GuestUp, GuestAhead
  <2>9. CASE GuestsDone
    BY <2>9, <1>3, <2>t, <2>e DEF GuestsDone, history, world, PutBackOrReturn, Return,
       Stay, InProgress, HostPlaces, HostUp, GuestPlaces, GuestUp, GuestAhead
  <2>10. CASE PassGuest
    BY <2>10, <1>3, <2>t, <2>e DEF PassGuest, history, world, Report, InProgress,
       HostPlaces, HostUp, GuestPlaces, GuestUp, GuestAhead
  <2>11. CASE TakeGuest
    BY <2>11, <1>3, <2>t, <2>e DEF TakeGuest, history, world, Off, MayStart, InProgress,
       HostPlaces, HostUp, GuestPlaces, GuestUp, GuestAhead
  <2>12. CASE StartGuest \/ GuestNotStarted \/ GuestRises
    BY <2>12, <1>3, <2>t, <2>e DEF StartGuest, GuestNotStarted, GuestRises, Off, Stay,
       history, world, Report, InProgress, HostPlaces, HostUp, GuestPlaces, GuestUp,
       GuestAhead
  <2>13. CASE StartOnGuest \/ GuestCommandEnds \/ GuestProjects \/ GuestRaises \/ PutGuestBack
    BY <2>13, <1>3, <2>t, <2>e DEF StartOnGuest, GuestCommandEnds, GuestProjects,
       GuestRaises, PutGuestBack, Off, Stay, history, Report, world, AfterGuest,
       InProgress, HostPlaces, HostUp, GuestPlaces, GuestUp, GuestAhead
  <2>14. CASE (\E m \in Machines : Boots(m) \/ LateEnd(m) \/ Switch(m)) \/ RequestStop
    BY <2>14, <1>3, <2>t, <2>e DEF Boots, LateEnd, Switch, RequestStop, Off, WorldOnly,
       history, place, world, InProgress, HostPlaces, HostUp, GuestPlaces, GuestUp,
       GuestAhead
  <2> QED
    BY <2>1, <2>2, <2>3, <2>4, <2>5, <2>6, <2>7, <2>8, <2>9, <2>10, <2>11, <2>12, <2>13,
       <2>14 DEF Next, FleetStep, ServerStep, GuestStep
<1> QED
  BY <1>4, <1>5

LEMMA TellStep ==
  ASSUME IInv, Next
  PROVE  Tell'
BY TellPlacesStep, FleetBegins, TellServersStep, TellLeftOutStep, TellGuestsStep,
   TellEndStep DEF Tell

LEMMA WorkStep ==
  ASSUME IInv, Next
  PROVE  Work'
<1>c. /\ UNCHANGED <<cfg, only>>
      /\ Guests' = Guests /\ Own' = Own /\ Machines' = Machines
      /\ LeftOut' = LeftOut /\ Windowed' = Windowed /\ NoCommand' = NoCommand
      /\ \A m : IsGuest(m)' <=> IsGuest(m)
      /\ \A m : Member(m)' <=> Member(m)
  BY StepSame, SameFleet
<1>w. Work
  BY DEF IInv
<1>t. /\ left \in Seq(Machines) /\ guests \in Seq(Machines)
      /\ None \notin Machines /\ Windowed \subseteq Machines
  BY Fleet DEF IInv, Types
<1>e. /\ left # <<>> => Head(left) \in Machines
      /\ guests # <<>> => /\ Head(guests) \in Elements(guests)
                          /\ Elements(Tail(guests)) \subseteq Elements(guests)
  BY <1>t, ElementsIs
<1>1. CASE BeginOnly
  BY <1>1, <1>c, <1>w, <1>t
  DEF BeginOnly, history, world, Report, Work, HostPlaces, HostUp, GuestPlaces, GuestUp,
     OwnPlaces
<1>2. CASE BeginFleet
  BY <1>2, <1>c, <1>w
  DEF BeginFleet, history, world, Work, HostPlaces, HostUp, GuestPlaces, GuestUp, OwnPlaces
<1>3. CASE PassOver \/ PassWindowed \/ StopHere \/ PassLeftOut
  BY <1>3, <1>c, <1>w
  DEF PassOver, PassWindowed, StopHere, PassLeftOut, history, world, HasTurn, Report,
     SkippedAll, Work, HostPlaces, HostUp, GuestPlaces, GuestUp, OwnPlaces
<1>4. CASE Take
  <2>1. /\ at = "next" /\ left # <<>> /\ ~IsGuest(Head(left)) /\ Head(left) # own
        /\ Head(left) \notin Windowed \cup LeftOut
        /\ at' = "server" /\ host' = Head(left) /\ guests' = Guests[Head(left)]
        /\ UNCHANGED <<own, touched>>
    BY <1>4 DEF Take, HasTurn, MayTake, history
  <2>2. only = None
    BY <1>w, <2>1 DEF Work
  <2> QED
    BY <1>c, <1>w, <1>e, <2>1, <2>2
    DEF Work, HostPlaces, HostUp, GuestPlaces, GuestUp, OwnPlaces
<1>5. CASE NoneLeft \/ TakeOwn \/ OwnProjects \/ HandOff \/ OwnEnds
  BY <1>5, <1>c, <1>w
  DEF NoneLeft, TakeOwn, OwnProjects, HandOff, OwnEnds, history, world, Stay, Report, Work,
     HostPlaces, HostUp, GuestPlaces, GuestUp, OwnPlaces
<1>6. CASE SkipServer \/ Probe \/ Wake \/ NotWoken \/ Rise
  BY <1>6, <1>c, <1>w
  DEF SkipServer, Probe, Wake, NotWoken, Rise, history, world, Off, Return, Report, Stay,
     Work, HostPlaces, HostUp, GuestPlaces, GuestUp, OwnPlaces
<1>7. CASE InUse \/ Start \/ CommandEnds \/ Raise \/ UpdateProjects
  BY <1>7, <1>c, <1>w
  DEF InUse, Start, CommandEnds, Raise, UpdateProjects, history, world, Off, Report, Stay,
     Fail, Return, PutBackOrReturn, Work, HostPlaces, HostUp, GuestPlaces, GuestUp,
     OwnPlaces
<1>8. CASE Restart \/ Restarted \/ PutBack
  BY <1>8, <1>c, <1>w
  DEF Restart, Restarted, PutBack, history, Off, Stay, world, Return, Work, HostPlaces,
     HostUp, GuestPlaces, GuestUp, OwnPlaces
<1>9. CASE GuestsDone
  BY <1>9, <1>c, <1>w
  DEF GuestsDone, history, world, PutBackOrReturn, Return, Stay, Work, HostPlaces, HostUp,
     GuestPlaces, GuestUp, OwnPlaces
<1>10. CASE PassGuest
  BY <1>10, <1>c, <1>w, <1>e
  DEF PassGuest, history, world, Report, Work, HostPlaces, HostUp, GuestPlaces, GuestUp,
     OwnPlaces
<1>11. CASE TakeGuest
  <2>1. /\ at = "guests" /\ guests # <<>> /\ guest' = Head(guests) /\ guests' = Tail(guests)
        /\ Head(guests) # own /\ Head(guests) \notin LeftOut \cup NoCommand
        /\ at' \in {"gstart", "gconnect"}
        /\ UNCHANGED <<own, host, left, touched>>
    BY <1>11 DEF TakeGuest, MayStart, history
  <2>2. /\ Head(guests) \in Elements(Guests[host])
        /\ Elements(Tail(guests)) \subseteq Elements(Guests[host])
    BY <1>w, <1>e, <2>1 DEF Work, HostPlaces, HostUp
  <2>3. Member(Head(guests))
    BY <2>1 DEF Member
  <2> QED
    BY <1>c, <1>w, <2>1, <2>2, <2>3
    DEF Work, HostPlaces, HostUp, GuestPlaces, GuestUp, OwnPlaces
<1>12. CASE StartGuest \/ GuestNotStarted \/ GuestRises
  BY <1>12, <1>c, <1>w
  DEF StartGuest, GuestNotStarted, GuestRises, Off, Stay, history, world, Report, Work,
     HostPlaces, HostUp, GuestPlaces, GuestUp, OwnPlaces
<1>13. CASE StartOnGuest \/ GuestCommandEnds \/ GuestProjects \/ GuestRaises \/ PutGuestBack
  BY <1>13, <1>c, <1>w
  DEF StartOnGuest, GuestCommandEnds, GuestProjects, GuestRaises, PutGuestBack, Off, Stay,
     history, Report, world, AfterGuest, Work, HostPlaces, HostUp, GuestPlaces, GuestUp,
     OwnPlaces
<1>14. CASE (\E m \in Machines : Boots(m) \/ LateEnd(m) \/ Switch(m)) \/ RequestStop
  BY <1>14, <1>c, <1>w
  DEF Boots, LateEnd, Switch, RequestStop, Off, WorldOnly, history, place, world, Work,
     HostPlaces, HostUp, GuestPlaces, GuestUp, OwnPlaces
<1> QED
  BY <1>1, <1>2, <1>3, <1>4, <1>5, <1>6, <1>7, <1>8, <1>9, <1>10, <1>11, <1>12, <1>13,
     <1>14
  DEF Next, FleetStep, ServerStep, GuestStep

LEMMA TouchStep ==
  ASSUME IInv, Next
  PROVE  Touch'
<1>c. UNCHANGED <<cfg, only>>
  BY StepSame
<1>t. Touch
  BY DEF IInv
<1>i. UNCHANGED own => \A m : InRun(m)' <=> InRun(m)
  BY <1>c, SameFleet DEF InRun
<1>h. at \in HostPlaces \ {"server"} => InRun(host) /\ host # own
  BY Fleet DEF IInv, Types, Work, InRun, Member
<1>g. at \in GuestPlaces => InRun(guest) /\ guest # own
  <2> SUFFICES ASSUME at \in GuestPlaces
               PROVE  InRun(guest) /\ guest # own
    OBVIOUS
  <2>1. /\ guest \in Elements(Guests[host]) /\ Member(guest) /\ guest # own
        /\ host \in Machines /\ Member(host)
        /\ IF only = None THEN host \notin Windowed ELSE host = only
    BY DEF IInv, Work, GuestPlaces, GuestUp, HostPlaces, HostUp, Member
  <2>2. IsGuest(guest) /\ host \in Hypervisors(guest)
    BY <2>1, GuestIs DEF IInv, Types
  <2> QED
    BY <2>1, <2>2 DEF InRun
<1>o. at = "handoff" => InRun(own) /\ left = <<>>
  BY DEF IInv, Work, OwnPlaces, InRun, Member
<1>b. at = "begin" => touched = {} /\ own = None
  BY DEF IInv, Work
<1>1. CASE BeginOnly
  BY <1>1, <1>t, <1>i, <1>h, <1>g, <1>o, <1>b
  DEF BeginOnly, history, world, Report, Touch, HostPlaces, HostUp, GuestPlaces, GuestUp,
     OwnPlaces
<1>2. CASE BeginFleet
  BY <1>2, <1>t, <1>i, <1>h, <1>g, <1>o, <1>b
  DEF BeginFleet, history, world, Touch, HostPlaces, HostUp, GuestPlaces, GuestUp, OwnPlaces
<1>3. CASE PassOver \/ PassWindowed \/ StopHere \/ PassLeftOut
  BY <1>3, <1>t, <1>i, <1>h, <1>g, <1>o
  DEF PassOver, PassWindowed, StopHere, PassLeftOut, history, world, HasTurn, Report,
     SkippedAll, Touch, HostPlaces, HostUp, GuestPlaces, GuestUp, OwnPlaces
<1>4. CASE Take
  BY <1>4, <1>t, <1>i, <1>h, <1>g, <1>o
  DEF Take, history, world, MayTake, HasTurn, Touch, HostPlaces, HostUp, GuestPlaces,
     GuestUp, OwnPlaces
<1>5. CASE NoneLeft \/ TakeOwn \/ OwnProjects \/ HandOff \/ OwnEnds
  BY <1>5, <1>t, <1>i, <1>h, <1>g, <1>o
  DEF NoneLeft, TakeOwn, OwnProjects, HandOff, OwnEnds, history, world, Stay, Report, Touch,
     HostPlaces, HostUp, GuestPlaces, GuestUp, OwnPlaces
<1>6. CASE SkipServer \/ Probe \/ Wake \/ NotWoken \/ Rise
  BY <1>6, <1>t, <1>i, <1>h, <1>g, <1>o
  DEF SkipServer, Probe, Wake, NotWoken, Rise, history, world, Off, Return, Report, Stay,
     Touch, HostPlaces, HostUp, GuestPlaces, GuestUp, OwnPlaces
<1>7. CASE InUse \/ Start \/ CommandEnds \/ Raise \/ UpdateProjects
  BY <1>7, <1>t, <1>i, <1>h, <1>g, <1>o
  DEF InUse, Start, CommandEnds, Raise, UpdateProjects, history, world, Off, Report, Stay,
     Fail, Return, PutBackOrReturn, Touch, HostPlaces, HostUp, GuestPlaces, GuestUp,
     OwnPlaces
<1>8. CASE Restart \/ Restarted \/ PutBack
  BY <1>8, <1>t, <1>i, <1>h, <1>g, <1>o
  DEF Restart, Restarted, PutBack, history, Off, Stay, world, Return, Touch, HostPlaces,
     HostUp, GuestPlaces, GuestUp, OwnPlaces
<1>9. CASE GuestsDone
  BY <1>9, <1>t, <1>i, <1>h, <1>g, <1>o
  DEF GuestsDone, history, world, PutBackOrReturn, Return, Stay, Touch, HostPlaces, HostUp,
     GuestPlaces, GuestUp, OwnPlaces
<1>10. CASE PassGuest
  BY <1>10, <1>t, <1>i, <1>h, <1>g, <1>o
  DEF PassGuest, history, world, Report, Touch, HostPlaces, HostUp, GuestPlaces, GuestUp,
     OwnPlaces
<1>11. CASE TakeGuest
  BY <1>11, <1>t, <1>i, <1>h, <1>g, <1>o
  DEF TakeGuest, history, world, Off, MayStart, Touch, HostPlaces, HostUp, GuestPlaces,
     GuestUp, OwnPlaces
<1>12. CASE StartGuest \/ GuestNotStarted \/ GuestRises
  BY <1>12, <1>t, <1>i, <1>h, <1>g, <1>o
  DEF StartGuest, GuestNotStarted, GuestRises, Off, Stay, history, world, Report, Touch,
     HostPlaces, HostUp, GuestPlaces, GuestUp, OwnPlaces
<1>13. CASE StartOnGuest \/ GuestCommandEnds \/ GuestProjects \/ GuestRaises \/ PutGuestBack
  BY <1>13, <1>t, <1>i, <1>h, <1>g, <1>o
  DEF StartOnGuest, GuestCommandEnds, GuestProjects, GuestRaises, PutGuestBack, Off, Stay,
     history, Report, world, AfterGuest, Touch, HostPlaces, HostUp, GuestPlaces, GuestUp,
     OwnPlaces
<1>14. CASE (\E m \in Machines : Boots(m) \/ LateEnd(m) \/ Switch(m)) \/ RequestStop
  BY <1>14, <1>t, <1>i, <1>h, <1>g, <1>o
  DEF Boots, LateEnd, Switch, RequestStop, Off, WorldOnly, history, place, world, Touch,
     HostPlaces, HostUp, GuestPlaces, GuestUp, OwnPlaces
<1> QED
  BY <1>1, <1>2, <1>3, <1>4, <1>5, <1>6, <1>7, <1>8, <1>9, <1>10, <1>11, <1>12, <1>13,
     <1>14
  DEF Next, FleetStep, ServerStep, GuestStep

LEMMA UndoStep ==
  ASSUME IInv, Next
  PROVE  Undo'
<1>d. Undo
  BY DEF IInv
<1>1. CASE BeginOnly
  BY <1>1, <1>d
  DEF BeginOnly, history, world, Report, Undo, HostPlaces, HostUp, GuestPlaces, GuestUp,
     OwnPlaces
<1>2. CASE BeginFleet
  BY <1>2, <1>d
  DEF BeginFleet, history, world, Undo, HostPlaces, HostUp, GuestPlaces, GuestUp, OwnPlaces
<1>3. CASE PassOver \/ PassWindowed \/ StopHere \/ PassLeftOut
  BY <1>3, <1>d
  DEF PassOver, PassWindowed, StopHere, PassLeftOut, history, world, HasTurn, Report,
     SkippedAll, Undo, HostPlaces, HostUp, GuestPlaces, GuestUp, OwnPlaces
<1>4. CASE Take
  BY <1>4, <1>d
  DEF Take, history, world, MayTake, HasTurn, Undo, HostPlaces, HostUp, GuestPlaces,
     GuestUp, OwnPlaces
<1>5. CASE NoneLeft \/ TakeOwn \/ OwnProjects \/ HandOff \/ OwnEnds
  BY <1>5, <1>d
  DEF NoneLeft, TakeOwn, OwnProjects, HandOff, OwnEnds, history, world, Stay, Report, Undo,
     HostPlaces, HostUp, GuestPlaces, GuestUp, OwnPlaces
<1>6. CASE SkipServer \/ Probe \/ Wake \/ NotWoken \/ Rise
  BY <1>6, <1>d
  DEF SkipServer, Probe, Wake, NotWoken, Rise, history, world, Off, Return, Report, Stay,
     Undo, HostPlaces, HostUp, GuestPlaces, GuestUp, OwnPlaces
<1>7. CASE InUse \/ Start \/ CommandEnds \/ Raise \/ UpdateProjects
  BY <1>7, <1>d
  DEF InUse, Start, CommandEnds, Raise, UpdateProjects, history, world, Off, Report, Stay,
     Fail, Return, PutBackOrReturn, Undo, HostPlaces, HostUp, GuestPlaces, GuestUp,
     OwnPlaces
<1>8. CASE Restart \/ Restarted \/ PutBack
  BY <1>8, <1>d
  DEF Restart, Restarted, PutBack, history, Off, Stay, world, Return, Undo, HostPlaces,
     HostUp, GuestPlaces, GuestUp, OwnPlaces
<1>9. CASE GuestsDone
  BY <1>9, <1>d
  DEF GuestsDone, history, world, PutBackOrReturn, Return, Stay, Undo, HostPlaces, HostUp,
     GuestPlaces, GuestUp, OwnPlaces
<1>10. CASE PassGuest
  BY <1>10, <1>d
  DEF PassGuest, history, world, Report, Undo, HostPlaces, HostUp, GuestPlaces, GuestUp,
     OwnPlaces
<1>11. CASE TakeGuest
  BY <1>11, <1>d
  DEF TakeGuest, history, world, Off, MayStart, Undo, HostPlaces, HostUp, GuestPlaces,
     GuestUp, OwnPlaces
<1>12. CASE StartGuest \/ GuestNotStarted \/ GuestRises
  BY <1>12, <1>d
  DEF StartGuest, GuestNotStarted, GuestRises, Off, Stay, history, world, Report, Undo,
     HostPlaces, HostUp, GuestPlaces, GuestUp, OwnPlaces
<1>13. CASE StartOnGuest \/ GuestCommandEnds \/ GuestProjects \/ GuestRaises \/ PutGuestBack
  BY <1>13, <1>d
  DEF StartOnGuest, GuestCommandEnds, GuestProjects, GuestRaises, PutGuestBack, Off, Stay,
     history, Report, world, AfterGuest, Undo, HostPlaces, HostUp, GuestPlaces, GuestUp,
     OwnPlaces
<1>14. CASE (\E m \in Machines : Boots(m) \/ LateEnd(m) \/ Switch(m)) \/ RequestStop
  BY <1>14, <1>d
  DEF Boots, LateEnd, Switch, RequestStop, Off, WorldOnly, history, place, world, Undo,
     HostPlaces, HostUp, GuestPlaces, GuestUp, OwnPlaces
<1> QED
  BY <1>1, <1>2, <1>3, <1>4, <1>5, <1>6, <1>7, <1>8, <1>9, <1>10, <1>11, <1>12, <1>13,
     <1>14
  DEF Next, FleetStep, ServerStep, GuestStep

LEMMA ResultsStep ==
  ASSUME IInv, Next
  PROVE  Results'
<1>c. UNCHANGED <<cfg, only>> /\ Machines' = Machines /\ ResultType' = ResultType
  BY StepSame, SameFleet
<1>t. cfg \in Configs /\ left \in Seq(Machines) /\ guests \in Seq(Machines) /\ Results
  BY DEF IInv, Types
<1>e. /\ left # <<>> => Head(left) \in Machines /\ Elements(Guests[Head(left)]) \subseteq Machines
      /\ guests # <<>> => Head(guests) \in Machines
  BY <1>t, ElementsIs, Fleet
<1>w. /\ only # None => only \in Machines
      /\ at \in HostPlaces => host \in Machines
      /\ at \in GuestPlaces => guest \in Machines
      /\ at \in OwnPlaces => own \in Machines
      /\ own # None => own \in Machines
  <2>1. at \in GuestPlaces => at \in HostPlaces
    BY DEF GuestPlaces, GuestUp, HostPlaces, HostUp
  <2> QED
    BY <1>t, <2>1, GuestIs, Fleet DEF IInv, Types, Work
<1>r. \A m \in Machines, v \in {"ok", "failed", "skipped"} : Machine(m, v) \in ResultType
  BY ResultIs DEF Verdicts
<1>1. CASE BeginOnly
  BY <1>1, <1>c, <1>t, <1>e, <1>w, <1>r, ResultIs
  DEF BeginOnly, history, world, Report, Results, Verdicts, SkippedAll, HostPlaces, HostUp,
     GuestPlaces, GuestUp, OwnPlaces
<1>2. CASE BeginFleet
  BY <1>2, <1>c, <1>t, <1>e, <1>w, <1>r, ResultIs
  DEF BeginFleet, history, world, Results, Verdicts, Report, SkippedAll, HostPlaces, HostUp,
     GuestPlaces, GuestUp, OwnPlaces
<1>3. CASE PassOver \/ PassWindowed \/ StopHere \/ PassLeftOut
  BY <1>3, <1>c, <1>t, <1>e, <1>w, <1>r, ResultIs
  DEF PassOver, PassWindowed, StopHere, PassLeftOut, history, world, HasTurn, Report,
     SkippedAll, Results, Verdicts, HostPlaces, HostUp, GuestPlaces, GuestUp, OwnPlaces
<1>4. CASE Take
  BY <1>4, <1>c, <1>t, <1>e, <1>w, <1>r, ResultIs
  DEF Take, history, world, MayTake, HasTurn, Results, Verdicts, Report, SkippedAll,
     HostPlaces, HostUp, GuestPlaces, GuestUp, OwnPlaces
<1>5. CASE NoneLeft \/ TakeOwn \/ OwnProjects \/ HandOff \/ OwnEnds
  BY <1>5, <1>c, <1>t, <1>e, <1>w, <1>r, ResultIs
  DEF NoneLeft, TakeOwn, OwnProjects, HandOff, OwnEnds, history, world, Stay, Report,
     Results, Verdicts, SkippedAll, HostPlaces, HostUp, GuestPlaces, GuestUp, OwnPlaces
<1>6. CASE SkipServer \/ Probe \/ Wake \/ NotWoken \/ Rise
  BY <1>6, <1>c, <1>t, <1>e, <1>w, <1>r, ResultIs
  DEF SkipServer, Probe, Wake, NotWoken, Rise, history, world, Off, Return, Report, Stay,
     Results, Verdicts, SkippedAll, HostPlaces, HostUp, GuestPlaces, GuestUp, OwnPlaces
<1>7. CASE InUse \/ Start \/ CommandEnds \/ Raise \/ UpdateProjects
  BY <1>7, <1>c, <1>t, <1>e, <1>w, <1>r, ResultIs
  DEF InUse, Start, CommandEnds, Raise, UpdateProjects, history, world, Off, Report, Stay,
     Fail, Return, PutBackOrReturn, Results, Verdicts, SkippedAll, HostPlaces, HostUp,
     GuestPlaces, GuestUp, OwnPlaces
<1>8. CASE Restart \/ Restarted \/ PutBack
  BY <1>8, <1>c, <1>t, <1>e, <1>w, <1>r, ResultIs
  DEF Restart, Restarted, PutBack, history, Off, Stay, world, Return, Results, Verdicts,
     Report, SkippedAll, HostPlaces, HostUp, GuestPlaces, GuestUp, OwnPlaces
<1>9. CASE GuestsDone
  BY <1>9, <1>c, <1>t, <1>e, <1>w, <1>r, ResultIs
  DEF GuestsDone, history, world, PutBackOrReturn, Return, Stay, Results, Verdicts, Report,
     SkippedAll, HostPlaces, HostUp, GuestPlaces, GuestUp, OwnPlaces
<1>10. CASE PassGuest
  BY <1>10, <1>c, <1>t, <1>e, <1>w, <1>r, ResultIs
  DEF PassGuest, history, world, Report, Results, Verdicts, SkippedAll, HostPlaces, HostUp,
     GuestPlaces, GuestUp, OwnPlaces
<1>11. CASE TakeGuest
  BY <1>11, <1>c, <1>t, <1>e, <1>w, <1>r, ResultIs
  DEF TakeGuest, history, world, Off, MayStart, Results, Verdicts, Report, SkippedAll,
     HostPlaces, HostUp, GuestPlaces, GuestUp, OwnPlaces
<1>12. CASE StartGuest \/ GuestNotStarted \/ GuestRises
  BY <1>12, <1>c, <1>t, <1>e, <1>w, <1>r, ResultIs
  DEF StartGuest, GuestNotStarted, GuestRises, Off, Stay, history, world, Report, Results,
     Verdicts, SkippedAll, HostPlaces, HostUp, GuestPlaces, GuestUp, OwnPlaces
<1>13. CASE StartOnGuest \/ GuestCommandEnds \/ GuestProjects \/ GuestRaises \/ PutGuestBack
  BY <1>13, <1>c, <1>t, <1>e, <1>w, <1>r, ResultIs
  DEF StartOnGuest, GuestCommandEnds, GuestProjects, GuestRaises, PutGuestBack, Off, Stay,
     history, Report, world, AfterGuest, Results, Verdicts, SkippedAll, HostPlaces, HostUp,
     GuestPlaces, GuestUp, OwnPlaces
<1>14. CASE (\E m \in Machines : Boots(m) \/ LateEnd(m) \/ Switch(m)) \/ RequestStop
  BY <1>14, <1>c, <1>t, <1>e, <1>w, <1>r, ResultIs
  DEF Boots, LateEnd, Switch, RequestStop, Off, WorldOnly, history, place, world, Results,
     Verdicts, Report, SkippedAll, HostPlaces, HostUp, GuestPlaces, GuestUp, OwnPlaces
<1> QED
  BY <1>1, <1>2, <1>3, <1>4, <1>5, <1>6, <1>7, <1>8, <1>9, <1>10, <1>11, <1>12, <1>13,
     <1>14
  DEF Next, FleetStep, ServerStep, GuestStep

LEMMA TypesStep ==
  ASSUME IInv, Next
  PROVE  Types'
<1>c. UNCHANGED <<cfg, only>> /\ Machines' = Machines
  BY StepSame, SameFleet
<1>t. Types
  BY DEF IInv
<1>e. /\ left # <<>> => Head(left) \in Machines /\ Tail(left) \in Seq(Machines)
                         /\ Guests[Head(left)] \in Seq(Machines)
      /\ guests # <<>> => Head(guests) \in Machines /\ Tail(guests) \in Seq(Machines)
      /\ only # None => Guests[only] \in Seq(Machines)
      /\ Order \in Seq(Machines) /\ Own \in Machines \cup {None}
      /\ <<>> \in Seq(Machines) /\ None \notin Machines
  BY <1>t, ElementsIs, Fleet DEF Types
<1>w. /\ at \in HostPlaces => host \in Machines
      /\ at \in GuestPlaces => guest \in Machines
      /\ at = "handoff" => own \in Machines
  <2>1. at \in GuestPlaces => at \in HostPlaces
    BY DEF GuestPlaces, GuestUp, HostPlaces, HostUp
  <2> QED
    BY <1>t, <2>1, GuestIs, Fleet DEF IInv, Types, Work, OwnPlaces
<1>1. CASE BeginOnly
  BY <1>1, <1>c, <1>t, <1>e, <1>w
  DEF BeginOnly, history, world, Report, Types, Places, HostPlaces, HostUp, GuestPlaces,
     GuestUp, OwnPlaces
<1>2. CASE BeginFleet
  BY <1>2, <1>c, <1>t, <1>e, <1>w
  DEF BeginFleet, history, world, Types, Places, HostPlaces, HostUp, GuestPlaces, GuestUp,
     OwnPlaces
<1>3. CASE PassOver \/ PassWindowed \/ PassLeftOut
  BY <1>3, <1>c, <1>t, <1>e, <1>w
  DEF PassOver, PassWindowed, PassLeftOut, history, world, HasTurn, Report, SkippedAll,
     Types, Places, HostPlaces, HostUp, GuestPlaces, GuestUp, OwnPlaces
<1>4. CASE StopHere
  BY <1>4, <1>c, <1>t, <1>e, <1>w
  DEF StopHere, history, world, HasTurn, Types, Places, HostPlaces, HostUp, GuestPlaces,
     GuestUp, OwnPlaces
<1>5. CASE Take
  BY <1>5, <1>c, <1>t, <1>e, <1>w
  DEF Take, history, world, MayTake, HasTurn, Types, Places, HostPlaces, HostUp,
     GuestPlaces, GuestUp, OwnPlaces
<1>6. CASE NoneLeft \/ TakeOwn \/ OwnProjects \/ HandOff \/ OwnEnds
  BY <1>6, <1>c, <1>t, <1>e, <1>w
  DEF Off, NoneLeft, TakeOwn, OwnProjects, HandOff, OwnEnds, history, world, Stay, Report, Types,
     Places, HostPlaces, HostUp, GuestPlaces, GuestUp, OwnPlaces
<1>7. CASE SkipServer \/ Probe \/ Wake \/ NotWoken \/ Rise
  BY <1>7, <1>c, <1>t, <1>e, <1>w
  DEF SkipServer, Probe, Wake, NotWoken, Rise, history, world, Off, Return, Report, Stay,
     Types, Places, HostPlaces, HostUp, GuestPlaces, GuestUp, OwnPlaces
<1>8. CASE InUse \/ Start \/ CommandEnds \/ Raise \/ UpdateProjects
  BY <1>8, <1>c, <1>t, <1>e, <1>w
  DEF InUse, Start, CommandEnds, Raise, UpdateProjects, history, world, Off, Report, Stay,
     Fail, Return, PutBackOrReturn, Types, Places, HostPlaces, HostUp, GuestPlaces, GuestUp,
     OwnPlaces
<1>9. CASE Restart \/ Restarted \/ PutBack
  BY <1>9, <1>c, <1>t, <1>e, <1>w
  DEF Restart, Restarted, PutBack, history, Off, Stay, world, Return, Types, Places,
     HostPlaces, HostUp, GuestPlaces, GuestUp, OwnPlaces
<1>10. CASE GuestsDone
  BY <1>10, <1>c, <1>t, <1>e, <1>w
  DEF GuestsDone, history, world, PutBackOrReturn, Return, Stay, Types, Places, HostPlaces,
     HostUp, GuestPlaces, GuestUp, OwnPlaces
<1>11. CASE PassGuest
  BY <1>11, <1>c, <1>t, <1>e, <1>w
  DEF PassGuest, history, world, Report, Types, Places, HostPlaces, HostUp, GuestPlaces,
     GuestUp, OwnPlaces
<1>12. CASE TakeGuest
  BY <1>12, <1>c, <1>t, <1>e, <1>w
  DEF TakeGuest, history, world, Off, MayStart, Types, Places, HostPlaces, HostUp,
     GuestPlaces, GuestUp, OwnPlaces
<1>13. CASE StartGuest \/ GuestNotStarted \/ GuestRises
  BY <1>13, <1>c, <1>t, <1>e, <1>w
  DEF StartGuest, GuestNotStarted, GuestRises, Off, Stay, history, world, Report, Types,
     Places, HostPlaces, HostUp, GuestPlaces, GuestUp, OwnPlaces
<1>14. CASE StartOnGuest \/ GuestCommandEnds \/ GuestProjects \/ GuestRaises \/ PutGuestBack
  BY <1>14, <1>c, <1>t, <1>e, <1>w
  DEF StartOnGuest, GuestCommandEnds, GuestProjects, GuestRaises, PutGuestBack, Off, Stay,
     history, Report, world, AfterGuest, Types, Places, HostPlaces, HostUp, GuestPlaces,
     GuestUp, OwnPlaces
<1>15. CASE (\E m \in Machines : Boots(m) \/ LateEnd(m) \/ Switch(m)) \/ RequestStop
  <2>1. UNCHANGED <<only, own, place>> /\ stopped' \in BOOLEAN
    BY <1>15, <1>t DEF Boots, LateEnd, Switch, RequestStop, WorldOnly, Types
  <2>2. /\ power' \in [Machines -> {"off", "booting", "on"}]
        /\ updating' \subseteq Machines /\ \A m \in updating' : power'[m] = "on"
    <3>1. ASSUME NEW m \in Machines, Boots(m)
          PROVE  <2>2!:
      BY <3>1, <1>t DEF Boots, Types
    <3>2. ASSUME NEW m \in Machines, LateEnd(m)
          PROVE  <2>2!:
      BY <3>2, <1>t DEF LateEnd, Types
    <3>3. ASSUME NEW m \in Machines, Switch(m)
          PROVE  <2>2!:
      BY <3>3, <1>t DEF Switch, Types
    <3>4. CASE RequestStop
      BY <3>4, <1>t DEF RequestStop, world, Types
    <3> QED
      BY <1>15, <3>1, <3>2, <3>3, <3>4
  <2> QED
    BY <1>c, <1>t, <2>1, <2>2 DEF Types, place
<1> QED
  BY <1>1, <1>2, <1>3, <1>4, <1>5, <1>6, <1>7, <1>8, <1>9, <1>10, <1>11, <1>12, <1>13,
     <1>14, <1>15 DEF Next, FleetStep, ServerStep, GuestStep

LEMMA Beginning ==
  ASSUME Init
  PROVE  IInv
<1>1. /\ cfg \in Configs /\ power \in [Machines -> {"off", "on"}]
      /\ at = "begin" /\ left = <<>> /\ guests = <<>> /\ host = None /\ guest = None
      /\ own = None /\ only \in {None} \cup {m \in Windowed : ~IsGuest(m) /\ m \notin LeftOut}
  BY DEF Init
<1>2. Types
  <2>1. power \in [Machines -> {"off", "booting", "on"}]
    BY <1>1
  <2>2. /\ updating = {} /\ stopped = FALSE /\ hostOff = FALSE /\ guestOff = FALSE
        /\ <<>> \in Seq(Machines)
    BY DEF Init
  <2>3. only \in Machines \cup {None}
    BY <1>1, Fleet
  <2> QED
    BY <1>1, <2>1, <2>2, <2>3 DEF Types, Places
<1>3. Results
  BY DEF Init, Results
<1>4. Work
  <2>1. touched = {} /\ at \notin HostPlaces \cup GuestPlaces \cup OwnPlaces
    BY <1>1 DEF Init, HostPlaces, HostUp, GuestPlaces, GuestUp, OwnPlaces
  <2> QED
    BY <1>1, <2>1 DEF Work
<1>5. Touch /\ Undo
  BY <1>1 DEF Init, Touch, Undo, HostUp, GuestPlaces, GuestUp
<1>6. Tell
  BY <1>1 DEF Init, Tell, TellPlaces, Telling, HostAhead
<1> QED
  BY <1>2, <1>3, <1>4, <1>5, <1>6 DEF IInv

LEMMA StutterStep ==
  ASSUME IInv, UNCHANGED vars
  PROVE  IInv'
<1>1. /\ UNCHANGED <<power, updating, switches, cfg, only, own, stopped, at, left, host, guests>>
      /\ UNCHANGED <<guest, hostOff, guestOff, results, woken, reached, putBack, touched>>
  BY DEF vars, world, place, history
<1>2. Types' /\ Results'
  BY <1>1, SameFleet DEF IInv, Types, Results
<1>3. Work'
  BY <1>1, SameFleet DEF IInv, Work
<1>4. Touch' /\ Undo'
  <2>1. \A m : InRun(m)' <=> InRun(m)
    BY <1>1, SameFleet DEF InRun
  <2> QED
    BY <1>1, <2>1 DEF IInv, Touch, Undo
<1>5. Tell'
  <2>1. /\ Machines' = Machines /\ Guests' = Guests /\ Watched' = Watched
        /\ LeftOut' = LeftOut /\ Windowed' = Windowed
        /\ \A m : IsGuest(m)' <=> IsGuest(m)
    BY <1>1, SameFleet
  <2>2. \A m : (Told(m)' <=> Told(m)) /\ (Updated(m)' <=> Updated(m))
    BY <1>1 DEF Told, Updated
  <2>3. \A m : Turn(m)' <=> Turn(m)
    BY <1>1, <2>1 DEF Turn
  <2>4. \A h, g : InProgress(h, g)' <=> InProgress(h, g)
    BY <1>1 DEF InProgress
  <2>5. TellPlaces' <=> TellPlaces
    BY <1>1, <2>1, <2>2 DEF TellPlaces
  <2>6. TellServers' <=> TellServers
    BY <1>1, <2>1, <2>2, <2>3 DEF TellServers
  <2>7. TellLeftOut' <=> TellLeftOut
    BY <1>1, <2>1, <2>2, <2>3 DEF TellLeftOut
  <2>8. TellGuests' <=> TellGuests
    BY <1>1, <2>1, <2>2, <2>3, <2>4 DEF TellGuests
  <2>9. (TellEnd' <=> TellEnd) /\ (Telling' <=> Telling)
    BY <1>1, <2>2 DEF TellEnd, Telling
  <2> QED
    BY <2>5, <2>6, <2>7, <2>8, <2>9 DEF IInv, Tell
<1> QED
  BY <1>2, <1>3, <1>4, <1>5 DEF IInv

LEMMA Invariant == Spec => []IInv
<1>1. IInv /\ [Next]_vars => IInv'
  BY WorkStep, TouchStep, UndoStep, ResultsStep, TypesStep, TellStep, StutterStep DEF IInv
<1>2. Init => IInv
  BY Beginning
<1> QED
  BY <1>1, <1>2, PTL DEF Spec

-----------------------------------------------------------------------------
\* Whatever fails on the way, what came up for the run is asked to go down before
\* the run goes on, and no other machine is (updater.py: was_running,
\* _shutdown_woken).
THEOREM RunLeavesNothingAwake == Spec => []PutsBackItsOwn
<1>1. ASSUME IInv
      PROVE  PutsBackItsOwn
  <2>1. TypeOK
    BY <1>1 DEF IInv, Types, Results, Undo, TypeOK, ResultType
  <2>2. NothingLeftAwake
    BY <1>1 DEF IInv, Undo, NothingLeftAwake, HostUp, GuestUp, GuestPlaces
  <2>3. PutsBackOnlyItsOwn
    BY <1>1 DEF IInv, Undo, PutsBackOnlyItsOwn
  <2> QED
    BY <2>1, <2>2, <2>3 DEF PutsBackItsOwn
<1> QED
  BY <1>1, Invariant, PTL

\* No machine is woken or updated that is left out, or that has its own window
\* (updater.py: _excluded, _not_enrolled, the windows of run_updates).
THEOREM RunKeepsToItsMachines == Spec => []OnlyMembersTouched
<1>1. ASSUME IInv
      PROVE  OnlyMembersTouched
  BY <1>1 DEF IInv, Touch, OnlyMembersTouched
<1> QED
  BY <1>1, Invariant, PTL

\* timar's own host, once it is known, is updated by update_self alone, when no
\* server is left.
THEOREM RunTakesOwnHostLast == Spec => []OwnHostLast
<1>1. ASSUME IInv
      PROVE  OwnHostLast
  <2>1. own # None /\ at = "command" => host # own
    BY <1>1, Fleet DEF IInv, Types, Work, HostPlaces, HostUp
  <2>2. own # None /\ at = "gcommand" => guest # own
    BY <1>1 DEF IInv, Work, GuestPlaces, GuestUp
  <2> QED
    BY <1>1, <2>1, <2>2 DEF IInv, Touch, OwnHostLast
<1> QED
  BY <1>1, Invariant, PTL

\* Both, for any fleet: who is woken and updated, and who comes last (run_updates and
\* update_self).
THEOREM RunKeepsItsOrder == Spec => []RightOnesInOrder
BY RunKeepsToItsMachines, RunTakesOwnHostLast, PTL DEF RightOnesInOrder

\* A fleet's run that comes to its end without a stop has told of every machine: no
\* failure on the way loses one (updater.py: the result lists of run_updates and
\* update_server).
THEOREM RunTellsOfEveryMachine == Spec => []ReportTellsAll
<1>1. ASSUME IInv
      PROVE  ReportTellsAll
  <2> SUFFICES ASSUME at = "end", ~stopped, only = None, NEW m \in Elements(Order), ~Told(m)
               PROVE  m # own /\ IF IsGuest(m) THEN \E h \in Hypervisors(m) : GuestsPassedOver(h)
                                 ELSE m \in Watched
    BY DEF ReportTellsAll
  <2>1. /\ TellServers /\ TellLeftOut /\ TellGuests /\ TellEnd
        /\ m \in Machines
    BY <1>1 DEF IInv, Tell, Telling, Machines
  <2>2. Elements(left) = {} /\ at \notin HostPlaces \cup HostAhead
    BY <2>1 DEF TellEnd, Elements, HostPlaces, HostUp, GuestPlaces, GuestUp, HostAhead
  <2>3. m # own
    BY <1>1, <2>1, Fleet DEF TellEnd, IInv, Types
  <2>4. CASE ~IsGuest(m)
    BY <2>1, <2>2, <2>3, <2>4 DEF TellServers, Turn
  <2>5. CASE IsGuest(m)
    <3>1. PICK h \in Machines : m \in Elements(Guests[h]) /\ h \in Hypervisors(m)
      BY <2>5 DEF IsGuest, Hypervisors
    <3>2. CASE ~Turn(h)
      BY <2>3, <2>5, <3>1, <3>2 DEF Turn, GuestsPassedOver
    <3>3. CASE Turn(h)
      <4>1. h \notin LeftOut \ (Watched \cup Windowed)
        BY <2>1, <2>2, <2>3, <3>1, <3>3 DEF TellLeftOut
      <4>2. ~Updated(h)
        BY <2>1, <2>2, <2>3, <3>1, <3>3 DEF TellGuests, InProgress
      <4> QED
        BY <2>3, <2>5, <3>1, <4>1, <4>2 DEF GuestsPassedOver
    <3> QED
      BY <3>2, <3>3
  <2> QED
    BY <2>3, <2>4, <2>5
<1> QED
  BY <1>1, Invariant, PTL

\* After a stop neither a server, nor a guest, nor timar's own host is begun
\* (updater.py: cancel.requested).
THEOREM StopIsHeeded == Spec => StopGoesNoFurther
<1>1. ASSUME [Next]_vars
      PROVE  [stopped /\ at # "begin" =>
                UNCHANGED <<host, guest>> /\ (at' = "self" => at = "self")]_vars
  <2> SUFFICES ASSUME Next, stopped, at # "begin"
               PROVE  UNCHANGED <<host, guest>> /\ (at' = "self" => at = "self")
    BY <1>1
  <2>1. CASE BeginOnly
    BY <2>1 DEF BeginOnly, Report
  <2>2. CASE BeginFleet
    BY <2>2 DEF BeginFleet
  <2>3. CASE PassOver \/ PassWindowed \/ StopHere \/ PassLeftOut
    BY <2>3 DEF PassOver, PassWindowed, StopHere, PassLeftOut, HasTurn, Report, SkippedAll
  <2>4. CASE Take
    BY <2>4 DEF Take, MayTake, HasTurn
  <2>5. CASE NoneLeft \/ TakeOwn \/ OwnProjects \/ HandOff \/ OwnEnds
    BY <2>5 DEF NoneLeft, TakeOwn, OwnProjects, HandOff, OwnEnds, Stay, Report
  <2>6. CASE SkipServer \/ Probe \/ Wake \/ NotWoken \/ Rise
    BY <2>6 DEF SkipServer, Probe, Wake, NotWoken, Rise, Off, Return, Report, Stay
  <2>7. CASE InUse \/ Start \/ CommandEnds \/ Raise \/ UpdateProjects
    BY <2>7 DEF InUse, Start, CommandEnds, Raise, UpdateProjects, Off, Report, Stay, Fail,
       Return, PutBackOrReturn
  <2>8. CASE Restart \/ Restarted \/ PutBack
    BY <2>8 DEF Restart, Restarted, PutBack, Off, Stay, Return
  <2>9. CASE GuestsDone
    BY <2>9 DEF GuestsDone, PutBackOrReturn, Return, Stay
  <2>10. CASE PassGuest
    BY <2>10 DEF PassGuest, Report
  <2>11. CASE TakeGuest
    BY <2>11 DEF TakeGuest, Off, MayStart
  <2>12. CASE StartGuest \/ GuestNotStarted \/ GuestRises
    BY <2>12 DEF StartGuest, GuestNotStarted, GuestRises, Off, Stay, Report
  <2>13. CASE
     StartOnGuest \/ GuestCommandEnds \/ GuestProjects \/ GuestRaises \/ PutGuestBack
    BY <2>13 DEF StartOnGuest, GuestCommandEnds, GuestProjects, GuestRaises, PutGuestBack,
       Off, Stay, Report, AfterGuest
  <2>14. CASE (\E m \in Machines : Boots(m) \/ LateEnd(m) \/ Switch(m)) \/ RequestStop
    BY <2>14 DEF Boots, LateEnd, Switch, RequestStop, Off, WorldOnly, place
  <2> QED
    BY <2>1, <2>2, <2>3, <2>4, <2>5, <2>6, <2>7, <2>8, <2>9, <2>10, <2>11, <2>12, <2>13,
       <2>14
    DEF Next, FleetStep, ServerStep, GuestStep
<1> QED
  BY <1>1, PTL DEF Spec, StopGoesNoFurther

-----------------------------------------------------------------------------
(* The log sweep.                                                          *)

\* It has begun the server.
OnServer == sweepAt \in {"probe", "connect", "ask"}

\* How far it has come, and how every server behind it was dealt with.
Route ==
  /\ OnServer => server \in Servers /\ ~Skipped(server)
  /\ \A s \in passed : s < server
  /\ \A s \in Reached : s < server /\ s \notin passed /\ ~Skipped(s)
  /\ \A s \in Servers : s < server => s \in Reached \cup passed
  /\ sweepAt = "count" => sweepStop \/ server = Number + 1
  /\ Counted =>
       /\ saysStopped \/ server = Number + 1
       /\ \A s \in Reached : s \notin notIn
       /\ \A s \in Servers \ WatchedOnly : s \in notIn \/ s \in enrolled

\* Where it was when it was asked to stop.
Halt ==
  sweepStop =>
    /\ \A s \in Reached : s <= lastOne
    /\ OnServer => server <= lastOne

\* What the server it is on has been asked, and what is made of the answers.
Asking ==
  /\ sweepAt # "ask" => question = 1 /\ found = {}
  /\ sweepAt = "ask" => \A q \in Questions :
       /\ q \in Asked[server] /\ q < question <=> heard[server][q] # "unasked"
       /\ q \in found <=> IsIssue(q, heard[server][q])

\* It is asking this server.
OnIt(s) == s = server /\ sweepAt = "ask"

\* What the others have been.
HeardOf(s) ==
  /\ told[s] = "nothing" /\ ~OnIt(s) => \A q \in Questions : heard[s][q] = "unasked"
  /\ told[s] = "asleep" => \A q \in Questions : heard[s][q] = "unasked"
  /\ told[s] = "clean" =>
       \A q \in Questions : AnsweredWell(s, q) \/ (q \notin Asked[s] /\ heard[s][q] = "unasked")
  /\ told[s] = "findings" => \E q \in Asked[s] : IsIssue(q, heard[s][q])

Hearing == \A s \in Servers : HeardOf(s)

\* An all-clear is said at the end, of servers that are clean or asleep.
Said == message = "all clear" => sweepAt = "end" /\ Clean

\* The sweep starts in a state of the right types.
LEMMA SweepTypeStart == SweepInit => SweepTypeOK
PROOF
<1>. SUFFICES ASSUME SweepInit PROVE SweepTypeOK
  OBVIOUS
<1>1. server \in 1 .. Number + 1 /\ lastOne \in 0 .. Number + 1 /\ question \in 1 .. Checks + 1
  BY SweepAssumption DEF SweepInit, Checks
<1>2. told \in [Servers -> SweepVerdicts]
  BY DEF SweepInit, SweepVerdicts
<1>3. heard \in [Servers -> [Questions -> Answers]]
  BY DEF SweepInit, Answers
<1>. QED
  BY <1>1, <1>2, <1>3 DEF SweepInit, SweepTypeOK, SweepStages

\* The servers are numbered, and the sweep is on one of them or behind the last.
LEMMA ServerFacts ==
  ASSUME SweepTypeOK
  PROVE  /\ Number \in Nat /\ server \in Nat /\ 1 <= server /\ server <= Number + 1
         /\ lastOne \in Nat
         /\ \A s \in Servers : s \in Nat /\ 1 <= s /\ s <= Number
         /\ \A s \in Nat : 1 <= s /\ s <= Number => s \in Servers
PROOF
<1>1. Number \in Nat
  BY SweepAssumption
<1>2. server \in 1 .. Number + 1 /\ lastOne \in 0 .. Number + 1
  BY DEF SweepTypeOK
<1>3. Servers = 1 .. Number
  BY DEF Servers
<1>. QED
  BY <1>1, <1>2, <1>3

\* What a result for the server it is on changes.
LEMMA ConcludeReaches ==
  ASSUME SweepTypeOK, NEW v \in SweepVerdicts \ {"nothing"}, Conclude(v), server \in Servers
  PROVE  /\ Reached' = Reached \cup {server}
         /\ told'[server] = v
         /\ \A s \in Servers : s # server => told'[s] = told[s]
         /\ server' = server + 1 /\ sweepAt' = "next"
         /\ question' = 1 /\ found' = {}
PROOF
<1>1. told \in [Servers -> SweepVerdicts] /\ told' = [told EXCEPT ![server] = v]
  BY DEF SweepTypeOK, Conclude
<1>2. told'[server] = v /\ \A s \in Servers : s # server => told'[s] = told[s]
  BY <1>1
<1>. QED
  BY <1>2 DEF Reached, Conclude

\* It changes no type.
LEMMA ConcludeTypes ==
  ASSUME SweepTypeOK, NEW v \in SweepVerdicts, Conclude(v), server \in Servers,
         UNCHANGED <<machines, outcome, heard, passed>>
  PROVE  SweepTypeOK'
PROOF
<1>1. server' \in 1 .. Number + 1 /\ question' \in 1 .. Checks + 1
  BY SweepAssumption DEF Conclude, Servers, Checks
<1>2. told' \in [Servers -> SweepVerdicts]
  BY DEF Conclude, SweepTypeOK
<1>. QED
  BY <1>1, <1>2 DEF Conclude, SweepTypeOK, SweepStages, machines, outcome

\* Every step keeps the types.
LEMMA SweepTypeStep ==
  ASSUME SweepTypeOK, Route, [SweepNext]_sweepVars
  PROVE  SweepTypeOK'
PROOF
<1>1. CASE PassServer
  <2>1. server' \in 1 .. Number + 1
    BY <1>1, SweepAssumption DEF PassServer, Servers
  <2>. QED
    BY <1>1, <2>1 DEF PassServer, SweepTypeOK, machines, outcome
<1>2. CASE BeginServer
  BY <1>2 DEF BeginServer, SweepTypeOK, machines, outcome, SweepStages
<1>3. CASE SweepDone
  BY <1>3 DEF SweepDone, SweepTypeOK, machines, outcome, SweepStages
<1>4. CASE Offline
  BY <1>4, ConcludeTypes DEF Offline, Route, OnServer, SweepVerdicts
<1>5. CASE IsUp
  BY <1>5 DEF IsUp, SweepTypeOK, machines, outcome, SweepStages
<1>6. CASE Connect
  BY <1>6 DEF Connect, SweepTypeOK, machines, outcome, SweepStages
<1>7. CASE Breaks
  BY <1>7, ConcludeTypes DEF Breaks, Route, OnServer, SweepVerdicts
<1>8. CASE AskServer
  <2>1. heard' \in [Servers -> [Questions -> Answers]]
    <3>1. PICK answer \in Answers : heard' = [heard EXCEPT ![server][question] = answer]
      BY <1>8 DEF AskServer, Answers
    <3>2. heard \in [Servers -> [Questions -> Answers]]
      BY DEF SweepTypeOK
    <3>. QED
      BY <3>1, <3>2
  <2>2. question' \in 1 .. Checks + 1
    BY <1>8 DEF AskServer, Questions, Checks
  <2>3. found' \subseteq Questions
    BY <1>8 DEF AskServer, SweepTypeOK
  <2>. QED
    BY <1>8, <2>1, <2>2, <2>3 DEF AskServer, SweepTypeOK, machines, outcome
<1>9. CASE AllAsked
  BY <1>9, ConcludeTypes DEF AllAsked, Route, OnServer, SweepVerdicts
<1>10. CASE Count
  BY <1>10 DEF Count, SweepTypeOK, machines, outcome, SweepStages
<1>11. CASE Assess
  BY <1>11 DEF Assess, SweepTypeOK, machines, outcome, SweepStages
<1>12. CASE Notify
  BY <1>12 DEF Notify, SweepTypeOK, machines, outcome, SweepStages
<1>13. CASE \E s \in Servers : ComesOrGoes(s) \/ Enrol(s)
  BY <1>13 DEF ComesOrGoes, Enrol, SweepStays, SweepTypeOK, machines, outcome, SweepStages
<1>14. CASE StopSweep
  <2>1. lastOne' \in 0 .. Number + 1
    BY <1>14, ServerFacts DEF StopSweep
  <2>. QED
    BY <1>14, <2>1 DEF StopSweep, SweepStays, SweepTypeOK, outcome
<1>15. CASE UNCHANGED sweepVars
  BY <1>15 DEF sweepVars, SweepTypeOK, machines, outcome, SweepStages
<1>. QED
  BY <1>1, <1>2, <1>3, <1>4, <1>5, <1>6, <1>7, <1>8, <1>9, <1>10, <1>11, <1>12, <1>13, <1>14,
     <1>15 DEF SweepNext

\* Every step keeps the route.
LEMMA RouteStep ==
  ASSUME SweepTypeOK, Route, [SweepNext]_sweepVars
  PROVE  Route'
PROOF
<1>1. CASE PassServer
  <2>1. ~Counted' /\ ~OnServer' /\ (\A s : Skipped(s)' <=> Skipped(s)) /\ Reached' = Reached
    BY <1>1 DEF PassServer, Counted, OnServer, Skipped, machines, Reached
  <2>2. sweepAt' = "next" /\ passed' = passed \cup {server} /\ server' = server + 1
    BY <1>1 DEF PassServer
  <2>3. server \in Servers /\ Skipped(server) /\ server \notin Reached
    BY <1>1, ServerFacts DEF PassServer, Route
  <2>4. \A s \in Reached \cup passed : s \in Servers
    BY DEF Reached, SweepTypeOK
  <2>5. \A s \in Servers : s < server + 1 <=> s < server \/ s = server
    BY ServerFacts
  <2>. QED
    BY <2>1, <2>2, <2>3, <2>4, <2>5, ServerFacts DEF Route
<1>2. CASE BeginServer
  BY <1>2, ServerFacts DEF BeginServer, Route, OnServer, Counted, Reached, Skipped, machines,
     outcome
<1>3. CASE SweepDone
  BY <1>3, ServerFacts DEF SweepDone, Route, OnServer, Counted, Reached, Skipped, machines,
     outcome
<1>4. CASE Offline
  <2>1. PICK v \in SweepVerdicts \ {"nothing"} : Conclude(v)
    BY <1>4 DEF Offline, SweepVerdicts
  <2>2. server \in Servers /\ ~Skipped(server) /\ server \notin passed
    BY <1>4, ServerFacts DEF Offline, Route, OnServer
  <2>3. /\ Reached' = Reached \cup {server} /\ server' = server + 1 /\ sweepAt' = "next"
        /\ UNCHANGED <<passed, enrolled>>
    BY <1>4, <2>1, <2>2, ConcludeReaches DEF Offline, machines
  <2>4. ~Counted' /\ ~OnServer' /\ \A s : Skipped(s)' <=> Skipped(s)
    BY <2>3 DEF Counted, OnServer, Skipped
  <2>5. \A s \in Reached \cup passed : s \in Servers
    BY DEF Reached, SweepTypeOK
  <2>6. \A s \in Nat : s < server => s < server + 1
    BY ServerFacts
  <2>7. \A s \in Servers : s < server + 1 <=> s < server \/ s = server
    BY ServerFacts
  <2>. QED
    BY <2>2, <2>3, <2>4, <2>5, <2>6, <2>7, ServerFacts DEF Route
<1>5. CASE IsUp
  BY <1>5, ServerFacts DEF IsUp, Route, OnServer, Counted, Reached, Skipped, machines, outcome
<1>6. CASE Connect
  BY <1>6, ServerFacts DEF Connect, Route, OnServer, Counted, Reached, Skipped, machines,
     outcome
<1>7. CASE Breaks
  <2>1. PICK v \in SweepVerdicts \ {"nothing"} : Conclude(v)
    BY <1>7 DEF Breaks, SweepVerdicts
  <2>2. server \in Servers /\ ~Skipped(server) /\ server \notin passed
    BY <1>7, ServerFacts DEF Breaks, Route, OnServer
  <2>3. /\ Reached' = Reached \cup {server} /\ server' = server + 1 /\ sweepAt' = "next"
        /\ UNCHANGED <<passed, enrolled>>
    BY <1>7, <2>1, <2>2, ConcludeReaches DEF Breaks, machines
  <2>4. ~Counted' /\ ~OnServer' /\ \A s : Skipped(s)' <=> Skipped(s)
    BY <2>3 DEF Counted, OnServer, Skipped
  <2>5. \A s \in Reached \cup passed : s \in Servers
    BY DEF Reached, SweepTypeOK
  <2>6. \A s \in Nat : s < server => s < server + 1
    BY ServerFacts
  <2>7. \A s \in Servers : s < server + 1 <=> s < server \/ s = server
    BY ServerFacts
  <2>. QED
    BY <2>2, <2>3, <2>4, <2>5, <2>6, <2>7, ServerFacts DEF Route
<1>8. CASE AskServer
  BY <1>8, ServerFacts DEF AskServer, Route, OnServer, Counted, Reached, Skipped, machines, outcome
<1>9. CASE AllAsked
  <2>1. PICK v \in SweepVerdicts \ {"nothing"} : Conclude(v)
    BY <1>9 DEF AllAsked, SweepVerdicts
  <2>2. server \in Servers /\ ~Skipped(server) /\ server \notin passed
    BY <1>9, ServerFacts DEF AllAsked, Route, OnServer
  <2>3. /\ Reached' = Reached \cup {server} /\ server' = server + 1 /\ sweepAt' = "next"
        /\ UNCHANGED <<passed, enrolled>>
    BY <1>9, <2>1, <2>2, ConcludeReaches DEF AllAsked, machines
  <2>4. ~Counted' /\ ~OnServer' /\ \A s : Skipped(s)' <=> Skipped(s)
    BY <2>3 DEF Counted, OnServer, Skipped
  <2>5. \A s \in Reached \cup passed : s \in Servers
    BY DEF Reached, SweepTypeOK
  <2>6. \A s \in Nat : s < server => s < server + 1
    BY ServerFacts
  <2>7. \A s \in Servers : s < server + 1 <=> s < server \/ s = server
    BY ServerFacts
  <2>. QED
    BY <2>2, <2>3, <2>4, <2>5, <2>6, <2>7, ServerFacts DEF Route
<1>10. CASE Count
  BY <1>10, ServerFacts DEF Count, Route, OnServer, Counted, Reached, Skipped, machines,
     outcome
<1>11. CASE Assess
  BY <1>11, ServerFacts DEF Assess, Route, OnServer, Counted, Reached, Skipped, machines,
     outcome
<1>12. CASE Notify
  BY <1>12, ServerFacts DEF Notify, Route, OnServer, Counted, Reached, Skipped, machines,
     outcome
<1>13. CASE \E s \in Servers : ComesOrGoes(s) \/ Enrol(s)
  BY <1>13, ServerFacts DEF ComesOrGoes, Enrol, SweepStays, Route, OnServer, Counted, Reached,
     Skipped, machines, outcome
<1>14. CASE StopSweep
  BY <1>14, ServerFacts DEF StopSweep, SweepStays, Route, OnServer, Counted, Reached, Skipped,
     machines, outcome
<1>15. CASE UNCHANGED sweepVars
  BY <1>15, ServerFacts DEF sweepVars, Route, OnServer, Counted, Reached, Skipped, machines,
     outcome
<1>. QED
  BY <1>1, <1>2, <1>3, <1>4, <1>5, <1>6, <1>7, <1>8, <1>9, <1>10, <1>11, <1>12, <1>13, <1>14,
     <1>15 DEF SweepNext

\* Once it was asked to stop, no step goes beyond the server it was on.
LEMMA HaltStep ==
  ASSUME SweepTypeOK, Route, Halt, [SweepNext]_sweepVars
  PROVE  Halt'
PROOF
<1>1. CASE PassServer
  BY <1>1, ServerFacts DEF PassServer, Halt, Route, OnServer, Reached, machines, outcome
<1>2. CASE BeginServer
  BY <1>2, ServerFacts DEF BeginServer, Halt, Route, OnServer, Reached, machines, outcome
<1>3. CASE SweepDone
  BY <1>3, ServerFacts DEF SweepDone, Halt, Route, OnServer, Reached, machines, outcome
<1>4. CASE Offline
  BY <1>4, ServerFacts DEF Offline, Halt, Route, OnServer, Reached, machines, outcome,
     Conclude, SweepTypeOK
<1>5. CASE IsUp
  BY <1>5, ServerFacts DEF IsUp, Halt, Route, OnServer, Reached, machines, outcome
<1>6. CASE Connect
  BY <1>6, ServerFacts DEF Connect, Halt, Route, OnServer, Reached, machines, outcome
<1>7. CASE Breaks
  BY <1>7, ServerFacts DEF Breaks, Halt, Route, OnServer, Reached, machines, outcome, Conclude,
     SweepTypeOK
<1>8. CASE AskServer
  BY <1>8, ServerFacts DEF AskServer, Halt, Route, OnServer, Reached, machines, outcome
<1>9. CASE AllAsked
  BY <1>9, ServerFacts DEF AllAsked, Halt, Route, OnServer, Reached, machines, outcome,
     Conclude, SweepTypeOK
<1>10. CASE Count
  BY <1>10, ServerFacts DEF Count, Halt, Route, OnServer, Reached, machines, outcome
<1>11. CASE Assess
  BY <1>11, ServerFacts DEF Assess, Halt, Route, OnServer, Reached, machines, outcome
<1>12. CASE Notify
  BY <1>12, ServerFacts DEF Notify, Halt, Route, OnServer, Reached, machines, outcome
<1>13. CASE \E s \in Servers : ComesOrGoes(s) \/ Enrol(s)
  BY <1>13, ServerFacts DEF ComesOrGoes, Enrol, SweepStays, Halt, Route, OnServer, Reached,
     machines, outcome
<1>14. CASE StopSweep
  BY <1>14, ServerFacts DEF StopSweep, SweepStays, Halt, Route, OnServer, Reached, machines,
     outcome
<1>15. CASE UNCHANGED sweepVars
  BY <1>15, ServerFacts DEF sweepVars, Halt, Route, OnServer, Reached, machines, outcome
<1>. QED
  BY <1>1, <1>2, <1>3, <1>4, <1>5, <1>6, <1>7, <1>8, <1>9, <1>10, <1>11, <1>12, <1>13, <1>14,
     <1>15 DEF SweepNext

\* Every step keeps account of the answers.
LEMMA AskingStep ==
  ASSUME SweepTypeOK, Route, Asking, Hearing, [SweepNext]_sweepVars
  PROVE  Asking'
PROOF
<1>1. CASE PassServer
  BY <1>1 DEF PassServer, Asking, machines, outcome
<1>2. CASE BeginServer
  BY <1>2 DEF BeginServer, Asking, machines, outcome
<1>3. CASE SweepDone
  BY <1>3 DEF SweepDone, Asking, machines, outcome
<1>4. CASE Offline
  BY <1>4 DEF Offline, Asking, Conclude
<1>5. CASE IsUp
  BY <1>5 DEF IsUp, Asking, machines, outcome
<1>6. CASE Connect
  <2>1. \A q \in Questions : heard[server][q] = "unasked"
    BY <1>6, ServerFacts DEF Connect, Hearing, HeardOf, OnIt, Route, OnServer, Reached
  <2>. QED
    BY <1>6, <2>1 DEF Connect, Asking, IsIssue, machines, Questions
<1>7. CASE Breaks
  BY <1>7 DEF Breaks, Asking, Conclude
<1>8. CASE AskServer
  <2>1. PICK answer \in IF question \notin Asked[server] THEN {"unasked"}
                         ELSE IF server \in awake THEN {"fine", "trouble", "none"}
                         ELSE IF question = Checks THEN {"none"} ELSE {} :
             /\ heard' = [heard EXCEPT ![server][question] = answer]
             /\ found' = IF IsIssue(question, answer) THEN found \cup {question} ELSE found
    BY <1>8 DEF AskServer
  <2>7. answer = "unasked" <=> question \notin Asked[server]
    <3>1. CASE question \notin Asked[server]
      BY <2>1, <3>1
    <3>2. CASE question \in Asked[server]
      <4>1. CASE server \in awake
        BY <2>1, <3>2, <4>1
      <4>2. CASE server \notin awake
        BY <2>1, <3>2, <4>2
      <4>. QED
        BY <4>1, <4>2
    <3>. QED
      BY <3>1, <3>2
  <2>2. server \in Servers /\ question \in Questions /\ sweepAt = "ask"
    BY <1>8 DEF AskServer, Route, OnServer
  <2>3. /\ heard'[server][question] = answer
        /\ \A q \in Questions : q # question => heard'[server][q] = heard[server][q]
    BY <2>1, <2>2 DEF SweepTypeOK
  <2>4. UNCHANGED <<server, sweepAt>> /\ question' = question + 1
    BY <1>8 DEF AskServer
  <2>6. question \in Nat /\ \A q \in Questions : q \in Nat
    BY <2>2 DEF Questions
  <2>5. ASSUME NEW q \in Questions
        PROVE  /\ q \in Asked[server] /\ q < question + 1 <=> heard'[server][q] # "unasked"
               /\ q \in found' <=> IsIssue(q, heard'[server][q])
    <3>1. CASE q = question
      <4>1. heard[server][q] = "unasked" /\ q \notin found
        BY <2>2, <2>6, <3>1 DEF Asking, IsIssue
      <4>. QED
        <5>1. heard'[server][q] = answer /\ (q \in found' <=> IsIssue(q, answer))
          BY <2>1, <2>3, <3>1, <4>1
        <5>2. q < question + 1
          BY <2>6, <3>1
        <5>. QED
          BY <2>7, <3>1, <5>1, <5>2
    <3>2. CASE q # question
      <4>1. heard'[server][q] = heard[server][q] /\ (q \in found' <=> q \in found)
        <5>1. heard'[server][q] = heard[server][q]
          BY <2>3, <3>2
        <5>2. q \in found' <=> q \in found
          BY <2>1, <3>2
        <5>. QED
          BY <5>1, <5>2
      <4>2. q < question + 1 <=> q < question
        BY <2>6, <3>2
      <4>. QED
        BY <2>2, <4>1, <4>2 DEF Asking
    <3>. QED
      BY <3>1, <3>2
  <2>. QED
    BY <2>2, <2>4, <2>5 DEF Asking
<1>9. CASE AllAsked
  BY <1>9 DEF AllAsked, Asking, Conclude
<1>10. CASE Count
  BY <1>10 DEF Count, Asking, machines, outcome
<1>11. CASE Assess
  BY <1>11 DEF Assess, Asking, machines, outcome
<1>12. CASE Notify
  BY <1>12 DEF Notify, Asking, machines, outcome
<1>13. CASE \E s \in Servers : ComesOrGoes(s) \/ Enrol(s)
  BY <1>13 DEF ComesOrGoes, Enrol, SweepStays, Asking, machines, outcome
<1>14. CASE StopSweep
  BY <1>14 DEF StopSweep, SweepStays, Asking, machines, outcome
<1>15. CASE UNCHANGED sweepVars
  BY <1>15 DEF sweepVars, Asking, machines, outcome
<1>. QED
  BY <1>1, <1>2, <1>3, <1>4, <1>5, <1>6, <1>7, <1>8, <1>9, <1>10, <1>11, <1>12, <1>13, <1>14,
     <1>15 DEF SweepNext

\* A step that is no answer and no result changes nothing about what was heard.
LEMMA HearingKept ==
  ASSUME Hearing, UNCHANGED <<told, heard>>, \A s \in Servers : OnIt(s) => OnIt(s)'
  PROVE  Hearing'
PROOF BY DEF Hearing, HeardOf, AnsweredWell

\* A result that agrees with the answers.
LEMMA HearingConcluded ==
  ASSUME SweepTypeOK, Hearing, NEW v \in SweepVerdicts \ {"nothing"}, Conclude(v),
         server \in Servers, UNCHANGED heard,
         v = "asleep" => \A q \in Questions : heard[server][q] = "unasked",
         v = "clean" => \A q \in Questions :
           AnsweredWell(server, q) \/ (q \notin Asked[server] /\ heard[server][q] = "unasked"),
         v = "findings" => \E q \in Asked[server] : IsIssue(q, heard[server][q])
  PROVE  Hearing'
PROOF
<1>. SUFFICES ASSUME NEW s \in Servers PROVE HeardOf(s)'
  BY DEF Hearing
<1>0. HeardOf(s)
  BY DEF Hearing
<1>1. CASE s = server
  <2>1. told'[s] = v
    BY <1>1, ConcludeReaches
  <2>. QED
    BY <1>1, <2>1 DEF HeardOf, AnsweredWell
<1>2. CASE s # server
  <2>1. told'[s] = told[s] /\ sweepAt' = "next" /\ ~OnIt(s)
    BY <1>2, ConcludeReaches DEF OnIt
  <2>. QED
    BY <1>0, <2>1 DEF HeardOf, AnsweredWell
<1>. QED
  BY <1>1, <1>2

\* Every result agrees with the answers.
LEMMA HearingStep ==
  ASSUME SweepTypeOK, SweepTypeOK', Route, Asking, Hearing, [SweepNext]_sweepVars
  PROVE  Hearing'
PROOF
<1>1. CASE PassServer
  BY <1>1, HearingKept DEF PassServer, OnIt, machines, outcome
<1>2. CASE BeginServer
  BY <1>2, HearingKept DEF BeginServer, OnIt, machines, outcome
<1>3. CASE SweepDone
  BY <1>3, HearingKept DEF SweepDone, OnIt, machines, outcome
<1>4. CASE Offline
  <2>1. server \in Servers /\ Conclude("asleep") /\ UNCHANGED heard /\ server \notin Reached
    BY <1>4, ServerFacts DEF Offline, Route, OnServer
  <2>2. \A q \in Questions : heard[server][q] = "unasked"
    BY <1>4, <2>1 DEF Offline, Hearing, HeardOf, OnIt, Reached
  <2>. QED
    BY <2>1, <2>2, HearingConcluded DEF SweepVerdicts
<1>5. CASE IsUp
  BY <1>5, HearingKept DEF IsUp, OnIt, machines, outcome
<1>6. CASE Connect
  BY <1>6, HearingKept DEF Connect, OnIt, machines, outcome
<1>7. CASE Breaks
  <2>1. server \in Servers /\ Conclude("unreachable") /\ UNCHANGED heard
    BY <1>7 DEF Breaks, Route, OnServer
  <2>. QED
    BY <2>1, HearingConcluded DEF SweepVerdicts
<1>8. CASE AskServer
  <2>1. PICK answer : heard' = [heard EXCEPT ![server][question] = answer]
    BY <1>8 DEF AskServer
  <2>2. /\ server \in Servers /\ server \notin Reached /\ sweepAt = "ask"
        /\ UNCHANGED <<told, server, sweepAt>>
    BY <1>8, ServerFacts DEF AskServer, Route, OnServer
  <2>3. \A s \in Servers : s # server => heard'[s] = heard[s]
    BY <2>1 DEF SweepTypeOK
  <2>4. ASSUME NEW s \in Servers PROVE HeardOf(s)'
    <3>1. CASE s = server
      BY <2>2, <3>1 DEF HeardOf, OnIt, Reached
    <3>2. CASE s # server
      BY <2>2, <2>3, <3>2 DEF Hearing, HeardOf, OnIt, AnsweredWell
    <3>. QED
      BY <3>1, <3>2
  <2>. QED
    BY <2>4 DEF Hearing
<1>9. CASE AllAsked
  <2>1. /\ server \in Servers /\ Conclude(IF found = {} THEN "clean" ELSE "findings")
        /\ UNCHANGED heard /\ sweepAt = "ask"
    BY <1>9 DEF AllAsked, Route, OnServer
  <2>2. \A q \in Questions : q < question
    <3>1. question \in 1 .. 6 + 1
      BY DEF SweepTypeOK, Checks
    <3>2. question \notin 1 .. 6
      BY <1>9 DEF AllAsked, Questions
    <3>. QED
      BY <3>1, <3>2 DEF Questions
  <2>3. CASE found = {}
    <3>1. ASSUME NEW q \in Questions
          PROVE  AnsweredWell(server, q) \/ (q \notin Asked[server] /\ heard[server][q] = "unasked")
      <4>1. /\ q \in Asked[server] <=> heard[server][q] # "unasked"
            /\ ~IsIssue(q, heard[server][q])
        BY <2>1, <2>2, <2>3 DEF Asking
      <4>2. heard[server][q] \in Answers
        BY <2>1 DEF SweepTypeOK
      <4>. QED
        BY <4>1, <4>2 DEF AnsweredWell, IsIssue, Answers
    <3>. QED
      BY <2>1, <2>3, <3>1, HearingConcluded DEF SweepVerdicts
  <2>4. CASE found # {}
    <3>1. PICK q \in Questions : q \in found
      BY <2>4 DEF SweepTypeOK
    <3>2. IsIssue(q, heard[server][q]) /\ (q \in Asked[server] \/ heard[server][q] = "unasked")
      BY <2>1, <2>2, <3>1 DEF Asking
    <3>3. q \in Asked[server]
      BY <3>2 DEF IsIssue
    <3>. QED
      BY <2>1, <2>4, <3>2, <3>3, HearingConcluded DEF SweepVerdicts
  <2>. QED
    BY <2>3, <2>4
<1>10. CASE Count
  BY <1>10, HearingKept DEF Count, OnIt, machines, outcome
<1>11. CASE Assess
  BY <1>11, HearingKept DEF Assess, OnIt, machines, outcome
<1>12. CASE Notify
  BY <1>12, HearingKept DEF Notify, OnIt, machines, outcome
<1>13. CASE \E s \in Servers : ComesOrGoes(s) \/ Enrol(s)
  BY <1>13, HearingKept DEF ComesOrGoes, Enrol, SweepStays, OnIt, machines, outcome
<1>14. CASE StopSweep
  BY <1>14, HearingKept DEF StopSweep, SweepStays, OnIt, machines, outcome
<1>15. CASE UNCHANGED sweepVars
  BY <1>15, HearingKept DEF sweepVars, OnIt, machines, outcome
<1>. QED
  BY <1>1, <1>2, <1>3, <1>4, <1>5, <1>6, <1>7, <1>8, <1>9, <1>10, <1>11, <1>12, <1>13, <1>14,
     <1>15 DEF SweepNext

\* The message is the last step, and the results stay as they are.
LEMMA SaidStep ==
  ASSUME Said, [SweepNext]_sweepVars
  PROVE  Said'
PROOF
<1>1. CASE PassServer
  BY <1>1 DEF PassServer, Said, Clean, machines, outcome
<1>2. CASE BeginServer
  BY <1>2 DEF BeginServer, Said, Clean, machines, outcome
<1>3. CASE SweepDone
  BY <1>3 DEF SweepDone, Said, Clean, machines, outcome
<1>4. CASE Offline
  BY <1>4 DEF Offline, Said, Clean, machines, outcome, Conclude
<1>5. CASE IsUp
  BY <1>5 DEF IsUp, Said, Clean, machines, outcome
<1>6. CASE Connect
  BY <1>6 DEF Connect, Said, Clean, machines, outcome
<1>7. CASE Breaks
  BY <1>7 DEF Breaks, Said, Clean, machines, outcome, Conclude
<1>8. CASE AskServer
  BY <1>8 DEF AskServer, Said, Clean, machines, outcome
<1>9. CASE AllAsked
  BY <1>9 DEF AllAsked, Said, Clean, machines, outcome, Conclude
<1>10. CASE Count
  BY <1>10 DEF Count, Said, Clean, machines, outcome
<1>11. CASE Assess
  BY <1>11 DEF Assess, Said, Clean, machines, outcome
<1>12. CASE Notify
  BY <1>12 DEF Notify, Said, Clean, machines, outcome
<1>13. CASE \E s \in Servers : ComesOrGoes(s) \/ Enrol(s)
  BY <1>13 DEF ComesOrGoes, Enrol, SweepStays, Said, Clean, machines, outcome
<1>14. CASE StopSweep
  BY <1>14 DEF StopSweep, SweepStays, Said, Clean, machines, outcome
<1>15. CASE UNCHANGED sweepVars
  BY <1>15 DEF sweepVars, Said, Clean, machines, outcome
<1>. QED
  BY <1>1, <1>2, <1>3, <1>4, <1>5, <1>6, <1>7, <1>8, <1>9, <1>10, <1>11, <1>12, <1>13, <1>14,
     <1>15 DEF SweepNext

\* What is proved to hold of every state of a sweep.
SweepInv == SweepTypeOK /\ Route /\ Halt /\ Asking /\ Hearing /\ Said

\* The invariant holds at the start,
LEMMA SweepStart == SweepInit => SweepInv
PROOF
<1>. SUFFICES ASSUME SweepInit PROVE SweepInv
  OBVIOUS
<1>1. SweepTypeOK
  BY SweepTypeStart
<1>2. Reached = {} /\ passed = {} /\ server = 1 /\ sweepAt = "next" /\ sweepStop = FALSE
  BY DEF SweepInit, Reached
<1>3. Route
  BY <1>1, <1>2, ServerFacts DEF Route, OnServer, Counted
<1>4. Halt /\ Asking /\ Said
  BY DEF SweepInit, Halt, Asking, Said
<1>5. Hearing
  BY DEF SweepInit, Hearing, HeardOf
<1>. QED
  BY <1>1, <1>3, <1>4, <1>5 DEF SweepInv

\* every step keeps it,
LEMMA SweepStep == SweepInv /\ [SweepNext]_sweepVars => SweepInv'
PROOF
<1>. SUFFICES ASSUME SweepInv, [SweepNext]_sweepVars PROVE SweepInv'
  OBVIOUS
<1>1. SweepTypeOK /\ Route /\ Halt /\ Asking /\ Hearing /\ Said
  BY DEF SweepInv
<1>2. SweepTypeOK'
  BY <1>1, SweepTypeStep
<1>. QED
  BY <1>1, <1>2, RouteStep, HaltStep, AskingStep, HearingStep, SaidStep DEF SweepInv

\* so it always holds.
LEMMA SweepAlways == SweepSpec => []SweepInv
PROOF BY SweepStart, SweepStep, PTL DEF SweepSpec

\* However many servers and questions: clean only if every question was answered well, findings
\* only where one was not (check_server, LogResult.has_issues).
THEOREM VerdictsHold == SweepSpec => []VerdictsAreHeard
PROOF
<1>1. SweepInv => VerdictsAreHeard
  <2>. SUFFICES ASSUME SweepInv, NEW s \in Servers
                PROVE  /\ told[s] = "clean" => \A q \in Asked[s] : AnsweredWell(s, q)
                       /\ told[s] = "findings" => \E q \in Asked[s] : IsIssue(q, heard[s][q])
                       /\ told[s] = "asleep" => \A q \in Questions : heard[s][q] = "unasked"
    BY DEF VerdictsAreHeard, SweepInv
  <2>1. HeardOf(s) /\ \A q \in Asked[s] : q \in Questions
    BY SweepAssumption DEF SweepInv, Hearing
  <2>. QED
    BY <2>1 DEF HeardOf
<1>. QED
  BY <1>1, SweepAlways, PTL

\* For any fleet: no all-clear when a server had anything to say (run_log_sweep).
THEOREM NothingIsHidden == SweepSpec => []AllClearHidesNothing
PROOF
<1>1. SweepInv => AllClearHidesNothing
  <2>. SUFFICES ASSUME SweepInv, message = "all clear", NEW s \in Servers, NEW q \in Questions
                PROVE  heard[s][q] # "trouble"
    BY DEF AllClearHidesNothing
  <2>1. sweepAt = "end" /\ told[s] \in {"nothing", "asleep", "clean"}
    BY DEF SweepInv, Said, Clean, SweepTypeOK, SweepVerdicts
  <2>2. HeardOf(s) /\ ~OnIt(s)
    BY <2>1 DEF SweepInv, Hearing, OnIt
  <2>. QED
    BY <2>1, <2>2 DEF HeardOf, AnsweredWell
<1>. QED
  BY <1>1, SweepAlways, PTL

\* For any fleet: a sweep that was not stopped accounts for every server (run_log_sweep).
THEOREM AllAccountedFor == SweepSpec => []AllAreAccountedFor
PROOF
<1>1. SweepInv => AllAreAccountedFor
  <2>. SUFFICES ASSUME SweepInv, Counted PROVE AllAreAccountedFor
    BY DEF AllAreAccountedFor
  <2>1. /\ \A s \in Reached : s \notin notIn
        /\ saysStopped \/ server = Number + 1
        /\ \A s \in Servers \ WatchedOnly : s \in notIn \/ s \in enrolled
        /\ \A s \in Servers : s < server => s \in Reached \cup passed
    BY DEF SweepInv, Route
  <2>2. saysStopped \/ \A s \in Servers : s < server
    BY <2>1, ServerFacts DEF SweepInv
  <2>. QED
    BY <2>1, <2>2 DEF AllAreAccountedFor
<1>. QED
  BY <1>1, SweepAlways, PTL

\* For any fleet: asked to stop, it begins no other server (run_log_checks).
THEOREM SweepHalts == SweepSpec => []StopsAfterThis
PROOF
<1>1. SweepInv => StopsAfterThis
  <2>. SUFFICES ASSUME SweepInv, sweepStop, NEW s \in Reached PROVE s \in 1 .. lastOne
    BY DEF StopsAfterThis
  <2>1. s \in Servers /\ s <= lastOne
    BY DEF SweepInv, Halt, Reached
  <2>. QED
    BY <2>1, ServerFacts DEF SweepInv
<1>. QED
  BY <1>1, SweepAlways, PTL

\* For any fleet, any questions and any answers: what was heard is in the verdicts, and no
\* all-clear hides it (check_server and run_log_sweep).
THEOREM TroubleIsTold == SweepSpec => []NoTroubleIsHidden
PROOF BY VerdictsHold, NothingIsHidden, PTL DEF NoTroubleIsHidden

\* For any fleet, whoever is enrolled meanwhile: a sweep goes through the whole of it, or as
\* far as the server it was stopped at, and accounts for it (run_log_checks and run_log_sweep).
THEOREM SweepsAreComplete == SweepSpec => []SweepIsComplete
PROOF BY AllAccountedFor, SweepHalts, PTL DEF SweepIsComplete

=============================================================================
