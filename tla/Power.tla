------------------------------- MODULE Power -------------------------------
(***************************************************************************)
(* The power buttons (power.py, wol.py, and _power in web/app.py): a press *)
(* runs in a thread; a wake of a guest whose hypervisor is asleep goes on  *)
(* in a background thread that brings the hypervisor up first, and that    *)
(* one's hypervisor before it, and so on up to a machine with an address   *)
(* to send a magic packet to.                                              *)
(*                                                                         *)
(* The threads share only the set of names a chain works on, the failures, *)
(* and the machines.  A thread's `todo` is the way down from the machine   *)
(* it is bringing up to the one that was asked for.                        *)
(***************************************************************************)
EXTENDS Naturals, Sequences, FiniteSets

CONSTANTS Machines,
          Threads,
          Fleets,      \* [parent, mac, relay, onboot]: who runs on whom, who has a wake
                       \* address, through which relay, which guests start with the host
          None,
          Depth,       \* how deep wake can call itself before Python stops it (twice, at least)
          MaxPresses,  \* bound on presses of the buttons
          MaxHands     \* bound on what people do at the machines themselves

Fleet == [parent : [Machines -> Machines \cup {None}],
          mac : SUBSET Machines,
          relay : [Machines -> Machines \cup {None}],
          onboot : SUBSET Machines]

ASSUME PowerAssumption == /\ None \notin Machines
                          /\ IsFiniteSet(Machines)
                          /\ Fleets \subseteq Fleet
                          /\ Depth \in Nat \ {0, 1}
                          /\ {MaxPresses, MaxHands} \subseteq Nat

VARIABLES fleet,    \* the configuration, as every thread was handed it
          power,    \* machine -> "off", "booting" or "on"
          thread,   \* thread -> what it is doing
          waking,   \* _waking
          failed,   \* the names in _failed
          presses, hands

vars == <<fleet, power, thread, waking, failed, presses, hands>>

Idle == [at |-> "idle", op |-> "wake", todo |-> <<>>]
Target(t) == thread[t].todo[Len(thread[t].todo)]
Parent(m) == fleet.parent[m]
IsGuest(m) == Parent(m) # None
Chains == {t \in Threads : thread[t].op = "chain"}
NamesOf(t) == {Target(t), Parent(Target(t))}

CanWake(m) == m \in fleet.mac \/ IsGuest(m)

\* A bug that ButtonHasAWay finds: a guest is wakeable whatever its hypervisor is.
WakeableItself(m) == CanWake(m)

\* status._wakeable: is there a wake button?  Up the chain until a hypervisor is
\* up or nothing is above, with a guard against loops.
Wakeable(m) ==
  LET Up[i \in 0..Cardinality(Machines)] ==
        IF i = 0 THEN m ELSE IF Up[i - 1] = None THEN None ELSE Parent(Up[i - 1])
      good(i) == /\ Up[i] # None
                 /\ \/ Parent(Up[i]) = None
                    \/ power[Parent(Up[i])] = "on"
  IN \E i \in 0..Cardinality(Machines) :
       /\ good(i)
       /\ \A j \in 0..i : CanWake(Up[j])

\* A machine that goes off takes its guests with it.
Below(m) ==
  LET Under[i \in 0..Cardinality(Machines)] ==
        IF i = 0 THEN {m} ELSE Under[i - 1] \cup {g \in Machines : Parent(g) \in Under[i - 1]}
  IN Under[Cardinality(Machines)]
GoesOff(m) == power' = [x \in Machines |-> IF x \in Below(m) THEN "off" ELSE power[x]]
Begins(m) == power' = [power EXCEPT ![m] = IF @ = "off" THEN "booting" ELSE @]

(******************************** The threads ******************************)

Goto(t, at) == thread' = [thread EXCEPT ![t].at = at]
Ends(t) == thread' = [thread EXCEPT ![t] = Idle]

\* A bug that WakesEnd finds: a chain's failure is logged and not kept.
FailQuietly(t) ==
  /\ IF thread[t].op = "chain" THEN Goto(t, "leave") ELSE Ends(t)
  /\ UNCHANGED <<fleet, waking, failed, presses, hands>>

\* An exception: the press answers with it, a chain leaves it for the row.
Fail(t) ==
  /\ IF thread[t].op = "chain"
     THEN failed' = failed \cup {Target(t)} /\ Goto(t, "leave")
     ELSE Ends(t) /\ UNCHANGED failed
  /\ UNCHANGED <<fleet, waking, presses, hands>>

\* The machine at the head of `todo` has been started: it is the one asked for,
\* or the next one down has to wait for it.
Started(t) ==
  /\ IF Len(thread[t].todo) > 1 THEN Goto(t, "wait")
     ELSE IF thread[t].op = "chain" THEN Goto(t, "leave") ELSE Ends(t)
  /\ UNCHANGED <<fleet, waking, failed, presses, hands>>

Press(t) ==
  /\ thread[t] = Idle
  /\ presses < MaxPresses
  /\ \E m \in Machines, op \in {"wake", "shutdown"} :
       thread' = [thread EXCEPT ![t] = [at |-> IF op = "wake" THEN "ask" ELSE "halt",
                                        op |-> op, todo |-> <<m>>]]
  /\ presses' = presses + 1
  /\ UNCHANGED <<fleet, power, waking, failed, hands>>

At(t, at) == thread[t].at = at
Now(t) == Head(thread[t].todo)

\* wake, of a guest whose hypervisor answers.
AskRunningHost(t) ==
  /\ At(t, "ask") /\ IsGuest(Now(t)) /\ power[Parent(Now(t))] = "on"
  /\ Goto(t, "status")
  /\ UNCHANGED <<fleet, power, waking, failed, presses, hands>>

NoWayUp(t) ==
  At(t, "ask") /\ IsGuest(Now(t)) /\ power[Parent(Now(t))] # "on" /\ ~CanWake(Parent(Now(t)))

AskRefused(t) == NoWayUp(t) /\ Fail(t) /\ UNCHANGED power

AsksThrough(t) ==
  At(t, "ask") /\ IsGuest(Now(t)) /\ power[Parent(Now(t))] # "on" /\ CanWake(Parent(Now(t)))

\* The answer is "already being woken".
AskAgain(t) ==
  /\ AsksThrough(t) /\ thread[t].op = "wake"
  /\ NamesOf(t) \cap waking # {}
  /\ Ends(t)
  /\ UNCHANGED <<fleet, power, waking, failed, presses, hands>>

\* A bug that WakingIsWork finds: only the guest itself is looked up, not its hypervisor.
AskChainOfGuest(t) ==
  /\ AsksThrough(t) /\ thread[t].op = "wake"
  /\ Target(t) \notin waking
  /\ waking' = waking \cup NamesOf(t)
  /\ failed' = failed \ {Target(t)}
  /\ thread' = [thread EXCEPT ![t] = [at |-> "ask", op |-> "chain",
                                      todo |-> <<Parent(Now(t)), Now(t)>>]]
  /\ UNCHANGED <<fleet, power, presses, hands>>

\* The thread of the press is done with its answer: the chain goes on in its place.
AskChain(t) ==
  /\ AsksThrough(t) /\ thread[t].op = "wake"
  /\ NamesOf(t) \cap waking = {}
  /\ waking' = waking \cup NamesOf(t)
  /\ failed' = failed \ {Target(t)}
  /\ thread' = [thread EXCEPT ![t] = [at |-> "ask", op |-> "chain",
                                      todo |-> <<Parent(Now(t)), Now(t)>>]]
  /\ UNCHANGED <<fleet, power, presses, hands>>

\* wake calls itself for the hypervisor; hypervisors that are each other's guests
\* end in a RecursionError.
AskAbove(t) ==
  /\ AsksThrough(t) /\ thread[t].op = "chain"
  /\ IF Len(thread[t].todo) < Depth
     THEN /\ thread' = [thread EXCEPT ![t].todo = <<Parent(Now(t))>> \o @]
          /\ UNCHANGED <<fleet, waking, failed, presses, hands>>
     ELSE Fail(t)
  /\ UNCHANGED power

\* wol.wake: an address is needed, and a relay that can be logged in to.  Whether
\* the machine listens to the packet is not known.
AskPacket(t) ==
  /\ At(t, "ask") /\ ~IsGuest(Now(t))
  /\ \/ /\ Now(t) \in fleet.mac
        /\ fleet.relay[Now(t)] # None => power[fleet.relay[Now(t)]] = "on"
        /\ Begins(Now(t)) \/ UNCHANGED power
        /\ Started(t)
     \/ /\ Now(t) \notin fleet.mac \/ fleet.relay[Now(t)] # None
        /\ Fail(t) /\ UNCHANGED power

\* wait_for_host, which gives up after a while.
Wait(t) ==
  /\ At(t, "wait")
  /\ IF power[Now(t)] = "on"
     THEN Goto(t, "settle") /\ UNCHANGED <<fleet, waking, failed, presses, hands>>
     ELSE Fail(t)
  /\ UNCHANGED power

\* The guests that start with the host are waited for; a failure is not fatal.
Settle(t) ==
  /\ At(t, "settle")
  /\ thread' = [thread EXCEPT ![t].at = "status", ![t].todo = Tail(@)]
  /\ UNCHANGED <<fleet, power, waking, failed, presses, hands>>

\* _start_guest: `qm status`, and `qm start` unless it runs.  Each of the two asks
\* first whether the hypervisor is up, and each may fail.
Status(t) ==
  /\ At(t, "status")
  /\ \/ /\ power[Parent(Now(t))] = "on"
        /\ IF power[Now(t)] = "off"
           THEN Goto(t, "start") /\ UNCHANGED <<fleet, waking, failed, presses, hands>>
           ELSE Started(t)
     \/ Fail(t)
  /\ UNCHANGED power

StartVm(t) ==
  /\ At(t, "start")
  /\ \/ /\ power[Parent(Now(t))] = "on" /\ power[Now(t)] = "off"
        /\ Begins(Now(t)) /\ Started(t)
     \/ Fail(t) /\ UNCHANGED power

\* The `finally` of _run_chain.
Leave(t) ==
  /\ At(t, "leave")
  /\ waking' = waking \ NamesOf(t)
  /\ Ends(t)
  /\ UNCHANGED <<fleet, power, failed, presses, hands>>

\* shutdown: a guest through its hypervisor, anything else over its own SSH.
Halt(t) ==
  /\ At(t, "halt")
  /\ \/ /\ power[Now(t)] = "on"
        /\ IsGuest(Now(t)) => power[Parent(Now(t))] = "on"
        /\ GoesOff(Now(t))
     \/ UNCHANGED power
  /\ Fail(t)

(************************ The machines and their people ********************)

\* A machine is up; its guests that start by themselves begin to.
BootEnds ==
  \E m \in Machines :
    /\ power[m] = "booting"
    /\ \E also \in SUBSET {g \in fleet.onboot : Parent(g) = m} :
         power' = [x \in Machines |-> IF x = m THEN "on"
                                      ELSE IF x \in also /\ power[x] = "off" THEN "booting"
                                      ELSE power[x]]
    /\ UNCHANGED <<fleet, thread, waking, failed, presses, hands>>

Hand ==
  \E m \in Machines :
    /\ hands < MaxHands
    /\ hands' = hands + 1
    /\ \/ power[m] # "off" /\ GoesOff(m)
       \/ /\ power[m] = "off" /\ (IsGuest(m) => power[Parent(m)] = "on")
          /\ Begins(m)
    /\ UNCHANGED <<fleet, thread, waking, failed, presses>>

\* failures: a failure is shown for a while.
Expire ==
  \E m \in failed :
    /\ failed' = failed \ {m}
    /\ UNCHANGED <<fleet, power, thread, waking, presses, hands>>

(********************************** The whole ******************************)

Init == /\ fleet \in Fleets
        /\ \E up \in SUBSET Machines :
             /\ \A m \in up : fleet.parent[m] \in up \cup {None}
             /\ power = [m \in Machines |-> IF m \in up THEN "on" ELSE "off"]
        /\ thread = [t \in Threads |-> Idle]
        /\ waking = {} /\ failed = {}
        /\ presses = 0 /\ hands = 0

Step(t) == \/ AskRunningHost(t) \/ AskRefused(t) \/ AskAgain(t) \/ AskChain(t) \/ AskAbove(t)
           \/ AskPacket(t) \/ Wait(t) \/ Settle(t) \/ Status(t) \/ StartVm(t) \/ Leave(t) \/ Halt(t)

Next == \/ \E t \in Threads : Press(t) \/ Step(t)
        \/ BootEnds \/ Hand \/ Expire

\* A thread goes on: every wait has a deadline, and the commands end.
Spec == Init /\ [][Next]_vars /\ \A t \in Threads : WF_vars(Step(t))

(******************************* Properties ********************************)

TypeOK ==
  /\ fleet \in Fleets
  /\ power \in [Machines -> {"off", "booting", "on"}]
  /\ DOMAIN thread = Threads
  /\ \A t \in Threads :
       /\ thread[t].at \in {"idle", "ask", "wait", "settle", "status", "start", "leave", "halt"}
       /\ thread[t].op \in {"wake", "chain", "shutdown"}
       /\ thread[t].todo \in Seq(Machines) /\ Len(thread[t].todo) <= Depth
       /\ thread[t].todo = <<>> <=> thread[t] = Idle
  /\ waking \subseteq Machines /\ failed \subseteq Machines
  /\ presses \in 0..MaxPresses /\ hands \in 0..MaxHands

\* The rows shown as waking are exactly the ones a chain works on, and no machine is
\* worked on as a guest or as its hypervisor by two of them: two would send `qm start`
\* for each other's machines, and the first to end would clear the other's rows.
\* (And every variable keeps to its type.)
WakingIsWork ==
  /\ TypeOK
  /\ waking = UNION {NamesOf(t) : t \in Chains}
  /\ \A t, u \in Chains : t # u => NamesOf(t) \cap NamesOf(u) = {}

\* A button that the page shows is not refused for want of a way: when the machines
\* are as the page saw them, the way up from a wakeable machine ends at a hypervisor
\* that is up or at an address, so no chain begun from its button meets a machine that
\* Timar cannot wake, or goes round.
ButtonHasAWay ==
  \A t \in Threads :
    /\ At(t, "ask")
    /\ Wakeable(Target(t))
    => /\ ~NoWayUp(t)
       /\ Len(thread[t].todo) <= Cardinality(Machines)

\* Nothing is kept waking for ever, whatever happens to the machines meanwhile, also
\* not by hypervisors that are each other's guests.
NotForEver == \A m \in Machines : (m \in waking) ~> (m \notin waking)

\* A guest that was asked for through its hypervisor is started, or the row says that
\* it failed: the answer to the press was given long before.
StartedOrTold ==
  \A m \in Machines :
    (\E t \in Chains : Target(t) = m /\ ~At(t, "leave")) ~> (power[m] # "off" \/ m \in failed)

\* A wake comes to an end, and to one that can be seen.
WakesEnd == NotForEver /\ StartedOrTold
=============================================================================
