----------------------------- MODULE PowerProofs -----------------------------
(***************************************************************************)
(* The invariants of Power, for any fleets of finitely many machines, any  *)
(* threads and presses.                                                    *)
(*                                                                         *)
(* That two chains share no machine follows from the set of names a chain  *)
(* works on only if that set is the chains', no more and no less, which    *)
(* needs to know that a chain keeps its target while it climbs and comes   *)
(* down, and that nothing but a chain gets to `leave`.                     *)
(*                                                                         *)
(* That a button has a way needs to know that what a chain has above its   *)
(* target is the way Wakeable looks along, that a guest that is not off    *)
(* has its hypervisor up, and that machines which run on each other and    *)
(* are off stay off.                                                       *)
(***************************************************************************)
EXTENDS Power, FiniteSetTheorems, WellFoundedInduction, TLAPS

Row == [at : {"idle", "ask", "wait", "settle", "status", "start", "leave", "halt"},
        op : {"wake", "chain", "shutdown"}, todo : Seq(Machines)]

LastOf(row) == row.todo[Len(row.todo)]
NamesIn(row) == {LastOf(row), fleet.parent[LastOf(row)]}

\* What a thread's row says wherever it is.
Good(row) ==
  /\ row \in Row
  /\ Len(row.todo) <= Depth
  /\ row.todo = <<>> <=> row = Idle
  /\ row.at \in {"wait", "settle"} => Len(row.todo) > 1
  /\ row.at = "leave" => row.op = "chain"
  /\ row.op # "chain" => Len(row.todo) <= 1
  /\ row.op = "chain" => fleet.parent[LastOf(row)] \in Machines

Types ==
  /\ fleet \in Fleets
  /\ power \in [Machines -> {"off", "booting", "on"}]
  /\ failed \subseteq Machines
  /\ presses \in 0..MaxPresses /\ hands \in 0..MaxHands

Rows == thread \in [Threads -> Row] /\ \A t \in Threads : Good(thread[t])

Chain(t) == thread[t].op = "chain"
Apart ==
  /\ \A m : m \in waking <=> \E t \in Threads : Chain(t) /\ m \in NamesIn(thread[t])
  /\ \A t, u \in Threads :
       Chain(t) /\ Chain(u) /\ t # u => NamesIn(thread[t]) \cap NamesIn(thread[u]) = {}

Kept == Rows /\ Apart
IInv == Types /\ Kept

\* The fleet is one of those of the model.
LEMMA FleetType ==
  ASSUME Types
  PROVE  /\ fleet.parent \in [Machines -> Machines \cup {None}]
         /\ fleet.onboot \subseteq Machines
BY PowerAssumption DEF Types, Fleet

\* A thread's row changes, and neither does what it is for nor what it is a chain of.
LEMMA MoveKeeps ==
  ASSUME Kept, NEW t \in Threads, NEW row, Good(row),
         thread' = [thread EXCEPT ![t] = row], UNCHANGED <<fleet, waking>>,
         row.op = "chain" <=> Chain(t),
         Chain(t) => LastOf(row) = LastOf(thread[t])
  PROVE  Kept'
<1>1. thread' \in [Threads -> Row]
  BY DEF Kept, Rows, Good
<1>2. thread'[t] = row /\ \A u \in Threads \ {t} : thread'[u] = thread[u]
  BY DEF Kept, Rows
<1>3. \A r : Good(r)' <=> Good(r)
  BY DEF Good, LastOf
<1>4. Rows'
  BY <1>1, <1>2, <1>3 DEF Kept, Rows
<1>5. \A u \in Threads : Chain(u)' <=> Chain(u)
  BY <1>2 DEF Chain
<1>6. \A u \in Threads : Chain(u) => NamesIn(thread[u])' = NamesIn(thread[u])
  BY <1>2 DEF NamesIn, LastOf
<1>7. Apart'
  BY <1>5, <1>6 DEF Kept, Apart
<1> QED
  BY <1>4, <1>7 DEF Kept

\* What is true of a thread that is not idle.
LEMMA BusyIs ==
  ASSUME Rows, NEW t \in Threads, thread[t].at # "idle"
  PROVE  /\ Good(thread[t]) /\ thread[t].todo \in Seq(Machines)
         /\ thread[t].todo # <<>> /\ Len(thread[t].todo) \in Nat \ {0}
         /\ Now(t) \in Machines /\ Target(t) \in Machines /\ Target(t) = LastOf(thread[t])
         /\ ~Chain(t) => thread[t].todo = <<Now(t)>> /\ Target(t) = Now(t)
<1>1. Good(thread[t]) /\ thread[t] # Idle
  BY DEF Rows, Idle
<1>2. thread[t].todo \in Seq(Machines) /\ thread[t].todo # <<>>
  BY <1>1 DEF Good, Row
<1>3. Len(thread[t].todo) \in Nat \ {0}
  BY <1>2
<1>4. Now(t) \in Machines /\ Target(t) \in Machines /\ Target(t) = LastOf(thread[t])
  <2>1. \A s \in Seq(Machines) : s # <<>> => Head(s) \in Machines /\ s[Len(s)] \in Machines
    OBVIOUS
  <2> QED
    BY <1>2, <2>1 DEF Now, Target, LastOf
<1>5. ASSUME ~Chain(t) PROVE thread[t].todo = <<Now(t)>> /\ Target(t) = Now(t)
  <2>1. Len(thread[t].todo) <= 1
    BY <1>1, <1>5 DEF Good, Chain
  <2>2. Len(thread[t].todo) = 1
    <3>1. \A n \in Nat \ {0} : n <= 1 => n = 1
      OBVIOUS
    <3> QED
      BY <1>3, <2>1, <3>1
  <2> QED
    BY <1>2, <2>2 DEF Now, Target
<1> QED
  BY <1>1, <1>2, <1>3, <1>4, <1>5

\* A thread goes on to another place with the same work.
LEMMA GotoKeeps ==
  ASSUME Kept, NEW t \in Threads, thread[t].at # "idle",
         NEW at \in {"wait", "settle", "status", "start", "leave"}, Goto(t, at),
         UNCHANGED <<fleet, waking>>,
         at \in {"wait", "settle"} => Len(thread[t].todo) > 1,
         at = "leave" => Chain(t)
  PROVE  Kept'
<1> DEFINE row == [thread[t] EXCEPT !.at = at]
<1>1. Good(thread[t]) /\ thread[t].todo # <<>>
  BY BusyIs DEF Kept
<1>2. /\ row \in Row /\ row.at = at /\ row.op = thread[t].op
      /\ row.todo = thread[t].todo
  BY <1>1 DEF Good, Row
<1>3. thread' = [thread EXCEPT ![t] = row]
  BY DEF Goto, Kept, Rows
<1> HIDE DEF row
<1>4. LastOf(row) = LastOf(thread[t])
  BY <1>2 DEF LastOf
<1>5. row # Idle
  BY <1>1, <1>2 DEF Idle
<1>6. Good(row)
  BY <1>1, <1>2, <1>4, <1>5 DEF Good, Chain
<1> QED
  BY <1>2, <1>3, <1>4, <1>6, MoveKeeps DEF Chain

\* A press has its answer.
LEMMA EndsKeeps ==
  ASSUME Kept, NEW t \in Threads, ~Chain(t), Ends(t), UNCHANGED <<fleet, waking>>
  PROVE  Kept'
<1>1. Idle \in Row /\ Idle.op = "wake" /\ Idle.todo = <<>> /\ Idle.at = "idle"
  BY DEF Idle, Row
<1>2. Good(Idle)
  BY <1>1, PowerAssumption DEF Good
<1> QED
  BY <1>1, <1>2, MoveKeeps DEF Ends

LEMMA FailKeeps ==
  ASSUME Kept, NEW t \in Threads, thread[t].at # "idle", Fail(t)
  PROVE  Kept' /\ UNCHANGED <<fleet, presses, hands>>
         /\ (failed \subseteq Machines => failed' \subseteq Machines)
<1>1. CASE Chain(t)
  <2>1. Goto(t, "leave") /\ failed' = failed \cup {Target(t)}
        /\ UNCHANGED <<fleet, waking, presses, hands>>
    BY <1>1 DEF Fail, Chain
  <2> QED
    BY <1>1, <2>1, GotoKeeps, BusyIs DEF Kept
<1>2. CASE ~Chain(t)
  <2>1. Ends(t) /\ UNCHANGED <<fleet, waking, failed, presses, hands>>
    BY <1>2 DEF Fail, Chain
  <2> QED
    BY <1>2, <2>1, EndsKeeps
<1> QED
  BY <1>1, <1>2

LEMMA StartedKeeps ==
  ASSUME Kept, NEW t \in Threads, thread[t].at # "idle", Started(t)
  PROVE  Kept' /\ UNCHANGED <<fleet, failed, presses, hands>>
<1>1. CASE Len(thread[t].todo) > 1
  BY <1>1, GotoKeeps DEF Started
<1>2. CASE ~(Len(thread[t].todo) > 1) /\ Chain(t)
  BY <1>2, GotoKeeps DEF Started, Chain
<1>3. CASE ~(Len(thread[t].todo) > 1) /\ ~Chain(t)
  BY <1>3, EndsKeeps DEF Started, Chain
<1> QED
  BY <1>1, <1>2, <1>3

LEMMA PowerType ==
  ASSUME Types, NEW m
  PROVE  /\ Begins(m) => power' \in [Machines -> {"off", "booting", "on"}]
         /\ GoesOff(m) => power' \in [Machines -> {"off", "booting", "on"}]
         /\ UNCHANGED power => power' \in [Machines -> {"off", "booting", "on"}]
BY DEF Types, Begins, GoesOff

\* A press of a button begins a thread's work.
LEMMA PressKeeps ==
  ASSUME IInv, NEW t \in Threads, Press(t)
  PROVE  IInv'
<1>1. PICK m \in Machines, op \in {"wake", "shutdown"} :
        thread' = [thread EXCEPT ![t] = [at |-> IF op = "wake" THEN "ask" ELSE "halt",
                                         op |-> op, todo |-> <<m>>]]
  BY DEF Press
<1> DEFINE row == [at |-> IF op = "wake" THEN "ask" ELSE "halt", op |-> op, todo |-> <<m>>]
<1>2. row \in Row /\ row.op = op /\ row.todo = <<m>> /\ row.at \in {"ask", "halt"}
  BY DEF Row
<1>3. Len(<<m>>) = 1 /\ <<m>> # <<>>
  OBVIOUS
<1>4. ~Chain(t)
  BY DEF Press, Idle, Chain
<1>5. thread' = [thread EXCEPT ![t] = row]
  BY <1>1
<1> HIDE DEF row
<1>6. row # Idle
  BY <1>2, <1>3 DEF Idle
<1>7. Good(row)
  BY <1>2, <1>3, <1>6, PowerAssumption DEF Good
<1>8. UNCHANGED <<fleet, power, waking, failed, hands>> /\ presses' \in 0..MaxPresses
  BY PowerAssumption DEF Press, IInv, Types
<1>9. Kept'
  BY <1>2, <1>4, <1>5, <1>7, <1>8, MoveKeeps DEF IInv
<1> QED
  BY <1>8, <1>9 DEF IInv, Types

\* The answers to a press that end it or pass it on, with the machines as they are.
LEMMA AskKeeps ==
  ASSUME IInv, NEW t \in Threads, AskRunningHost(t) \/ AskRefused(t) \/ AskAgain(t)
  PROVE  IInv'
<1>1. Kept /\ thread[t].at # "idle"
  BY DEF IInv, AskRunningHost, AskRefused, AskAgain, AsksThrough, NoWayUp, At
<1>2. CASE AskRunningHost(t)
  <2>1. Goto(t, "status") /\ UNCHANGED <<fleet, power, waking, failed, presses, hands>>
    BY <1>2 DEF AskRunningHost
  <2>2. Kept'
    BY <1>1, <2>1, GotoKeeps
  <2> QED
    BY <2>1, <2>2 DEF IInv, Types
<1>3. CASE AskRefused(t)
  <2>1. Fail(t) /\ UNCHANGED power
    BY <1>3 DEF AskRefused
  <2>2. Kept' /\ UNCHANGED <<fleet, presses, hands>> /\ (failed \subseteq Machines => failed' \subseteq Machines)
    BY <1>1, <2>1, FailKeeps
  <2> QED
    BY <2>1, <2>2 DEF IInv, Types
<1>4. CASE AskAgain(t)
  <2>1. Ends(t) /\ UNCHANGED <<fleet, power, waking, failed, presses, hands>> /\ ~Chain(t)
    BY <1>4 DEF AskAgain, Chain
  <2>2. Kept'
    BY <1>1, <2>1, EndsKeeps
  <2> QED
    BY <2>1, <2>2 DEF IInv, Types
<1> QED
  BY <1>2, <1>3, <1>4

\* A chain begins with names that nobody works on.
LEMMA AskChainKeeps ==
  ASSUME IInv, NEW t \in Threads, AskChain(t)
  PROVE  IInv'
<1> DEFINE g == Now(t)
           h == Parent(g)
           row == [at |-> "ask", op |-> "chain", todo |-> <<h, g>>]
<1>1. /\ thread[t].at # "idle" /\ ~Chain(t) /\ IsGuest(g)
      /\ NamesOf(t) \cap waking = {}
      /\ waking' = waking \cup NamesOf(t)
      /\ failed' = failed \ {Target(t)}
      /\ thread' = [thread EXCEPT ![t] = row]
      /\ UNCHANGED <<fleet, power, presses, hands>>
  BY DEF AskChain, AsksThrough, At, Chain
<1>2. g \in Machines /\ Target(t) = g
  BY <1>1, BusyIs DEF IInv, Kept
<1>3. fleet.parent[g] \in Machines \cup {None}
  BY <1>2, FleetType DEF IInv
<1>4. h \in Machines /\ h = fleet.parent[g]
  BY <1>1, <1>3 DEF IsGuest, Parent
<1>5. NamesOf(t) = {g, h}
  BY <1>2 DEF NamesOf
<1> HIDE DEF g, h
<1>6. <<h, g>> \in Seq(Machines) /\ Len(<<h, g>>) = 2 /\ <<h, g>>[2] = g /\ <<h, g>> # <<>>
  BY <1>2, <1>4
<1>7. row \in Row /\ row.op = "chain" /\ row.todo = <<h, g>> /\ row.at = "ask"
  BY <1>6 DEF Row
<1> HIDE DEF row
<1>8. LastOf(row) = g /\ NamesIn(row) = {g, h}
  BY <1>4, <1>6, <1>7 DEF LastOf, NamesIn
<1>9. row # Idle
  BY <1>6, <1>7 DEF Idle
<1>d. 2 <= Depth
  BY PowerAssumption
<1>10. Good(row)
  BY <1>4, <1>6, <1>7, <1>8, <1>9, <1>d DEF Good
<1>11. thread'[t] = row /\ \A u \in Threads \ {t} : thread'[u] = thread[u]
  BY <1>1 DEF IInv, Kept, Rows
<1>12. \A r : (Good(r)' <=> Good(r)) /\ NamesIn(r)' = NamesIn(r)
  BY <1>1 DEF Good, LastOf, NamesIn
<1>13. thread' \in [Threads -> Row]
  BY <1>1, <1>7 DEF IInv, Kept, Rows
<1>14. Rows'
  BY <1>10, <1>11, <1>12, <1>13 DEF IInv, Kept, Rows
<1>15. /\ Chain(t)' /\ NamesIn(thread[t])' = {g, h}
       /\ \A u \in Threads \ {t} : (Chain(u)' <=> Chain(u)) /\ NamesIn(thread[u])' = NamesIn(thread[u])
  BY <1>1, <1>7, <1>8, <1>11 DEF Chain, NamesIn, LastOf
<1>16. \A u \in Threads : Chain(u) => NamesIn(thread[u]) \cap {g, h} = {}
  BY <1>1, <1>5 DEF IInv, Kept, Apart
<1>17. Apart'
  <2>1. \A m : m \in waking' <=> \E u \in Threads : Chain(u)' /\ m \in NamesIn(thread[u])'
    BY <1>1, <1>5, <1>15 DEF IInv, Kept, Apart
  <2>2. ASSUME NEW u \in Threads, NEW v \in Threads, Chain(u)', Chain(v)', u # v
        PROVE  NamesIn(thread[u])' \cap NamesIn(thread[v])' = {}
    <3>1. CASE u = t
      BY <1>15, <1>16, <2>2, <3>1
    <3>2. CASE v = t
      BY <1>15, <1>16, <2>2, <3>2
    <3>3. CASE u # t /\ v # t
      BY <1>15, <2>2, <3>3 DEF IInv, Kept, Apart
    <3> QED
      BY <3>1, <3>2, <3>3
  <2> QED
    BY <2>1, <2>2 DEF Apart
<1> QED
  BY <1>1, <1>14, <1>17 DEF IInv, Kept, Types

\* A chain climbs, and its target stays the last of its work.
LEMMA AskAboveKeeps ==
  ASSUME IInv, NEW t \in Threads, AskAbove(t)
  PROVE  IInv'
<1> DEFINE todo == thread[t].todo
           more == <<Parent(Now(t))>> \o todo
           row == [thread[t] EXCEPT !.todo = more]
<1>1. thread[t].at # "idle" /\ thread[t].at = "ask" /\ Chain(t) /\ IsGuest(Now(t)) /\ UNCHANGED power
  BY DEF AskAbove, AsksThrough, At, Chain
<1>2. /\ Good(thread[t]) /\ todo \in Seq(Machines) /\ todo # <<>> /\ Now(t) \in Machines
  BY <1>1, BusyIs DEF IInv, Kept
<1>3. CASE Len(todo) < Depth
  <2>1. thread' = [thread EXCEPT ![t] = row] /\ UNCHANGED <<fleet, waking, failed, presses, hands>>
    BY <1>3 DEF AskAbove, IInv, Kept, Rows
  <2>2. Parent(Now(t)) \in Machines
    BY <1>1, <1>2, FleetType DEF IsGuest, Parent, IInv
  <2> HIDE DEF todo
  <2>3. /\ more \in Seq(Machines) /\ Len(more) = Len(todo) + 1
        /\ more[Len(more)] = todo[Len(todo)] /\ more # <<>>
    BY <1>2, <2>2
  <2> HIDE DEF more
  <2>4. row \in Row /\ row.op = "chain" /\ row.at = "ask" /\ row.todo = more
    BY <1>1, <1>2, <2>3 DEF Good, Row, Chain
  <2> HIDE DEF row
  <2>5. LastOf(row) = LastOf(thread[t])
    BY <2>3, <2>4 DEF LastOf, todo
  <2>6. row # Idle
    BY <2>3, <2>4 DEF Idle
  <2>7. Len(more) <= Depth
    BY <1>2, <1>3, <2>3, PowerAssumption
  <2>8. Good(row)
    BY <1>1, <1>2, <2>3, <2>4, <2>5, <2>6, <2>7 DEF Good, Chain
  <2>9. Kept'
    BY <1>1, <2>1, <2>4, <2>5, <2>8, MoveKeeps DEF IInv
  <2> QED
    BY <1>1, <2>1, <2>9 DEF IInv, Types
<1>4. CASE ~(Len(todo) < Depth)
  <2>1. Fail(t)
    BY <1>4 DEF AskAbove
  <2>2. Kept' /\ UNCHANGED <<fleet, presses, hands>> /\ (failed \subseteq Machines => failed' \subseteq Machines)
    BY <1>1, <2>1, FailKeeps DEF IInv
  <2> QED
    BY <1>1, <2>2 DEF IInv, Types
<1> QED
  BY <1>3, <1>4

\* A thread starts a machine, or fails to.
LEMMA StartKeeps ==
  ASSUME IInv, NEW t \in Threads,
         AskPacket(t) \/ Status(t) \/ StartVm(t) \/ Wait(t) \/ Halt(t)
  PROVE  IInv'
<1>1. Kept /\ Types /\ thread[t].at # "idle"
  BY DEF IInv, AskPacket, Status, StartVm, Wait, Halt, At
<1>2. \/ Fail(t) \/ Started(t)
      \/ Goto(t, "start") /\ UNCHANGED <<fleet, waking, failed, presses, hands>>
      \/ /\ thread[t].at = "wait" /\ Goto(t, "settle")
         /\ UNCHANGED <<fleet, waking, failed, presses, hands>>
  BY DEF AskPacket, Status, StartVm, Wait, Halt, At
<1>3. UNCHANGED power \/ \E m : Begins(m) \/ GoesOff(m)
  BY DEF AskPacket, Status, StartVm, Wait, Halt
<1>4. power' \in [Machines -> {"off", "booting", "on"}]
  BY <1>1, <1>3, PowerType
<1>5. Kept' /\ UNCHANGED <<fleet, presses, hands>> /\ failed' \subseteq Machines
  <2>1. CASE Fail(t)
    BY <1>1, <2>1, FailKeeps DEF Types
  <2>2. CASE Started(t)
    BY <1>1, <2>2, StartedKeeps DEF Types
  <2>3. CASE Goto(t, "start") /\ UNCHANGED <<fleet, waking, failed, presses, hands>>
    BY <1>1, <2>3, GotoKeeps DEF Types
  <2>4. CASE /\ thread[t].at = "wait" /\ Goto(t, "settle")
             /\ UNCHANGED <<fleet, waking, failed, presses, hands>>
    <3>1. Len(thread[t].todo) > 1
      BY <1>1, <2>4 DEF Kept, Rows, Good
    <3> QED
      BY <1>1, <2>4, <3>1, GotoKeeps DEF Types
  <2> QED
    BY <1>2, <2>1, <2>2, <2>3, <2>4
<1> QED
  BY <1>1, <1>4, <1>5 DEF IInv, Types

\* A chain comes down by one machine, which is not its last.
LEMMA SettleKeeps ==
  ASSUME IInv, NEW t \in Threads, Settle(t)
  PROVE  IInv'
<1> DEFINE todo == thread[t].todo
           less == Tail(todo)
           row == [thread[t] EXCEPT !.at = "status", !.todo = less]
<1>1. thread[t].at = "settle" /\ UNCHANGED <<fleet, power, waking, failed, presses, hands>>
  BY DEF Settle, At
<1>2. Good(thread[t]) /\ todo \in Seq(Machines) /\ thread[t] \in Row
  BY <1>1, BusyIs DEF IInv, Kept, Good
<1>3. Len(todo) > 1 /\ Len(todo) <= Depth /\ Chain(t)
  BY <1>1, <1>2 DEF Good, Chain
<1>4. thread' = [thread EXCEPT ![t] = row]
  BY DEF Settle, IInv, Kept, Rows
<1> HIDE DEF todo
<1>5. /\ less \in Seq(Machines) /\ Len(less) = Len(todo) - 1
      /\ less[Len(less)] = todo[Len(todo)] /\ less # <<>>
  <2>1. ASSUME NEW seq \in Seq(Machines), Len(seq) > 1
        PROVE  /\ Tail(seq) \in Seq(Machines) /\ Len(Tail(seq)) = Len(seq) - 1
               /\ Tail(seq)[Len(seq) - 1] = seq[Len(seq)]
    BY <2>1
  <2>2. less \in Seq(Machines) /\ Len(less) = Len(todo) - 1
        /\ less[Len(todo) - 1] = todo[Len(todo)]
    BY <1>2, <1>3, <2>1
  <2>3. Len(todo) \in Nat /\ Len(todo) > 1
    BY <1>2, <1>3
  <2> DEFINE n == Len(todo)
  <2> HIDE DEF n, less
  <2>4. n \in Nat /\ n > 1 /\ Len(less) = n - 1
    BY <2>2, <2>3 DEF n
  <2>5. Len(less) > 0
    BY <2>4
  <2>6. less # <<>>
    BY <2>2, <2>5
  <2> QED
    BY <2>2, <2>6
<1> HIDE DEF less
<1>6. row \in Row /\ row.op = thread[t].op /\ row.at = "status" /\ row.todo = less
  BY <1>2, <1>5 DEF Row
<1> HIDE DEF row
<1>7. LastOf(row) = LastOf(thread[t])
  BY <1>5, <1>6 DEF LastOf, todo
<1>8. row # Idle
  BY <1>5, <1>6 DEF Idle
<1>9. Len(less) <= Depth
  BY <1>2, <1>3, <1>5, PowerAssumption
<1>10. Good(row)
  BY <1>2, <1>3, <1>5, <1>6, <1>7, <1>8, <1>9 DEF Good, Chain
<1>11. Kept'
  BY <1>1, <1>3, <1>4, <1>6, <1>7, <1>10, MoveKeeps DEF IInv, Chain
<1> QED
  BY <1>1, <1>11 DEF IInv, Types

\* A chain ends and takes its names with it, and nobody else's.
LEMMA LeaveKeeps ==
  ASSUME IInv, NEW t \in Threads, Leave(t)
  PROVE  IInv'
<1>1. /\ thread[t].at = "leave" /\ waking' = waking \ NamesOf(t)
      /\ thread' = [thread EXCEPT ![t] = Idle]
      /\ UNCHANGED <<fleet, power, failed, presses, hands>>
  BY DEF Leave, At, Ends
<1>2. Good(thread[t]) /\ Target(t) = LastOf(thread[t])
  BY <1>1, BusyIs DEF IInv, Kept
<1>3. Chain(t) /\ NamesOf(t) = NamesIn(thread[t])
  BY <1>1, <1>2 DEF Good, Chain, NamesOf, NamesIn, Parent
<1>4. Idle \in Row /\ Idle.op = "wake" /\ Idle.todo = <<>> /\ Idle.at = "idle"
  BY DEF Idle, Row
<1>5. Good(Idle)
  BY <1>4, PowerAssumption DEF Good
<1>6. thread'[t] = Idle /\ \A u \in Threads \ {t} : thread'[u] = thread[u]
  BY <1>1 DEF IInv, Kept, Rows
<1>7. \A r : Good(r)' <=> Good(r)
  BY <1>1 DEF Good, LastOf
<1>8. thread' \in [Threads -> Row]
  BY <1>1, <1>4 DEF IInv, Kept, Rows
<1>9. Rows'
  BY <1>5, <1>6, <1>7, <1>8 DEF IInv, Kept, Rows
<1>10. /\ ~Chain(t)'
       /\ \A u \in Threads \ {t} : (Chain(u)' <=> Chain(u)) /\ NamesIn(thread[u])' = NamesIn(thread[u])
  BY <1>1, <1>4, <1>6 DEF Chain, NamesIn, LastOf
<1>11. \A u \in Threads \ {t} : Chain(u) => NamesIn(thread[u]) \cap NamesOf(t) = {}
  BY <1>3 DEF IInv, Kept, Apart
<1>12. Apart'
  <2>1. \A m : m \in waking' <=> \E u \in Threads : Chain(u)' /\ m \in NamesIn(thread[u])'
    BY <1>1, <1>3, <1>10, <1>11 DEF IInv, Kept, Apart
  <2>2. \A u, v \in Threads : Chain(u)' /\ Chain(v)' /\ u # v
                                => NamesIn(thread[u])' \cap NamesIn(thread[v])' = {}
    BY <1>10 DEF IInv, Kept, Apart
  <2> QED
    BY <2>1, <2>2 DEF Apart
<1> QED
  BY <1>1, <1>9, <1>12 DEF IInv, Kept, Types

\* The machines and their people, and the failures that are shown long enough.
LEMMA OutsideKeeps ==
  ASSUME IInv, BootEnds \/ Hand \/ Expire \/ UNCHANGED vars
  PROVE  IInv'
<1>1. UNCHANGED <<fleet, thread, waking>>
  BY DEF BootEnds, Hand, Expire, vars
<1>2. Kept'
  BY <1>1 DEF IInv, Kept, Rows, Apart, Good, LastOf, NamesIn, Chain
<1>3. power' \in [Machines -> {"off", "booting", "on"}]
  <2>1. CASE BootEnds
    BY <2>1 DEF BootEnds, IInv, Types
  <2>2. CASE Hand
    <3>1. \E m : Begins(m) \/ GoesOff(m)
      BY <2>2 DEF Hand
    <3> QED
      BY <3>1, PowerType DEF IInv
  <2>3. CASE Expire \/ UNCHANGED vars
    BY <2>3 DEF Expire, vars, IInv, Types
  <2> QED
    BY <2>1, <2>2, <2>3
<1>4. failed' \subseteq Machines /\ presses' \in 0..MaxPresses /\ hands' \in 0..MaxHands
  BY PowerAssumption DEF BootEnds, Hand, Expire, vars, IInv, Types
<1> QED
  BY <1>1, <1>2, <1>3, <1>4 DEF IInv, Types

LEMMA InitHolds ==
  ASSUME Init
  PROVE  IInv
<1>1. Idle \in Row /\ Idle.op = "wake" /\ Idle.todo = <<>> /\ Idle.at = "idle"
  BY DEF Idle, Row
<1>2. Good(Idle)
  BY <1>1, PowerAssumption DEF Good
<1>3. thread = [t \in Threads |-> Idle]
  BY DEF Init
<1>4. Rows
  BY <1>1, <1>2, <1>3 DEF Rows
<1>5. Apart
  BY <1>1, <1>3 DEF Apart, Chain, Init
<1>6. Types
  BY PowerAssumption DEF Types, Init
<1> QED
  BY <1>4, <1>5, <1>6 DEF IInv, Kept

LEMMA StepHolds ==
  ASSUME IInv, [Next]_vars
  PROVE  IInv'
<1>1. ASSUME NEW t \in Threads, Press(t)
      PROVE  IInv'
  BY <1>1, PressKeeps
<1>2. ASSUME NEW t \in Threads, Step(t)
      PROVE  IInv'
  BY <1>2, AskKeeps, AskChainKeeps, AskAboveKeeps, StartKeeps, SettleKeeps, LeaveKeeps DEF Step
<1>3. CASE BootEnds \/ Hand \/ Expire \/ UNCHANGED vars
  BY <1>3, OutsideKeeps
<1> QED
  BY <1>1, <1>2, <1>3 DEF Next

LEMMA InvImplies ==
  ASSUME IInv
  PROVE  WakingIsWork
<1>1. \A t \in Threads : Good(thread[t]) /\ thread[t] \in Row
  BY DEF IInv, Kept, Rows, Good
<1>2. ASSUME NEW t \in Threads, thread[t].op = "chain"
      PROVE  NamesOf(t) = NamesIn(thread[t]) /\ NamesOf(t) \subseteq Machines
  <2>1. thread[t].at # "idle" \/ thread[t].todo # <<>>
    BY <1>1, <1>2 DEF Good, Idle
  <2>2. Target(t) = LastOf(thread[t]) /\ LastOf(thread[t]) \in Machines
    <3>1. thread[t].todo \in Seq(Machines) /\ thread[t].todo # <<>>
      BY <1>1, <1>2 DEF Good, Row, Idle
    <3> QED
      BY <3>1 DEF Target, LastOf
  <2>3. fleet.parent[LastOf(thread[t])] \in Machines
    BY <1>1, <1>2 DEF Good
  <2> QED
    BY <2>2, <2>3 DEF NamesOf, NamesIn, Parent
<1>3. waking \subseteq Machines
  BY <1>2 DEF IInv, Kept, Apart, Chain
<1>4. TypeOK
  <2>1. DOMAIN thread = Threads
    BY DEF IInv, Kept, Rows
  <2>2. ASSUME NEW t \in Threads
        PROVE  /\ thread[t].at \in {"idle", "ask", "wait", "settle", "status", "start", "leave", "halt"}
               /\ thread[t].op \in {"wake", "chain", "shutdown"}
               /\ thread[t].todo \in Seq(Machines) /\ Len(thread[t].todo) <= Depth
               /\ thread[t].todo = <<>> <=> thread[t] = Idle
    BY <1>1 DEF Good, Row
  <2> QED
    BY <1>3, <2>1, <2>2 DEF TypeOK, IInv, Types
<1>5. waking = UNION {NamesOf(t) : t \in Chains}
  BY <1>2 DEF IInv, Kept, Apart, Chain, Chains
<1>6. \A t, u \in Chains : t # u => NamesOf(t) \cap NamesOf(u) = {}
  BY <1>2 DEF IInv, Kept, Apart, Chain, Chains
<1> QED
  BY <1>4, <1>5, <1>6 DEF WakingIsWork

\* The rows shown as waking are those that chains work on, and no two chains work on a
\* machine (power.wake, which looks both names up before it begins a chain, and the
\* `finally` of _run_chain).
THEOREM ChainsApart ==
  Spec => []WakingIsWork
<1>1. IInv /\ [Next]_vars => IInv'
  BY StepHolds
<1> QED
  BY <1>1, InitHolds, InvImplies, PTL DEF Spec

(***************************** The way up *********************************)

\* Induction over the naturals, by the least counterexample.
LEMMA Minimal ==
  \A R, S, T : IsWellFoundedOn(R, S) /\ T \subseteq S /\ T # {} =>
     \E x \in T : \A y \in T : <<y, x>> \notin R
BY WFMin

LEMMA Least ==
  ASSUME NEW T, T \subseteq Nat, T # {}
  PROVE  \E x \in T : \A y \in T : x <= y
<1>1. OpToRel(<, Nat) = {p \in Nat \X Nat : p[1] < p[2]}
  BY DEF OpToRel
<1>2. IsWellFoundedOn(OpToRel(<, Nat), Nat)
  BY NatLessThanWellFounded
<1>3. PICK R : R = {p \in Nat \X Nat : p[1] < p[2]} /\ IsWellFoundedOn(R, Nat)
  BY <1>1, <1>2
<1>4. PICK x \in T : \A y \in T : <<y, x>> \notin R
  BY <1>3, Minimal
<1>5. \A y \in T : ~(y < x)
  BY <1>3, <1>4
<1> QED
  BY <1>4, <1>5

\* What the definitions of Below and Wakeable compute: a function applied again and again.
Along(A, h, a, n, f) ==
  f \in [0..n -> A] /\ \A i \in 0..n : f[i] = IF i = 0 THEN a ELSE h[f[i - 1]]

LEMMA AlongExists ==
  ASSUME NEW A, NEW h \in [A -> A], NEW a \in A, NEW n \in Nat
  PROVE  \E f : Along(A, h, a, n, f)
<1> DEFINE T == {k \in Nat : ~ \E f : Along(A, h, a, k, f)}
<1> SUFFICES ASSUME T # {}
             PROVE  FALSE
  OBVIOUS
<1>1. PICK k \in T : \A j \in T : k <= j
  BY Least
<1>2. CASE k = 0
  <2>1. PICK f : f = [i \in 0..0 |-> a]
    OBVIOUS
  <2>2. Along(A, h, a, 0, f)
    BY <2>1 DEF Along
  <2> QED
    BY <1>2, <2>2
<1>3. CASE k # 0
  <2>1. k - 1 \in Nat /\ k - 1 \notin T
    BY <1>1, <1>3
  <2>2. PICK f : Along(A, h, a, k - 1, f)
    BY <2>1
  <2>3. PICK e : e = [i \in 0..k |-> IF i = k THEN h[f[k - 1]] ELSE f[i]]
    OBVIOUS
  <2>4. \A i \in 0..k : e[i] = IF i = k THEN h[f[k - 1]] ELSE f[i]
    BY <2>3
  <2>5. \A i \in 0..(k - 1) : f[i] \in A /\ f[i] = IF i = 0 THEN a ELSE h[f[i - 1]]
    BY <2>2 DEF Along
  <2>6. k - 1 \in 0..(k - 1)
    BY <2>1
  <2>7. e \in [0..k -> A]
    <3>1. \A i \in 0..k : i # k => i \in 0..(k - 1)
      BY <2>1
    <3>2. \A i \in 0..k : e[i] \in A
      BY <2>4, <2>5, <2>6, <3>1
    <3> QED
      BY <2>3, <3>2
  <2>8. \A i \in 0..k : e[i] = IF i = 0 THEN a ELSE h[e[i - 1]]
    <3> SUFFICES ASSUME NEW i \in 0..k
                 PROVE  e[i] = IF i = 0 THEN a ELSE h[e[i - 1]]
      OBVIOUS
    <3>1. CASE i = k
      <4>1. k - 1 \in 0..k /\ k - 1 # k /\ k \in 0..k
        BY <2>1
      <4>2. e[k - 1] = f[k - 1] /\ e[k] = h[f[k - 1]]
        BY <2>4, <4>1
      <4> QED
        BY <1>3, <3>1, <4>2
    <3>2. CASE i # k /\ i # 0
      <4>1. i \in 0..(k - 1) /\ i - 1 \in 0..k /\ i - 1 # k
        BY <3>2
      <4>2. e[i] = f[i] /\ e[i - 1] = f[i - 1]
        BY <2>4, <3>2, <4>1
      <4> QED
        BY <2>5, <3>2, <4>1, <4>2
    <3>3. CASE i = 0
      <4>1. 0 \in 0..(k - 1)
        BY <2>1
      <4> QED
        BY <2>4, <2>5, <1>3, <3>3, <4>1
    <3> QED
      BY <3>1, <3>2, <3>3
  <2>9. Along(A, h, a, k, e)
    BY <2>7, <2>8 DEF Along
  <2> QED
    BY <2>9
<1> QED
  BY <1>2, <1>3

\* All that runs on a machine is below it, and what runs on that.
LEMMA BelowClosed ==
  ASSUME Types, NEW m \in Machines
  PROVE  /\ m \in Below(m)
         /\ \A g \in Machines : Parent(g) \in Below(m) => g \in Below(m)
<1> DEFINE n == Cardinality(Machines)
           More(S) == S \cup {g \in Machines : Parent(g) \in S}
<1>1. n \in Nat
  BY PowerAssumption, FS_CardinalityType
<1>2. PICK h : h = [S \in SUBSET Machines |-> More(S)] /\ h \in [SUBSET Machines -> SUBSET Machines]
  <2>1. \A S \in SUBSET Machines : More(S) \in SUBSET Machines
    OBVIOUS
  <2> HIDE DEF More
  <2>2. PICK h : h = [S \in SUBSET Machines |-> More(S)]
    OBVIOUS
  <2>3. h \in [SUBSET Machines -> SUBSET Machines]
    BY <2>1, <2>2
  <2> QED
    BY <2>2, <2>3
<1>3. PICK f : Along(SUBSET Machines, h, {m}, n, f)
  <2>1. {m} \in SUBSET Machines /\ h \in [SUBSET Machines -> SUBSET Machines]
    BY <1>2
  <2> QED
    BY <1>1, <2>1, AlongExists
<1>4. /\ DOMAIN f = 0..n /\ \A i \in 0..n : f[i] \in SUBSET Machines
      /\ \A i \in 0..n : f[i] = IF i = 0 THEN {m} ELSE h[f[i - 1]]
  BY <1>3 DEF Along
<1>5. \A i \in 0..n : i # 0 => i - 1 \in 0..n /\ h[f[i - 1]] = More(f[i - 1])
  <2> SUFFICES ASSUME NEW i \in 0..n, i # 0
               PROVE  i - 1 \in 0..n /\ h[f[i - 1]] = More(f[i - 1])
    OBVIOUS
  <2>1. i - 1 \in 0..n
    BY <1>1
  <2>2. f[i - 1] \in SUBSET Machines
    BY <1>4, <2>1
  <2> HIDE DEF More
  <2> QED
    BY <1>2, <2>1, <2>2
<1>6. \A i \in 0..n : f[i] = IF i = 0 THEN {m} ELSE More(f[i - 1])
  BY <1>4, <1>5
<1>7. f = [i \in 0..n |-> IF i = 0 THEN {m}
                          ELSE f[i - 1] \cup {g \in Machines : Parent(g) \in f[i - 1]}]
  <2>1. f = [i \in 0..n |-> f[i]]
    BY <1>3, <1>4 DEF Along
  <2> QED
    BY <1>6, <2>1
<1>8. PICK e : /\ e = [i \in 0..n |-> IF i = 0 THEN {m}
                          ELSE e[i - 1] \cup {g \in Machines : Parent(g) \in e[i - 1]}]
               /\ Below(m) = e[n]
  <2>1. Below(m) = (CHOOSE u : u = [i \in 0..n |-> IF i = 0 THEN {m}
                       ELSE u[i - 1] \cup {g \in Machines : Parent(g) \in u[i - 1]}])[n]
    BY DEF Below
  <2> QED
    BY <1>7, <2>1
<1>9. \A i \in 0..n : e[i] = IF i = 0 THEN {m} ELSE More(e[i - 1])
  BY <1>8
<1> HIDE DEF n
<1> DEFINE closed(S) == \A g \in Machines : Parent(g) \in S => g \in S
           P(i) == /\ m \in e[i] /\ e[i] \subseteq Machines
                   /\ closed(e[i]) \/ Cardinality(e[i]) >= i + 1
           T == {k \in 0..n : ~P(k)}
<1>10. T = {}
  <2> SUFFICES ASSUME T # {}
               PROVE  FALSE
    OBVIOUS
  <2>1. PICK k \in T : \A j \in T : k <= j
    <3>1. T \subseteq Nat
      BY <1>1
    <3> QED
      BY <3>1, Least
  <2>2. CASE k = 0
    <3>1. e[k] = {m}
      BY <1>9, <2>2
    <3>2. Cardinality({m}) = 1
      BY FS_Singleton
    <3>3. P(k)
      BY <2>2, <3>1, <3>2
    <3> QED
      BY <3>3
  <2>3. CASE k # 0
    <3>1. k - 1 \in 0..n /\ P(k - 1)
      BY <1>1, <2>1, <2>3
    <3>2. e[k] = More(e[k - 1])
      BY <1>9, <2>3
    <3>3. m \in e[k] /\ e[k] \subseteq Machines /\ e[k - 1] \subseteq e[k]
      BY <3>1, <3>2
    <3>4. CASE closed(e[k - 1])
      <4>1. e[k] = e[k - 1]
        BY <3>1, <3>2, <3>4
      <4>2. closed(e[k])
        BY <3>4, <4>1
      <4> QED
        BY <3>3, <4>2
    <3>5. CASE ~closed(e[k - 1])
      <4>1. PICK g \in Machines : Parent(g) \in e[k - 1] /\ g \notin e[k - 1]
        BY <3>5
      <4>2. g \in e[k]
        BY <3>2, <4>1
      <4>3. IsFiniteSet(e[k]) /\ IsFiniteSet(e[k - 1])
        BY <3>1, <3>3, PowerAssumption, FS_Subset
      <4>4. e[k - 1] \cup {g} \in SUBSET e[k]
        BY <3>3, <4>2
      <4>5. Cardinality(e[k - 1] \cup {g}) = Cardinality(e[k - 1]) + 1
        <5>1. PICK E : E = e[k - 1]
          OBVIOUS
        <5>2. IsFiniteSet(E) /\ g \notin E
          BY <4>1, <4>3, <5>1
        <5>3. Cardinality(E \cup {g}) = Cardinality(E) + 1
          BY <5>2, FS_AddElement
        <5> QED
          BY <5>1, <5>3
      <4>6. Cardinality(e[k - 1] \cup {g}) <= Cardinality(e[k])
        BY <4>3, <4>4, FS_Subset
      <4>7. Cardinality(e[k - 1]) \in Nat /\ Cardinality(e[k]) \in Nat
        BY <4>3, FS_CardinalityType
      <4>8. Cardinality(e[k - 1]) >= k
        BY <3>1, <3>5
      <4>9. Cardinality(e[k]) >= k + 1
        <5> PICK c1, c2, c3 : /\ c1 = Cardinality(e[k - 1]) /\ c2 = Cardinality(e[k])
                              /\ c3 = Cardinality(e[k - 1] \cup {g})
          OBVIOUS
        <5>1. c1 \in Nat /\ c2 \in Nat /\ c3 = c1 + 1 /\ c3 <= c2 /\ c1 >= k
          BY <4>5, <4>6, <4>7, <4>8
        <5>2. c2 >= k + 1
          BY <5>1
        <5> QED
          BY <5>2
      <4> QED
        BY <3>3, <4>9
    <3> QED
      BY <3>4, <3>5
  <2> QED
    BY <2>2, <2>3
<1>11. P(n)
  <2>1. n \in 0..n
    BY <1>1
  <2> QED
    BY <1>10, <2>1
<1>12. ~(Cardinality(e[n]) >= n + 1)
  <2>1. Cardinality(e[n]) <= n /\ Cardinality(e[n]) \in Nat
    BY <1>11, PowerAssumption, FS_Subset, FS_CardinalityType DEF n
  <2> QED
    BY <1>1, <2>1
<1> QED
  BY <1>8, <1>11, <1>12

\* The way up that Wakeable looks along.
UpFrom(m, f) ==
  \A i \in 0..Cardinality(Machines) :
    /\ f[i] \in Machines \cup {None}
    /\ f[i] = IF i = 0 THEN m ELSE IF f[i - 1] = None THEN None ELSE Parent(f[i - 1])
EndsWell(f, i) ==
  /\ f[i] # None
  /\ \/ Parent(f[i]) = None
     \/ power[Parent(f[i])] = "on"

LEMMA WakeableIs ==
  ASSUME Types, NEW m \in Machines, Wakeable(m)
  PROVE  \E f : /\ UpFrom(m, f)
                /\ \E i \in 0..Cardinality(Machines) :
                     /\ EndsWell(f, i)
                     /\ \A j \in 0..i : CanWake(f[j])
<1> DEFINE n == Cardinality(Machines)
           A == Machines \cup {None}
           Above(x) == IF x = None THEN None ELSE Parent(x)
<1>1. n \in Nat
  BY PowerAssumption, FS_CardinalityType
<1>2. \A x \in A : Above(x) \in A
  BY FleetType DEF Parent
<1>3. PICK h : h = [x \in A |-> Above(x)]
  OBVIOUS
<1>4. h \in [A -> A]
  <2> HIDE DEF A, Above
  <2> QED
    BY <1>2, <1>3
<1>5. PICK f : Along(A, h, m, n, f)
  BY <1>1, <1>4, AlongExists
<1>6. /\ f \in [0..n -> A]
      /\ \A i \in 0..n : f[i] = IF i = 0 THEN m ELSE h[f[i - 1]]
  BY <1>5 DEF Along
<1>7. \A i \in 0..n : i # 0 => i - 1 \in 0..n /\ f[i - 1] \in A /\ h[f[i - 1]] = Above(f[i - 1])
  <2> SUFFICES ASSUME NEW i \in 0..n, i # 0
               PROVE  i - 1 \in 0..n /\ f[i - 1] \in A /\ h[f[i - 1]] = Above(f[i - 1])
    OBVIOUS
  <2>1. i - 1 \in 0..n
    BY <1>1
  <2> HIDE DEF A, Above
  <2>2. f[i - 1] \in A
    BY <1>6, <2>1
  <2> QED
    BY <1>3, <2>1, <2>2
<1>8. \A i \in 0..n : f[i] = IF i = 0 THEN m ELSE Above(f[i - 1])
  BY <1>6, <1>7
<1>9. f = [i \in 0..n |-> IF i = 0 THEN m
                          ELSE IF f[i - 1] = None THEN None ELSE Parent(f[i - 1])]
  <2>1. f = [i \in 0..n |-> f[i]]
    BY <1>6
  <2> QED
    BY <1>8, <2>1
<1>10. PICK e : /\ e = (CHOOSE u : u = [i \in 0..n |-> IF i = 0 THEN m
                          ELSE IF u[i - 1] = None THEN None ELSE Parent(u[i - 1])])
                /\ \E i \in 0..n : EndsWell(e, i) /\ \A j \in 0..i : CanWake(e[j])
  BY DEF Wakeable, EndsWell
<1>11. e = [i \in 0..n |-> IF i = 0 THEN m
                           ELSE IF e[i - 1] = None THEN None ELSE Parent(e[i - 1])]
  BY <1>9, <1>10
<1>12. \A i \in 0..n : e[i] = IF i = 0 THEN m ELSE Above(e[i - 1])
  BY <1>11
<1>13. \A i \in 0..n : e[i] \in A
  <2> DEFINE T == {k \in 0..n : e[k] \notin A}
  <2> SUFFICES ASSUME T # {}
               PROVE  FALSE
    OBVIOUS
  <2>1. PICK k \in T : \A j \in T : k <= j
    <3>1. T \subseteq Nat
      BY <1>1
    <3> QED
      BY <3>1, Least
  <2>2. k # 0
    BY <1>12
  <2>3. k - 1 \in 0..n /\ k - 1 \notin T
    BY <1>1, <2>1, <2>2
  <2>4. e[k - 1] \in A
    BY <2>3
  <2> HIDE DEF A, Above
  <2> QED
    BY <1>2, <1>12, <2>2, <2>4
<1>14. UpFrom(m, e)
  BY <1>12, <1>13 DEF UpFrom
<1> QED
  BY <1>10, <1>14

\* A guest that is not off has its hypervisor up.
Standing == \A m \in Machines : IsGuest(m) /\ power[m] # "off" => power[Parent(m)] = "on"

\* Machines that run on each other and are off: nothing but each other can start them.
Dead(S) == S \subseteq Machines /\ \A m \in S : Parent(m) \in S /\ power[m] = "off"

LEMMA GuestHasParent ==
  ASSUME Types, NEW m \in Machines
  PROVE  IsGuest(m) <=> Parent(m) \in Machines
BY FleetType, PowerAssumption DEF IsGuest, Parent

\* All that a step does to the machines.
LEMMA PowerSteps ==
  ASSUME IInv, [Next]_vars
  PROVE  /\ UNCHANGED fleet
         /\ \/ UNCHANGED power
            \/ \E m \in Machines : GoesOff(m)
            \/ \E m \in Machines : Begins(m) /\ (IsGuest(m) => power[Parent(m)] = "on")
            \/ BootEnds
<1>f. UNCHANGED fleet
  BY DEF Next, Step, Press, AskRunningHost, AskRefused, AskAgain, AskChain, AskAbove, AskPacket, Wait,
         Settle, Status, StartVm, Leave, Halt, Fail, Started, Goto, Ends, BootEnds, Hand, Expire, vars
<1>1. ASSUME NEW t \in Threads, Press(t)
      PROVE  UNCHANGED power
  BY <1>1 DEF Press
<1>2. ASSUME NEW t \in Threads, Step(t)
      PROVE  \/ UNCHANGED power
             \/ \E m \in Machines : GoesOff(m)
             \/ \E m \in Machines : Begins(m) /\ (IsGuest(m) => power[Parent(m)] = "on")
  <2>1. \/ UNCHANGED power
        \/ Halt(t)
        \/ AskPacket(t) /\ Begins(Now(t)) /\ ~IsGuest(Now(t))
        \/ StartVm(t) /\ Begins(Now(t)) /\ power[Parent(Now(t))] = "on"
    BY <1>2 DEF Step, AskRunningHost, AskRefused, AskAgain, AskChain, AskAbove, AskPacket, Wait,
                Settle, Status, StartVm, Leave
  <2>2. CASE Halt(t)
    <3>1. thread[t].at # "idle"
      BY <2>2 DEF Halt, At
    <3>2. Now(t) \in Machines
      BY <3>1, BusyIs DEF IInv, Kept
    <3> QED
      BY <2>2, <3>2 DEF Halt
  <2>3. CASE AskPacket(t) /\ Begins(Now(t)) /\ ~IsGuest(Now(t))
    <3>1. thread[t].at # "idle"
      BY <2>3 DEF AskPacket, At
    <3>2. Now(t) \in Machines
      BY <3>1, BusyIs DEF IInv, Kept
    <3> QED
      BY <2>3, <3>2
  <2>4. CASE StartVm(t) /\ Begins(Now(t)) /\ power[Parent(Now(t))] = "on"
    <3>1. thread[t].at # "idle"
      BY <2>4 DEF StartVm, At
    <3>2. Now(t) \in Machines
      BY <3>1, BusyIs DEF IInv, Kept
    <3> QED
      BY <2>4, <3>2
  <2> QED
    BY <2>1, <2>2, <2>3, <2>4
<1>3. Hand => \/ \E m \in Machines : GoesOff(m)
              \/ \E m \in Machines : Begins(m) /\ (IsGuest(m) => power[Parent(m)] = "on")
  BY DEF Hand
<1>4. Expire \/ UNCHANGED vars => UNCHANGED power
  BY DEF Expire, vars
<1> QED
  BY <1>f, <1>1, <1>2, <1>3, <1>4 DEF Next

LEMMA StandingKept ==
  ASSUME IInv, Standing, [Next]_vars
  PROVE  Standing'
<1>1. UNCHANGED fleet /\ Types /\ power \in [Machines -> {"off", "booting", "on"}]
  BY PowerSteps DEF IInv, Types
<1>2. \A m : (IsGuest(m)' <=> IsGuest(m)) /\ Parent(m)' = Parent(m)
  BY <1>1 DEF IsGuest, Parent
<1>3. \A m \in Machines : IsGuest(m) => Parent(m) \in Machines
  BY <1>1, GuestHasParent
<1>4. CASE UNCHANGED power
  BY <1>2, <1>4 DEF Standing
<1>5. ASSUME NEW x \in Machines, GoesOff(x)
      PROVE  Standing'
  <2>1. \A g \in Machines : Parent(g) \in Below(x) => g \in Below(x)
    BY <1>1, BelowClosed
  <2>2. \A m \in Machines : power'[m] = IF m \in Below(x) THEN "off" ELSE power[m]
    BY <1>5 DEF GoesOff
  <2> QED
    BY <1>2, <1>3, <2>1, <2>2 DEF Standing
<1>6. ASSUME NEW x \in Machines, Begins(x), IsGuest(x) => power[Parent(x)] = "on"
      PROVE  Standing'
  <2>1. \A m \in Machines : power'[m] = IF m = x /\ power[m] = "off" THEN "booting" ELSE power[m]
    BY <1>1, <1>6 DEF Begins
  <2>2. ASSUME NEW m \in Machines, IsGuest(m), power'[m] # "off"
        PROVE  power'[Parent(m)] = "on"
    <3>1. power[Parent(m)] = "on"
      BY <1>6, <2>1, <2>2 DEF Standing
    <3>2. Parent(m) \in Machines
      BY <1>3, <2>2
    <3> QED
      BY <2>1, <3>1, <3>2
  <2>3. \A m \in Machines : IsGuest(m)' /\ power'[m] # "off" => power'[Parent(m)'] = "on"
    BY <1>2, <2>2
  <2> QED
    BY <2>3 DEF Standing
<1>7. CASE BootEnds
  <2>0. PICK x \in Machines :
          /\ power[x] = "booting"
          /\ \E also \in SUBSET {g \in fleet.onboot : Parent(g) = x} :
               power' = [y \in Machines |-> IF y = x THEN "on"
                                            ELSE IF y \in also /\ power[y] = "off" THEN "booting"
                                            ELSE power[y]]
    BY <1>7 DEF BootEnds
  <2>1. PICK also \in SUBSET {g \in fleet.onboot : Parent(g) = x} :
             power' = [y \in Machines |-> IF y = x THEN "on"
                                          ELSE IF y \in also /\ power[y] = "off" THEN "booting"
                                          ELSE power[y]]
    BY <2>0
  <2>2. \A y \in Machines : power'[y] = IF y = x THEN "on"
                                        ELSE IF y \in also /\ power[y] = "off" THEN "booting"
                                        ELSE power[y]
    BY <2>1
  <2>3. \A y \in also : Parent(y) = x
    BY <2>1
  <2> QED
    BY <1>2, <1>3, <2>0, <2>2, <2>3 DEF Standing
<1> QED
  BY <1>4, <1>5, <1>6, <1>7, PowerSteps

LEMMA DeadKept ==
  ASSUME IInv, [Next]_vars, NEW S, Dead(S)
  PROVE  Dead(S)'
<1>1. UNCHANGED fleet /\ Types /\ power \in [Machines -> {"off", "booting", "on"}]
  BY PowerSteps DEF IInv, Types
<1>2. \A m : Parent(m)' = Parent(m)
  BY <1>1 DEF Parent
<1>3. \A m \in S : m \in Machines /\ Parent(m) \in S /\ power[m] = "off" /\ power[Parent(m)] = "off"
                   /\ IsGuest(m)
  BY PowerAssumption DEF Dead, IsGuest
<1>4. SUFFICES \A m \in S : power'[m] = "off"
  BY <1>2 DEF Dead
<1>5. CASE UNCHANGED power
  BY <1>3, <1>5
<1>6. ASSUME NEW x \in Machines, GoesOff(x)
      PROVE  \A m \in S : power'[m] = "off"
  BY <1>3, <1>6 DEF GoesOff
<1>7. ASSUME NEW x \in Machines, Begins(x), IsGuest(x) => power[Parent(x)] = "on"
      PROVE  \A m \in S : power'[m] = "off"
  <2>1. x \notin S
    BY <1>3, <1>7
  <2> QED
    BY <1>1, <1>3, <1>7, <2>1 DEF Begins
<1>8. CASE BootEnds
  <2>0. PICK x \in Machines :
          /\ power[x] = "booting"
          /\ \E also \in SUBSET {g \in fleet.onboot : Parent(g) = x} :
               power' = [y \in Machines |-> IF y = x THEN "on"
                                            ELSE IF y \in also /\ power[y] = "off" THEN "booting"
                                            ELSE power[y]]
    BY <1>8 DEF BootEnds
  <2>1. PICK also \in SUBSET {g \in fleet.onboot : Parent(g) = x} :
             power' = [y \in Machines |-> IF y = x THEN "on"
                                          ELSE IF y \in also /\ power[y] = "off" THEN "booting"
                                          ELSE power[y]]
    BY <2>0
  <2>2. \A y \in Machines : power'[y] = IF y = x THEN "on"
                                        ELSE IF y \in also /\ power[y] = "off" THEN "booting"
                                        ELSE power[y]
    BY <2>1
  <2>3. \A y \in also : Parent(y) = x
    BY <2>1
  <2>4. \A m \in S : m # x /\ m \notin also
    BY <1>3, <2>0, <2>3
  <2> QED
    BY <1>3, <2>2, <2>4
<1> QED
  BY <1>5, <1>6, <1>7, <1>8, PowerSteps

\* What a thread that asks has above it: the way from its target, no machine of it twice,
\* unless it goes round among machines that are off.
Path(todo) == \A i \in 1..(Len(todo) - 1) : todo[i] = Parent(todo[i + 1])
Once(todo) == \A i, j \in 1..Len(todo) : todo[i] = todo[j] => i = j
Climbs(todo) == /\ Path(todo)
                /\ Once(todo) \/ \E S : Dead(S) /\ todo[Len(todo)] \in S
WayIsClear == \A t \in Threads : At(t, "ask") => Climbs(thread[t].todo)

LEMMA OneClimbs ==
  ASSUME NEW m
  PROVE  Climbs(<<m>>)
<1>1. Len(<<m>>) = 1
  OBVIOUS
<1>2. Path(<<m>>)
  BY <1>1 DEF Path
<1>3. Once(<<m>>)
  BY <1>1 DEF Once
<1> QED
  BY <1>2, <1>3 DEF Climbs

\* One machine more in front.
Longer(more, p, todo) == /\ Len(more) = Len(todo) + 1 /\ more[1] = p
                         /\ \A i \in 1..Len(todo) : more[i + 1] = todo[i]

LEMMA LongerClimbs ==
  ASSUME Types, Standing, NEW todo \in Seq(Machines), todo # <<>>, Climbs(todo),
         NEW p \in Machines, p = Parent(todo[1]), power[p] # "on", NEW more, Longer(more, p, todo)
  PROVE  Climbs(more)
<1>0. PICK L : L = Len(todo) /\ L \in Nat \ {0}
  OBVIOUS
<1>2. /\ Len(more) = L + 1 /\ more[1] = p
      /\ \A i \in 1..L : more[i + 1] = todo[i] /\ todo[i] \in Machines
  BY <1>0 DEF Longer
<1>3. more[Len(more)] = todo[Len(todo)]
  BY <1>0, <1>2
<1>4. Path(more)
  <2> SUFFICES ASSUME NEW i \in 1..L
               PROVE  more[i] = Parent(more[i + 1])
    BY <1>0, <1>2 DEF Path
  <2>1. more[i + 1] = todo[i]
    BY <1>2
  <2>2. CASE i = 1
    BY <1>2, <2>1, <2>2
  <2>3. CASE i # 1
    <3>1. i - 1 \in 1..L /\ i - 1 \in 1..(L - 1) /\ (i - 1) + 1 = i
      BY <1>0, <2>3
    <3>2. more[i] = todo[i - 1]
      BY <1>2, <3>1
    <3>3. todo[i - 1] = Parent(todo[i])
      BY <1>0, <3>1 DEF Climbs, Path
    <3> QED
      BY <2>1, <3>2, <3>3
  <2> QED
    BY <2>2, <2>3
<1>5. CASE \E S : Dead(S) /\ todo[Len(todo)] \in S
  BY <1>3, <1>4, <1>5 DEF Climbs
<1>6. CASE Once(todo) /\ \A i \in 1..L : todo[i] # p
  <2>1. Once(more)
    <3> SUFFICES ASSUME NEW i \in 1..(L + 1), NEW j \in 1..(L + 1), more[i] = more[j]
                 PROVE  i = j
      BY <1>2 DEF Once
    <3>1. \A k \in 1..(L + 1) : k # 1 => k - 1 \in 1..L /\ more[k] = todo[k - 1]
      <4> SUFFICES ASSUME NEW k \in 1..(L + 1), k # 1
                   PROVE  k - 1 \in 1..L /\ more[k] = todo[k - 1]
        OBVIOUS
      <4>1. k - 1 \in 1..L /\ (k - 1) + 1 = k
        BY <1>0
      <4> QED
        BY <1>2, <4>1
    <3>2. i # 1 /\ j # 1 => i - 1 = j - 1
      BY <1>0, <1>6, <3>1 DEF Once
    <3>3. i = 1 <=> j = 1
      BY <1>2, <1>6, <3>1
    <3> QED
      BY <1>0, <3>2, <3>3
  <2> QED
    BY <1>4, <2>1 DEF Climbs
<1>7. ASSUME NEW b \in 1..L, todo[b] = p
      PROVE  Climbs(more)
  <2> DEFINE S == {todo[j] : j \in 1..L}
  <2>1. \A j \in 1..L : j # 1 => j - 1 \in 1..L /\ todo[j - 1] = Parent(todo[j])
    <3> SUFFICES ASSUME NEW j \in 1..L, j # 1
                 PROVE  j - 1 \in 1..L /\ todo[j - 1] = Parent(todo[j])
      OBVIOUS
    <3>1. j - 1 \in 1..L /\ j - 1 \in 1..(L - 1) /\ (j - 1) + 1 = j
      BY <1>0
    <3> QED
      BY <1>0, <3>1 DEF Climbs, Path
  <2>2. \A j \in 1..L : Parent(todo[j]) \in S
    BY <1>7, <2>1
  <2>3. \A j \in 1..L : IsGuest(todo[j]) /\ todo[j] \in Machines
    <3>1. S \subseteq Machines
      BY <1>2
    <3> HIDE DEF S
    <3> QED
      BY <1>2, <2>2, <3>1, GuestHasParent
  <2>4. \A j \in 1..L : power[todo[j]] = "off"
    <3> DEFINE T == {k \in 1..L : power[todo[k]] # "off"}
    <3> SUFFICES ASSUME T # {}
                 PROVE  FALSE
      OBVIOUS
    <3>1. PICK k \in T : \A j \in T : k <= j
      <4>1. T \subseteq Nat
        BY <1>0
      <4> QED
        BY <4>1, Least
    <3>2. power[Parent(todo[k])] = "on"
      BY <2>3 DEF Standing
    <3>3. k # 1
      BY <3>2
    <3>4. k - 1 \in 1..L /\ todo[k - 1] = Parent(todo[k])
      BY <2>1, <3>3
    <3>5. k - 1 \notin T
      BY <1>0, <3>1
    <3> QED
      BY <3>2, <3>4, <3>5
  <2>5. Dead(S)
    BY <2>2, <2>3, <2>4 DEF Dead
  <2>6. todo[L] \in S
    BY <1>0
  <2> HIDE DEF S
  <2> QED
    BY <1>0, <1>3, <1>4, <2>5, <2>6 DEF Climbs
<1> QED
  BY <1>5, <1>6, <1>7 DEF Climbs

\* How a thread gets to ask.
LEMMA AskSteps ==
  ASSUME IInv, [Next]_vars, NEW u \in Threads, At(u, "ask")'
  PROVE  \/ thread'[u] = thread[u]
         \/ \E m \in Machines : thread'[u].todo = <<m>>
         \/ /\ AsksThrough(u) /\ UNCHANGED power
            /\ Longer(thread'[u].todo, Parent(Now(u)), thread[u].todo)
<1>0. thread \in [Threads -> Row] /\ thread[u] \in Row /\ Idle.at = "idle"
  BY DEF IInv, Kept, Rows, Idle
<1>1. ASSUME NEW t \in Threads, t # u, NEW row, thread' = [thread EXCEPT ![t] = row]
      PROVE  thread'[u] = thread[u]
  BY <1>0, <1>1
<1>2. ASSUME NEW t \in Threads, NEW at, at # "ask", Goto(t, at)
      PROVE  thread'[u] = thread[u]
  <2>1. CASE t = u
    <3>1. thread'[u].at = at
      BY <1>0, <1>2, <2>1 DEF Goto, Row
    <3> QED
      BY <1>2, <3>1 DEF At
  <2> QED
    BY <1>0, <1>2, <2>1 DEF Goto
<1>3. ASSUME NEW t \in Threads, Ends(t)
      PROVE  thread'[u] = thread[u]
  BY <1>0, <1>3 DEF Ends, At
<1>4. ASSUME NEW t \in Threads, Fail(t) \/ Started(t)
      PROVE  thread'[u] = thread[u]
  BY <1>2, <1>3, <1>4 DEF Fail, Started
<1>5. ASSUME NEW t \in Threads, Press(t)
      PROVE  thread'[u] = thread[u] \/ \E m \in Machines : thread'[u].todo = <<m>>
  <2>1. PICK m \in Machines, op \in {"wake", "shutdown"} :
          thread' = [thread EXCEPT ![t] = [at |-> IF op = "wake" THEN "ask" ELSE "halt",
                                           op |-> op, todo |-> <<m>>]]
    BY <1>5 DEF Press
  <2>2. CASE t = u
    <3>1. thread'[u] = [at |-> IF op = "wake" THEN "ask" ELSE "halt", op |-> op, todo |-> <<m>>]
      BY <1>0, <2>1, <2>2
    <3> QED
      BY <3>1
  <2> QED
    BY <1>0, <2>1, <2>2
<1>6. ASSUME NEW t \in Threads, AskChain(t)
      PROVE  \/ thread'[u] = thread[u]
             \/ /\ AsksThrough(u) /\ UNCHANGED power
                /\ Longer(thread'[u].todo, Parent(Now(u)), thread[u].todo)
  <2>1. CASE t = u
    <3>1. thread'[u] = [at |-> "ask", op |-> "chain", todo |-> <<Parent(Now(u)), Now(u)>>]
      BY <1>0, <1>6, <2>1 DEF AskChain
    <3>2. thread'[u].todo = <<Parent(Now(u)), Now(u)>>
      BY <3>1
    <3>3. thread[u].todo = <<Now(u)>>
      <4>1. thread[u].at # "idle" /\ ~Chain(u)
        BY <1>6, <2>1 DEF AskChain, AsksThrough, At, Chain
      <4>2. Rows
        BY DEF IInv, Kept
      <4>3. ~Chain(u) => thread[u].todo = <<Now(u)>>
        BY <4>1, <4>2, BusyIs
      <4> QED
        BY <4>1, <4>3
    <3>4. \A a, b : Longer(<<a, b>>, a, <<b>>)
      BY DEF Longer
    <3> QED
      BY <1>6, <2>1, <3>2, <3>3, <3>4 DEF AskChain
  <2> QED
    BY <1>0, <1>6, <2>1 DEF AskChain
<1>7. ASSUME NEW t \in Threads, AskAbove(t)
      PROVE  \/ thread'[u] = thread[u]
             \/ /\ AsksThrough(u) /\ UNCHANGED power
                /\ Longer(thread'[u].todo, Parent(Now(u)), thread[u].todo)
  <2>1. CASE Len(thread[t].todo) < Depth
    <3>1. thread' = [thread EXCEPT ![t].todo = <<Parent(Now(t))>> \o @]
      BY <1>7, <2>1 DEF AskAbove
    <3>2. CASE t = u
      <4>1. thread'[u].todo = <<Parent(Now(u))>> \o thread[u].todo
        BY <1>0, <3>1, <3>2 DEF Row
      <4>2. thread[u].todo \in Seq(Machines)
        BY <1>0 DEF Row
      <4>3. ASSUME NEW todo \in Seq(Machines), NEW p
            PROVE  Longer(<<p>> \o todo, p, todo)
        BY DEF Longer
      <4>4. Longer(thread'[u].todo, Parent(Now(u)), thread[u].todo)
        BY <4>1, <4>2, <4>3
      <4> QED
        BY <1>7, <3>2, <4>4 DEF AskAbove
    <3> QED
      BY <1>0, <3>1, <3>2
  <2>2. CASE ~(Len(thread[t].todo) < Depth)
    <3>1. Fail(t)
      BY <1>7, <2>2 DEF AskAbove
    <3> QED
      BY <1>4, <3>1
  <2> QED
    BY <2>1, <2>2
<1>8. ASSUME NEW t \in Threads, Settle(t)
      PROVE  thread'[u] = thread[u]
  <2>1. thread' = [thread EXCEPT ![t].at = "status", ![t].todo = Tail(@)]
    BY <1>8 DEF Settle
  <2>2. CASE t = u
    <3>1. thread'[u].at = "status"
      BY <1>0, <2>1, <2>2 DEF Row
    <3> QED
      BY <3>1 DEF At
  <2> QED
    BY <1>0, <2>1, <2>2
<1>9. ASSUME NEW t \in Threads, AskRunningHost(t) \/ AskRefused(t) \/ AskAgain(t) \/ AskPacket(t)
                                \/ Wait(t) \/ Status(t) \/ StartVm(t) \/ Leave(t) \/ Halt(t)
      PROVE  thread'[u] = thread[u]
  <2>1. \/ Goto(t, "status") \/ Goto(t, "settle") \/ Goto(t, "start")
        \/ Fail(t) \/ Started(t) \/ Ends(t)
    BY <1>9 DEF AskRunningHost, AskRefused, AskAgain, AskPacket, Wait, Status, StartVm, Leave, Halt
  <2> QED
    BY <1>2, <1>3, <1>4, <2>1
<1>10. BootEnds \/ Hand \/ Expire \/ UNCHANGED vars => thread' = thread
  BY DEF BootEnds, Hand, Expire, vars
<1> QED
  BY <1>5, <1>6, <1>7, <1>8, <1>9, <1>10 DEF Next, Step

LEMMA ClimbKept ==
  ASSUME IInv, Standing, WayIsClear, [Next]_vars
  PROVE  WayIsClear'
<1> SUFFICES ASSUME NEW u \in Threads, At(u, "ask")'
             PROVE  Climbs(thread[u].todo)'
  BY DEF WayIsClear
<1>1. UNCHANGED fleet /\ Types
  BY PowerSteps DEF IInv
<1>2. \A m : Parent(m)' = Parent(m)
  BY <1>1 DEF Parent
<1>3. ASSUME NEW todo, Climbs(todo), thread'[u].todo = todo
      PROVE  Climbs(thread[u].todo)'
  <2>1. Path(todo) => Path(thread[u].todo)'
    BY <1>2, <1>3 DEF Path
  <2>2. Once(todo) => Once(thread[u].todo)'
    BY <1>3 DEF Once
  <2>3. \A S : Dead(S) => Dead(S)'
    BY DeadKept
  <2> QED
    BY <1>3, <2>1, <2>2, <2>3 DEF Climbs
<1>4. CASE thread'[u] = thread[u]
  BY <1>3, <1>4 DEF WayIsClear, At
<1>5. ASSUME NEW m \in Machines, thread'[u].todo = <<m>>
      PROVE  Climbs(thread[u].todo)'
  BY <1>3, <1>5, OneClimbs
<1>6. CASE /\ AsksThrough(u) /\ UNCHANGED power
           /\ Longer(thread'[u].todo, Parent(Now(u)), thread[u].todo)
  <2>1. thread[u].at # "idle" /\ At(u, "ask") /\ IsGuest(Now(u)) /\ power[Parent(Now(u))] # "on"
    BY <1>6 DEF AsksThrough, At
  <2>2. thread[u].todo \in Seq(Machines) /\ thread[u].todo # <<>> /\ Now(u) \in Machines
    BY <2>1, BusyIs DEF IInv, Kept
  <2>3. Parent(Now(u)) \in Machines
    BY <1>1, <2>1, <2>2, GuestHasParent
  <2>4. Now(u) = thread[u].todo[1]
    BY <2>2 DEF Now
  <2>5. Climbs(thread[u].todo)
    BY <2>1 DEF WayIsClear
  <2>6. Climbs(thread'[u].todo)
    BY <1>1, <1>6, <2>1, <2>2, <2>3, <2>4, <2>5, LongerClimbs
  <2> QED
    BY <1>3, <2>6
<1> QED
  BY <1>4, <1>5, <1>6, AskSteps

LEMMA InitClear ==
  ASSUME Init
  PROVE  Standing /\ WayIsClear
<1>1. Types
  BY InitHolds DEF IInv
<1>2. PICK up \in SUBSET Machines :
        /\ \A m \in up : fleet.parent[m] \in up \cup {None}
        /\ power = [m \in Machines |-> IF m \in up THEN "on" ELSE "off"]
  BY DEF Init
<1>3. \A m \in Machines : power[m] = IF m \in up THEN "on" ELSE "off"
  BY <1>2
<1>4. Standing
  <2> SUFFICES ASSUME NEW m \in Machines, IsGuest(m), power[m] # "off"
               PROVE  power[Parent(m)] = "on"
    BY DEF Standing
  <2>1. Parent(m) \in up
    BY <1>2, <1>3 DEF Parent, IsGuest
  <2> QED
    BY <1>3, <2>1
<1>5. WayIsClear
  BY DEF WayIsClear, Init, Idle, At
<1> QED
  BY <1>4, <1>5

\* Up from a machine whose hypervisor is up, everything is.
LEMMA AllUpAbove ==
  ASSUME Types, Standing, NEW m, NEW f, UpFrom(m, f),
         NEW i \in 0..Cardinality(Machines), f[i] # None,
         Parent(f[i]) = None \/ power[Parent(f[i])] = "on"
  PROVE  \A k \in 0..Cardinality(Machines) : k > i => f[k] = None \/ power[f[k]] = "on"
<1>1. PICK n : n = Cardinality(Machines) /\ n \in Nat
  BY PowerAssumption, FS_CardinalityType
<1> DEFINE T == {k \in 0..n : k > i /\ ~(f[k] = None \/ power[f[k]] = "on")}
<1> SUFFICES ASSUME T # {}
             PROVE  FALSE
  BY <1>1
<1>2. PICK k \in T : \A j \in T : k <= j
  <2>1. T \subseteq Nat
    BY <1>1
  <2> QED
    BY <2>1, Least
<1>3. k \in 0..n /\ k > i /\ i \in 0..n
  BY <1>1, <1>2
<1>4. k # 0 /\ k - 1 \in 0..n /\ k - 1 >= i
  BY <1>1, <1>3
<1>5. f[k] = IF f[k - 1] = None THEN None ELSE Parent(f[k - 1])
  BY <1>1, <1>3, <1>4 DEF UpFrom
<1>6. f[k - 1] # None /\ f[k] = Parent(f[k - 1]) /\ f[k] # None /\ power[f[k]] # "on"
  BY <1>2, <1>5
<1>7. CASE k - 1 = i
  BY <1>6, <1>7
<1>8. CASE k - 1 # i
  <2>1. k - 1 > i /\ ~(k <= k - 1)
    BY <1>1, <1>3, <1>4, <1>8
  <2>2. power[f[k - 1]] = "on"
    BY <1>2, <1>4, <1>6, <2>1
  <2>3. f[k - 1] \in Machines
    BY <1>1, <1>4, <1>6 DEF UpFrom
  <2>4. IsGuest(f[k - 1])
    BY <1>6 DEF IsGuest
  <2> QED
    BY <1>6, <2>2, <2>3, <2>4 DEF Standing
<1> QED
  BY <1>7, <1>8

\* The way of a thread is the way that Wakeable looks along.
LEMMA SameWay ==
  ASSUME NEW todo \in Seq(Machines), todo # <<>>, Path(todo), NEW f, UpFrom(todo[Len(todo)], f)
  PROVE  \A k \in 0..Cardinality(Machines) : k < Len(todo) => f[k] = todo[Len(todo) - k]
<1>1. PICK n : n = Cardinality(Machines) /\ n \in Nat
  BY PowerAssumption, FS_CardinalityType
<1>2. PICK L : L = Len(todo) /\ L \in Nat \ {0} /\ \A i \in 1..L : todo[i] \in Machines
  OBVIOUS
<1> DEFINE T == {k \in 0..n : k < L /\ f[k] # todo[L - k]}
<1> SUFFICES ASSUME T # {}
             PROVE  FALSE
  BY <1>1, <1>2
<1>3. PICK k \in T : \A j \in T : k <= j
  <2>1. T \subseteq Nat
    BY <1>1
  <2> QED
    BY <2>1, Least
<1>4. k \in 0..n /\ k < L /\ f[k] # todo[L - k]
  BY <1>3
<1>5. k # 0
  <2>1. 0 \in 0..n
    BY <1>1
  <2>2. f[0] = todo[L]
    BY <1>1, <1>2, <2>1 DEF UpFrom
  <2>3. L - 0 = L
    BY <1>2
  <2> QED
    BY <1>4, <2>2, <2>3
<1>6. k - 1 \in 0..n /\ k - 1 < L /\ ~(k <= k - 1) /\ L - (k - 1) = (L - k) + 1
      /\ L - k \in 1..(L - 1) /\ L - (k - 1) \in 1..L
  BY <1>1, <1>2, <1>4, <1>5
<1>7. f[k - 1] = todo[L - (k - 1)]
  BY <1>3, <1>6
<1>8. todo[L - k] = Parent(todo[(L - k) + 1])
  BY <1>2, <1>6 DEF Path
<1>9. f[k - 1] # None
  BY <1>2, <1>6, <1>7, PowerAssumption
<1>10. f[k] = Parent(f[k - 1])
  BY <1>1, <1>4, <1>5, <1>9 DEF UpFrom
<1> QED
  BY <1>4, <1>6, <1>7, <1>8, <1>10

\* Among machines that run on each other there is no way up.
LEMMA DeadHasNoWay ==
  ASSUME Types, NEW S, Dead(S), NEW m \in S, NEW f, UpFrom(m, f), NEW i \in 0..Cardinality(Machines)
  PROVE  ~EndsWell(f, i)
<1>1. PICK n : n = Cardinality(Machines) /\ n \in Nat
  BY PowerAssumption, FS_CardinalityType
<1>2. None \notin S /\ \A x \in S : Parent(x) \in S /\ power[x] = "off"
  BY PowerAssumption DEF Dead
<1> DEFINE T == {k \in 0..n : f[k] \notin S}
<1>3. T = {}
  <2> SUFFICES ASSUME T # {}
               PROVE  FALSE
    OBVIOUS
  <2>1. PICK k \in T : \A j \in T : k <= j
    <3>1. T \subseteq Nat
      BY <1>1
    <3> QED
      BY <3>1, Least
  <2>2. k \in 0..n /\ k # 0
    BY <1>1, <2>1 DEF UpFrom
  <2>3. k - 1 \in 0..n /\ ~(k <= k - 1)
    BY <1>1, <2>2
  <2>4. f[k - 1] \in S
    BY <2>1, <2>3
  <2>5. f[k] = Parent(f[k - 1])
    BY <1>1, <1>2, <2>2, <2>4 DEF UpFrom
  <2> QED
    BY <1>2, <2>1, <2>4, <2>5
<1>4. f[i] \in S
  BY <1>1, <1>3
<1>5. Parent(f[i]) # None /\ power[Parent(f[i])] = "off"
  BY <1>2, <1>4
<1> QED
  BY <1>5 DEF EndsWell

\* No more names in a list without repetition than there are machines.
LEMMA OnceIsShort ==
  ASSUME NEW todo \in Seq(Machines), Once(todo)
  PROVE  Len(todo) <= Cardinality(Machines)
<1>1. PICK L : L = Len(todo) /\ L \in Nat /\ todo \in [1..L -> Machines]
  OBVIOUS
<1>2. IsFiniteSet(1..L) /\ Cardinality(1..L) = L
  <2>1. 1 \in Int /\ L \in Int
    BY <1>1
  <2>2. IsFiniteSet(1..L) /\ Cardinality(1..L) = IF 1 > L THEN 0 ELSE L - 1 + 1
    BY <2>1, FS_Interval
  <2>3. (IF 1 > L THEN 0 ELSE L - 1 + 1) = L
    BY <1>1
  <2> QED
    BY <2>2, <2>3
<1>3. Cardinality(Machines) \in Nat
  BY PowerAssumption, FS_CardinalityType
<1>4. ~(Cardinality(Machines) < Cardinality(1..L))
  <2>1. \A x, y \in 1..L : x # y => todo[x] # todo[y]
    BY <1>1 DEF Once
  <2> QED
    BY <1>1, <1>2, <2>1, PowerAssumption, FS_PigeonHole
<1> QED
  BY <1>1, <1>2, <1>3, <1>4

LEMMA HasAWay ==
  ASSUME IInv, Standing, WayIsClear, NEW t \in Threads, At(t, "ask"), Wakeable(Target(t))
  PROVE  ~NoWayUp(t) /\ Len(thread[t].todo) <= Cardinality(Machines)
<1>1. PICK n : n = Cardinality(Machines) /\ n \in Nat
  BY PowerAssumption, FS_CardinalityType
<1>2. PICK todo : todo = thread[t].todo
  OBVIOUS
<1>3. /\ todo \in Seq(Machines) /\ todo # <<>> /\ Now(t) \in Machines /\ Target(t) \in Machines
      /\ Target(t) = todo[Len(todo)] /\ Now(t) = todo[1]
  <2>1. thread[t].at # "idle" /\ Rows
    BY DEF At, IInv, Kept
  <2>2. /\ thread[t].todo \in Seq(Machines) /\ thread[t].todo # <<>>
        /\ Now(t) \in Machines /\ Target(t) \in Machines
    BY <2>1, BusyIs
  <2> QED
    BY <1>2, <2>2 DEF Target, Now
<1>4. Types /\ Climbs(todo)
  BY <1>2 DEF IInv, WayIsClear
<1>5. PICK f : /\ UpFrom(Target(t), f)
               /\ \E i \in 0..n : EndsWell(f, i) /\ \A j \in 0..i : CanWake(f[j])
  BY <1>1, <1>3, <1>4, WakeableIs
<1>6. PICK i \in 0..n : EndsWell(f, i) /\ \A j \in 0..i : CanWake(f[j])
  BY <1>5
<1>7. Once(todo) /\ Path(todo)
  <2>1. ASSUME NEW S, Dead(S), todo[Len(todo)] \in S
        PROVE  FALSE
    BY <1>1, <1>3, <1>4, <1>5, <1>6, <2>1, DeadHasNoWay
  <2> QED
    BY <1>4, <2>1 DEF Climbs
<1>8. PICK L : L = Len(todo) /\ L \in Nat \ {0}
  BY <1>3
<1>9. L <= n
  BY <1>1, <1>3, <1>7, <1>8, OnceIsShort
<1>10. f[L - 1] = todo[1]
  <2>1. L - 1 \in 0..n /\ L - 1 < L /\ L - (L - 1) = 1
    BY <1>1, <1>8, <1>9
  <2> QED
    BY <1>1, <1>3, <1>5, <1>7, <1>8, <2>1, SameWay
<1>11. SUFFICES ASSUME NoWayUp(t)
                PROVE  FALSE
  BY <1>1, <1>2, <1>8, <1>9
<1>12. PICK h : h = Parent(Now(t)) /\ h \in Machines /\ power[h] # "on" /\ ~CanWake(h)
  BY <1>3, <1>4, <1>11, GuestHasParent DEF NoWayUp
<1>13. f[L] = h /\ L \in 0..n /\ h # None
  <2>1. L \in 0..n /\ L # 0
    BY <1>1, <1>8, <1>9
  <2>2. f[L - 1] # None
    BY <1>3, <1>10, PowerAssumption
  <2>3. f[L] = Parent(f[L - 1])
    BY <1>1, <1>5, <2>1, <2>2 DEF UpFrom
  <2> QED
    BY <1>3, <1>10, <1>12, <2>1, <2>3, PowerAssumption
<1>14. CASE L <= i
  <2>1. L \in 0..i
    BY <1>1, <1>8, <1>14
  <2> QED
    BY <1>6, <1>12, <1>13, <2>1
<1>15. CASE ~(L <= i)
  <2>1. L > i
    BY <1>1, <1>8, <1>15
  <2> QED
    BY <1>1, <1>4, <1>5, <1>6, <1>12, <1>13, <2>1, AllUpAbove DEF EndsWell
<1> QED
  BY <1>14, <1>15

\* A chain begun from a button that the page shows meets no machine that Timar cannot
\* wake and does not go round, as long as the machines are as the page saw them
\* (status._wakeable, and power.wake, which goes the same way by itself).
THEOREM ShownButtonsHaveAWay ==
  Spec => []ButtonHasAWay
<1> DEFINE J == IInv /\ Standing /\ WayIsClear
<1>1. Init => J
  BY InitHolds, InitClear
<1>2. J /\ [Next]_vars => J'
  BY StepHolds, StandingKept, ClimbKept
<1>3. J => ButtonHasAWay
  BY HasAWay DEF ButtonHasAWay
<1> QED
  BY <1>1, <1>2, <1>3, PTL DEF Spec
=============================================================================
