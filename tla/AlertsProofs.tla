---------------------------- MODULE AlertsProofs ----------------------------
(***************************************************************************)
(* NoBlips and FileIsTrue of Alerts, for any hosts, minutes, cap, crashes  *)
(* and edits of the fleet.  The file's age of an outage can be younger     *)
(* than the outage, after a crash, but never older than the looks that     *)
(* found it.  And what the file has as told or pending goes on where what  *)
(* was said ends, or, between a look and its save, what the look knows.    *)
(***************************************************************************)
EXTENDS Alerts, FiniteSetTheorems, WellFoundedInduction, TLAPS

Entries(down) == /\ DOMAIN down \subseteq Hosts
                 /\ \A h \in DOMAIN down : down[h] \in [since : 0..Minutes, told : BOOLEAN]

\* What is to be told of has been found down for at least as long as noted.
Backed(down) ==
  \A h \in DOMAIN down \ excused :
    ~down[h].told => row[h] # None /\ down[h].since <= row[h]

AgesInv ==
  /\ file = [down |-> file.down, pending |-> file.pending]
  /\ data = [down |-> data.down, pending |-> data.pending]
  /\ known \subseteq Hosts
  /\ Entries(file.down) /\ Entries(data.down)
  /\ row \in [Hosts -> (0..Minutes) \cup {None}]
  /\ at \in {"sleep", "look", "save"}
  /\ at # "save" => Backed(file.down) /\ DOMAIN data.down = {}
  /\ at = "save" => Backed(data.down)

LEMMA OlderIs ==
  ASSUME NEW a \in 0..Minutes, NEW b \in 0..Minutes, a <= b
  PROVE  Older(a) \in 0..Minutes /\ Older(b) \in 0..Minutes /\ Older(a) <= Older(b)
BY AlertsAssumption DEF Older

LEMMA TickKeeps ==
  ASSUME AgesInv, Tick
  PROVE  AgesInv'
<1> DEFINE aged == [h \in DOMAIN file.down |-> [file.down[h] EXCEPT !.since = Older(@)]]
<1>r. file = [down |-> file.down, pending |-> file.pending]
  BY DEF AgesInv
<1>1. /\ at = "sleep" /\ at' = "look" /\ UNCHANGED <<data, known, excused>>
      /\ row' = [h \in Hosts |-> IF row[h] = None THEN None ELSE Older(row[h])]
  BY DEF Tick
<1>6. file'.down = aged /\ file' = [down |-> file'.down, pending |-> file'.pending]
  <2>1. file' = [file EXCEPT !.down = aged]
    BY DEF Tick
  <2> HIDE DEF aged
  <2>2. file' = [down |-> aged, pending |-> file.pending]
    BY <1>r, <2>1
  <2> QED
    BY <2>2
<1>3. DOMAIN aged = DOMAIN file.down /\ DOMAIN file.down \subseteq Hosts
  BY DEF AgesInv, Entries
<1>2. ASSUME NEW h \in DOMAIN file.down
      PROVE  /\ file.down[h].since \in 0..Minutes /\ file.down[h].told \in BOOLEAN
             /\ aged[h] = [since |-> Older(file.down[h].since), told |-> file.down[h].told]
  <2>1. file.down[h] \in [since : 0..Minutes, told : BOOLEAN]
    BY DEF AgesInv, Entries
  <2>2. aged[h] = [file.down[h] EXCEPT !.since = Older(file.down[h].since)]
    OBVIOUS
  <2> HIDE DEF aged
  <2> QED
    BY <2>1, <2>2
<1>5. row' \in [Hosts -> (0..Minutes) \cup {None}]
  BY <1>1, OlderIs DEF AgesInv
<1> HIDE DEF aged
<1>4. \A h \in DOMAIN file.down : Older(file.down[h].since) \in 0..Minutes
  <2>1. \A a \in 0..Minutes : Older(a) \in 0..Minutes
    BY OlderIs
  <2> QED
    BY <1>2, <2>1
<1>7. Entries(aged)
  <2>1. ASSUME NEW h \in DOMAIN file.down
        PROVE  aged[h] \in [since : 0..Minutes, told : BOOLEAN]
    <3>1. Older(file.down[h].since) \in 0..Minutes /\ file.down[h].told \in BOOLEAN
      BY <1>2, <1>4
    <3>2. aged[h] = [since |-> Older(file.down[h].since), told |-> file.down[h].told]
      BY <1>2
    <3> QED
      BY <3>1, <3>2
  <2> QED
    BY <1>3, <2>1 DEF Entries
<1>8. ASSUME NEW h \in DOMAIN aged, h \notin excused, ~aged[h].told
      PROVE  row'[h] # None /\ aged[h].since <= row'[h]
  <2>0. /\ h \in DOMAIN file.down /\ ~file.down[h].told /\ h \in Hosts
        /\ aged[h].since = Older(file.down[h].since)
    <3>1. h \in DOMAIN file.down /\ h \in Hosts
      BY <1>3, <1>8
    <3>2. aged[h] = [since |-> Older(file.down[h].since), told |-> file.down[h].told]
      BY <1>2, <3>1
    <3> QED
      BY <1>8, <3>1, <3>2
  <2>1. row[h] # None /\ file.down[h].since <= row[h]
    BY <1>1, <1>8, <2>0 DEF AgesInv, Backed
  <2>2. row[h] \in 0..Minutes /\ row'[h] = Older(row[h])
    BY <1>1, <2>0, <2>1 DEF AgesInv
  <2>3. Older(row[h]) \in 0..Minutes /\ Older(file.down[h].since) <= Older(row[h])
    BY <1>2, <2>0, <2>1, <2>2, OlderIs
  <2> QED
    BY <2>0, <2>2, <2>3, AlertsAssumption
<1>9. Entries(file'.down) /\ Entries(data'.down)
  BY <1>1, <1>6, <1>7 DEF AgesInv
<1>10. Backed(file.down)'
  <2>1. ASSUME NEW h \in DOMAIN file'.down \ excused', ~file'.down[h].told
        PROVE  row'[h] # None /\ file'.down[h].since <= row'[h]
    BY <1>1, <1>6, <1>8, <2>1
  <2> QED
    BY <2>1 DEF Backed
<1> HIDE DEF aged
<1> QED
  BY <1>1, <1>5, <1>6, <1>9, <1>10 DEF AgesInv, Entries

\* What a look finds and what it notes.
LEMMA LookIs ==
  ASSUME AgesInv, Look
  PROVE  /\ at' = "save" /\ data'.down = Noted(file.down) /\ excused \subseteq excused'
         /\ data' = [down |-> data'.down, pending |-> data'.pending]
         /\ UNCHANGED <<state, known, file>>
         /\ row' = [h \in Hosts |-> IF h \notin known \/ state[h] # "down" THEN None
                                    ELSE IF row[h] = None THEN 0 ELSE row[h]]
<1> DEFINE waiting == file.pending \o News(file.down)
           pending == Newest(waiting)
           lost == {waiting[i].host : i \in 1..(Len(waiting) - Len(pending))}
                     \cup {h \in DOMAIN file.down \ known : file.down[h].told}
<1>1. /\ IF online /\ pending # <<>>
         THEN /\ data' = [down |-> Noted(file.down), pending |-> <<>>]
              /\ said' = [h \in Hosts |-> LastWord(h, pending)]
         ELSE /\ data' = [down |-> Noted(file.down), pending |-> pending]
              /\ UNCHANGED said
      /\ excused' = excused \cup {waiting[i].host : i \in 1..(Len(waiting) - Len(pending))}
                            \cup {h \in DOMAIN file.down \ known : file.down[h].told}
  BY Zenon DEF Look
<1>2. excused' = excused \cup lost
  BY <1>1
<1> HIDE DEF waiting, pending, lost
<1>3. data'.down = Noted(file.down) /\ data' = [down |-> data'.down, pending |-> data'.pending]
  BY <1>1
<1>4. /\ at' = "save" /\ UNCHANGED <<state, known, file>>
      /\ row' = [h \in Hosts |-> IF h \notin known \/ state[h] # "down" THEN None
                                 ELSE IF row[h] = None THEN 0 ELSE row[h]]
  BY Zenon DEF Look
<1> QED
  BY <1>2, <1>3, <1>4

LEMMA NotedIs ==
  ASSUME AgesInv, NEW h \in DOMAIN Noted(file.down)
  PROVE  /\ h \in known /\ state[h] = "down"
         /\ h \notin DOMAIN file.down =>
              Noted(file.down)[h].since = 0 /\ Noted(file.down)[h].told = FALSE
         /\ h \in DOMAIN file.down =>
              /\ Noted(file.down)[h].since = file.down[h].since
              /\ Noted(file.down)[h].told = (file.down[h].told \/ Due(file.down[h]))
<1>1. h \in {x \in known : state[x] = "down"}
  BY DEF Noted
<1>2. Noted(file.down)[h] = IF h \notin DOMAIN file.down THEN [since |-> 0, told |-> FALSE]
                            ELSE [file.down[h] EXCEPT !.told = @ \/ Due(file.down[h])]
  BY <1>1 DEF Noted
<1>3. h \in DOMAIN file.down => file.down[h] \in [since : 0..Minutes, told : BOOLEAN]
  BY DEF AgesInv, Entries
<1> DEFINE noted == Noted(file.down)[h]
<1>4. noted = IF h \notin DOMAIN file.down THEN [since |-> 0, told |-> FALSE]
              ELSE [file.down[h] EXCEPT !.told = file.down[h].told \/ Due(file.down[h])]
  BY <1>2
<1> HIDE DEF noted
<1>5. CASE h \in DOMAIN file.down
  <2>1. noted = [since |-> file.down[h].since, told |-> file.down[h].told \/ Due(file.down[h])]
    BY <1>3, <1>4, <1>5
  <2>2. noted.since = file.down[h].since /\ noted.told = (file.down[h].told \/ Due(file.down[h]))
    BY <2>1
  <2> QED
    BY <1>1, <1>5, <2>2 DEF noted
<1>6. CASE h \notin DOMAIN file.down
  <2>1. noted.since = 0 /\ noted.told = FALSE
    BY <1>4, <1>6
  <2> QED
    BY <1>1, <1>6, <2>1 DEF noted
<1> QED
  BY <1>5, <1>6

\* A look is what an outage's age and its telling begin with.
LEMMA LookKeeps ==
  ASSUME AgesInv, Look
  PROVE  AgesInv' /\ \A h \in Hosts \ excused :
           Told(data', h) /\ ~Told(file, h) => state[h] = "down" /\ row[h] = Minutes
<1> DEFINE noted == Noted(file.down)
<1>1. /\ at' = "save" /\ data'.down = noted /\ excused \subseteq excused'
      /\ data' = [down |-> data'.down, pending |-> data'.pending]
      /\ UNCHANGED <<state, known, file>>
      /\ row' = [h \in Hosts |-> IF h \notin known \/ state[h] # "down" THEN None
                                 ELSE IF row[h] = None THEN 0 ELSE row[h]]
  BY LookIs
<1>2. at = "look"
  BY DEF Look
<1>3. Backed(file.down) /\ Entries(file.down) /\ known \subseteq Hosts
  BY <1>2 DEF AgesInv
<1>4. ASSUME NEW h \in DOMAIN noted
      PROVE  /\ h \in Hosts /\ h \in known /\ state[h] = "down"
             /\ h \notin DOMAIN file.down => noted[h].since = 0 /\ noted[h].told = FALSE
             /\ h \in DOMAIN file.down =>
                  /\ noted[h].since = file.down[h].since
                  /\ noted[h].told = (file.down[h].told \/ Due(file.down[h]))
  BY <1>3, NotedIs
<1>5. 0 \in 0..Minutes /\ None \notin 0..Minutes
  BY AlertsAssumption
<1>6. row' \in [Hosts -> (0..Minutes) \cup {None}]
  BY <1>1, <1>5 DEF AgesInv
<1>7. Entries(noted)
  <2>1. DOMAIN noted \subseteq Hosts
    BY <1>4
  <2>2. \A h \in DOMAIN noted : noted[h] \in [since : 0..Minutes, told : BOOLEAN]
    BY <1>3, <1>5 DEF Noted, Entries, Due
  <2> QED
    BY <2>1, <2>2 DEF Entries
<1> HIDE DEF noted
<1>8. ASSUME NEW h \in DOMAIN noted, h \notin excused, ~noted[h].told
      PROVE  row'[h] # None /\ noted[h].since <= row'[h]
  <2>1. h \in Hosts /\ h \in known /\ state[h] = "down"
    BY <1>4
  <2>2. row'[h] = IF row[h] = None THEN 0 ELSE row[h]
    BY <1>1, <2>1
  <2>3. row[h] \in (0..Minutes) \cup {None}
    BY <2>1 DEF AgesInv
  <2>4. row'[h] \in 0..Minutes
    BY <1>5, <2>2, <2>3
  <2>5. CASE h \in DOMAIN file.down
    <3>1. noted[h].since = file.down[h].since /\ ~file.down[h].told
      BY <1>4, <1>8, <2>5
    <3>2. row[h] # None /\ file.down[h].since <= row[h]
      BY <1>3, <1>8, <2>5, <3>1 DEF Backed
    <3> QED
      BY <1>5, <2>2, <2>4, <3>1, <3>2
  <2>6. CASE h \notin DOMAIN file.down
    <3>1. noted[h].since = 0
      BY <1>4, <2>6
    <3> QED
      BY <1>5, <2>4, <3>1
  <2> QED
    BY <2>5, <2>6
<1>9. Backed(data.down)'
  <2>1. ASSUME NEW h \in DOMAIN data'.down \ excused', ~data'.down[h].told
        PROVE  row'[h] # None /\ data'.down[h].since <= row'[h]
    BY <1>1, <1>8, <2>1
  <2> QED
    BY <2>1 DEF Backed
<1>10. AgesInv'
  BY <1>1, <1>3, <1>6, <1>7, <1>9 DEF AgesInv, Entries
<1>11. ASSUME NEW h \in Hosts \ excused, Told(data', h), ~Told(file, h)
       PROVE  state[h] = "down" /\ row[h] = Minutes
  <2>1. h \in DOMAIN noted /\ noted[h].told
    BY <1>1, <1>11 DEF Told
  <2>2. h \in DOMAIN file.down /\ ~file.down[h].told /\ Due(file.down[h]) /\ state[h] = "down"
    BY <1>4, <1>11, <2>1 DEF Told
  <2>3. row[h] # None /\ file.down[h].since <= row[h]
    BY <1>3, <1>11, <2>2 DEF Backed
  <2>4. row[h] \in 0..Minutes
    BY <2>3 DEF AgesInv
  <2>5. file.down[h].since \in 0..Minutes /\ file.down[h].since >= Minutes
    <3>1. file.down[h] \in [since : 0..Minutes, told : BOOLEAN]
      BY <1>3, <2>2 DEF Entries
    <3> QED
      BY <2>2, <3>1 DEF Due
  <2> QED
    BY <2>2, <2>3, <2>4, <2>5, AlertsAssumption
<1> QED
  BY <1>10, <1>11

LEMMA StepKeeps ==
  ASSUME AgesInv, [Next]_vars
  PROVE  AgesInv'
<1>1. CASE Tick
  BY <1>1, TickKeeps
<1>2. CASE Look
  BY <1>2, LookKeeps
<1>3. CASE Save
  <2>1. /\ at = "save" /\ at' = "sleep" /\ file' = data /\ data' = Empty
        /\ UNCHANGED <<known, row, excused>>
    BY <1>3 DEF Save
  <2>2. /\ Entries(data'.down) /\ DOMAIN data'.down = {}
        /\ data' = [down |-> data'.down, pending |-> data'.pending]
    BY <2>1 DEF Empty, Entries
  <2>3. Entries(file'.down) /\ Backed(file.down)'
    BY <2>1 DEF AgesInv, Entries, Backed
  <2>4. file' = [down |-> file'.down, pending |-> file'.pending]
    BY <2>1 DEF AgesInv
  <2> QED
    BY <2>1, <2>2, <2>3, <2>4 DEF AgesInv, Entries
<1>4. CASE Crash
  <2>1. /\ at' = "sleep" /\ data' = Empty /\ UNCHANGED <<file, known, row>>
        /\ excused' = IF at = "save" THEN excused \cup Hosts ELSE excused
    BY <1>4 DEF Crash
  <2>2. /\ Entries(data'.down) /\ DOMAIN data'.down = {}
        /\ data' = [down |-> data'.down, pending |-> data'.pending]
    BY <2>1 DEF Empty, Entries
  <2>3. Backed(file.down)'
    BY <2>1 DEF AgesInv, Entries, Backed
  <2> QED
    BY <2>1, <2>2, <2>3 DEF AgesInv, Entries
<1>5. CASE Change \/ Line \/ UNCHANGED vars
  BY <1>5 DEF Change, Line, vars, AgesInv, Entries, Backed
<1>6. CASE Edit
  BY <1>6 DEF Edit, AgesInv, Entries, Backed
<1> QED
  BY <1>1, <1>2, <1>3, <1>4, <1>5, <1>6 DEF Next

\* A missed probe is not told of as an outage: a look that begins to count a host as told
\* found it down, as did every look in the `Minutes` before it (alerts.watch).
THEOREM NoBlipIsTold ==
  Spec => NoBlips
<1>1. Init => AgesInv
  BY AlertsAssumption DEF Init, AgesInv, Empty, Entries, Backed
<1>2. AgesInv /\ [Next]_vars => AgesInv'
  BY StepKeeps
<1>3. AgesInv /\ [Next]_vars =>
        [\A h \in Hosts \ excused :
           at = "look" /\ Told(data', h) /\ ~Told(file, h)
             => state[h] = "down" /\ row[h] = Minutes]_vars
  <2> SUFFICES ASSUME AgesInv, Next, at = "look", NEW h \in Hosts \ excused,
                      Told(data', h), ~Told(file, h)
               PROVE  state[h] = "down" /\ row[h] = Minutes
    OBVIOUS
  <2>1. CASE Look
    BY <2>1, LookKeeps
  <2>2. CASE ~Look
    <3>1. data' = data \/ data' = Empty
      BY <2>2 DEF Next, Tick, Save, Crash, Change, Line, Edit
    <3>2. DOMAIN data'.down = {}
      BY <3>1 DEF AgesInv, Empty
    <3> QED
      BY <3>2 DEF Told
  <2> QED
    BY <2>1, <2>2
<1> QED
  BY <1>1, <1>2, <1>3, PTL DEF Spec, NoBlips
-----------------------------------------------------------------------------
(***************************************************************************)
(* FileIsTrue.  A look and its save are two steps, so the file is in step  *)
(* with what was said except between them, when the look's memory is.      *)
(***************************************************************************)

\* Induction over the naturals, by the least counterexample.
LEMMA Minimal ==
  \A R, S, T : IsWellFoundedOn(R, S) /\ T \subseteq S /\ T # {} =>
     \E x \in T : \A y \in T : <<y, x>> \notin R
BY WFMin

LEMMA Least ==
  ASSUME NEW T, T \subseteq Nat, T # {}
  PROVE  \E x \in T : \A y \in T : x <= y
<1>1. OpToRel(<, Nat) = {p \in Nat \X Nat : p[1] < p[2]}
  BY DEF OpToRel
<1>2. IsWellFoundedOn(OpToRel(<, Nat), Nat)
  BY NatLessThanWellFounded
<1>3. PICK R : R = {p \in Nat \X Nat : p[1] < p[2]} /\ IsWellFoundedOn(R, Nat)
  BY <1>1, <1>2
<1>4. PICK x \in T : \A y \in T : <<y, x>> \notin R
  BY <1>3, Minimal
<1>5. \A y \in T : ~(y < x)
  BY <1>3, <1>4
<1> QED
  BY <1>4, <1>5

\* WordAt, for a host of which w was said.
Word(w, h, s, n) == LET of == {i \in 1..n : s[i].host = h}
                    IN IF of = {} THEN w ELSE s[Max(of)].what

LEMMA WordIs ==
  ASSUME NEW h, NEW s, NEW n
  PROVE  WordAt(h, s, n) = Word(said[h], h, s, n)
BY DEF WordAt, Word

LEMMA WordZero ==
  ASSUME NEW w, NEW h, NEW s
  PROVE  Word(w, h, s, 0) = w
<1>1. {i \in 1..0 : s[i].host = h} = {}
  OBVIOUS
<1> QED
  BY <1>1 DEF Word

LEMMA WordHere ==
  ASSUME NEW w, NEW h, NEW s, NEW n \in Nat \ {0}, s[n].host = h
  PROVE  Word(w, h, s, n) = s[n].what
<1> DEFINE of == {i \in 1..n : s[i].host = h}
<1>1. n \in of /\ \A i \in of : n >= i
  OBVIOUS
<1>2. \A m \in of : (\A i \in of : m >= i) => m = n
  BY <1>1
<1> HIDE DEF of
<1>3. Max(of) = n
  BY <1>1, <1>2 DEF Max
<1> QED
  BY <1>1, <1>3 DEF Word, of

LEMMA WordSkips ==
  ASSUME NEW w, NEW h, NEW s, NEW n \in Nat \ {0}, s[n].host # h
  PROVE  Word(w, h, s, n) = Word(w, h, s, n - 1)
<1>1. {i \in 1..n : s[i].host = h} = {i \in 1..(n - 1) : s[i].host = h}
  OBVIOUS
<1> QED
  BY <1>1 DEF Word

LEMMA WordQuiet ==
  ASSUME NEW w, NEW h, NEW s, NEW a \in Nat, NEW b \in Nat, a <= b,
         \A i \in (a + 1)..b : s[i].host # h
  PROVE  Word(w, h, s, b) = Word(w, h, s, a)
<1> DEFINE T == {k \in Nat : k >= a /\ k <= b /\ Word(w, h, s, k) # Word(w, h, s, a)}
<1> SUFFICES ASSUME T # {}
             PROVE  FALSE
  OBVIOUS
<1>1. PICK k \in T : \A j \in T : k <= j
  BY Least
<1>2. k \in Nat /\ k > a /\ k <= b /\ Word(w, h, s, k) # Word(w, h, s, a)
  BY <1>1
<1>3. Word(w, h, s, k) = Word(w, h, s, k - 1)
  BY <1>2, WordSkips
<1>4. k - 1 \in T
  BY <1>2, <1>3
<1> QED
  BY <1>1, <1>2, <1>4

\* A word is not lost with the messages about others that came before it.
LEMMA WordShift ==
  ASSUME NEW w, NEW h, NEW s, NEW t, NEW d \in Nat, NEW n \in Nat,
         \A i \in 1..n : t[i] = s[i + d],
         \A i \in 1..d : s[i].host # h
  PROVE  Word(w, h, t, n) = Word(w, h, s, n + d)
<1> DEFINE T == {k \in Nat : k <= n /\ Word(w, h, t, k) # Word(w, h, s, k + d)}
<1> SUFFICES ASSUME T # {}
             PROVE  FALSE
  OBVIOUS
<1>1. PICK k \in T : \A j \in T : k <= j
  BY Least
<1>2. k \in Nat /\ k <= n /\ Word(w, h, t, k) # Word(w, h, s, k + d)
  BY <1>1
<1>3. k # 0
  <2>1. Word(w, h, s, d) = Word(w, h, s, 0)
    <3>1. \A i \in (0 + 1)..d : s[i].host # h
      OBVIOUS
    <3> QED
      BY <3>1, WordQuiet
  <2> QED
    BY <1>2, <2>1, WordZero
<1>4. t[k] = s[k + d] /\ k \in Nat \ {0} /\ k + d \in Nat \ {0}
  BY <1>2, <1>3
<1>5. t[k].host # h
  <2> SUFFICES ASSUME t[k].host = h
               PROVE  FALSE
    OBVIOUS
  <2>0. k \in Nat \ {0}
    BY <1>4
  <2>1. Word(w, h, t, k) = t[k].what
    BY <2>0, WordHere
  <2>2. s[k + d].host = h
    BY <1>4
  <2>3. Word(w, h, s, k + d) = s[k + d].what
    BY <1>4, <2>2, WordHere
  <2> QED
    BY <1>2, <1>4, <2>1, <2>3
<1>6. /\ Word(w, h, t, k) = Word(w, h, t, k - 1)
      /\ Word(w, h, s, k + d) = Word(w, h, s, (k + d) - 1)
  BY <1>4, <1>5, WordSkips
<1>7. (k + d) - 1 = (k - 1) + d
  BY <1>4
<1>8. k - 1 \in T
  BY <1>2, <1>4, <1>6, <1>7
<1> QED
  BY <1>1, <1>2, <1>8

LEMMA NewestIs ==
  ASSUME NEW S, NEW s \in Seq(S)
  PROVE  /\ Newest(s) \in Seq(S) /\ Len(Newest(s)) <= MaxPending
         /\ Len(Newest(s)) <= Len(s)
         /\ \A i \in 1..Len(Newest(s)) : Newest(s)[i] = s[i + (Len(s) - Len(Newest(s)))]
<1>0. MaxPending \in Nat \ {0} /\ Len(s) \in Nat
  BY AlertsAssumption
<1>1. CASE Len(s) <= MaxPending
  <2>1. Newest(s) = s
    BY <1>1 DEF Newest
  <2> QED
    BY <1>0, <1>1, <2>1
<1>2. CASE ~(Len(s) <= MaxPending)
  <2>1. Newest(s) = SubSeq(s, Len(s) - MaxPending + 1, Len(s))
    BY <1>2 DEF Newest
  <2>2. PICK a \in Nat : a = Len(s) - MaxPending + 1 /\ a \in 1..Len(s)
    BY <1>0, <1>2
  <2>3. Newest(s) = SubSeq(s, a, Len(s))
    BY <2>1, <2>2
  <2>4. Newest(s) \in Seq(S) /\ Len(Newest(s)) = Len(s) - a + 1
    BY <1>0, <2>2, <2>3
  <2>5. Len(Newest(s)) = MaxPending
    BY <1>0, <2>2, <2>4
  <2>6. \A i \in 1..Len(Newest(s)) : Newest(s)[i] = s[a + i - 1]
    BY <1>0, <2>2, <2>3, <2>4
  <2>7. \A i \in 1..Len(Newest(s)) : a + i - 1 = i + (Len(s) - Len(Newest(s)))
    BY <1>0, <2>2, <2>5
  <2> QED
    BY <1>0, <1>2, <2>4, <2>5, <2>6, <2>7
<1> QED
  BY <1>1, <1>2

LEMMA Listed ==
  ASSUME NEW S, IsFiniteSet(S)
  PROVE  /\ SetToSeq(S) \in Seq(S)
         /\ \A i, j \in 1..Len(SetToSeq(S)) : SetToSeq(S)[i] = SetToSeq(S)[j] => i = j
         /\ \A x \in S : \E i \in 1..Len(SetToSeq(S)) : SetToSeq(S)[i] = x
<1>1. PICK n \in Nat : n = Cardinality(S) /\ ExistsBijection(1..n, S)
  BY FS_CardinalityType
<1>2. PICK f \in [1..n -> S] : IsInjective(f)
  BY <1>1 DEF ExistsBijection, Bijection, Injection
<1>3. SetToSeq(S) = CHOOSE g \in [1..n -> S] : IsInjective(g)
  BY <1>1 DEF SetToSeq
<1>4. PICK q : q = SetToSeq(S)
  OBVIOUS
<1>5. q \in [1..n -> S] /\ IsInjective(q)
  BY <1>2, <1>3, <1>4
<1>6. IsFiniteSet(1..n) /\ Cardinality(1..n) = n
  <2>1. 1 \in Int /\ n \in Int
    OBVIOUS
  <2>2. n - 1 + 1 = n /\ (1 > n => n = 0)
    OBVIOUS
  <2> QED
    BY <2>1, <2>2, FS_Interval
<1>7. q \in Injection(1..n, S)
  BY <1>5 DEF Injection
<1>8. q \in Surjection(1..n, S)
  BY <1>1, <1>6, <1>7, FS_Injection
<1>9. \A x \in S : \E i \in 1..n : q[i] = x
  BY <1>8 DEF Surjection
<1>10. q \in Seq(S) /\ Len(q) = n
  BY <1>5
<1>11. \A i, j \in 1..n : q[i] = q[j] => i = j
  BY <1>5 DEF IsInjective
<1> QED
  BY <1>4, <1>9, <1>10, <1>11

\* What a look adds about the hosts it finds down, and about those it finds back.
Fallen(down) == {h \in known \cap DOMAIN down : state[h] = "down" /\ Due(down[h])}
Risen(down) == {h \in known \cap DOMAIN down : state[h] # "down" /\ down[h].told}
Fresh(down) == {[host |-> h, what |-> "down"] : h \in Fallen(down)}
                 \cup {[host |-> h, what |-> "back"] : h \in Risen(down)}

LEMMA NewsIs ==
  ASSUME NEW down, DOMAIN down \subseteq Hosts
  PROVE  /\ News(down) \in Seq(Message)
         /\ \A i \in 1..Len(News(down)) :
              \/ News(down)[i].host \in Fallen(down) /\ News(down)[i].what = "down"
              \/ News(down)[i].host \in Risen(down) /\ News(down)[i].what = "back"
         /\ \A i, j \in 1..Len(News(down)) : News(down)[i].host = News(down)[j].host => i = j
         /\ \A h \in Fallen(down) \cup Risen(down) :
              \E i \in 1..Len(News(down)) : News(down)[i].host = h
<1>1. News(down) = SetToSeq(Fresh(down))
  BY DEF News, Fresh, Fallen, Risen
<1>2. Fallen(down) \subseteq Hosts /\ Risen(down) \subseteq Hosts
  BY DEF Fallen, Risen
<1>3. \A h \in Fallen(down) : h \notin Risen(down)
  BY DEF Fallen, Risen
<1>4. PICK S : S = Fresh(down)
  OBVIOUS
<1>5. \A m \in S : /\ m \in Message
                   /\ \/ m.host \in Fallen(down) /\ m = [host |-> m.host, what |-> "down"]
                      \/ m.host \in Risen(down) /\ m = [host |-> m.host, what |-> "back"]
  BY <1>2, <1>4 DEF Fresh, Message
<1>6. ASSUME NEW m \in S, NEW p \in S, m.host = p.host
      PROVE  m = p
  <2>1. CASE m.host \in Fallen(down)
    <3>1. m.host \notin Risen(down)
      BY <1>3, <2>1
    <3>2. m = [host |-> m.host, what |-> "down"] /\ p = [host |-> p.host, what |-> "down"]
      BY <1>5, <1>6, <3>1
    <3> QED
      BY <1>6, <3>2
  <2>2. CASE m.host \notin Fallen(down)
    <3>1. m = [host |-> m.host, what |-> "back"] /\ p = [host |-> p.host, what |-> "back"]
      BY <1>5, <1>6, <2>2
    <3> QED
      BY <1>6, <3>1
  <2> QED
    BY <2>1, <2>2
<1>7. ASSUME NEW h \in Fallen(down) \cup Risen(down)
      PROVE  \E m \in S : m.host = h
  <2>1. [host |-> h, what |-> "down"] \in S \/ [host |-> h, what |-> "back"] \in S
    BY <1>4 DEF Fresh
  <2>2. [host |-> h, what |-> "down"].host = h /\ [host |-> h, what |-> "back"].host = h
    OBVIOUS
  <2> QED
    BY <2>1, <2>2
<1>8. IsFiniteSet(S)
  <2>1. PICK f : f = [m \in S |-> m.host]
    OBVIOUS
  <2>2. f \in [S -> Hosts] /\ \A m \in S : f[m] = m.host
    BY <1>5, <2>1 DEF Message
  <2>3. f \in Injection(S, Hosts)
    BY <1>6, <2>2 DEF Injection, IsInjective
  <2> QED
    BY <2>3, FS_Injection, AlertsAssumption
<1>9. PICK q : q = News(down)
  OBVIOUS
<1>10. /\ q \in Seq(S)
       /\ \A i, j \in 1..Len(q) : q[i] = q[j] => i = j
       /\ \A m \in S : \E i \in 1..Len(q) : q[i] = m
  BY <1>1, <1>4, <1>8, <1>9, Listed
<1>11. \A i \in 1..Len(q) : q[i] \in S
  BY <1>10
<1>12. q \in Seq(Message)
  BY <1>5, <1>10, <1>11
<1>13. \A i \in 1..Len(q) : \/ q[i].host \in Fallen(down) /\ q[i].what = "down"
                            \/ q[i].host \in Risen(down) /\ q[i].what = "back"
  BY <1>5, <1>11
<1>14. \A i, j \in 1..Len(q) : q[i].host = q[j].host => i = j
  BY <1>6, <1>10, <1>11
<1>15. \A h \in Fallen(down) \cup Risen(down) : \E i \in 1..Len(q) : q[i].host = h
  BY <1>7, <1>10
<1> QED
  BY <1>9, <1>12, <1>13, <1>14, <1>15

\* What a file says of an outage and what was read of it, of the hosts not excused.
InStep(d) ==
  /\ \A i \in 1..Len(d.pending) :
       d.pending[i].host \in Hosts \ excused
         => d.pending[i].what # WordAt(d.pending[i].host, d.pending, i - 1)
  /\ \A h \in Hosts \ excused : Told(d, h) <=> LastWord(h, d.pending) = "down"

OfFile(d) == /\ DOMAIN d.down \subseteq Hosts
             /\ d.down \in [DOMAIN d.down -> Entry]
             /\ d.pending \in Seq(Message)

TellInv == /\ TypeOK
           /\ Len(file.pending) <= MaxPending /\ Len(data.pending) <= MaxPending
           /\ at # "save" => InStep(file)
           /\ at = "save" => InStep(data)

Waiting(p, q, w) == p = file.pending /\ q = News(file.down) /\ w = p \o q

LEMMA NotedTold ==
  ASSUME AgesInv, NEW h
  PROVE  (h \in DOMAIN Noted(file.down) /\ Noted(file.down)[h].told)
           <=> /\ h \in known /\ state[h] = "down" /\ h \in DOMAIN file.down
               /\ file.down[h].told \/ Due(file.down[h])
<1>1. DOMAIN Noted(file.down) = {x \in known : state[x] = "down"}
  BY DEF Noted
<1>2. CASE h \in DOMAIN Noted(file.down)
  <2>1. /\ h \in known /\ state[h] = "down"
        /\ h \notin DOMAIN file.down => Noted(file.down)[h].told = FALSE
        /\ h \in DOMAIN file.down =>
             Noted(file.down)[h].told = (file.down[h].told \/ Due(file.down[h]))
    BY <1>2, NotedIs
  <2> QED
    BY <1>2, <2>1
<1>3. CASE h \notin DOMAIN Noted(file.down)
  BY <1>1, <1>3
<1> QED
  BY <1>2, <1>3

LEMMA AppendIs ==
  ASSUME NEW S, NEW p \in Seq(S), NEW q \in Seq(S)
  PROVE  /\ p \o q \in Seq(S) /\ Len(p \o q) = Len(p) + Len(q)
         /\ \A i \in 1..(Len(p) + Len(q)) :
              (p \o q)[i] = IF i <= Len(p) THEN p[i] ELSE q[i - Len(p)]
OBVIOUS

\* What is waiting after a look is in step with what the look has noted.
LEMMA WaitingIs ==
  ASSUME AgesInv, TellInv, at # "save", NEW h \in Hosts \ excused,
         NEW p, NEW q, NEW w, Waiting(p, q, w)
  PROVE  /\ \A i \in 1..Len(w) :
              w[i].host = h => w[i].what # Word(said[h], h, w, i - 1)
         /\ (h \in DOMAIN file.down /\ file.down[h].told => h \in known) =>
              ((h \in DOMAIN Noted(file.down) /\ Noted(file.down)[h].told)
                 <=> Word(said[h], h, w, Len(w)) = "down")
<1> DEFINE told == h \in DOMAIN file.down /\ file.down[h].told
<1>1. DOMAIN file.down \subseteq Hosts /\ p \in Seq(Message)
  BY DEF TellInv, TypeOK, Waiting
<1>2. /\ q \in Seq(Message)
      /\ \A i \in 1..Len(q) :
           \/ q[i].host \in Fallen(file.down) /\ q[i].what = "down"
           \/ q[i].host \in Risen(file.down) /\ q[i].what = "back"
      /\ \A i, j \in 1..Len(q) : q[i].host = q[j].host => i = j
      /\ \A x \in Fallen(file.down) \cup Risen(file.down) : \E i \in 1..Len(q) : q[i].host = x
  BY <1>1, NewsIs DEF Waiting
<1>3. PICK L \in Nat, K \in Nat : L = Len(p) /\ K = Len(q)
  BY <1>1, <1>2
<1>4. /\ Len(w) = L + K
      /\ \A i \in 1..L : w[i] = p[i]
      /\ \A k \in 1..K : w[k + L] = q[k]
  <2>1. w = p \o q /\ Len(p) = L /\ Len(q) = K
    BY <1>3 DEF Waiting
  <2>2. Len(w) = L + K /\ \A i \in 1..(L + K) : w[i] = IF i <= L THEN p[i] ELSE q[i - L]
    <3>1. /\ Len(p \o q) = Len(p) + Len(q)
          /\ \A i \in 1..(Len(p) + Len(q)) :
               (p \o q)[i] = IF i <= Len(p) THEN p[i] ELSE q[i - Len(p)]
      BY <1>1, <1>2, AppendIs
    <3> QED
      BY <2>1, <3>1
  <2>3. \A k \in 1..K : /\ k + L \in 1..(L + K) /\ ~(k + L <= L) /\ (k + L) - L = k
    OBVIOUS
  <2>4. \A i \in 1..L : i \in 1..(L + K) /\ i <= L
    OBVIOUS
  <2> QED
    BY <2>2, <2>3, <2>4
<1>5. PICK v : v = said[h]
  OBVIOUS
<1>6. \A i \in 0..L : Word(v, h, p, i) = Word(v, h, w, i)
  <2>1. ASSUME NEW i \in 0..L
        PROVE  Word(v, h, p, i) = Word(v, h, w, i)
    <3>1. \A j \in 1..i : p[j] = w[j + 0]
      BY <1>3, <1>4
    <3>2. \A j \in 1..0 : w[j].host # h
      OBVIOUS
    <3>3. Word(v, h, p, i) = Word(v, h, w, i + 0)
      BY <3>1, <3>2, WordShift
    <3> QED
      BY <3>3
  <2> QED
    BY <2>1
<1>7. /\ \A i \in 1..L : p[i].host = h => p[i].what # Word(v, h, p, i - 1)
      /\ told <=> Word(v, h, p, L) = "down"
  <2>1. InStep(file)
    BY DEF TellInv
  <2>2. \A i \in 1..Len(p) : p[i].host = h => p[i].what # WordAt(h, p, i - 1)
    BY <2>1 DEF InStep, Waiting
  <2>3. told <=> WordAt(h, p, Len(p)) = "down"
    BY <2>1 DEF InStep, Told, LastWord, Waiting
  <2> QED
    BY <1>3, <1>5, <2>2, <2>3, WordIs
<1>8. told <=> Word(v, h, w, L) = "down"
  BY <1>3, <1>6, <1>7
<1>9. h \in Fallen(file.down) => ~told
  BY DEF Fallen, Due
<1>10. h \in Risen(file.down) => told
  BY DEF Risen
<1>11. h \in Fallen(file.down) <=>
         h \in known /\ h \in DOMAIN file.down /\ state[h] = "down" /\ Due(file.down[h])
  BY DEF Fallen
<1>12. h \in Risen(file.down) <=>
         h \in known /\ h \in DOMAIN file.down /\ state[h] # "down" /\ file.down[h].told
  BY DEF Risen
<1>13. (h \in DOMAIN Noted(file.down) /\ Noted(file.down)[h].told)
           <=> /\ h \in known /\ state[h] = "down" /\ h \in DOMAIN file.down
               /\ file.down[h].told \/ Due(file.down[h])
  BY NotedTold
<1>14. ASSUME NEW k \in 1..K, q[k].host = h
       PROVE  /\ q[k].what # Word(v, h, w, (k + L) - 1)
              /\ (h \in DOMAIN Noted(file.down) /\ Noted(file.down)[h].told)
                   <=> Word(v, h, w, Len(w)) = "down"
  <2>1. \A j \in 1..K : q[j].host = h => j = k
    BY <1>2, <1>3, <1>14
  <2>2. Word(v, h, w, (k + L) - 1) = Word(v, h, w, L)
    <3>1. ASSUME NEW i \in (L + 1)..((k + L) - 1)
          PROVE  w[i].host # h
      <4>1. i - L \in 1..K /\ i - L # k /\ i = (i - L) + L
        BY <1>3
      <4>2. w[i] = q[i - L]
        BY <1>4, <4>1
      <4> QED
        BY <2>1, <4>1, <4>2
    <3>2. L <= (k + L) - 1 /\ (k + L) - 1 \in Nat
      BY <1>3
    <3> QED
      BY <3>1, <3>2, WordQuiet
  <2>3. Word(v, h, w, k + L) = q[k].what
    <3>1. w[k + L].host = h /\ k + L \in Nat \ {0} /\ w[k + L].what = q[k].what
      BY <1>3, <1>4, <1>14
    <3> QED
      BY <3>1, WordHere
  <2>4. Word(v, h, w, Len(w)) = Word(v, h, w, k + L)
    <3>1. ASSUME NEW i \in ((k + L) + 1)..(L + K)
          PROVE  w[i].host # h
      <4>1. i - L \in 1..K /\ i - L # k /\ i = (i - L) + L
        BY <1>3
      <4>2. w[i] = q[i - L]
        BY <1>4, <4>1
      <4> QED
        BY <2>1, <4>1, <4>2
    <3>2. k + L <= L + K /\ k + L \in Nat /\ L + K \in Nat
      BY <1>3
    <3>3. Word(v, h, w, L + K) = Word(v, h, w, k + L)
      BY <3>1, <3>2, WordQuiet
    <3> QED
      BY <1>4, <3>3
  <2>5. \/ h \in Fallen(file.down) /\ q[k].what = "down"
        \/ h \in Risen(file.down) /\ q[k].what = "back"
    BY <1>2, <1>3, <1>14
  <2> HIDE DEF told
  <2>6. q[k].what # Word(v, h, w, (k + L) - 1)
    BY <1>8, <1>9, <1>10, <2>2, <2>5
  <2>7. (h \in DOMAIN Noted(file.down) /\ Noted(file.down)[h].told)
          <=> Word(v, h, w, Len(w)) = "down"
    BY <1>11, <1>12, <1>13, <2>3, <2>4, <2>5
  <2> QED
    BY <2>6, <2>7
<1>15. ASSUME \A k \in 1..K : q[k].host # h, told => h \in known
       PROVE  (h \in DOMAIN Noted(file.down) /\ Noted(file.down)[h].told)
                <=> Word(v, h, w, Len(w)) = "down"
  <2>1. Word(v, h, w, Len(w)) = Word(v, h, w, L)
    <3>1. ASSUME NEW i \in (L + 1)..(L + K)
          PROVE  w[i].host # h
      <4>1. i - L \in 1..K /\ i = (i - L) + L
        BY <1>3
      <4>2. w[i] = q[i - L]
        BY <1>4, <4>1
      <4> QED
        BY <1>15, <4>1, <4>2
    <3>2. L <= L + K /\ L + K \in Nat
      BY <1>3
    <3>3. Word(v, h, w, L + K) = Word(v, h, w, L)
      BY <3>1, <3>2, WordQuiet
    <3> QED
      BY <1>4, <3>3
  <2>2. h \notin Fallen(file.down) /\ h \notin Risen(file.down)
    BY <1>2, <1>3, <1>15
  <2>3. (h \in DOMAIN Noted(file.down) /\ Noted(file.down)[h].told) <=> told
    BY <1>11, <1>12, <1>13, <1>15, <2>2
  <2> QED
    BY <1>8, <2>1, <2>3
<1>16. ASSUME NEW i \in 1..Len(w), w[i].host = h
       PROVE  w[i].what # Word(v, h, w, i - 1)
  <2>1. CASE i <= L
    <3>1. i \in 1..L /\ i - 1 \in 0..L
      BY <1>3, <1>4, <2>1
    <3>2. w[i] = p[i] /\ Word(v, h, p, i - 1) = Word(v, h, w, i - 1)
      BY <1>4, <1>6, <3>1
    <3> QED
      BY <1>7, <1>16, <3>1, <3>2
  <2>2. CASE ~(i <= L)
    <3>1. i - L \in 1..K /\ i = (i - L) + L
      BY <1>3, <1>4, <2>2
    <3>2. PICK k \in 1..K : k = i - L
      BY <3>1
    <3>3. w[i] = q[k] /\ i = k + L
      BY <1>4, <3>1, <3>2
    <3> QED
      BY <1>14, <1>16, <3>3
  <2> QED
    BY <2>1, <2>2
<1> QED
  BY <1>5, <1>14, <1>15, <1>16

\* A look cuts the oldest, and excuses the hosts they were about.
LEMMA LookCuts ==
  ASSUME AgesInv, TellInv, Look
  PROVE  /\ InStep(data)' /\ data'.pending \in Seq(Message) /\ Len(data'.pending) <= MaxPending
         /\ said' \in [Hosts -> {"down", "back"}] /\ excused' \subseteq Hosts
<1>0. at # "save" /\ at = "look"
  BY DEF Look
<1>1. PICK p, q, w : Waiting(p, q, w)
  BY DEF Waiting
<1>2. PICK n : n = Newest(w)
  OBVIOUS
<1>3. PICK lost : lost = {w[i].host : i \in 1..(Len(w) - Len(n))}
                           \cup {h \in DOMAIN file.down \ known : file.down[h].told}
  OBVIOUS
<1>4. /\ IF online /\ n # <<>>
         THEN /\ data' = [down |-> Noted(file.down), pending |-> <<>>]
              /\ said' = [h \in Hosts |-> LastWord(h, n)]
         ELSE /\ data' = [down |-> Noted(file.down), pending |-> n]
              /\ UNCHANGED said
      /\ excused' = excused \cup lost
  <2>1. n = Newest(file.pending \o News(file.down))
        /\ w = file.pending \o News(file.down)
    BY <1>1, <1>2 DEF Waiting
  <2>2. /\ IF online /\ n # <<>>
           THEN /\ data' = [down |-> Noted(file.down), pending |-> <<>>]
                /\ said' = [h \in Hosts |-> LastWord(h, n)]
           ELSE /\ data' = [down |-> Noted(file.down), pending |-> n]
                /\ UNCHANGED said
        /\ excused' = excused \cup {w[i].host : i \in 1..(Len(w) - Len(n))}
                              \cup {h \in DOMAIN file.down \ known : file.down[h].told}
    BY <2>1, Zenon DEF Look
  <2> QED
    BY <1>3, <2>2
<1>5. p \in Seq(Message) /\ q \in Seq(Message) /\ w \in Seq(Message)
  <2>1. DOMAIN file.down \subseteq Hosts /\ file.pending \in Seq(Message)
    BY DEF TellInv, TypeOK
  <2>2. News(file.down) \in Seq(Message)
    BY <2>1, NewsIs
  <2> QED
    BY <1>1, <2>1, <2>2 DEF Waiting
<1>6. /\ n \in Seq(Message) /\ Len(n) <= MaxPending /\ Len(n) <= Len(w)
      /\ \A i \in 1..Len(n) : n[i] = w[i + (Len(w) - Len(n))]
  <2>1. /\ Newest(w) \in Seq(Message) /\ Len(Newest(w)) <= MaxPending
        /\ Len(Newest(w)) <= Len(w)
        /\ \A i \in 1..Len(Newest(w)) : Newest(w)[i] = w[i + (Len(w) - Len(Newest(w)))]
    BY <1>5, NewestIs
  <2> QED
    BY <1>2, <2>1
<1>7. PICK d \in Nat, N \in Nat : d = Len(w) - Len(n) /\ N = Len(n) /\ Len(w) = N + d
  <2>1. Len(w) \in Nat /\ Len(n) \in Nat /\ Len(n) <= Len(w)
    BY <1>5, <1>6
  <2>2. PICK a, b : a = Len(w) /\ b = Len(n)
    OBVIOUS
  <2>3. a - b \in Nat /\ a = b + (a - b) /\ b \in Nat
    BY <2>1, <2>2
  <2> QED
    BY <2>2, <2>3
<1>8. \A i \in 1..N : n[i] = w[i + d] /\ i + d \in 1..Len(w)
  BY <1>6, <1>7
<1>9. /\ \A i \in 1..d : w[i].host \in lost
      /\ \A h \in DOMAIN file.down : file.down[h].told => h \in known \/ h \in lost
  BY <1>3, <1>7
<1>10. lost \subseteq Hosts
  <2>1. \A i \in 1..d : w[i].host \in Hosts
    <3>1. \A i \in 1..d : i \in 1..Len(w)
      BY <1>7
    <3>2. \A i \in 1..Len(w) : w[i] \in Message
      BY <1>5
    <3> QED
      BY <3>1, <3>2 DEF Message
  <2>2. DOMAIN file.down \subseteq Hosts
    BY DEF TellInv, TypeOK
  <2> QED
    BY <1>3, <1>7, <2>1, <2>2
<1>11. ASSUME NEW h \in Hosts \ excused, h \notin lost
       PROVE  /\ \A i \in 1..N : n[i].host = h => n[i].what # Word(said[h], h, n, i - 1)
              /\ (h \in DOMAIN Noted(file.down) /\ Noted(file.down)[h].told)
                   <=> Word(said[h], h, n, N) = "down"
  <2>1. /\ \A i \in 1..Len(w) :
              w[i].host = h => w[i].what # Word(said[h], h, w, i - 1)
        /\ (h \in DOMAIN file.down /\ file.down[h].told => h \in known) =>
              ((h \in DOMAIN Noted(file.down) /\ Noted(file.down)[h].told)
                 <=> Word(said[h], h, w, Len(w)) = "down")
    BY <1>0, <1>1, WaitingIs
  <2>2. \A i \in 1..d : w[i].host # h
    BY <1>9, <1>11
  <2>3. ASSUME NEW i \in 0..N
        PROVE  Word(said[h], h, n, i) = Word(said[h], h, w, i + d)
    <3>1. i \in Nat /\ \A j \in 1..i : n[j] = w[j + d]
      BY <1>8
    <3> QED
      BY <2>2, <3>1, WordShift
  <2>4. ASSUME NEW i \in 1..N, n[i].host = h
        PROVE  n[i].what # Word(said[h], h, n, i - 1)
    <3>1. i - 1 \in 0..N /\ (i - 1) + d = (i + d) - 1
      OBVIOUS
    <3>2. Word(said[h], h, n, i - 1) = Word(said[h], h, w, (i + d) - 1)
      BY <2>3, <3>1
    <3>3. n[i] = w[i + d] /\ i + d \in 1..Len(w)
      BY <1>8
    <3> QED
      BY <2>1, <2>4, <3>2, <3>3
  <2>5. Word(said[h], h, n, N) = Word(said[h], h, w, Len(w))
    BY <1>7, <2>3
  <2>6. h \in DOMAIN file.down /\ file.down[h].told => h \in known
    BY <1>9, <1>11
  <2> QED
    BY <2>1, <2>4, <2>5, <2>6
<1>12. \A h \in Hosts : Word(said[h], h, n, N) \in {"down", "back"}
  <2>1. ASSUME NEW h \in Hosts, NEW k \in Nat, k <= N
        PROVE  k = 0 \/ n[k].host = h \/ Word(said[h], h, n, k) = Word(said[h], h, n, k - 1)
    BY <2>1, WordSkips
  <2>2. said \in [Hosts -> {"down", "back"}]
    BY DEF TellInv, TypeOK
  <2>3. \A k \in 1..N : n[k].what \in {"down", "back"}
    <3>1. \A k \in 1..N : n[k] \in Message
      BY <1>6, <1>7
    <3> QED
      BY <3>1 DEF Message
  <2>4. ASSUME NEW h \in Hosts, Word(said[h], h, n, N) \notin {"down", "back"}
        PROVE  FALSE
    <3> DEFINE T == {k \in Nat : k <= N /\ Word(said[h], h, n, k) \notin {"down", "back"}}
    <3>1. T \subseteq Nat /\ N \in T
      BY <2>4
    <3>2. PICK k \in T : \A j \in T : k <= j
      BY <3>1, Least
    <3>3. k \in Nat /\ k <= N /\ Word(said[h], h, n, k) \notin {"down", "back"}
      BY <3>2
    <3>4. k # 0
      BY <2>2, <3>3, WordZero
    <3>5. n[k].host # h
      <4> SUFFICES ASSUME n[k].host = h
                   PROVE  FALSE
        OBVIOUS
      <4>1. k \in Nat \ {0} /\ k \in 1..N
        BY <3>3, <3>4
      <4>2. Word(said[h], h, n, k) = n[k].what
        BY <4>1, WordHere
      <4> QED
        BY <2>3, <3>3, <4>1, <4>2
    <3>6. Word(said[h], h, n, k) = Word(said[h], h, n, k - 1)
      BY <2>1, <3>3, <3>4, <3>5
    <3>7. k - 1 \in T /\ ~(k <= k - 1)
      BY <3>3, <3>4, <3>6
    <3> QED
      BY <3>2, <3>7
  <2> QED
    BY <2>4
<1>13. CASE online /\ n # <<>>
  <2>1. data' = [down |-> Noted(file.down), pending |-> <<>>]
        /\ said' = [h \in Hosts |-> LastWord(h, n)] /\ excused' = excused \cup lost
    BY <1>4, <1>13
  <2>2. data'.pending = <<>> /\ data'.down = Noted(file.down)
    BY <2>1
  <2>3. \A h \in Hosts : said'[h] = Word(said[h], h, n, N)
    BY <1>7, <2>1, WordIs DEF LastWord
  <2>4. \A h \in Hosts : WordAt(h, <<>>, 0)' = said'[h]
    <3>1. ASSUME NEW h \in Hosts
          PROVE  WordAt(h, <<>>, 0)' = said'[h]
      <4>1. {i \in 1..0 : <<>>[i].host = h} = {}
        OBVIOUS
      <4> QED
        BY <4>1 DEF WordAt
    <3> QED
      BY <3>1
  <2>5. InStep(data)'
    <3>1. Len(data'.pending) = 0
      BY <2>2
    <3>2. ASSUME NEW h \in Hosts \ excused'
          PROVE  Told(data, h)' <=> LastWord(h, data.pending)' = "down"
      <4>1. LastWord(h, data.pending)' = said'[h]
        BY <2>2, <2>4, <3>1 DEF LastWord
      <4>2. Told(data, h)' <=> h \in DOMAIN Noted(file.down) /\ Noted(file.down)[h].told
        BY <2>2 DEF Told
      <4> QED
        BY <1>11, <2>1, <2>3, <4>1, <4>2
    <3> QED
      BY <3>1, <3>2 DEF InStep
  <2>6. said' \in [Hosts -> {"down", "back"}]
    <3>1. \A h \in Hosts : LastWord(h, n) \in {"down", "back"}
      BY <1>7, <1>12, WordIs DEF LastWord
    <3> QED
      BY <2>1, <3>1
  <2>7. excused' \subseteq Hosts
    BY <1>10, <2>1 DEF TellInv, TypeOK
  <2>8. data'.pending \in Seq(Message) /\ Len(data'.pending) <= MaxPending
    BY <2>2, AlertsAssumption
  <2> QED
    BY <2>5, <2>6, <2>7, <2>8
<1>14. CASE ~(online /\ n # <<>>)
  <2>1. data' = [down |-> Noted(file.down), pending |-> n]
        /\ said' = said /\ excused' = excused \cup lost
    BY <1>4, <1>14
  <2>2. data'.pending = n /\ data'.down = Noted(file.down)
    BY <2>1
  <2>3. ASSUME NEW h, NEW i
        PROVE  WordAt(h, data.pending, i)' = Word(said[h], h, n, i)
    BY <2>1, <2>2 DEF WordAt, Word
  <2>4. InStep(data)'
    <3>1. ASSUME NEW i \in 1..N, n[i].host \in Hosts \ excused'
          PROVE  n[i].what # Word(said[n[i].host], n[i].host, n, i - 1)
      BY <1>11, <2>1, <3>1
    <3>2. ASSUME NEW h \in Hosts \ excused'
          PROVE  Told(data, h)' <=> LastWord(h, data.pending)' = "down"
      <4>1. LastWord(h, data.pending)' = Word(said[h], h, n, N)
        BY <1>7, <2>2, <2>3 DEF LastWord
      <4>2. Told(data, h)' <=> h \in DOMAIN Noted(file.down) /\ Noted(file.down)[h].told
        BY <2>2 DEF Told
      <4> QED
        BY <1>11, <2>1, <4>1, <4>2
    <3> QED
      BY <1>7, <2>2, <2>3, <3>1, <3>2 DEF InStep
  <2>5. said' \in [Hosts -> {"down", "back"}] /\ excused' \subseteq Hosts
    BY <1>10, <2>1 DEF TellInv, TypeOK
  <2> QED
    BY <1>6, <2>2, <2>4, <2>5
<1> QED
  BY <1>13, <1>14

LEMMA TickTells ==
  ASSUME AgesInv, TellInv, Tick
  PROVE  TellInv'
<1> DEFINE aged == [h \in DOMAIN file.down |-> [file.down[h] EXCEPT !.since = Older(@)]]
<1>1. /\ at = "sleep" /\ at' = "look"
      /\ UNCHANGED <<state, known, data, online, said, excused, crashes, edits>>
  BY DEF Tick
<1>2. row' \in [Hosts -> (0..Minutes) \cup {None}]
  BY TickKeeps DEF AgesInv
<1>3. file'.down = aged /\ file'.pending = file.pending
  <2>1. file = [down |-> file.down, pending |-> file.pending]
    BY DEF AgesInv
  <2>2. file' = [file EXCEPT !.down = aged]
    BY DEF Tick
  <2> HIDE DEF aged
  <2>3. file' = [down |-> aged, pending |-> file.pending]
    BY <2>1, <2>2
  <2> QED
    BY <2>3
<1>4. /\ OfFile(file) /\ OfFile(data) /\ InStep(file)
      /\ Len(file.pending) <= MaxPending /\ Len(data.pending) <= MaxPending
  BY <1>1 DEF TellInv, TypeOK, OfFile
<1>5. ASSUME NEW h \in DOMAIN file.down
      PROVE  aged[h] \in Entry /\ aged[h].told = file.down[h].told
  <2>1. file.down[h] \in Entry
    BY <1>4 DEF OfFile
  <2>2. PICK e : e = file.down[h]
    OBVIOUS
  <2>3. e \in [since : 0..Minutes, told : BOOLEAN] /\ (e.told => e.since = Minutes)
    BY <2>1, <2>2 DEF Entry
  <2>4. PICK s \in 0..Minutes, t \in BOOLEAN : e = [since |-> s, told |-> t] /\ (t => s = Minutes)
    <3>1. /\ e = [since |-> e.since, told |-> e.told]
          /\ e.since \in 0..Minutes /\ e.told \in BOOLEAN /\ (e.told => e.since = Minutes)
      BY <2>3
    <3> QED
      BY <3>1
  <2>5. aged[h] = [e EXCEPT !.since = Older(s)]
    <3>1. aged[h] = [e EXCEPT !.since = Older(e.since)]
      BY <2>2
    <3> HIDE DEF aged
    <3>2. e.since = s
      BY <2>4
    <3> QED
      BY <3>1, <3>2
  <2> HIDE DEF aged
  <2>6. aged[h] = [since |-> Older(s), told |-> t]
    BY <2>4, <2>5
  <2>7. Older(s) \in 0..Minutes /\ (t => Older(s) = Minutes)
    BY <2>4, AlertsAssumption DEF Older
  <2>8. aged[h] \in [since : 0..Minutes, told : BOOLEAN]
    BY <2>6, <2>7
  <2>9. aged[h].told => aged[h].since = Minutes
    BY <2>6, <2>7
  <2>10. aged[h].told = t /\ file.down[h].told = t
    BY <2>2, <2>4, <2>6
  <2> QED
    BY <2>8, <2>9, <2>10 DEF Entry
<1>6. DOMAIN aged = DOMAIN file.down
  OBVIOUS
<1>7. aged \in [DOMAIN aged -> Entry]
  BY <1>5
<1> HIDE DEF aged
<1>8. OfFile(file)'
  BY <1>3, <1>4, <1>6, <1>7 DEF OfFile
<1>9. OfFile(data)'
  BY <1>1, <1>4 DEF OfFile
<1>10. TypeOK'
  BY <1>1, <1>2, <1>8, <1>9 DEF TellInv, TypeOK, OfFile
<1>11. ASSUME NEW h, NEW i
       PROVE  WordAt(h, file.pending, i)' = WordAt(h, file.pending, i)
  BY <1>1, <1>3 DEF WordAt
<1>12. ASSUME NEW h
       PROVE  Told(file, h)' <=> Told(file, h)
  BY <1>3, <1>5, <1>6 DEF Told
<1>13. InStep(file)'
  BY <1>1, <1>3, <1>4, <1>11, <1>12 DEF InStep, LastWord
<1> QED
  BY <1>1, <1>3, <1>4, <1>10, <1>13 DEF TellInv

LEMMA LookTells ==
  ASSUME AgesInv, TellInv, Look
  PROVE  TellInv'
<1>1. /\ at' = "save" /\ data'.down = Noted(file.down)
      /\ UNCHANGED <<state, known, file>>
  BY LookIs
<1>2. UNCHANGED <<online, crashes, edits>>
  BY DEF Look
<1>3. row' \in [Hosts -> (0..Minutes) \cup {None}] /\ DOMAIN data'.down \subseteq Hosts
  BY LookKeeps DEF AgesInv, Entries
<1>4. /\ InStep(data)' /\ data'.pending \in Seq(Message) /\ Len(data'.pending) <= MaxPending
      /\ said' \in [Hosts -> {"down", "back"}] /\ excused' \subseteq Hosts
  BY LookCuts
<1>5. OfFile(file) /\ Len(file.pending) <= MaxPending
  BY DEF TellInv, TypeOK, OfFile
<1>6. ASSUME NEW h \in DOMAIN Noted(file.down)
      PROVE  Noted(file.down)[h] \in Entry
  <2>1. PICK d : d = Noted(file.down)[h]
    OBVIOUS
  <2>2. d \in [since : 0..Minutes, told : BOOLEAN]
    BY <1>1, <2>1, LookKeeps DEF AgesInv, Entries
  <2>3. CASE h \in DOMAIN file.down
    <3>1. PICK e : e = file.down[h]
      OBVIOUS
    <3>2. e \in [since : 0..Minutes, told : BOOLEAN] /\ (e.told => e.since = Minutes)
      BY <1>5, <2>3, <3>1 DEF OfFile, Entry
    <3>3. d.since = e.since /\ d.told = (e.told \/ Due(e))
      BY <2>1, <2>3, <3>1, NotedIs
    <3>4. Due(e) => e.since = Minutes
      BY <3>2, AlertsAssumption DEF Due
    <3> QED
      BY <2>1, <2>2, <3>2, <3>3, <3>4 DEF Entry
  <2>4. CASE h \notin DOMAIN file.down
    <3>1. d.told = FALSE
      BY <2>1, <2>4, NotedIs
    <3> QED
      BY <2>1, <2>2, <3>1 DEF Entry
  <2> QED
    BY <2>3, <2>4
<1>7. Noted(file.down) \in [DOMAIN Noted(file.down) -> Entry]
  <2>1. Noted(file.down) = [h \in DOMAIN Noted(file.down) |-> Noted(file.down)[h]]
    BY DEF Noted
  <2> QED
    BY <1>6, <2>1
<1>8. OfFile(data)' /\ OfFile(file)'
  BY <1>1, <1>3, <1>4, <1>5, <1>7 DEF OfFile
<1>9. TypeOK'
  BY <1>1, <1>2, <1>3, <1>4, <1>8 DEF TellInv, TypeOK, OfFile
<1> QED
  BY <1>1, <1>4, <1>5, <1>9 DEF TellInv

\* A step that leaves alone what the file's being in step is about.
LEMMA StillInStep ==
  ASSUME NEW d, InStep(d), said' = said, excused \subseteq excused'
  PROVE  (file' = d => InStep(file)') /\ (data' = d => InStep(data)')
<1>1. ASSUME NEW h, NEW i
      PROVE  WordAt(h, d.pending, i)' = WordAt(h, d.pending, i)
  BY DEF WordAt
<1>2. /\ \A i \in 1..Len(d.pending) :
           d.pending[i].host \in Hosts \ excused'
             => d.pending[i].what # WordAt(d.pending[i].host, d.pending, i - 1)'
      /\ \A h \in Hosts \ excused' : Told(d, h) <=> LastWord(h, d.pending)' = "down"
  BY <1>1 DEF InStep, LastWord
<1>3. ASSUME file' = d
      PROVE  InStep(file)'
  <2>1. \A h, i : WordAt(h, file.pending, i)' = WordAt(h, d.pending, i)'
    BY <1>3 DEF WordAt
  <2>2. \A h : LastWord(h, file.pending)' = LastWord(h, d.pending)'
    BY <1>3, <2>1 DEF LastWord
  <2> QED
    BY <1>2, <1>3, <2>1, <2>2 DEF InStep
<1>4. ASSUME data' = d
      PROVE  InStep(data)'
  <2>1. \A h, i : WordAt(h, data.pending, i)' = WordAt(h, d.pending, i)'
    BY <1>4 DEF WordAt
  <2>2. \A h : LastWord(h, data.pending)' = LastWord(h, d.pending)'
    BY <1>4, <2>1 DEF LastWord
  <2> QED
    BY <1>2, <1>4, <2>1, <2>2 DEF InStep
<1> QED
  BY <1>3, <1>4

LEMMA TellKept ==
  ASSUME AgesInv, TellInv, [Next]_vars
  PROVE  TellInv'
<1>1. CASE Tick
  BY <1>1, TickTells
<1>2. CASE Look
  BY <1>2, LookTells
<1>0. /\ DOMAIN Empty.down = {} /\ Empty.pending = <<>>
      /\ OfFile(Empty) /\ Len(Empty.pending) <= MaxPending
  BY AlertsAssumption DEF Empty, OfFile
<1>3. CASE Save
  <2>1. /\ at = "save" /\ file' = data /\ data' = Empty /\ at' = "sleep"
        /\ UNCHANGED <<state, known, online, said, row, excused, crashes, edits>>
    BY <1>3 DEF Save
  <2>2. InStep(data) /\ OfFile(data) /\ Len(data.pending) <= MaxPending
    BY <2>1 DEF TellInv, TypeOK, OfFile
  <2>3. InStep(file)'
    BY <2>1, <2>2, StillInStep
  <2>4. OfFile(data)' /\ OfFile(file)'
    BY <1>0, <2>1, <2>2 DEF OfFile
  <2>5. TypeOK'
    BY <2>1, <2>4 DEF TellInv, TypeOK, OfFile
  <2> QED
    BY <1>0, <2>1, <2>2, <2>3, <2>5 DEF TellInv
<1>4. CASE Crash
  <2>1. /\ at # "sleep" /\ crashes < MaxCrashes /\ crashes' = crashes + 1
        /\ at' = "sleep" /\ data' = Empty
        /\ excused' = IF at = "save" THEN excused \cup Hosts ELSE excused
        /\ UNCHANGED <<state, known, file, online, said, row, edits>>
    BY <1>4 DEF Crash
  <2>2. OfFile(file) /\ Len(file.pending) <= MaxPending
    BY DEF TellInv, TypeOK, OfFile
  <2>3. OfFile(data)' /\ OfFile(file)'
    BY <1>0, <2>1, <2>2 DEF OfFile
  <2>4. crashes' \in 0..MaxCrashes
    BY <2>1, AlertsAssumption DEF TellInv, TypeOK
  <2>5. excused' \subseteq Hosts
    BY <2>1 DEF TellInv, TypeOK
  <2>6. TypeOK'
    BY <2>1, <2>3, <2>4, <2>5 DEF TellInv, TypeOK, OfFile
  <2>7. InStep(file)'
    <3>1. CASE at = "save"
      <4>1. Hosts \ excused' = {} /\ file' = file
        BY <2>1, <3>1
      <4>2. \A i \in 1..Len(file'.pending) : file'.pending[i].host \notin Hosts \ excused'
        BY <4>1
      <4> QED
        BY <4>1, <4>2 DEF InStep
    <3>2. CASE at # "save"
      BY <2>1, <3>2, StillInStep DEF TellInv
    <3> QED
      BY <3>1, <3>2
  <2> QED
    BY <1>0, <2>1, <2>2, <2>6, <2>7 DEF TellInv
<1>5. CASE Change \/ Line \/ Edit \/ UNCHANGED vars
  <2>1. UNCHANGED <<file, data, at, said, row, excused, crashes>>
    BY <1>5 DEF Change, Line, Edit, vars
  <2>2. /\ state' \in [Hosts -> States] /\ known' \subseteq Hosts
        /\ online' \in BOOLEAN /\ edits' \in 0..MaxEdits
    <3>1. CASE Change
      BY <3>1 DEF Change, TellInv, TypeOK
    <3>2. CASE Line
      BY <3>2 DEF Line, TellInv, TypeOK
    <3>3. CASE Edit
      BY <3>3, AlertsAssumption DEF Edit, TellInv, TypeOK
    <3>4. CASE UNCHANGED vars
      BY <3>4 DEF vars, TellInv, TypeOK
    <3> QED
      BY <1>5, <3>1, <3>2, <3>3, <3>4
  <2>3. OfFile(data)' /\ OfFile(file)'
    BY <2>1 DEF OfFile, TellInv, TypeOK
  <2>4. TypeOK'
    BY <2>1, <2>2, <2>3 DEF TellInv, TypeOK, OfFile
  <2>5. (at # "save" => InStep(file)') /\ (at = "save" => InStep(data)')
    BY <2>1, StillInStep DEF TellInv
  <2> QED
    BY <2>1, <2>4, <2>5 DEF TellInv
<1> QED
  BY <1>1, <1>2, <1>3, <1>4, <1>5 DEF Next

\* What alerts.json says is what was said and what will be, host for host and word for word:
\* watch writes it after it has sent, and its cap and the crashes between are excused.
THEOREM FileSaysWhatWasSaid ==
  Spec => []FileIsTrue
<1>1. Init => AgesInv
  BY AlertsAssumption DEF Init, AgesInv, Empty, Entries, Backed
<1>2. Init => TellInv
  <2> SUFFICES ASSUME Init
               PROVE  TellInv
    OBVIOUS
  <2>1. /\ at = "sleep" /\ file = Empty /\ data = Empty /\ said = [h \in Hosts |-> "back"]
        /\ excused = {}
    BY DEF Init
  <2>2. DOMAIN Empty.down = {} /\ Empty.pending = <<>> /\ OfFile(Empty)
    BY DEF Empty, OfFile
  <2>3. TypeOK
    <3>1. OfFile(file) /\ OfFile(data)
      BY <2>1, <2>2
    <3> QED
      BY <3>1, AlertsAssumption DEF Init, TypeOK, OfFile, States
  <2>4. InStep(file)
    <3>1. Len(file.pending) = 0 /\ file.pending = <<>>
      BY <2>1, <2>2
    <3>2. ASSUME NEW h \in Hosts
          PROVE  LastWord(h, file.pending) = "back" /\ ~Told(file, h)
      <4>1. WordAt(h, file.pending, 0) = said[h]
        BY WordIs, WordZero
      <4> QED
        BY <2>1, <2>2, <3>1, <4>1 DEF LastWord, Told
    <3> QED
      BY <3>1, <3>2 DEF InStep
  <2> QED
    BY <2>1, <2>2, <2>3, <2>4, AlertsAssumption DEF TellInv
<1>3. AgesInv /\ TellInv /\ [Next]_vars => AgesInv' /\ TellInv'
  BY StepKeeps, TellKept
<1>4. TellInv => FileIsTrue
  <2> SUFFICES ASSUME TellInv
               PROVE  FileIsTrue
    OBVIOUS
  <2>1. TypeOK /\ PendingBounded
    BY DEF TellInv, PendingBounded
  <2>2. OnceEach
    <3> SUFFICES ASSUME at # "save"
                 PROVE  OnceEach
      BY DEF OnceEach
    <3>1. InStep(file)
      BY DEF TellInv
    <3>2. DOMAIN file.pending = 1..Len(file.pending)
      BY <2>1 DEF TypeOK
    <3> QED
      BY <3>1, <3>2 DEF OnceEach, InStep, Told
  <2> QED
    BY <2>1, <2>2 DEF FileIsTrue
<1> QED
  BY <1>1, <1>2, <1>3, <1>4, PTL DEF Spec
=============================================================================
