----------------------------- MODULE PagesProofs -----------------------------
(***************************************************************************)
(* The properties of Pages, for any number of threads, any containers, and *)
(* any time to live and timeout; and, at the end, those of Documents, the  *)
(* pages that write.                                                       *)
(***************************************************************************)
EXTENDS Pages, Documents, TLAPS

Rows == [op : {"none", "refresh", "page", "act"}, at : Keys \cup {"none", "done"},
         got : BOOLEAN \cup Projects \cup {Error, None}, age : 0..Longest,
         host : BOOLEAN \cup {None}, docker : Projects \cup {Error, None}]
Kept(k) == [age : 0..Stale, val : Answered(k)]

\* The type invariant, with what a reader holds: an answer of the key it is at, and no
\* time spent before it asked.
Shape ==
  /\ truth \in [host : BOOLEAN, docker : Projects]
  /\ \A k \in Keys : /\ cache[k] = None \/ cache[k] \in Kept(k)
                     /\ held[k] \in [Values(k) -> 0..Oldest]
  /\ cache = [k \in Keys |-> cache[k]]
  /\ held = [k \in Keys |-> held[k]]
  /\ since = [k \in Keys |-> since[k]]
  /\ reader \in [Readers -> Rows]
  /\ \A r \in Readers :
       /\ reader[r].got = None => reader[r].age = 0
       /\ \A k \in Keys : Reads(r, k) => reader[r].got \in Answered(k)

LEMMA IdleType == Idle \in Rows
BY PagesAssumption DEF Idle, Rows

LEMMA TruthType ==
  ASSUME truth \in [host : BOOLEAN, docker : Projects], NEW k \in Keys
  PROVE  truth[k] \in Values(k) /\ Values(k) \subseteq Answered(k)
BY DEF Keys, Values, Answered

\* What a reader becomes when a key is known.
LEMMA AfterType ==
  ASSUME Shape, NEW r \in Readers, NEW k \in Keys, NEW val \in Answered(k)
  PROVE  /\ After(r, k, val) \in Rows
         /\ After(r, k, val).got = None /\ After(r, k, val).age = 0
         /\ After(r, k, val).op = reader[r].op
         /\ After(r, k, val).at \in {"docker", "done"}
         /\ k = "docker" => /\ After(r, k, val).at = "done"
                            /\ After(r, k, val).host = reader[r].host
                            /\ reader[r].op = "page" => After(r, k, val).docker = val
         /\ k = "host" => /\ After(r, k, val).at = "docker" <=> val
                          /\ reader[r].op = "page" => After(r, k, val).host = val
<1>1. reader[r] \in Rows
  BY DEF Shape
<1>2. 0 \in 0..Longest
  BY PagesAssumption
<1>3. /\ DOMAIN reader[r] = {"op", "at", "got", "age", "host", "docker"}
      /\ reader[r].op \in {"none", "refresh", "page", "act"}
      /\ reader[r] = [x \in DOMAIN reader[r] |-> reader[r][x]]
  BY <1>1 DEF Rows
<1>4. reader[r].host \in BOOLEAN \cup {None} /\ reader[r].docker \in Projects \cup {None, Error}
  BY <1>1 DEF Rows
<1> DEFINE h == IF k = "host" /\ reader[r].op = "page" THEN val ELSE reader[r].host
           d == IF k = "docker" /\ reader[r].op = "page" THEN val ELSE reader[r].docker
           a == IF k = "host" /\ val THEN "docker" ELSE "done"
<1>5. h \in BOOLEAN \cup {None} /\ d \in Projects \cup {None, Error} /\ a \in {"docker", "done"}
  BY <1>4 DEF Answered, Keys
<1> DEFINE new == [op |-> reader[r].op, at |-> a, got |-> None, age |-> 0,
                   host |-> h, docker |-> d]
<1>6. After(r, k, val) = new
  <2>1. After(r, k, val) =
          [reader[r] EXCEPT !.got = None, !.age = 0, !.host = h, !.docker = d, !.at = a]
    BY DEF After
  <2> HIDE DEF h, d, a
  <2>2. DOMAIN After(r, k, val) = DOMAIN reader[r] /\ DOMAIN new = DOMAIN reader[r]
    BY <1>3, <2>1
  <2>5. After(r, k, val) = [x \in DOMAIN reader[r] |-> After(r, k, val)[x]]
    BY <2>1, Zenon
  <2>3. \A x \in DOMAIN reader[r] : After(r, k, val)[x] = new[x]
    BY <1>3, <2>1
  <2>4. new = [x \in DOMAIN reader[r] |-> new[x]]
    BY <1>3
  <2> QED
    BY <2>2, <2>3, <2>4, <2>5
<1>7. /\ k = "docker" => a = "done" /\ h = reader[r].host
                         /\ (reader[r].op = "page" => d = val)
      /\ k = "host" => /\ a = "docker" <=> val
                       /\ reader[r].op = "page" => h = val
  BY DEF Answered
<1> HIDE DEF h, d, a
<1>8. new \in Rows
  BY <1>2, <1>3, <1>5 DEF Rows, Keys
<1>9. /\ new.got = None /\ new.age = 0 /\ new.op = reader[r].op /\ new.at = a
      /\ new.host = h /\ new.docker = d
  OBVIOUS
<1> HIDE DEF new
<1> QED
  BY <1>5, <1>6, <1>7, <1>8, <1>9 DEF Keys

\* One reader moves.
LEMMA ReaderStep ==
  ASSUME Shape, NEW r \in Readers, NEW row \in Rows,
         reader' = [reader EXCEPT ![r] = row],
         row.got = None => row.age = 0,
         \A k \in Keys : row.at = k /\ row.got # None => row.got \in Answered(k)
  PROVE  /\ reader' \in [Readers -> Rows]
         /\ \A q \in Readers :
              /\ reader'[q].got = None => reader'[q].age = 0
              /\ \A k \in Keys : Reads(q, k)' => reader'[q].got \in Answered(k)
         /\ reader'[r] = row /\ \A q \in Readers \ {r} : reader'[q] = reader[q]
<1>1. reader \in [Readers -> Rows]
  BY DEF Shape
<1>2. reader' \in [Readers -> Rows]
  BY <1>1
<1>3. reader'[r] = row /\ \A q \in Readers \ {r} : reader'[q] = reader[q]
  BY <1>1
<1>4. ASSUME NEW q \in Readers
      PROVE  /\ reader'[q].got = None => reader'[q].age = 0
             /\ \A k \in Keys : Reads(q, k)' => reader'[q].got \in Answered(k)
  BY <1>3 DEF Shape, Reads
<1> QED
  BY <1>2, <1>3, <1>4

\* The six things a reader does, as what it and the cache are afterwards.
LEMMA BeginIs ==
  ASSUME Shape, NEW r \in Readers, Begin(r)
  PROVE  \E row \in Rows :
           /\ reader' = [reader EXCEPT ![r] = row] /\ row.got = None /\ row.age = 0
           /\ row.op = "page" => row.at = "host"
<1>1. PICK op \in {"refresh", "page", "act"}, at \in {"host", "docker", "done"} :
        /\ (at = "host") <=> (op # "act")
        /\ reader' = [reader EXCEPT ![r] = [Idle EXCEPT !.op = op, !.at = at]]
  BY DEF Begin
<1> DEFINE row == [Idle EXCEPT !.op = op, !.at = at]
<1>2. row \in Rows
  BY IdleType DEF Rows, Keys
<1>3. row.got = None /\ row.age = 0 /\ row.op = op /\ row.at = at
  BY DEF Idle
<1> QED
  BY <1>1, <1>2, <1>3

LEMMA UseIs ==
  ASSUME Shape, NEW r \in Readers, Use(r)
  PROVE  \E k \in Keys :
           /\ Fresh(k) /\ cache[k] \in Kept(k) /\ cache[k].val \in Answered(k)
           /\ reader[r].at = k /\ reader[r].got = None
           /\ reader' = [reader EXCEPT ![r] = After(r, k, cache[k].val)]
           /\ UNCHANGED <<truth, cache, held, since>>
<1>1. PICK k \in Keys : /\ reader[r].at = k /\ reader[r].got = None /\ Fresh(k)
                       /\ reader' = [reader EXCEPT ![r] = After(r, k, cache[k].val)]
                       /\ UNCHANGED <<truth, cache, held, since>>
  BY DEF Use
<1>2. cache[k] \in Kept(k)
  BY <1>1 DEF Fresh, Shape
<1>3. cache[k].val \in Answered(k)
  BY <1>2 DEF Kept
<1> QED
  BY <1>1, <1>2, <1>3

LEMMA AskIs ==
  ASSUME Shape, NEW r \in Readers, Ask(r)
  PROVE  \E k \in Keys : \E val \in {truth[k], Error} :
           /\ val \in Answered(k) /\ (k = "host" => val = truth[k])
           /\ reader[r].at = k /\ reader[r].got = None
           /\ reader' = [reader EXCEPT ![r] = [reader[r] EXCEPT !.got = val]]
           /\ [reader[r] EXCEPT !.got = val] \in Rows
           /\ UNCHANGED <<truth, cache, held, since>>
<1>1. PICK k \in Keys :
        /\ reader[r].at = k /\ reader[r].got = None
        /\ \E val \in Answers(k) : reader' = [reader EXCEPT ![r].got = val]
        /\ UNCHANGED <<truth, cache, held, since>>
  BY DEF Ask
<1>2. PICK val \in Answers(k) : reader' = [reader EXCEPT ![r].got = val]
  BY <1>1
<1>3. truth \in [host : BOOLEAN, docker : Projects] /\ reader[r] \in Rows
  BY DEF Shape
<1>4. /\ val \in {truth[k], Error} /\ val \in Answered(k)
      /\ k = "host" => val = truth[k]
  BY <1>3 DEF Answers, Answered, Keys
<1>5. val \in BOOLEAN \cup Projects \cup {Error}
  BY <1>4 DEF Answered
<1>6. [reader[r] EXCEPT !.got = val] \in Rows
  BY <1>3, <1>5 DEF Rows
<1> QED
  BY <1>1, <1>2, <1>4, <1>6

LEMMA KeepIs ==
  ASSUME Shape, NEW r \in Readers, Keep(r)
  PROVE  \E k \in Keys :
           /\ Reads(r, k) /\ reader[r].got \in Answered(k)
           /\ cache' = [cache EXCEPT ![k] = [age |-> 0, val |-> reader[r].got]]
           /\ [age |-> 0, val |-> reader[r].got] \in Kept(k)
           /\ reader' = [reader EXCEPT ![r] = After(r, k, reader[r].got)]
           /\ UNCHANGED <<truth, held, since>>
<1>1. PICK k \in Keys :
        /\ Reads(r, k)
        /\ cache' = [cache EXCEPT ![k] = [age |-> 0, val |-> reader[r].got]]
        /\ reader' = [reader EXCEPT ![r] = After(r, k, reader[r].got)]
        /\ UNCHANGED <<truth, held, since>>
  BY DEF Keep
<1>2. reader[r].got \in Answered(k)
  BY <1>1 DEF Shape
<1>3. [age |-> 0, val |-> reader[r].got] \in Kept(k)
  BY <1>2, PagesAssumption DEF Kept
<1> QED
  BY <1>1, <1>2, <1>3

(********************************* Types ***********************************)

LEMMA OldestType == Oldest \in Nat /\ 0 \in 0..Oldest /\ Stale \in Nat /\ Longest \in Nat
BY PagesAssumption DEF Oldest

LEMMA OlderType ==
  ASSUME NEW cap \in Nat, NEW age \in 0..cap
  PROVE  /\ Older(age, cap) \in 0..cap /\ Older(age, cap) <= age + 1
         /\ Older(age, cap) < cap => Older(age, cap) = age + 1
BY DEF Older

\* What changes is true now, and was true until now.
LEMMA HappensIs ==
  ASSUME Shape, Happens
  PROVE  /\ truth' \in [host : BOOLEAN, docker : Projects]
         /\ held' = [k \in Keys |-> held'[k]]
         /\ \A k \in Keys :
              /\ held'[k] \in [Values(k) -> 0..Oldest]
              /\ \A v \in Values(k) : held'[k][v] <= held[k][v]
              /\ held'[k][truth'[k]] = 0
         /\ UNCHANGED <<cache, reader>>
<1>1. PICK new \in [host : BOOLEAN, docker : Projects] : new # truth /\ Changes(new)
  BY DEF Happens
<1>2. truth' = new /\ UNCHANGED <<cache, reader>>
  BY <1>1 DEF Changes, Happens
<1>3. held' = [k \in Keys |-> [held[k] EXCEPT ![truth[k]] = 0, ![new[k]] = 0]]
  BY <1>1 DEF Changes
<1>4. ASSUME NEW k \in Keys
      PROVE  /\ held'[k] \in [Values(k) -> 0..Oldest]
             /\ \A v \in Values(k) : held'[k][v] <= held[k][v]
             /\ held'[k][new[k]] = 0
  <2>1. held[k] \in [Values(k) -> 0..Oldest]
    BY DEF Shape
  <2>2. new[k] \in Values(k)
    BY TruthType, <1>1 DEF Keys, Values
  <2>3. held'[k] = [held[k] EXCEPT ![truth[k]] = 0, ![new[k]] = 0]
    BY <1>3
  <2>4. held'[k] \in [Values(k) -> 0..Oldest]
    BY <2>1, <2>2, <2>3, OldestType
  <2>5. \A v \in Values(k) : held'[k][v] \in {0, held[k][v]}
    BY <2>1, <2>3
  <2>6. \A v \in Values(k) : held'[k][v] <= held[k][v]
    BY <2>1, <2>5, OldestType
  <2>7. held'[k][new[k]] = 0
    BY <2>1, <2>2, <2>3
  <2> QED
    BY <2>4, <2>6, <2>7
<1>5. held' = [k \in Keys |-> held'[k]]
  BY <1>3
<1> QED
  BY <1>1, <1>2, <1>4, <1>5

\* Time makes everything older by one at most, but for what is true.
LEMMA TickIs ==
  ASSUME Shape, Tick
  PROVE  /\ held' = [k \in Keys |-> held'[k]] /\ cache' = [k \in Keys |-> cache'[k]]
         /\ \A k \in Keys :
              /\ held'[k] \in [Values(k) -> 0..Oldest]
              /\ \A v \in Values(k) : held'[k][v] <= held[k][v] + 1
              /\ held'[k][truth[k]] = 0
              /\ cache[k] = None => cache'[k] = None
              /\ cache[k] # None => /\ cache'[k] \in Kept(k)
                                    /\ cache'[k].val = cache[k].val
                                    /\ cache'[k].age = Older(cache[k].age, Stale)
         /\ \A r \in Readers :
              \/ reader'[r] = Idle
              \/ /\ reader[r] # Idle /\ reader[r].got # None
                 /\ reader'[r] = [reader[r] EXCEPT !.age = reader[r].age + 1]
                 /\ reader'[r] \in Rows
         /\ reader' \in [Readers -> Rows]
<1>1. ASSUME NEW k \in Keys
      PROVE  /\ held'[k] \in [Values(k) -> 0..Oldest]
             /\ \A v \in Values(k) : held'[k][v] <= held[k][v] + 1
             /\ held'[k][truth[k]] = 0
  <2>1. held[k] \in [Values(k) -> 0..Oldest]
    BY DEF Shape
  <2>2. held'[k] = [v \in Values(k) |-> IF v = truth[k] THEN 0 ELSE Older(held[k][v], Oldest)]
    BY DEF Tick
  <2>3. \A v \in Values(k) : /\ Older(held[k][v], Oldest) \in 0..Oldest
                             /\ Older(held[k][v], Oldest) <= held[k][v] + 1
    BY <2>1, OldestType, OlderType
  <2>4. truth[k] \in Values(k)
    BY TruthType DEF Shape
  <2>5. held'[k] \in [Values(k) -> 0..Oldest]
    BY <2>2, <2>3, OldestType
  <2>6. \A v \in Values(k) : held'[k][v] <= held[k][v] + 1
    BY <2>1, <2>2, <2>3, OldestType
  <2> QED
    BY <2>2, <2>4, <2>5, <2>6
<1>2. ASSUME NEW k \in Keys
      PROVE  /\ cache[k] = None => cache'[k] = None
             /\ cache[k] # None => /\ cache'[k] \in Kept(k)
                                   /\ cache'[k].val = cache[k].val
                                   /\ cache'[k].age = Older(cache[k].age, Stale)
  <2>1. cache'[k] = IF cache[k] = None THEN None
                    ELSE [cache[k] EXCEPT !.age = Older(@, Stale)]
    BY DEF Tick
  <2>2. CASE cache[k] # None
    <3>1. cache[k] \in Kept(k)
      BY <2>2 DEF Shape
    <3>2. Older(cache[k].age, Stale) \in 0..Stale
      BY <3>1, OlderType, OldestType DEF Kept
    <3> QED
      BY <2>1, <2>2, <3>1, <3>2 DEF Kept
  <2> QED
    BY <2>1, <2>2
<1>3. ASSUME NEW r \in Readers
      PROVE  \/ reader'[r] = Idle
             \/ /\ reader[r] # Idle /\ reader[r].got # None
                /\ reader'[r] = [reader[r] EXCEPT !.age = reader[r].age + 1]
                /\ reader'[r] \in Rows
  <2>1. reader'[r] = IF reader[r] = Idle THEN Idle ELSE [reader[r] EXCEPT !.age = @ + 1]
    BY DEF Tick
  <2>2. CASE reader[r] # Idle
    <3>1. reader[r].got # None /\ reader[r].age < Longest
      BY <2>2 DEF Tick
    <3>2. reader[r] \in Rows
      BY DEF Shape
    <3>3. reader[r].age + 1 \in 0..Longest
      BY <3>1, <3>2, OldestType DEF Rows
    <3>4. [reader[r] EXCEPT !.age = reader[r].age + 1] \in Rows
      BY <3>2, <3>3 DEF Rows
    <3> QED
      BY <2>1, <2>2, <3>1, <3>4
  <2> QED
    BY <2>1, <2>2
<1>4. reader' \in [Readers -> Rows]
  <2>1. \A r \in Readers : reader'[r] \in Rows
    BY <1>3, IdleType
  <2>2. reader' = [r \in Readers |-> IF reader[r] = Idle THEN Idle
                                     ELSE [reader[r] EXCEPT !.age = @ + 1]]
    BY DEF Tick
  <2> QED
    BY <2>1, <2>2
<1>5. held' = [k \in Keys |-> held'[k]] /\ cache' = [k \in Keys |-> cache'[k]]
  BY DEF Tick
<1> QED
  BY <1>1, <1>2, <1>3, <1>4, <1>5

\* The answers of a key are dropped: what is true now is what counts, if nobody reads.
LEMMA DropIs ==
  ASSUME Shape, NEW d \in Keys, Drop(d)
  PROVE  /\ cache' = [k \in Keys |-> cache'[k]] /\ since' = [k \in Keys |-> since'[k]]
         /\ cache'[d] = None
         /\ since'[d] # None => /\ since'[d] = {truth[d]}
                                /\ \A r \in Readers : ~Reads(r, d)
         /\ \A k \in Keys \ {d} : cache'[k] = cache[k] /\ since'[k] = since[k]
<1>1. cache = [k \in Keys |-> cache[k]] /\ since = [k \in Keys |-> since[k]]
  BY DEF Shape
<1> QED
  BY <1>1 DEF Drop

LEMMA ActIs ==
  ASSUME Shape, NEW r \in Readers, Act(r)
  PROVE  /\ reader' = [reader EXCEPT ![r] = Idle]
         /\ UNCHANGED <<truth, held>>
         /\ Drop("docker") \/ UNCHANGED <<cache, since>>
BY DEF Act

LEMMA ShapeStep ==
  ASSUME Shape, [Next]_vars
  PROVE  Shape'
<1>a. /\ truth \in [host : BOOLEAN, docker : Projects]
      /\ cache = [k \in Keys |-> cache[k]] /\ held = [k \in Keys |-> held[k]]
      /\ since = [k \in Keys |-> since[k]] /\ reader \in [Readers -> Rows]
  BY DEF Shape
<1>b. ASSUME UNCHANGED <<truth, held>>, cache' = [k \in Keys |-> cache'[k]],
             since' = [k \in Keys |-> since'[k]],
             \A k \in Keys : cache'[k] \in {cache[k], None} \/ cache'[k] \in Kept(k),
             reader' \in [Readers -> Rows],
             \A q \in Readers :
               /\ reader'[q].got = None => reader'[q].age = 0
               /\ \A k \in Keys : Reads(q, k)' => reader'[q].got \in Answered(k)
      PROVE  Shape'
  <2>1. \A k \in Keys : /\ cache'[k] = None \/ cache'[k] \in Kept(k)
                        /\ held'[k] \in [Values(k) -> 0..Oldest]
    BY <1>b DEF Shape
  <2> QED
    BY <1>a, <1>b, <2>1 DEF Shape
<1>c. ASSUME UNCHANGED reader
      PROVE  /\ reader' \in [Readers -> Rows]
             /\ \A q \in Readers :
                  /\ reader'[q].got = None => reader'[q].age = 0
                  /\ \A k \in Keys : Reads(q, k)' => reader'[q].got \in Answered(k)
  BY <1>a, <1>c DEF Shape, Reads
<1>1. CASE UNCHANGED vars
  BY <1>1, <1>a, <1>b, <1>c DEF vars
<1>2. ASSUME NEW r \in Readers, Begin(r) PROVE Shape'
  <2>1. PICK row \in Rows : /\ reader' = [reader EXCEPT ![r] = row]
                           /\ row.got = None /\ row.age = 0
    BY <1>2, BeginIs
  <2>2. /\ reader' \in [Readers -> Rows]
        /\ \A q \in Readers :
             /\ reader'[q].got = None => reader'[q].age = 0
             /\ \A k \in Keys : Reads(q, k)' => reader'[q].got \in Answered(k)
    BY <2>1, ReaderStep
  <2> QED
    BY <1>2, <1>a, <1>b, <2>2 DEF Begin
<1>3. ASSUME NEW r \in Readers, Use(r) PROVE Shape'
  <2>1. PICK k \in Keys : /\ cache[k].val \in Answered(k)
                         /\ reader' = [reader EXCEPT ![r] = After(r, k, cache[k].val)]
                         /\ UNCHANGED <<truth, cache, held, since>>
    BY <1>3, UseIs
  <2>2. /\ After(r, k, cache[k].val) \in Rows /\ After(r, k, cache[k].val).got = None
        /\ After(r, k, cache[k].val).age = 0
    BY <2>1, AfterType
  <2>3. /\ reader' \in [Readers -> Rows]
        /\ \A q \in Readers :
             /\ reader'[q].got = None => reader'[q].age = 0
             /\ \A j \in Keys : Reads(q, j)' => reader'[q].got \in Answered(j)
    BY <2>1, <2>2, ReaderStep
  <2> QED
    BY <1>a, <1>b, <2>1, <2>3
<1>4. ASSUME NEW r \in Readers, Ask(r) PROVE Shape'
  <2>1. PICK k \in Keys : \E val \in {truth[k], Error} :
          /\ val \in Answered(k) /\ reader[r].at = k /\ reader[r].got = None
          /\ reader' = [reader EXCEPT ![r] = [reader[r] EXCEPT !.got = val]]
          /\ [reader[r] EXCEPT !.got = val] \in Rows
          /\ UNCHANGED <<truth, cache, held, since>>
    BY <1>4, AskIs
  <2>2. PICK val \in {truth[k], Error} :
          /\ val \in Answered(k) /\ reader[r].at = k /\ reader[r].got = None
          /\ reader' = [reader EXCEPT ![r] = [reader[r] EXCEPT !.got = val]]
          /\ [reader[r] EXCEPT !.got = val] \in Rows
          /\ UNCHANGED <<truth, cache, held, since>>
    BY <2>1
  <2> DEFINE row == [reader[r] EXCEPT !.got = val]
  <2>3. row.got = val /\ row.at = k /\ row.age = 0
    <3>1. reader[r] \in Rows /\ reader[r].age = 0
      BY <1>a, <2>2 DEF Shape
    <3> QED
      BY <2>2, <3>1 DEF Rows
  <2>4. row \in Rows /\ reader' = [reader EXCEPT ![r] = row]
    BY <2>2
  <2> HIDE DEF row
  <2>5. /\ reader' \in [Readers -> Rows]
        /\ \A q \in Readers :
             /\ reader'[q].got = None => reader'[q].age = 0
             /\ \A j \in Keys : Reads(q, j)' => reader'[q].got \in Answered(j)
    <3>1. \A j \in Keys : row.at = j /\ row.got # None => row.got \in Answered(j)
      BY <2>2, <2>3
    <3>2. row.got = None => row.age = 0
      BY <2>3
    <3> QED
      BY <2>4, <3>1, <3>2, ReaderStep
  <2> QED
    BY <1>a, <1>b, <2>2, <2>5
<1>5. ASSUME NEW r \in Readers, Keep(r) PROVE Shape'
  <2>1. PICK k \in Keys :
          /\ reader[r].got \in Answered(k)
          /\ cache' = [cache EXCEPT ![k] = [age |-> 0, val |-> reader[r].got]]
          /\ [age |-> 0, val |-> reader[r].got] \in Kept(k)
          /\ reader' = [reader EXCEPT ![r] = After(r, k, reader[r].got)]
          /\ UNCHANGED <<truth, held, since>>
    BY <1>5, KeepIs
  <2>2. /\ After(r, k, reader[r].got) \in Rows /\ After(r, k, reader[r].got).got = None
        /\ After(r, k, reader[r].got).age = 0
    BY <2>1, AfterType
  <2>3. /\ reader' \in [Readers -> Rows]
        /\ \A q \in Readers :
             /\ reader'[q].got = None => reader'[q].age = 0
             /\ \A j \in Keys : Reads(q, j)' => reader'[q].got \in Answered(j)
    BY <2>1, <2>2, ReaderStep
  <2>4. /\ cache' = [j \in Keys |-> cache'[j]]
        /\ \A j \in Keys : cache'[j] \in {cache[j], None} \/ cache'[j] \in Kept(j)
    BY <1>a, <2>1
  <2> QED
    BY <1>a, <1>b, <2>1, <2>3, <2>4
<1>6. ASSUME NEW r \in Readers, reader' = [reader EXCEPT ![r] = Idle]
      PROVE  /\ reader' \in [Readers -> Rows]
             /\ \A q \in Readers :
                  /\ reader'[q].got = None => reader'[q].age = 0
                  /\ \A j \in Keys : Reads(q, j)' => reader'[q].got \in Answered(j)
  <2>1. Idle.got = None /\ Idle.age = 0 /\ Idle \in Rows
    BY IdleType DEF Idle
  <2> QED
    BY <1>6, <2>1, ReaderStep
<1>d. ASSUME NEW k \in Keys, Drop(k)
      PROVE  /\ cache' = [j \in Keys |-> cache'[j]] /\ since' = [j \in Keys |-> since'[j]]
             /\ \A j \in Keys : cache'[j] \in {cache[j], None}
  BY <1>d, DropIs
<1>7. ASSUME NEW r \in Readers, Done(r) PROVE Shape'
  BY <1>a, <1>b, <1>6, <1>7 DEF Done
<1>8. ASSUME NEW r \in Readers, Act(r) PROVE Shape'
  <2>1. CASE Drop("docker")
    BY <1>8, <1>b, <1>6, <1>d, <2>1, ActIs DEF Keys
  <2>2. CASE UNCHANGED <<cache, since>>
    BY <1>8, <1>a, <1>b, <1>6, <2>2, ActIs
  <2> QED
    BY <1>8, <2>1, <2>2, ActIs
<1>9. CASE Power
  BY <1>9, <1>b, <1>c, <1>d DEF Power, Keys
<1>10. CASE Happens
  <2>1. since' = [k \in Keys |-> since'[k]]
    BY <1>10 DEF Happens, Changes
  <2>2. /\ truth' \in [host : BOOLEAN, docker : Projects] /\ held' = [k \in Keys |-> held'[k]]
        /\ \A k \in Keys : held'[k] \in [Values(k) -> 0..Oldest]
        /\ UNCHANGED <<cache, reader>>
    BY <1>10, HappensIs
  <2>3. \A k \in Keys : cache'[k] = None \/ cache'[k] \in Kept(k)
    BY <2>2 DEF Shape
  <2> QED
    BY <1>a, <1>c, <2>1, <2>2, <2>3 DEF Shape
<1>11. CASE Tick
  <2>1. UNCHANGED <<truth, since>>
    BY <1>11 DEF Tick
  <2>2. \A k \in Keys : cache'[k] = None \/ cache'[k] \in Kept(k)
    BY <1>11, TickIs
  <2>3. ASSUME NEW q \in Readers
        PROVE  /\ reader'[q].got = None => reader'[q].age = 0
               /\ \A k \in Keys : Reads(q, k)' => reader'[q].got \in Answered(k)
    <3>1. CASE reader'[q] = Idle
      BY <3>1 DEF Idle, Reads
    <3>2. CASE /\ reader[q].got # None
               /\ reader'[q] = [reader[q] EXCEPT !.age = reader[q].age + 1]
      <4>1. reader[q] \in Rows
        BY <1>a
      <4>2. reader'[q].got = reader[q].got /\ reader'[q].at = reader[q].at
        BY <3>2, <4>1 DEF Rows
      <4> QED
        BY <3>2, <4>2 DEF Reads, Shape
    <3> QED
      BY <1>11, <3>1, <3>2, TickIs
  <2>4. /\ held' = [k \in Keys |-> held'[k]] /\ cache' = [k \in Keys |-> cache'[k]]
        /\ \A k \in Keys : held'[k] \in [Values(k) -> 0..Oldest]
        /\ reader' \in [Readers -> Rows]
    BY <1>11, TickIs
  <2> QED
    BY <1>a, <2>1, <2>2, <2>3, <2>4 DEF Shape
<1> QED
  BY <1>1, <1>2, <1>3, <1>4, <1>5, <1>7, <1>8, <1>9, <1>10, <1>11 DEF Next

(******************************* After a drop ******************************)

\* What a reader holds of a key that was dropped with no read of it under way was true
\* since, as well as what is kept: the first is what the second comes from.
Since ==
  \A k \in Keys : since[k] # None =>
    /\ truth[k] \in since[k]
    /\ cache[k] # None /\ (k = "host" \/ cache[k].val # Error) => cache[k].val \in since[k]
    /\ \A r \in Readers :
         Reads(r, k) /\ (k = "host" \/ reader[r].got # Error) => reader[r].got \in since[k]

LEMMA SinceStep ==
  ASSUME Shape, Since, [Next]_vars
  PROVE  Since'
<1>a. /\ cache = [k \in Keys |-> cache[k]] /\ reader \in [Readers -> Rows]
      /\ since = [k \in Keys |-> since[k]]
  BY DEF Shape
<1>b. ASSUME UNCHANGED <<truth, cache, since>>,
             \A r \in Readers : reader'[r] = reader[r] \/ reader'[r].got = None
      PROVE  Since'
  <2>1. \A r \in Readers, k \in Keys :
          Reads(r, k)' => Reads(r, k) /\ reader'[r].got = reader[r].got
    BY <1>b DEF Reads
  <2> QED
    BY <1>b, <2>1 DEF Since
<1>1. CASE UNCHANGED vars
  BY <1>1, <1>b DEF vars
<1>2. ASSUME NEW r \in Readers, NEW row \in Rows, row.got = None,
             reader' = [reader EXCEPT ![r] = row]
      PROVE  \A q \in Readers : reader'[q] = reader[q] \/ reader'[q].got = None
  BY <1>a, <1>2
<1>3. ASSUME NEW r \in Readers, Begin(r) PROVE Since'
  <2>1. \A q \in Readers : reader'[q] = reader[q] \/ reader'[q].got = None
    BY <1>2, <1>3, BeginIs
  <2> QED
    BY <1>3, <1>b, <2>1 DEF Begin
<1>4. ASSUME NEW r \in Readers, Use(r) PROVE Since'
  <2>1. \A q \in Readers : reader'[q] = reader[q] \/ reader'[q].got = None
    BY <1>2, <1>4, UseIs, AfterType
  <2> QED
    BY <1>4, <1>b, <2>1 DEF Use
<1>5. ASSUME NEW r \in Readers, Done(r) PROVE Since'
  <2>1. \A q \in Readers : reader'[q] = reader[q] \/ reader'[q].got = None
    BY <1>2, <1>5, IdleType DEF Done, Idle
  <2> QED
    BY <1>5, <1>b, <2>1 DEF Done
<1>6. ASSUME NEW r \in Readers, Ask(r) PROVE Since'
  <2>1. PICK k \in Keys : \E val \in {truth[k], Error} :
          /\ val \in Answered(k) /\ (k = "host" => val = truth[k])
          /\ reader[r].at = k /\ reader[r].got = None
          /\ reader' = [reader EXCEPT ![r] = [reader[r] EXCEPT !.got = val]]
          /\ [reader[r] EXCEPT !.got = val] \in Rows
          /\ UNCHANGED <<truth, cache, held, since>>
    BY <1>6, AskIs
  <2>2. PICK val \in {truth[k], Error} :
          /\ val \in Answered(k) /\ (k = "host" => val = truth[k])
          /\ reader[r].at = k /\ reader[r].got = None
          /\ reader' = [reader EXCEPT ![r] = [reader[r] EXCEPT !.got = val]]
          /\ UNCHANGED <<truth, cache, held, since>>
    BY <2>1
  <2>3. /\ \A q \in Readers \ {r} : reader'[q] = reader[q]
        /\ reader'[r].got = val /\ reader'[r].at = k
    BY <1>a, <2>2 DEF Rows
  <2>4. \A q \in Readers, j \in Keys :
          Reads(q, j)' =>
            \/ Reads(q, j) /\ reader'[q].got = reader[q].got
            \/ q = r /\ j = k /\ reader'[q].got = val
    BY <2>3 DEF Reads
  <2>5. k = "host" \/ val # Error => val = truth[k]
    BY <2>2
  <2> QED
    BY <2>2, <2>4, <2>5 DEF Since
<1>7. ASSUME NEW r \in Readers, Keep(r) PROVE Since'
  <2>1. PICK k \in Keys :
          /\ Reads(r, k) /\ reader[r].got \in Answered(k)
          /\ cache' = [cache EXCEPT ![k] = [age |-> 0, val |-> reader[r].got]]
          /\ reader' = [reader EXCEPT ![r] = After(r, k, reader[r].got)]
          /\ UNCHANGED <<truth, held, since>>
    BY <1>7, KeepIs
  <2>2. After(r, k, reader[r].got) \in Rows /\ After(r, k, reader[r].got).got = None
    BY <2>1, AfterType
  <2>3. \A q \in Readers : reader'[q] = reader[q] \/ reader'[q].got = None
    BY <1>2, <2>1, <2>2
  <2>4. \A q \in Readers, j \in Keys :
          Reads(q, j)' => Reads(q, j) /\ reader'[q].got = reader[q].got
    BY <2>3 DEF Reads
  <2>5. /\ \A j \in Keys \ {k} : cache'[j] = cache[j]
        /\ cache'[k].val = reader[r].got
    BY <1>a, <2>1
  <2> QED
    BY <2>1, <2>4, <2>5 DEF Since
<1>8. ASSUME NEW k \in Keys, Drop(k), truth' = truth,
             \A r \in Readers : reader'[r] = reader[r] \/ reader'[r].got = None
      PROVE  Since'
  <2>1. \A q \in Readers, j \in Keys :
          Reads(q, j)' => Reads(q, j) /\ reader'[q].got = reader[q].got
    BY <1>8 DEF Reads
  <2>2. /\ cache'[k] = None
        /\ since'[k] # None => /\ since'[k] = {truth[k]}
                               /\ \A r \in Readers : ~Reads(r, k)
        /\ \A j \in Keys \ {k} : cache'[j] = cache[j] /\ since'[j] = since[j]
    BY <1>8, DropIs
  <2>3. ASSUME NEW j \in Keys, since'[j] # None
        PROVE  /\ truth'[j] \in since'[j]
               /\ cache'[j] # None /\ (j = "host" \/ cache'[j].val # Error)
                    => cache'[j].val \in since'[j]
               /\ \A r \in Readers : Reads(r, j)' /\ (j = "host" \/ reader'[r].got # Error)
                                      => reader'[r].got \in since'[j]
    <3>1. CASE j = k
      BY <1>8, <2>1, <2>2, <2>3, <3>1
    <3>2. CASE j # k
      BY <1>8, <2>1, <2>2, <2>3, <3>2 DEF Since
    <3> QED
      BY <3>1, <3>2
  <2> QED
    BY <2>3 DEF Since
<1>9. ASSUME NEW r \in Readers, Act(r) PROVE Since'
  <2>1. \A q \in Readers : reader'[q] = reader[q] \/ reader'[q].got = None
    BY <1>2, <1>9, ActIs, IdleType DEF Idle
  <2>2. CASE Drop("docker")
    BY <1>8, <1>9, <2>1, <2>2, ActIs DEF Keys
  <2>3. CASE UNCHANGED <<cache, since>>
    BY <1>9, <1>b, <2>1, <2>3, ActIs
  <2> QED
    BY <1>9, <2>2, <2>3, ActIs
<1>10. CASE Power
  BY <1>8, <1>10 DEF Power, Keys
<1>11. CASE Happens
  <2>1. PICK new \in [host : BOOLEAN, docker : Projects] : Changes(new)
    BY <1>11 DEF Happens
  <2>2. /\ truth' = new /\ UNCHANGED <<cache, reader>>
        /\ \A k \in Keys : since'[k] = IF since[k] = None THEN None ELSE since[k] \cup {new[k]}
    BY <1>11, <2>1 DEF Changes, Happens
  <2>3. \A q \in Readers, j \in Keys :
          Reads(q, j)' => Reads(q, j) /\ reader'[q].got = reader[q].got
    BY <2>2 DEF Reads
  <2> QED
    BY <2>2, <2>3 DEF Since
<1>12. CASE Tick
  <2>1. UNCHANGED <<truth, since>>
    BY <1>12 DEF Tick
  <2>2. ASSUME NEW q \in Readers, NEW j \in Keys, Reads(q, j)'
        PROVE  Reads(q, j) /\ reader'[q].got = reader[q].got
    <3>1. CASE reader'[q] = Idle
      BY <2>2, <3>1 DEF Idle, Reads
    <3>2. CASE reader'[q] = [reader[q] EXCEPT !.age = reader[q].age + 1]
      <4>1. reader'[q].got = reader[q].got /\ reader'[q].at = reader[q].at
        BY <1>a, <3>2 DEF Rows
      <4> QED
        BY <2>2, <4>1 DEF Reads
    <3> QED
      BY <1>12, <3>1, <3>2, TickIs
  <2>3. \A k \in Keys : cache'[k] # None => cache[k] # None /\ cache'[k].val = cache[k].val
    BY <1>12, TickIs
  <2> QED
    BY <2>1, <2>2, <2>3 DEF Since
<1> QED
  BY <1>1, <1>3, <1>4, <1>5, <1>6, <1>7, <1>9, <1>10, <1>11, <1>12 DEF Next

LEMMA ShapeInit == Init => Shape /\ Since
<1> SUFFICES ASSUME Init PROVE Shape /\ Since
  OBVIOUS
<1>1. \A k \in Keys : held[k] \in [Values(k) -> 0..Oldest]
  BY OldestType DEF Init
<1>2. reader \in [Readers -> Rows] /\ \A r \in Readers : reader[r] = Idle
  BY IdleType DEF Init
<1>3. /\ cache = [k \in Keys |-> cache[k]] /\ held = [k \in Keys |-> held[k]]
      /\ since = [k \in Keys |-> since[k]]
      /\ \A k \in Keys : cache[k] = None /\ since[k] = None
  BY DEF Init
<1>4. \A r \in Readers : reader[r].got = None /\ reader[r].age = 0
  BY <1>2 DEF Idle
<1>5. Shape
  BY <1>1, <1>2, <1>3, <1>4 DEF Init, Shape, Reads
<1>6. Since
  BY <1>3 DEF Since
<1> QED
  BY <1>5, <1>6

\* What a page can find once the answers were dropped with no read under way is not from
\* before (status.invalidate, containers.invalidate).
THEOREM DroppedIsGone == Spec => []NothingFromBefore
<1>1. Shape /\ Since /\ [Next]_vars => (Shape /\ Since)'
  BY ShapeStep, SinceStep
<1>2. Since => NothingFromBefore
  BY DEF Since, NothingFromBefore
<1> QED
  BY <1>1, <1>2, ShapeInit, PTL DEF Spec

(***************************** How old it is ******************************)

\* How long ago a reader's answer was true: no longer than it has been reading; what it saw
\* of the host no longer than an answer is kept, one read of the host and the one it does.
RowAges(r) ==
  /\ reader[r].at = "done" => reader[r].got = None
  /\ \A k \in Keys : Reads(r, k) /\ reader[r].got \in Values(k)
                      => held[k][reader[r].got] <= reader[r].age
  /\ reader[r].op = "page" /\ reader[r].at = "docker" =>
       /\ reader[r].host \in BOOLEAN
       /\ held["host"][reader[r].host] <= Stale + Longest + reader[r].age
  /\ reader[r].op = "page" /\ reader[r].at = "done" =>
       /\ reader[r].host \in BOOLEAN
       /\ held["host"][reader[r].host] <= Stale + 2 * Longest
       /\ reader[r].host = TRUE =>
            /\ reader[r].docker \in Answered("docker")
            /\ reader[r].docker \in Projects
                 => held["docker"][reader[r].docker] <= Stale + Longest

\* What is kept was true when the read of it began, which is Longest before it was kept.
KeptAge(k) ==
  cache[k] # None /\ cache[k].val \in Values(k) /\ cache[k].age < Stale
    => held[k][cache[k].val] <= cache[k].age + Longest

Ages == /\ \A k \in Keys : held[k][truth[k]] = 0 /\ KeptAge(k)
        /\ \A r \in Readers : RowAges(r)

LEMMA HeldType ==
  ASSUME Shape, NEW k \in Keys, NEW v \in Values(k)
  PROVE  held[k][v] \in Nat
BY OldestType DEF Shape

LEMMA ErrorIsNone == \A k \in Keys : k = "docker" => Error \notin Values(k)
<1>1. "error" \notin Kinds
  BY DEF Kinds
<1> QED
  BY <1>1, PagesAssumption DEF Error, Values

\* A reader that does not move keeps what it has, as long as nothing gets older.
LEMMA OthersKeep ==
  ASSUME NEW q \in Readers, held' = held, reader'[q] = reader[q], RowAges(q)
  PROVE  RowAges(q)'
BY DEF RowAges, Reads

\* One that has just learned a key, by an answer that was true not long ago.
LEMMA AfterAges ==
  ASSUME Shape, NEW r \in Readers, NEW k \in Keys, NEW val \in Answered(k),
         held' = held, reader'[r] = After(r, k, val), reader[r].at = k, RowAges(r),
         val \in Values(k) => held[k][val] <= Stale + Longest
  PROVE  RowAges(r)'
<1> DEFINE row == After(r, k, val)
<1>1. /\ row \in Rows /\ row.got = None /\ row.age = 0 /\ row.op = reader[r].op
      /\ row.at \in {"docker", "done"}
      /\ k = "docker" => /\ row.at = "done" /\ row.host = reader[r].host
                         /\ reader[r].op = "page" => row.docker = val
      /\ k = "host" => /\ row.at = "docker" <=> val
                       /\ reader[r].op = "page" => row.host = val
  BY AfterType
<1>2. reader'[r] = row
  OBVIOUS
<1> HIDE DEF row
<1>3. ~\E j \in Keys : Reads(r, j)'
  BY <1>1, <1>2 DEF Reads
<1>4. CASE k = "host"
  <2>1. val \in BOOLEAN /\ held["host"][val] \in Nat /\ held["host"][val] <= Stale + Longest
    BY <1>4, HeldType DEF Answered, Values, Keys
  <2>2. row.op = "page" => /\ row.host \in BOOLEAN
                           /\ held["host"][row.host] \in Nat
                           /\ held["host"][row.host] <= Stale + Longest
                           /\ row.at = "done" => row.host # TRUE
    BY <1>1, <1>4, <2>1
  <2>3. row.op = "page" => /\ held["host"][row.host] <= Stale + Longest + row.age
                           /\ held["host"][row.host] <= Stale + 2 * Longest
    BY <1>1, <2>2, OldestType
  <2> QED
    BY <1>1, <1>2, <1>3, <2>2, <2>3 DEF RowAges
<1>5. CASE k = "docker"
  <2>1. reader[r].age \in 0..Longest
    BY DEF Shape, Rows
  <2>2. row.op = "page" => /\ row.host \in BOOLEAN
                           /\ held["host"][row.host] <= Stale + Longest + reader[r].age
    BY <1>1, <1>5 DEF RowAges
  <2>3. row.op = "page" => held["host"][row.host] \in Nat
    BY <2>2, HeldType DEF Values, Keys
  <2>4. row.op = "page" => held["host"][row.host] <= Stale + 2 * Longest
    BY <2>1, <2>2, <2>3, OldestType
  <2>5. val \in Projects => held["docker"][val] <= Stale + Longest
    BY <1>5 DEF Values
  <2> QED
    BY <1>1, <1>2, <1>3, <1>5, <2>2, <2>4, <2>5 DEF RowAges
<1> QED
  BY <1>4, <1>5 DEF Keys

LEMMA AgesStep ==
  ASSUME Shape, Ages, [Next]_vars
  PROVE  Ages'
<1>a. /\ cache = [k \in Keys |-> cache[k]] /\ reader \in [Readers -> Rows]
      /\ truth \in [host : BOOLEAN, docker : Projects]
  BY DEF Shape
<1>b. ASSUME UNCHANGED <<truth, held>>, \A k \in Keys : cache'[k] = cache[k] \/ cache'[k] = None,
             \A q \in Readers : RowAges(q)'
      PROVE  Ages'
  <2>1. \A k \in Keys : KeptAge(k)'
    BY <1>b DEF Ages, KeptAge
  <2> QED
    BY <1>b, <2>1 DEF Ages
<1>c. ASSUME NEW r \in Readers, NEW row \in Rows, reader' = [reader EXCEPT ![r] = row],
             UNCHANGED held, RowAges(r)'
      PROVE  \A q \in Readers : RowAges(q)'
  <2> TAKE q \in Readers
  <2>1. CASE q = r
    BY <1>c, <2>1
  <2>2. CASE q # r
    <3>1. reader'[q] = reader[q]
      BY <1>a, <1>c, <2>2
    <3> QED
      BY <1>c, <3>1, OthersKeep DEF Ages
  <2> QED
    BY <2>1, <2>2
<1>d. ASSUME UNCHANGED <<reader, held>> PROVE \A q \in Readers : RowAges(q)'
  BY <1>d, OthersKeep DEF Ages
<1>1. CASE UNCHANGED vars
  BY <1>1, <1>b, <1>d DEF vars
<1>2. ASSUME NEW r \in Readers, NEW row \in Rows, reader' = [reader EXCEPT ![r] = row],
             UNCHANGED held, row.got = None,
             row.op = "page" => row.at = "host"
      PROVE  \A q \in Readers : RowAges(q)'
  <2>1. reader'[r] = row
    BY <1>a, <1>2
  <2>2. RowAges(r)'
    BY <1>2, <2>1 DEF RowAges, Reads
  <2> QED
    BY <1>2, <1>c, <2>2
<1>3. ASSUME NEW r \in Readers, Begin(r) PROVE Ages'
  <2>1. UNCHANGED <<truth, cache, held>>
    BY <1>3 DEF Begin
  <2>2. \A q \in Readers : RowAges(q)'
    BY <1>2, <1>3, <2>1, BeginIs
  <2> QED
    BY <1>b, <2>1, <2>2
<1>4. ASSUME NEW r \in Readers, reader' = [reader EXCEPT ![r] = Idle], UNCHANGED held
      PROVE  \A q \in Readers : RowAges(q)'
  BY <1>2, <1>4, IdleType DEF Idle
<1>5. ASSUME NEW r \in Readers, Done(r) PROVE Ages'
  BY <1>b, <1>4, <1>5 DEF Done
<1>6. ASSUME NEW r \in Readers, Use(r) PROVE Ages'
  <2>1. PICK k \in Keys :
          /\ Fresh(k) /\ cache[k] \in Kept(k) /\ cache[k].val \in Answered(k)
          /\ reader[r].at = k /\ reader[r].got = None
          /\ reader' = [reader EXCEPT ![r] = After(r, k, cache[k].val)]
          /\ UNCHANGED <<truth, cache, held, since>>
    BY <1>6, UseIs
  <2>2. ASSUME cache[k].val \in Values(k) PROVE held[k][cache[k].val] <= Stale + Longest
    <3>1. cache[k].age \in 0..Stale /\ cache[k].age < Stale
      BY <2>1 DEF Fresh, Kept
    <3>2. held[k][cache[k].val] <= cache[k].age + Longest
      BY <2>1, <2>2, <3>1 DEF Ages, KeptAge, Fresh
    <3>3. held[k][cache[k].val] \in Nat
      BY <2>2, HeldType
    <3> QED
      BY <3>1, <3>2, <3>3, OldestType
  <2>3. After(r, k, cache[k].val) \in Rows
    BY <2>1, AfterType
  <2>4. reader'[r] = After(r, k, cache[k].val)
    BY <1>a, <2>1
  <2>5. RowAges(r)'
    BY <2>1, <2>2, <2>4, AfterAges DEF Ages
  <2> QED
    BY <1>b, <1>c, <2>1, <2>3, <2>5
<1>7. ASSUME NEW r \in Readers, Ask(r) PROVE Ages'
  <2>1. PICK k \in Keys : \E val \in {truth[k], Error} :
          /\ val \in Answered(k) /\ (k = "host" => val = truth[k])
          /\ reader[r].at = k /\ reader[r].got = None
          /\ reader' = [reader EXCEPT ![r] = [reader[r] EXCEPT !.got = val]]
          /\ [reader[r] EXCEPT !.got = val] \in Rows
          /\ UNCHANGED <<truth, cache, held, since>>
    BY <1>7, AskIs
  <2>2. PICK val \in {truth[k], Error} :
          /\ val \in Answered(k) /\ (k = "host" => val = truth[k])
          /\ reader[r].at = k /\ reader[r].got = None
          /\ reader' = [reader EXCEPT ![r] = [reader[r] EXCEPT !.got = val]]
          /\ [reader[r] EXCEPT !.got = val] \in Rows
          /\ UNCHANGED <<truth, cache, held, since>>
    BY <2>1
  <2>3. val \in Values(k) => held[k][val] = 0
    BY <2>2, ErrorIsNone DEF Ages, Keys
  <2>4. /\ reader'[r].got = val /\ reader'[r].at = k /\ reader'[r].age = reader[r].age
        /\ reader'[r].op = reader[r].op /\ reader'[r].host = reader[r].host
        /\ reader[r].age \in 0..Longest
    BY <1>a, <2>2 DEF Rows
  <2>5. k # "done"
    BY DEF Keys
  <2>6. \A j \in Keys : Reads(r, j)' /\ reader'[r].got \in Values(j)
                        => held'[j][reader'[r].got] <= reader'[r].age
    BY <2>2, <2>3, <2>4 DEF Reads
  <2>7. RowAges(r)
    BY DEF Ages
  <2>8. RowAges(r)'
    BY <2>2, <2>4, <2>5, <2>6, <2>7 DEF RowAges
  <2> QED
    BY <1>b, <1>c, <2>2, <2>8
<1>8. ASSUME NEW r \in Readers, Keep(r) PROVE Ages'
  <2>1. PICK k \in Keys :
          /\ Reads(r, k) /\ reader[r].got \in Answered(k)
          /\ cache' = [cache EXCEPT ![k] = [age |-> 0, val |-> reader[r].got]]
          /\ reader' = [reader EXCEPT ![r] = After(r, k, reader[r].got)]
          /\ UNCHANGED <<truth, held, since>>
    BY <1>8, KeepIs
  <2>2. ASSUME reader[r].got \in Values(k)
        PROVE  /\ held[k][reader[r].got] <= Longest
               /\ held[k][reader[r].got] <= Stale + Longest
    <3>1. reader[r].age \in 0..Longest
      BY <1>a DEF Rows
    <3>2. held[k][reader[r].got] <= reader[r].age
      BY <2>1, <2>2 DEF Ages, RowAges
    <3>3. held[k][reader[r].got] \in Nat
      BY <2>2, HeldType
    <3> QED
      BY <3>1, <3>2, <3>3, OldestType
  <2>3. After(r, k, reader[r].got) \in Rows
    BY <2>1, AfterType
  <2>4. reader'[r] = After(r, k, reader[r].got) /\ reader[r].at = k
    BY <1>a, <2>1 DEF Reads
  <2>5. RowAges(r)'
    BY <2>1, <2>2, <2>4, AfterAges DEF Ages
  <2>6. \A q \in Readers : RowAges(q)'
    BY <1>c, <2>1, <2>3, <2>5
  <2>7. KeptAge(k)'
    <3>1. cache'[k].age = 0 /\ cache'[k].val = reader[r].got
      BY <1>a, <2>1
    <3> QED
      BY <2>1, <2>2, <3>1, OldestType DEF KeptAge
  <2>8. \A j \in Keys \ {k} : KeptAge(j)'
    <3>1. \A j \in Keys \ {k} : cache'[j] = cache[j]
      BY <1>a, <2>1
    <3> QED
      BY <2>1, <3>1 DEF Ages, KeptAge
  <2>9. \A j \in Keys : held'[j][truth'[j]] = 0
    BY <2>1 DEF Ages
  <2> QED
    BY <2>6, <2>7, <2>8, <2>9 DEF Ages
<1>9. ASSUME NEW k \in Keys, Drop(k) PROVE \A j \in Keys : cache'[j] \in {cache[j], None}
  BY <1>9, DropIs
<1>10. ASSUME NEW r \in Readers, Act(r) PROVE Ages'
  <2>1. \A q \in Readers : RowAges(q)'
    BY <1>4, <1>10, ActIs
  <2>2. \A j \in Keys : cache'[j] \in {cache[j], None}
    BY <1>9, <1>10, ActIs DEF Keys
  <2> QED
    BY <1>10, <1>b, <2>1, <2>2, ActIs
<1>11. CASE Power
  <2>1. Drop("host") /\ UNCHANGED <<truth, reader, held>>
    BY <1>11 DEF Power
  <2>2. \A j \in Keys : cache'[j] \in {cache[j], None}
    BY <1>9, <2>1 DEF Keys
  <2> QED
    BY <1>b, <1>d, <2>1, <2>2
<1>12. CASE Happens
  <2>1. /\ UNCHANGED <<cache, reader>>
        /\ \A k \in Keys : /\ \A v \in Values(k) : held'[k][v] <= held[k][v]
                           /\ held'[k] \in [Values(k) -> 0..Oldest]
                           /\ held'[k][truth'[k]] = 0
    BY <1>12, HappensIs
  <2>2. \A k \in Keys : \A v \in Values(k) :
          held'[k][v] \in Nat /\ held[k][v] \in Nat /\ held'[k][v] <= held[k][v]
    BY <2>1, HeldType, OldestType
  <2>3. ASSUME NEW k \in Keys PROVE KeptAge(k)'
    <3>1. ASSUME cache[k] # None, cache[k].val \in Values(k), cache[k].age < Stale
          PROVE  held'[k][cache[k].val] <= cache[k].age + Longest
      <4>1. cache[k].age \in Nat
        BY <3>1 DEF Shape, Kept
      <4>2. held[k][cache[k].val] <= cache[k].age + Longest
        BY <3>1 DEF Ages, KeptAge
      <4> QED
        BY <2>2, <3>1, <4>1, <4>2, OldestType
    <3> QED
      BY <2>1, <3>1 DEF KeptAge
  <2>4. ASSUME NEW r \in Readers PROVE RowAges(r)'
    <3>a. RowAges(r) /\ reader' = reader
      BY <2>1 DEF Ages
    <3>b. reader[r].age \in Nat
      BY <1>a DEF Rows
    <3>1. \A k \in Keys : Reads(r, k)' /\ reader'[r].got \in Values(k)
                         => held'[k][reader'[r].got] <= reader'[r].age
      BY <2>2, <3>a, <3>b DEF RowAges, Reads
    <3>2. ASSUME reader[r].host \in BOOLEAN
          PROVE  /\ held'["host"][reader[r].host] \in Nat /\ held["host"][reader[r].host] \in Nat
                 /\ held'["host"][reader[r].host] <= held["host"][reader[r].host]
      BY <2>2, <3>2 DEF Keys, Values
    <3>3. ASSUME reader[r].docker \in Projects
          PROVE  /\ held'["docker"][reader[r].docker] \in Nat
                 /\ held["docker"][reader[r].docker] \in Nat
                 /\ held'["docker"][reader[r].docker] <= held["docker"][reader[r].docker]
      BY <2>2, <3>3 DEF Keys, Values
    <3>4. reader[r].op = "page" /\ reader[r].at = "docker" =>
            /\ reader[r].host \in BOOLEAN
            /\ held'["host"][reader[r].host] <= Stale + Longest + reader[r].age
      BY <3>a, <3>b, <3>2, OldestType DEF RowAges
    <3>5. reader[r].op = "page" /\ reader[r].at = "done" =>
            /\ reader[r].host \in BOOLEAN
            /\ held'["host"][reader[r].host] <= Stale + 2 * Longest
      BY <3>a, <3>2, OldestType DEF RowAges
    <3>6. reader[r].op = "page" /\ reader[r].at = "done" /\ reader[r].host = TRUE =>
            /\ reader[r].docker \in Answered("docker")
            /\ reader[r].docker \in Projects
                 => held'["docker"][reader[r].docker] <= Stale + Longest
      BY <3>a, <3>3, OldestType DEF RowAges
    <3>7. reader[r].at = "done" => reader[r].got = None
      BY <3>a DEF RowAges
    <3> QED
      BY <3>a, <3>1, <3>4, <3>5, <3>6, <3>7 DEF RowAges
  <2> QED
    BY <2>1, <2>3, <2>4 DEF Ages
<1>13. CASE Tick
  <2>1. \A k \in Keys : /\ \A v \in Values(k) : held'[k][v] <= held[k][v] + 1
                        /\ held'[k] \in [Values(k) -> 0..Oldest]
                        /\ held'[k][truth[k]] = 0
                        /\ cache[k] = None => cache'[k] = None
                        /\ cache[k] # None => /\ cache'[k].val = cache[k].val
                                              /\ cache'[k].age = Older(cache[k].age, Stale)
    BY <1>13, TickIs
  <2>2. truth' = truth
    BY <1>13 DEF Tick
  <2>3. \A k \in Keys : \A v \in Values(k) :
          held'[k][v] \in Nat /\ held[k][v] \in Nat /\ held'[k][v] <= held[k][v] + 1
    BY <2>1, HeldType, OldestType
  <2>4. ASSUME NEW k \in Keys PROVE KeptAge(k)'
    <3>1. ASSUME cache'[k] # None, cache'[k].val \in Values(k), cache'[k].age < Stale
          PROVE  held'[k][cache'[k].val] <= cache'[k].age + Longest
      <4>1. cache[k] # None /\ cache[k].age \in 0..Stale
        BY <2>1, <3>1 DEF Shape, Kept
      <4>2. cache'[k].age = cache[k].age + 1
        BY <2>1, <3>1, <4>1, OlderType, OldestType
      <4>3. cache[k].age < Stale /\ cache'[k].val = cache[k].val
        BY <2>1, <3>1, <4>1, <4>2, OldestType
      <4>4. held[k][cache[k].val] <= cache[k].age + Longest
        BY <3>1, <4>1, <4>3 DEF Ages, KeptAge
      <4>5. /\ held'[k][cache[k].val] \in Nat /\ held[k][cache[k].val] \in Nat
            /\ held'[k][cache[k].val] <= held[k][cache[k].val] + 1
        BY <2>3, <3>1, <4>3
      <4> QED
        BY <4>1, <4>2, <4>3, <4>4, <4>5, OldestType
    <3> QED
      BY <3>1 DEF KeptAge
  <2>5. ASSUME NEW r \in Readers PROVE RowAges(r)'
    <3>1. CASE reader'[r] = Idle
      BY <3>1 DEF RowAges, Reads, Idle
    <3>2. CASE /\ reader[r].got # None
               /\ reader'[r] = [reader[r] EXCEPT !.age = reader[r].age + 1]
      <4>a. RowAges(r)
        BY DEF Ages
      <4>b. reader[r].age \in Nat /\ reader[r].at # "done"
        BY <1>a, <3>2, <4>a DEF Rows, RowAges
      <4>c. /\ reader'[r].op = reader[r].op /\ reader'[r].at = reader[r].at
            /\ reader'[r].got = reader[r].got /\ reader'[r].host = reader[r].host
            /\ reader'[r].age = reader[r].age + 1
        BY <1>a, <3>2 DEF Rows
      <4>1. ASSUME NEW k \in Keys, Reads(r, k)', reader[r].got \in Values(k)
            PROVE  held'[k][reader[r].got] <= reader[r].age + 1
        <5>1. held[k][reader[r].got] <= reader[r].age
          BY <4>1, <4>a, <4>c DEF RowAges, Reads
        <5>2. /\ held'[k][reader[r].got] \in Nat /\ held[k][reader[r].got] \in Nat
              /\ held'[k][reader[r].got] <= held[k][reader[r].got] + 1
          BY <2>3, <4>1
        <5> QED
          BY <4>b, <5>1, <5>2
      <4>2. ASSUME reader[r].op = "page", reader[r].at = "docker"
            PROVE  /\ reader[r].host \in BOOLEAN
                   /\ held'["host"][reader[r].host] <= Stale + Longest + (reader[r].age + 1)
        <5>1. /\ reader[r].host \in BOOLEAN
              /\ held["host"][reader[r].host] <= Stale + Longest + reader[r].age
          BY <4>2, <4>a DEF RowAges
        <5>2. /\ held'["host"][reader[r].host] \in Nat /\ held["host"][reader[r].host] \in Nat
              /\ held'["host"][reader[r].host] <= held["host"][reader[r].host] + 1
          BY <2>3, <5>1 DEF Keys, Values
        <5> QED
          BY <4>b, <5>1, <5>2, OldestType
      <4> QED
        BY <4>b, <4>c, <4>1, <4>2 DEF RowAges
    <3> QED
      BY <1>13, <3>1, <3>2, TickIs
  <2> QED
    BY <2>1, <2>2, <2>4, <2>5 DEF Ages
<1> QED
  BY <1>1, <1>3, <1>5, <1>6, <1>7, <1>8, <1>10, <1>11, <1>12, <1>13 DEF Next

LEMMA AgesInit == Init => Ages
<1> SUFFICES ASSUME Init PROVE Ages
  OBVIOUS
<1>1. \A k \in Keys : cache[k] = None
  BY DEF Init
<1>2. \A r \in Readers : reader[r] = Idle
  BY DEF Init
<1>3. \A k \in Keys : held[k][truth[k]] = 0
  BY TruthType DEF Init
<1> QED
  BY <1>1, <1>2, <1>3 DEF Ages, KeptAge, RowAges, Reads, Idle

\* A page shows of a host what was true within the time to live and the two reads the page
\* may have to wait for, and a project as down only if it was (status.snapshot,
\* containers.projects).
THEOREM PagesAreTrue == Spec => []ShownWasTrue
<1>1. Shape /\ Ages /\ [Next]_vars => (Shape /\ Ages)'
  BY ShapeStep, AgesStep
<1>2. Shape /\ Since /\ [Next]_vars => (Shape /\ Since)'
  BY ShapeStep, SinceStep
<1>3. Shape /\ Since => TypeOK
  <2> SUFFICES ASSUME Shape, Since PROVE TypeOK
    OBVIOUS
  <2>1. \A k \in Keys : /\ cache[k] # None => /\ cache[k].age \in 0..Stale
                                              /\ cache[k].val \in Answered(k)
                        /\ held[k] \in [Values(k) -> 0..Oldest]
                        /\ since[k] # None => truth[k] \in since[k]
    BY DEF Shape, Since, Kept
  <2>2. \A r \in Readers : reader[r] \in Rows
    BY DEF Shape
  <2>3. \A r \in Readers : /\ reader[r].op \in {"none", "refresh", "page", "act"}
                           /\ reader[r].at \in Keys \cup {"none", "done"}
                           /\ reader[r].age \in 0..Longest
    BY <2>2 DEF Rows
  <2> QED
    BY <2>1, <2>3 DEF Shape, TypeOK
<1>4. Ages => HostWasTrue
  BY DEF Ages, RowAges, HostWasTrue
<1>5. Ages => DownMeansDown
  <2> SUFFICES ASSUME Ages, NEW r \in Readers, NEW onDemand \in BOOLEAN, NEW answers \in BOOLEAN,
                      reader[r].at = "done", reader[r].op = "page",
                      Light(reader[r].host, reader[r].docker, onDemand, answers)
                        \in {"down", "asleep"}
               PROVE  \E found \in Projects :
                        /\ found \cap {"running", "unhealthy", "starting"} = {}
                        /\ held["docker"][found] <= Stale + Longest
    BY DEF DownMeansDown
  <2>1. reader[r].host \in BOOLEAN
    BY DEF Ages, RowAges
  <2>2. reader[r].host = TRUE /\ reader[r].docker # Error
    BY <2>1 DEF Light
  <2>3. ProjectState(reader[r].docker, onDemand) \in {"down", "asleep"}
    BY <2>1, <2>2 DEF Light
  <2>4. reader[r].docker \cap {"running", "unhealthy", "starting"} = {}
    BY <2>3 DEF ProjectState
  <2>5. reader[r].docker \in Projects /\ held["docker"][reader[r].docker] <= Stale + Longest
    BY <2>2 DEF Ages, RowAges, Answered
  <2> QED
    BY <2>4, <2>5
<1>6. Shape /\ Since /\ Ages => ShownWasTrue
  BY <1>3, <1>4, <1>5 DEF ShownWasTrue
<1> QED
  BY <1>1, <1>2, <1>6, ShapeInit, AgesInit, PTL DEF Spec

-----------------------------------------------------------------------------
(* The hardware documents.                                                 *)

\* What holds of a tab: the text that its editor carries is one it was made from; while it has
\* the event loop, that text is the document's; and a refusal went on from what its request had
\* read, which is the document's text unless that changed since.
TabInv(t) ==
  /\ place[t] \in {"open", "sent"} => base[t] # Absent
  /\ place[t] = "sent" => taken[t] # Absent
  /\ place[t] # "none" /\ base[t] # Absent => base[t] \in seen[t]
  /\ place[t] = "saves" <=> saving = t
  /\ saving = t /\ ~torn => docs[slug[t]] = base[t]
  /\ place[t] = "sent" /\ refused[t] >= 1 => taken[t] = docs[slug[t]]
  /\ place[t] # "none" /\ refused[t] >= 2 => base[t] = docs[slug[t]]
  /\ refused[t] <= 2

\* What is proved to hold of every state.
DocInv == DocTypeOK /\ \A t \in Tabs : TabInv(t)

\* Nothing about an editor changes.
EditorStays(u) ==
  /\ place'[u] = place[u] /\ slug'[u] = slug[u] /\ base'[u] = base[u] /\ taken'[u] = taken[u]
  /\ seen'[u] = seen[u]

\* A step of somebody else's that changes no document.
LEMMA OtherKept ==
  ASSUME NEW u \in Tabs, TabInv(u), EditorStays(u), UNCHANGED docs, refused'[u] = refused[u],
         saving # u, saving' # u
  PROVE  TabInv(u)'
PROOF BY DEF TabInv, EditorStays

\* A document changes, not by this editor.
LEMMA BecomesKept ==
  ASSUME DocTypeOK, NEW u \in Tabs, TabInv(u), EditorStays(u),
         NEW s \in Slugs, NEW text, Becomes(s, text),
         saving' = u <=> saving = u,
         saving = u => torn' = (torn \/ slug[u] = s)
  PROVE  TabInv(u)'
PROOF
<1>1. slug[u] \in Slugs /\ docs \in [Slugs -> Contents] /\ refused[u] \in Nat
  BY DEF DocTypeOK
<1>2. slug[u] # s => docs'[slug[u]] = docs[slug[u]]
  BY <1>1 DEF Becomes
<1>3. refused'[u] = IF slug[u] = s THEN 0 ELSE refused[u]
  BY DEF Becomes
<1>4. CASE slug[u] = s
  <2>1. refused'[u] = 0
    BY <1>3, <1>4
  <2>2. saving' = u => torn'
    BY <1>4
  <2>. QED
    BY <2>1, <2>2 DEF TabInv, EditorStays
<1>5. CASE slug[u] # s
  BY <1>2, <1>3, <1>5 DEF TabInv, EditorStays
<1>. QED
  BY <1>4, <1>5

\* A document that changes is still one.
LEMMA BecomesTypes ==
  ASSUME DocTypeOK, NEW s \in Slugs, NEW text \in Contents, Becomes(s, text)
  PROVE  docs' \in [Slugs -> Contents] /\ refused' \in [Tabs -> Nat]
PROOF
<1>1. docs' \in [Slugs -> Contents]
  BY DEF DocTypeOK, Becomes
<1>2. refused \in [Tabs -> Nat]
  BY DEF DocTypeOK
<1>3. refused' \in [Tabs -> Nat]
  BY <1>2 DEF Becomes
<1>. QED
  BY <1>1, <1>3

\* An editor starts from the text that is there.
LEMMA OpenEditorKeeps ==
  ASSUME DocInv, NEW t \in Tabs, NEW s \in Slugs, OpenEditor(t, s)
  PROVE  DocInv'
PROOF
<1>1. DocTypeOK /\ \A u \in Tabs : TabInv(u)
  BY DEF DocInv
<1>2. DocTypeOK'
  <2>1. DocTypeOK /\ TabInv(t) /\ OpenEditor(t, s)
    BY <1>1
  <2>2. base' \in [Tabs -> Contents] /\ seen' \in [Tabs -> SUBSET Texts]
    BY <2>1 DEF OpenEditor, DocTypeOK
  <2>. QED
    BY <2>1, <2>2 DEF OpenEditor, DocTypeOK
<1>3. ASSUME NEW u \in Tabs PROVE TabInv(u)'
  <2>1. DocTypeOK /\ TabInv(u) /\ TabInv(t) /\ OpenEditor(t, s)
    BY <1>1
  <2>2. CASE u # t
    <3>1. EditorStays(u) /\ saving # u /\ saving' # u
      BY <2>1, <2>2, DocumentsAssumption DEF OpenEditor, Free, EditorStays, DocTypeOK
    <3>2. UNCHANGED docs /\ refused'[u] = refused[u]
      BY <2>1, <2>2 DEF OpenEditor, DocTypeOK
    <3>. QED
      BY <2>1, <3>1, <3>2, OtherKept
  <2>3. TabInv(t)'
    <3>1. docs[s] \in Texts /\ docs[s] # Absent
      BY <2>1, DocumentsAssumption DEF OpenEditor
    <3>2. /\ place'[t] = "open" /\ slug'[t] = s /\ base'[t] = docs[s]
          /\ seen'[t] = {docs[s]} /\ refused'[t] = 0
      BY <2>1 DEF OpenEditor, DocTypeOK
    <3>3. saving = Nobody /\ saving' = Nobody /\ docs' = docs
      BY <2>1 DEF OpenEditor, Free
    <3>. QED
      BY <2>1, <3>1, <3>2, <3>3, DocumentsAssumption DEF TabInv
  <2>. QED
    BY <2>2, <2>3
<1>. QED
  BY <1>2, <1>3 DEF DocInv

\* A request reads the document first.
LEMMA SubmitKeeps ==
  ASSUME DocInv, NEW t \in Tabs, Submit(t)
  PROVE  DocInv'
PROOF
<1>1. DocTypeOK /\ \A u \in Tabs : TabInv(u)
  BY DEF DocInv
<1>2. DocTypeOK'
  <2>1. DocTypeOK /\ TabInv(t) /\ Submit(t)
    BY <1>1
  <2>2. taken' \in [Tabs -> Contents]
    BY <2>1 DEF Submit, DocTypeOK
  <2>3. place' \in [Tabs -> {"none", "open", "sent", "saves"}]
    BY <2>1 DEF Submit, DocTypeOK
  <2>. QED
    BY <2>1, <2>2, <2>3 DEF Submit, DocTypeOK
<1>3. ASSUME NEW u \in Tabs PROVE TabInv(u)'
  <2>1. DocTypeOK /\ TabInv(u) /\ TabInv(t) /\ Submit(t)
    BY <1>1
  <2>2. CASE u # t
    <3>1. EditorStays(u) /\ saving # u /\ saving' # u
      BY <2>1, <2>2, DocumentsAssumption DEF Submit, Free, EditorStays, DocTypeOK
    <3>2. UNCHANGED docs /\ refused'[u] = refused[u]
      BY <2>1, <2>2 DEF Submit, DocTypeOK
    <3>. QED
      BY <2>1, <3>1, <3>2, OtherKept
  <2>3. TabInv(t)'
    <3>1. /\ place'[t] = IF docs[slug[t]] = Absent THEN "none" ELSE "sent"
          /\ taken'[t] = docs[slug[t]]
      BY <2>1 DEF Submit, DocTypeOK
    <3>2. place[t] = "open" /\ saving = Nobody
          /\ UNCHANGED <<docs, slug, base, saving, seen, torn, refused>>
      BY <2>1 DEF Submit, Free
    <3>. QED
      BY <2>1, <3>1, <3>2, DocumentsAssumption DEF TabInv
  <2>. QED
    BY <2>2, <2>3
<1>. QED
  BY <1>2, <1>3 DEF DocInv

\* The comparison: the editor's text is the document's.
LEMMA AcceptKeeps ==
  ASSUME DocInv, NEW t \in Tabs, Accept(t)
  PROVE  DocInv'
PROOF
<1>1. DocTypeOK /\ \A u \in Tabs : TabInv(u)
  BY DEF DocInv
<1>2. DocTypeOK'
  <2>1. DocTypeOK /\ TabInv(t) /\ Accept(t)
    BY <1>1
  <2>. QED
    BY <2>1 DEF Accept, DocTypeOK
<1>3. ASSUME NEW u \in Tabs PROVE TabInv(u)'
  <2>1. DocTypeOK /\ TabInv(u) /\ TabInv(t) /\ Accept(t)
    BY <1>1
  <2>2. CASE u # t
    <3>1. EditorStays(u) /\ saving # u /\ saving' # u
      BY <2>1, <2>2, DocumentsAssumption DEF Accept, Free, EditorStays, DocTypeOK
    <3>2. UNCHANGED docs /\ refused'[u] = refused[u]
      BY <2>1, <2>2 DEF Accept, DocTypeOK
    <3>. QED
      BY <2>1, <3>1, <3>2, OtherKept
  <2>3. TabInv(t)'
    <3>1. place'[t] = "saves" /\ saving' = t /\ docs[slug[t]] = base[t] /\ place[t] = "sent"
      BY <2>1 DEF Accept, DocTypeOK, SameAsBase
    <3>2. UNCHANGED <<docs, slug, base, seen, refused>>
      BY <2>1 DEF Accept
    <3>. QED
      BY <2>1, <3>1, <3>2 DEF TabInv
  <2>. QED
    BY <2>2, <2>3
<1>. QED
  BY <1>2, <1>3 DEF DocInv

\* A refusal: after the second one for a change, the editor's text is the document's.
LEMMA RefuseKeeps ==
  ASSUME DocInv, NEW t \in Tabs, Refuse(t)
  PROVE  DocInv'
PROOF
<1>1. DocTypeOK /\ \A u \in Tabs : TabInv(u)
  BY DEF DocInv
<1>2. DocTypeOK'
  <2>1. DocTypeOK /\ TabInv(t) /\ Refuse(t)
    BY <1>1
  <2>2. taken[t] \in Texts
    BY <2>1 DEF Refuse, TabInv, DocTypeOK, Contents
  <2>3. base' \in [Tabs -> Contents]
    BY <2>1, <2>2 DEF Refuse, DocTypeOK, Contents
  <2>4. seen' \in [Tabs -> SUBSET Texts]
    BY <2>1, <2>2 DEF Refuse, DocTypeOK
  <2>5. refused' \in [Tabs -> Nat]
    BY <2>1 DEF Refuse, DocTypeOK
  <2>. QED
    BY <2>1, <2>3, <2>4, <2>5 DEF Refuse, DocTypeOK
<1>3. ASSUME NEW u \in Tabs PROVE TabInv(u)'
  <2>1. DocTypeOK /\ TabInv(u) /\ TabInv(t) /\ Refuse(t)
    BY <1>1
  <2>2. CASE u # t
    <3>1. EditorStays(u) /\ saving # u /\ saving' # u
      BY <2>1, <2>2, DocumentsAssumption DEF Refuse, Free, EditorStays, DocTypeOK
    <3>2. UNCHANGED docs /\ refused'[u] = refused[u]
      BY <2>1, <2>2 DEF Refuse, DocTypeOK
    <3>. QED
      BY <2>1, <3>1, <3>2, OtherKept
  <2>3. TabInv(t)'
    <3>1. /\ place'[t] = "open" /\ base'[t] = taken[t] /\ seen'[t] = seen[t] \cup {taken[t]}
          /\ refused'[t] = refused[t] + 1
      BY <2>1 DEF Refuse, DocTypeOK
    <3>2. /\ place[t] = "sent" /\ docs[slug[t]] # base[t] /\ saving = Nobody
          /\ UNCHANGED <<docs, slug, saving>>
      BY <2>1 DEF Refuse, SameAsBase, Free
    <3>3. taken[t] # Absent /\ refused[t] < 2
      BY <2>1, <3>2 DEF TabInv, DocTypeOK
    <3>4. refused[t] + 1 >= 2 => taken[t] = docs[slug[t]]
      BY <2>1, <3>2 DEF TabInv, DocTypeOK
    <3>5. refused[t] + 1 <= 2
      BY <2>1, <3>3 DEF DocTypeOK
    <3>. QED
      BY <2>1, <3>1, <3>2, <3>3, <3>4, <3>5, DocumentsAssumption DEF TabInv
  <2>. QED
    BY <2>2, <2>3
<1>. QED
  BY <1>2, <1>3 DEF DocInv

\* The same editor again.
LEMMA TooLargeKeeps ==
  ASSUME DocInv, NEW t \in Tabs, TooLarge(t)
  PROVE  DocInv'
PROOF
<1>1. DocTypeOK /\ \A u \in Tabs : TabInv(u)
  BY DEF DocInv
<1>2. DocTypeOK'
  <2>1. DocTypeOK /\ TabInv(t) /\ TooLarge(t)
    BY <1>1
  <2>. QED
    BY <2>1 DEF TooLarge, DocTypeOK
<1>3. ASSUME NEW u \in Tabs PROVE TabInv(u)'
  <2>1. DocTypeOK /\ TabInv(u) /\ TabInv(t) /\ TooLarge(t)
    BY <1>1
  <2>2. CASE u # t
    <3>1. EditorStays(u) /\ saving # u /\ saving' # u
      BY <2>1, <2>2, DocumentsAssumption DEF TooLarge, Free, EditorStays, DocTypeOK
    <3>2. UNCHANGED docs /\ refused'[u] = refused[u]
      BY <2>1, <2>2 DEF TooLarge, DocTypeOK
    <3>. QED
      BY <2>1, <3>1, <3>2, OtherKept
  <2>3. TabInv(t)'
    <3>1. place'[t] = "open" /\ place[t] = "sent" /\ saving = Nobody
      BY <2>1 DEF TooLarge, DocTypeOK, Free
    <3>2. UNCHANGED <<docs, slug, base, saving, seen, refused>>
      BY <2>1 DEF TooLarge
    <3>. QED
      BY <2>1, <3>1, <3>2, DocumentsAssumption DEF TabInv
  <2>. QED
    BY <2>2, <2>3
<1>. QED
  BY <1>2, <1>3 DEF DocInv

\* A new document.
LEMMA AddKeeps ==
  ASSUME DocInv, NEW t \in Tabs, NEW s \in Slugs, Add(t, s)
  PROVE  DocInv'
PROOF
<1>1. DocTypeOK /\ \A u \in Tabs : TabInv(u)
  BY DEF DocInv
<1>2. DocTypeOK'
  <2>1. DocTypeOK /\ TabInv(t) /\ Add(t, s)
    BY <1>1
  <2>2. base' \in [Tabs -> Contents] /\ seen' \in [Tabs -> SUBSET Texts]
    <3>1. Absent \in Contents /\ {} \in SUBSET Texts
      BY DEF Contents
    <3>. QED
      BY <2>1, <3>1 DEF Add, DocTypeOK
  <2>3. place' \in [Tabs -> {"none", "open", "sent", "saves"}] /\ slug' \in [Tabs -> Slugs]
    BY <2>1 DEF Add, DocTypeOK
  <2>4. refused' \in [Tabs -> Nat]
    BY <2>1 DEF Add, DocTypeOK
  <2>. QED
    BY <2>1, <2>2, <2>3, <2>4 DEF Add, DocTypeOK
<1>3. ASSUME NEW u \in Tabs PROVE TabInv(u)'
  <2>1. DocTypeOK /\ TabInv(u) /\ TabInv(t) /\ Add(t, s)
    BY <1>1
  <2>2. CASE u # t
    <3>1. EditorStays(u) /\ saving # u /\ saving' # u
      BY <2>1, <2>2, DocumentsAssumption DEF Add, Free, EditorStays, DocTypeOK
    <3>2. UNCHANGED docs /\ refused'[u] = refused[u]
      BY <2>1, <2>2 DEF Add, DocTypeOK
    <3>. QED
      BY <2>1, <3>1, <3>2, OtherKept
  <2>3. TabInv(t)'
    <3>1. /\ place'[t] = "saves" /\ slug'[t] = s /\ base'[t] = Absent
          /\ saving' = t /\ refused'[t] = 0
      BY <2>1 DEF Add, DocTypeOK
    <3>2. docs' = docs /\ docs[s] = Absent
      BY <2>1 DEF Add
    <3>. QED
      BY <2>1, <3>1, <3>2 DEF TabInv
  <2>. QED
    BY <2>2, <2>3
<1>. QED
  BY <1>2, <1>3 DEF DocInv

\* The new text: it concerns all editors of the document.
LEMMA RenameKeeps ==
  ASSUME DocInv, NEW t \in Tabs, Rename(t)
  PROVE  DocInv'
PROOF
<1>1. DocTypeOK /\ \A u \in Tabs : TabInv(u)
  BY DEF DocInv
<1>2. DocTypeOK'
  <2>1. DocTypeOK /\ TabInv(t) /\ Rename(t)
    BY <1>1
  <2>2. PICK text \in Texts : Becomes(slug[t], text)
    BY <2>1 DEF Rename
  <2>3. slug[t] \in Slugs /\ text \in Contents
    BY <2>1 DEF DocTypeOK, Contents
  <2>4. docs' \in [Slugs -> Contents] /\ refused' \in [Tabs -> Nat]
    BY <2>1, <2>2, <2>3, BecomesTypes
  <2>. QED
    BY <2>1, <2>4 DEF Rename, DocTypeOK
<1>3. ASSUME NEW u \in Tabs PROVE TabInv(u)'
  <2>1. DocTypeOK /\ TabInv(u) /\ TabInv(t) /\ Rename(t)
    BY <1>1
  <2>2. CASE u # t
    <3>1. EditorStays(u) /\ saving # u /\ saving' # u
      BY <2>1, <2>2, DocumentsAssumption DEF Rename, EditorStays, DocTypeOK
    <3>2. PICK text \in Texts : Becomes(slug[t], text)
      BY <2>1 DEF Rename
    <3>3. slug[t] \in Slugs
      BY <2>1 DEF DocTypeOK
    <3>. QED
      BY <2>1, <3>1, <3>2, <3>3, BecomesKept
  <2>3. TabInv(t)'
    <3>1. place'[t] = "none" /\ saving' = Nobody
      BY <2>1 DEF Rename, DocTypeOK
    <3>2. refused'[t] = 0
      BY <2>1 DEF Rename, Becomes
    <3>. QED
      BY <2>1, <3>1, <3>2, DocumentsAssumption DEF TabInv
  <2>. QED
    BY <2>2, <2>3
<1>. QED
  BY <1>2, <1>3 DEF DocInv

\* Back to the editor.
LEMMA FailKeeps ==
  ASSUME DocInv, NEW t \in Tabs, Fail(t)
  PROVE  DocInv'
PROOF
<1>1. DocTypeOK /\ \A u \in Tabs : TabInv(u)
  BY DEF DocInv
<1>2. DocTypeOK'
  <2>1. DocTypeOK /\ TabInv(t) /\ Fail(t)
    BY <1>1
  <2>2. place' \in [Tabs -> {"none", "open", "sent", "saves"}]
    BY <2>1 DEF Fail, DocTypeOK
  <2>. QED
    BY <2>1, <2>2 DEF Fail, DocTypeOK
<1>3. ASSUME NEW u \in Tabs PROVE TabInv(u)'
  <2>1. DocTypeOK /\ TabInv(u) /\ TabInv(t) /\ Fail(t)
    BY <1>1
  <2>2. CASE u # t
    <3>1. EditorStays(u) /\ saving # u /\ saving' # u
      BY <2>1, <2>2, DocumentsAssumption DEF Fail, Free, EditorStays, DocTypeOK
    <3>2. UNCHANGED docs /\ refused'[u] = refused[u]
      BY <2>1, <2>2 DEF Fail, DocTypeOK
    <3>. QED
      BY <2>1, <3>1, <3>2, OtherKept
  <2>3. TabInv(t)'
    <3>1. place'[t] = (IF base[t] = Absent THEN "none" ELSE "open") /\ saving' = Nobody
      BY <2>1 DEF Fail, DocTypeOK
    <3>2. place[t] = "saves" /\ UNCHANGED <<docs, slug, base, seen, refused>>
      BY <2>1 DEF Fail, TabInv
    <3>. QED
      BY <2>1, <3>1, <3>2, DocumentsAssumption DEF TabInv
  <2>. QED
    BY <2>2, <2>3
<1>. QED
  BY <1>2, <1>3 DEF DocInv

\* The invariant holds at the start,
LEMMA DocStart == DocInit => DocInv
PROOF
<1>. SUFFICES ASSUME DocInit PROVE DocInv
  OBVIOUS
<1>1. /\ base \in [Tabs -> Contents] /\ taken \in [Tabs -> Contents]
      /\ place \in [Tabs -> {"none", "open", "sent", "saves"}]
  BY DEF DocInit, Contents
<1>2. seen \in [Tabs -> SUBSET Texts] /\ refused \in [Tabs -> Nat] /\ writes \in 0 .. MaxWrites
  BY DocumentsAssumption DEF DocInit
<1>3. DocTypeOK
  BY <1>1, <1>2 DEF DocInit, DocTypeOK
<1>4. ASSUME NEW t \in Tabs PROVE TabInv(t)
  <2>1. place[t] = "none" /\ refused[t] = 0 /\ saving # t
    BY DocumentsAssumption DEF DocInit
  <2>. QED
    BY <2>1 DEF TabInv
<1>. QED
  BY <1>3, <1>4 DEF DocInv

\* every step keeps it,
LEMMA DocStep == DocInv /\ [DocNext]_docVars => DocInv'
PROOF
<1>. SUFFICES ASSUME DocInv, [DocNext]_docVars PROVE DocInv'
  OBVIOUS
<1>0. DocTypeOK /\ \A u \in Tabs : TabInv(u)
  BY DEF DocInv
<1>1. ASSUME NEW t \in Tabs, NEW s \in Slugs, OpenEditor(t, s) \/ Add(t, s) PROVE DocInv'
  BY <1>1, OpenEditorKeeps, AddKeeps
<1>2. ASSUME NEW t \in Tabs,
             Submit(t) \/ Accept(t) \/ Refuse(t) \/ TooLarge(t) \/ Rename(t) \/ Fail(t)
      PROVE  DocInv'
  BY <1>2, SubmitKeeps, AcceptKeeps, RefuseKeeps, TooLargeKeeps, RenameKeeps, FailKeeps
<1>3. ASSUME NEW s \in Slugs, Remove(s) PROVE DocInv'
  <2>1. Becomes(s, Absent) /\ UNCHANGED <<editors, saving, writes, seen, torn>> /\ saving = Nobody
    BY <1>3 DEF Remove, Free
  <2>2. docs' \in [Slugs -> Contents] /\ refused' \in [Tabs -> Nat]
    BY <1>0, <2>1, BecomesTypes DEF Contents
  <2>3. DocTypeOK'
    BY <1>0, <2>1, <2>2 DEF DocTypeOK, editors
  <2>4. ASSUME NEW u \in Tabs PROVE TabInv(u)'
    <3>1. EditorStays(u) /\ saving # u /\ saving' # u
      BY <2>1, DocumentsAssumption DEF EditorStays, editors
    <3>. QED
      BY <1>0, <2>1, <3>1, BecomesKept
  <2>. QED
    BY <2>3, <2>4 DEF DocInv
<1>4. ASSUME NEW s \in Slugs, ToolWrites(s) PROVE DocInv'
  <2>1. PICK text \in Contents : Becomes(s, text)
    BY <1>4 DEF ToolWrites
  <2>2. /\ UNCHANGED <<editors, saving, seen>> /\ writes' = writes + 1 /\ writes < MaxWrites
        /\ torn' = (torn \/ \E t \in Tabs : saving = t /\ slug[t] = s)
    BY <1>4 DEF ToolWrites
  <2>3. docs' \in [Slugs -> Contents] /\ refused' \in [Tabs -> Nat]
    BY <1>0, <2>1, BecomesTypes
  <2>4. writes' \in 0 .. MaxWrites /\ torn' \in BOOLEAN
    BY <1>0, <2>2, DocumentsAssumption DEF DocTypeOK
  <2>5. DocTypeOK'
    BY <1>0, <2>2, <2>3, <2>4 DEF DocTypeOK, editors
  <2>6. ASSUME NEW u \in Tabs PROVE TabInv(u)'
    <3>1. EditorStays(u) /\ (saving' = u <=> saving = u)
      BY <2>2 DEF EditorStays, editors
    <3>2. saving = u => torn' = (torn \/ slug[u] = s)
      BY <2>2
    <3>. QED
      BY <1>0, <2>1, <3>1, <3>2, BecomesKept
  <2>. QED
    BY <2>5, <2>6 DEF DocInv
<1>5. CASE Restarted
  <2>1. place' = [t \in Tabs |-> IF place[t] = "none" \/ base[t] = Absent THEN "none" ELSE "open"]
    BY <1>5 DEF Restarted
  <2>2. UNCHANGED <<docs, slug, base, taken, writes, seen, torn, refused>> /\ saving' = Nobody
    BY <1>5 DEF Restarted
  <2>3. place' \in [Tabs -> {"none", "open", "sent", "saves"}]
    BY <2>1
  <2>4. DocTypeOK'
    BY <1>0, <2>2, <2>3 DEF DocTypeOK
  <2>5. ASSUME NEW u \in Tabs PROVE TabInv(u)'
    <3>1. place'[u] = IF place[u] = "none" \/ base[u] = Absent THEN "none" ELSE "open"
      BY <2>1
    <3>. QED
      BY <1>0, <2>2, <3>1, DocumentsAssumption DEF TabInv
  <2>. QED
    BY <2>4, <2>5 DEF DocInv
<1>6. CASE UNCHANGED docVars
  BY <1>0, <1>6 DEF docVars, editors, DocInv, DocTypeOK, TabInv
<1>. QED
  BY <1>1, <1>2, <1>3, <1>4, <1>5, <1>6 DEF DocNext

\* so it always holds.
LEMMA DocAlways == DocSpec => []DocInv
PROOF BY DocStart, DocStep, PTL DEF DocSpec

\* For any number of documents, tabs and texts: no save takes away what its operator was not
\* shown (hardware.save).
THEOREM NothingErasedUnseen == DocSpec => []NoneErasedUnseen
PROOF
<1>1. DocInv => NoneErasedUnseen
  <2>. SUFFICES ASSUME DocInv, NEW t \in Tabs, saving = t, ~torn
                PROVE  IF base[t] = Absent THEN docs[slug[t]] = Absent ELSE docs[slug[t]] \in seen[t]
    BY DEF NoneErasedUnseen, DocInv
  <2>1. TabInv(t)
    BY DEF DocInv
  <2>. QED
    BY <2>1 DEF TabInv
<1>. QED
  BY <1>1, DocAlways, PTL

\* For any number of them: who saves on is refused twice at most for one change (save in
\* web/hardware.py).
THEOREM ThirdSaveGoesThrough == DocSpec => []RefusedTwiceAtMost
PROOF
<1>1. DocInv => RefusedTwiceAtMost
  BY DEF DocInv, TabInv, RefusedTwiceAtMost
<1>. QED
  BY <1>1, DocAlways, PTL

\* For any number of documents, tabs, texts and writes by tools: both of these (save in
\* web/hardware.py and hardware.py).
THEOREM EditorsAreServed == DocSpec => []EditorsAreHeard
PROOF BY NothingErasedUnseen, ThirdSaveGoesThrough, PTL DEF EditorsAreHeard

=============================================================================
