----------------------------- MODULE FleetProofs -----------------------------
(***************************************************************************)
(* The properties of Fleet that speak of references, for any names, forms  *)
(* and numbers of edits, and any file to start from that has them.         *)
(***************************************************************************)
EXTENDS Fleet, FiniteSetTheorems, WellFoundedInduction, TLAPS

Consistent(c) == Typed(c) /\ OneHypervisor(c) /\ NothingOfTheRemoved(c)
Sound(c) == IsFiniteSet(c.guests) /\ NobodysOwn(c)

LEMMA SwapType ==
  ASSUME NEW n \in Names \cup {None}, NEW old, NEW new \in Names
  PROVE  /\ Swap(n, old, new) \in Names \cup {None}
         /\ n \in Names => Swap(n, old, new) \in Names
BY DEF Swap

LEMMA BuiltType ==
  ASSUME NEW c, Typed(c), NEW original, NEW f \in ServerForm
  PROVE  Built(c, original, f) \in Entry
<1>1. original \in Configured(c) => c.servers[original] \in Entry
  BY DEF Typed, Configured
<1> QED
  BY <1>1 DEF Built, Entry, ServerForm

\* Induction over the naturals, by the least counterexample.
LEMMA Minimal ==
  \A R, S, T : IsWellFoundedOn(R, S) /\ T \subseteq S /\ T # {} =>
     \E x \in T : \A y \in T : <<y, x>> \notin R
BY WFMin

LEMMA Least ==
  ASSUME NEW T, T \subseteq Nat, T # {}
  PROVE  \E x \in T : \A y \in T : x <= y
<1>1. OpToRel(<, Nat) = {p \in Nat \X Nat : p[1] < p[2]}
  BY DEF OpToRel
<1>2. IsWellFoundedOn(OpToRel(<, Nat), Nat)
  BY NatLessThanWellFounded
<1>3. PICK R : R = {p \in Nat \X Nat : p[1] < p[2]} /\ IsWellFoundedOn(R, Nat)
  BY <1>1, <1>2
<1>4. PICK x \in T : \A y \in T : <<y, x>> \notin R
  BY <1>3, Minimal
<1>5. \A y \in T : ~(y < x)
  BY <1>3, <1>4
<1> QED
  BY <1>4, <1>5

\* Who inherits in one round.
Grow(G, S) == S \cup {g.guest : g \in {g \in G : g.host \in S}}
Closed(G, O, S) == O \subseteq S /\ \A g \in G : g.host \in S => g.guest \in S
Rounds(G, O, n, f) ==
  f = [i \in 0..n |-> IF i = 0 THEN O
                      ELSE f[i - 1] \cup {g.guest : g \in {g \in G : g.host \in f[i - 1]}}]

LEMMA RoundsExist ==
  ASSUME NEW G, NEW O, NEW n \in Nat
  PROVE  \E f : Rounds(G, O, n, f)
<1> DEFINE T == {k \in Nat : ~ \E f : Rounds(G, O, k, f)}
<1> SUFFICES ASSUME T # {}
             PROVE  FALSE
  OBVIOUS
<1>1. PICK k \in T : \A j \in T : k <= j
  BY Least
<1>2. CASE k = 0
  <2>1. PICK f : f = [i \in 0..0 |-> O]
    OBVIOUS
  <2>2. Rounds(G, O, 0, f)
    BY <2>1 DEF Rounds
  <2> QED
    BY <1>2, <2>2
<1>3. CASE k # 0
  <2>1. k - 1 \in Nat /\ k - 1 \notin T
    BY <1>1, <1>3
  <2>2. PICK f : Rounds(G, O, k - 1, f)
    BY <2>1
  <2>3. PICK e : e = [i \in 0..k |-> IF i = k THEN Grow(G, f[k - 1]) ELSE f[i]]
    OBVIOUS
  <2>4. \A i \in 0..k : e[i] = IF i = k THEN Grow(G, f[k - 1]) ELSE f[i]
    BY <2>3
  <2>5. \A i \in 0..(k - 1) : f[i] = IF i = 0 THEN O ELSE Grow(G, f[i - 1])
    BY <2>2 DEF Rounds, Grow
  <2>6. \A i \in 0..k : e[i] = IF i = 0 THEN O ELSE Grow(G, e[i - 1])
    <3> SUFFICES ASSUME NEW i \in 0..k
                 PROVE  e[i] = IF i = 0 THEN O ELSE Grow(G, e[i - 1])
      OBVIOUS
    <3>1. CASE i = k
      <4>1. k - 1 \in 0..k /\ k - 1 # k /\ k \in 0..k
        BY <2>1
      <4>2. e[k - 1] = f[k - 1] /\ e[k] = Grow(G, f[k - 1])
        BY <2>4, <4>1
      <4> QED
        BY <1>3, <3>1, <4>2
    <3>2. CASE i # k /\ i # 0
      <4>1. i \in 0..(k - 1) /\ i - 1 \in 0..k /\ i - 1 # k
        BY <3>2
      <4>2. e[i] = f[i] /\ e[i - 1] = f[i - 1]
        BY <2>4, <3>2, <4>1
      <4> QED
        BY <2>5, <3>2, <4>1, <4>2
    <3>3. CASE i = 0
      <4>1. 0 \in 0..(k - 1)
        BY <2>1
      <4> QED
        BY <2>4, <2>5, <1>3, <3>3, <4>1
    <3> QED
      BY <3>1, <3>2, <3>3
  <2>7. e = [i \in 0..k |-> IF i = 0 THEN O ELSE Grow(G, e[i - 1])]
    BY <2>3, <2>6
  <2>8. Rounds(G, O, k, e)
    BY <2>7 DEF Rounds, Grow
  <2> QED
    BY <2>8
<1> QED
  BY <1>2, <1>3

LEMMA OnDemandIs ==
  ASSUME NEW c, IsFiniteSet(c.guests)
  PROVE  \E f : /\ Rounds(c.guests, OwnReason(c), Cardinality(c.guests), f)
                /\ OnDemand(c) = f[Cardinality(c.guests)]
<1>1. Cardinality(c.guests) \in Nat
  BY FS_CardinalityType
<1>2. PICK f : Rounds(c.guests, OwnReason(c), Cardinality(c.guests), f)
  BY <1>1, RoundsExist
<1>3. OnDemand(c) =
        (CHOOSE h : h = [i \in 0..Cardinality(c.guests) |-> IF i = 0 THEN OwnReason(c)
                      ELSE h[i - 1] \cup {g.guest : g \in {g \in c.guests : g.host \in h[i - 1]}}])
          [Cardinality(c.guests)]
  BY DEF OnDemand
<1>4. f = [i \in 0..Cardinality(c.guests) |-> IF i = 0 THEN OwnReason(c)
             ELSE f[i - 1] \cup {g.guest : g \in {g \in c.guests : g.host \in f[i - 1]}}]
  BY <1>2 DEF Rounds
<1>5. PICK e : /\ e = [i \in 0..Cardinality(c.guests) |-> IF i = 0 THEN OwnReason(c)
                      ELSE e[i - 1] \cup {g.guest : g \in {g \in c.guests : g.host \in e[i - 1]}}]
               /\ OnDemand(c) = e[Cardinality(c.guests)]
  BY <1>3, <1>4
<1> QED
  BY <1>5 DEF Rounds

\* The rounds stay in every closed set, and those before the last are closed or one guest
\* more has a hypervisor on demand.
LEMMA RoundsLeast ==
  ASSUME NEW G, NEW O, NEW n \in Nat, NEW f, Rounds(G, O, n, f), NEW S, Closed(G, O, S)
  PROVE  \A i \in 0..n : f[i] \subseteq S
<1> DEFINE T == {k \in 0..n : ~(f[k] \subseteq S)}
<1> SUFFICES ASSUME T # {}
             PROVE  FALSE
  OBVIOUS
<1>1. PICK k \in T : \A j \in T : k <= j
  <2>1. T \subseteq Nat
    OBVIOUS
  <2> QED
    BY <2>1, Least
<1>2. f[k] = IF k = 0 THEN O ELSE Grow(G, f[k - 1])
  BY DEF Rounds, Grow
<1>3. k # 0 => k - 1 \in 0..n /\ k - 1 \notin T
  BY <1>1
<1> QED
  BY <1>1, <1>2, <1>3 DEF Grow, Closed

LEMMA RoundsGrow ==
  ASSUME NEW G, IsFiniteSet(G), NEW O, NEW n \in Nat, NEW f, Rounds(G, O, n, f)
  PROVE  \A i \in 0..n : Closed(G, O, f[i])
                         \/ (O \subseteq f[i] /\ Cardinality({g \in G : g.host \in f[i]}) >= i + 1)
<1> DEFINE B(i) == {g \in G : g.host \in f[i]}
           P(i) == Closed(G, O, f[i]) \/ (O \subseteq f[i] /\ Cardinality(B(i)) >= i + 1)
           T == {k \in 0..n : ~P(k)}
<1> SUFFICES ASSUME T # {}
             PROVE  FALSE
  OBVIOUS
<1>1. PICK k \in T : \A j \in T : k <= j
  <2>1. T \subseteq Nat
    OBVIOUS
  <2> QED
    BY <2>1, Least
<1>2. f[k] = IF k = 0 THEN O ELSE Grow(G, f[k - 1])
  BY DEF Rounds, Grow
<1>3. \A i : IsFiniteSet(B(i)) /\ Cardinality(B(i)) \in Nat
  <2> SUFFICES ASSUME NEW i
               PROVE  IsFiniteSet(B(i)) /\ Cardinality(B(i)) \in Nat
    OBVIOUS
  <2>1. B(i) \subseteq G
    OBVIOUS
  <2> HIDE DEF B
  <2> QED
    BY <2>1, FS_Subset, FS_CardinalityType
<1>4. ~P(k)
  OBVIOUS
<1>5. CASE k = 0
  <2>1. f[k] = O
    BY <1>2, <1>5
  <2>2. B(k) # {}
    BY <1>4, <2>1 DEF Closed
  <2>3. Cardinality(B(k)) # 0
    BY <1>3, <2>2, FS_EmptySet
  <2>4. Cardinality(B(k)) >= k + 1
    <3> HIDE DEF B
    <3> QED
      BY <1>3, <1>5, <2>3
  <2> QED
    BY <1>4, <2>1, <2>4
<1>6. CASE k # 0
  <2>1. k - 1 \in 0..n /\ P(k - 1)
    BY <1>1, <1>6
  <2>2. f[k] = f[k - 1] \cup {g.guest : g \in B(k - 1)}
    BY <1>2, <1>6 DEF Grow
  <2>3. ~Closed(G, O, f[k - 1])
    <3>1. CASE Closed(G, O, f[k - 1])
      <4>1. f[k] = f[k - 1]
        BY <2>2, <3>1 DEF Closed
      <4> QED
        BY <1>4, <3>1, <4>1
    <3> QED
      BY <3>1
  <2>4. O \subseteq f[k] /\ Cardinality(B(k - 1)) >= k
    BY <1>6, <2>1, <2>2, <2>3
  <2>5. PICK g \in G : g.host \in f[k] /\ g.guest \notin f[k]
    BY <1>4, <2>4 DEF Closed
  <2>6. g \notin B(k - 1) /\ g \in B(k) /\ B(k - 1) \subseteq B(k)
    BY <2>2, <2>5
  <2>7. Cardinality(B(k - 1) \cup {g}) = Cardinality(B(k - 1)) + 1
    <3>1. IsFiniteSet(B(k - 1)) /\ g \notin B(k - 1)
      BY <1>3, <2>6
    <3> HIDE DEF B
    <3> QED
      BY <3>1, FS_AddElement
  <2>8. Cardinality(B(k - 1) \cup {g}) <= Cardinality(B(k))
    <3>1. B(k - 1) \cup {g} \in SUBSET B(k)
      BY <2>6
    <3> HIDE DEF B
    <3> QED
      BY <1>3, <3>1, FS_Subset
  <2>9. Cardinality(B(k)) >= k + 1
    <3> HIDE DEF B
    <3> QED
      BY <1>3, <2>4, <2>7, <2>8
  <2> QED
    BY <1>4, <2>4, <2>9
<1> QED
  BY <1>5, <1>6

\* config.on_demand is the least closed set.
LEMMA OnDemandLeast ==
  ASSUME NEW c, IsFiniteSet(c.guests)
  PROVE  /\ Closed(c.guests, OwnReason(c), OnDemand(c))
         /\ \A S : Closed(c.guests, OwnReason(c), S) => OnDemand(c) \subseteq S
<1> DEFINE G == c.guests
           n == Cardinality(c.guests)
<1>1. PICK f : Rounds(G, OwnReason(c), n, f) /\ OnDemand(c) = f[n]
  BY OnDemandIs
<1>2. n \in Nat /\ n \in 0..n
  BY FS_CardinalityType
<1>3. Closed(G, OwnReason(c), f[n])
  <2>1. {g \in G : g.host \in f[n]} \in SUBSET G
    OBVIOUS
  <2>2. Cardinality({g \in G : g.host \in f[n]}) <= n
    BY <2>1, FS_Subset
  <2>3. Cardinality({g \in G : g.host \in f[n]}) \in Nat
    BY <2>1, FS_Subset, FS_CardinalityType
  <2>4. ~(Cardinality({g \in G : g.host \in f[n]}) >= n + 1)
    BY <1>2, <2>2, <2>3
  <2> HIDE DEF n
  <2> QED
    BY <1>1, <1>2, <2>4, RoundsGrow
<1>4. \A S : Closed(G, OwnReason(c), S) => f[n] \subseteq S
  BY <1>1, <1>2, RoundsLeast
<1> QED
  BY <1>1, <1>3, <1>4
\* The link a form asks for, and those of the others.
Asked(f) == IF f.host = None THEN {}
            ELSE {[host |-> f.host, vm |-> f.vm, guest |-> f.name, od |-> f.od]}

LEMMA AskedType ==
  ASSUME NEW c, NEW original, NEW f \in ServerForm, LinkAllowed(c, original, f)
  PROVE  Asked(f) \subseteq Guest
<1>1. f.host # None => f.host \in Names /\ f.vm \in VmIds
  BY DEF LinkAllowed, ServerForm
<1> QED
  BY <1>1 DEF Asked, Guest, ServerForm

\* The links after a save: of the others as they were, with the new name for the old.
LEMMA SavedGuests ==
  ASSUME NEW c, Typed(c), NEW original \in Names \cup {None}, NEW f \in ServerForm,
         original # None => f.name = original \/ f.name \notin Configured(c)
  PROVE  /\ Saved(c, original, f).guests \subseteq Guest \cup Asked(f)
         /\ \A h \in Saved(c, original, f).guests \ Asked(f) : \E g \in c.guests :
              /\ h.vm = g.vm /\ h.od = g.od
              /\ h.host = IF original \in Configured(c) THEN Swap(g.host, original, f.name)
                          ELSE g.host
              /\ h.guest = (IF original = None THEN g.guest
                            ELSE Swap(g.guest, original, f.name))
              /\ h.guest # f.name
<1> DEFINE placed == Placed(c, original, f)
           carried == IF original \in {None, f.name} THEN placed
                      ELSE Renamed(placed, original, f.name)
<1>n. None \notin Configured(c) /\ f.name \in Names
  BY FleetAssumption DEF Typed, Configured, ServerForm
<1>1. \A h \in placed.guests : h \in Guest /\ \E g \in c.guests :
          /\ h.vm = g.vm /\ h.od = g.od /\ h.guest = g.guest
          /\ h.host = IF original \in Configured(c) THEN Swap(g.host, original, f.name)
                      ELSE g.host
  <2>1. CASE original # None /\ original \notin Configured(c)
    BY <2>1 DEF Placed, Typed
  <2>2. CASE ~(original # None /\ original \notin Configured(c))
    <3>1. placed.guests = {[g EXCEPT !.host = Swap(g.host, original, f.name)] : g \in c.guests}
      BY <2>2 DEF Placed
    <3>2. ASSUME NEW g \in c.guests
          PROVE  /\ [g EXCEPT !.host = Swap(g.host, original, f.name)] \in Guest
                 /\ [g EXCEPT !.host = Swap(g.host, original, f.name)].host
                      = Swap(g.host, original, f.name)
                 /\ [g EXCEPT !.host = Swap(g.host, original, f.name)].vm = g.vm
                 /\ [g EXCEPT !.host = Swap(g.host, original, f.name)].od = g.od
                 /\ [g EXCEPT !.host = Swap(g.host, original, f.name)].guest = g.guest
                 /\ original \notin Configured(c) => Swap(g.host, original, f.name) = g.host
      <4>1. g \in Guest
        BY DEF Typed
      <4>2. original \notin Configured(c) => original = None
        BY <2>2
      <4>3. None # g.host
        BY <4>1, FleetAssumption DEF Guest
      <4>4. original \notin Configured(c) => Swap(g.host, original, f.name) = g.host
        BY <4>2, <4>3 DEF Swap
      <4>5. Swap(g.host, original, f.name) \in Names
        BY <1>n, <4>1 DEF Guest, Swap
      <4>6. \A to \in Names : /\ [g EXCEPT !.host = to] \in Guest
                             /\ [g EXCEPT !.host = to].host = to
                             /\ [g EXCEPT !.host = to].vm = g.vm
                             /\ [g EXCEPT !.host = to].od = g.od
                             /\ [g EXCEPT !.host = to].guest = g.guest
        BY <4>1 DEF Guest
      <4> QED
        BY <4>4, <4>5, <4>6
    <3> SUFFICES ASSUME NEW h \in placed.guests
                 PROVE  h \in Guest /\ \E g \in c.guests :
                          /\ h.vm = g.vm /\ h.od = g.od /\ h.guest = g.guest
                          /\ h.host = IF original \in Configured(c)
                                      THEN Swap(g.host, original, f.name) ELSE g.host
      OBVIOUS
    <3>3. PICK g \in c.guests : h = [g EXCEPT !.host = Swap(g.host, original, f.name)]
      BY <3>1
    <3> HIDE DEF placed
    <3>4. /\ h \in Guest /\ h.host = Swap(g.host, original, f.name)
          /\ h.vm = g.vm /\ h.od = g.od /\ h.guest = g.guest
          /\ original \notin Configured(c) => Swap(g.host, original, f.name) = g.host
      BY <3>2, <3>3
    <3> QED
      BY <3>4
  <2> QED
    BY <2>1, <2>2
<1> HIDE DEF placed
<1>2. \A h \in carried.guests : h \in Guest /\ \E g \in c.guests :
          /\ h.vm = g.vm /\ h.od = g.od
          /\ h.guest = (IF original = None THEN g.guest ELSE Swap(g.guest, original, f.name))
          /\ h.host = IF original \in Configured(c) THEN Swap(g.host, original, f.name)
                      ELSE g.host
  <2>1. CASE original \in {None, f.name}
    BY <1>1, <2>1 DEF Swap
  <2>2. CASE original \notin {None, f.name}
    <3>1. carried.guests = {[g EXCEPT !.guest = Swap(g.guest, original, f.name)]
                              : g \in placed.guests}
      BY <2>2 DEF Renamed
    <3>2. ASSUME NEW g \in Guest
          PROVE  /\ [g EXCEPT !.guest = Swap(g.guest, original, f.name)] \in Guest
                 /\ [g EXCEPT !.guest = Swap(g.guest, original, f.name)].host = g.host
                 /\ [g EXCEPT !.guest = Swap(g.guest, original, f.name)].vm = g.vm
                 /\ [g EXCEPT !.guest = Swap(g.guest, original, f.name)].od = g.od
                 /\ [g EXCEPT !.guest = Swap(g.guest, original, f.name)].guest
                      = Swap(g.guest, original, f.name)
      BY <1>n DEF Guest, Swap
    <3> SUFFICES ASSUME NEW h \in carried.guests
                 PROVE  h \in Guest /\ \E g \in c.guests :
                          /\ h.vm = g.vm /\ h.od = g.od
                          /\ h.guest = Swap(g.guest, original, f.name)
                          /\ h.host = IF original \in Configured(c)
                                      THEN Swap(g.host, original, f.name) ELSE g.host
      BY <2>2
    <3>3. PICK p \in placed.guests : h = [p EXCEPT !.guest = Swap(p.guest, original, f.name)]
      BY <3>1
    <3>4. p \in Guest
      BY <1>1
    <3>5. PICK g \in c.guests :
            /\ p.vm = g.vm /\ p.od = g.od /\ p.guest = g.guest
            /\ p.host = IF original \in Configured(c) THEN Swap(g.host, original, f.name)
                        ELSE g.host
      BY <1>1
    <3> QED
      BY <3>2, <3>3, <3>4, <3>5
  <2> QED
    BY <2>1, <2>2
<1>3. Saved(c, original, f) = Relinked(carried, f)
  BY DEF Saved, placed
<1> HIDE DEF carried
<1>4. Saved(c, original, f).guests = {g \in carried.guests : g.guest # f.name} \cup Asked(f)
  BY <1>3 DEF Relinked, Asked
<1> QED
  BY <1>2, <1>4

\* One link per guest and one guest per VM id also after a save: renaming an entry gives
\* it a name nobody has, and the form's link is compared with the others'.
LEMMA SavedOneHypervisor ==
  ASSUME NEW c, Consistent(c), NEW original \in Names \cup {None}, NEW f \in ServerForm,
         Accepted(c, original, f)
  PROVE  OneHypervisor(Saved(c, original, f))
<1>1. /\ Typed(c) /\ OneHypervisor(c) /\ NothingOfTheRemoved(c)
      /\ original # None => f.name = original \/ f.name \notin Configured(c)
  BY DEF Consistent, Accepted, NameFree
<1>2. \A h \in Saved(c, original, f).guests \ Asked(f) : \E g \in c.guests :
        /\ h.vm = g.vm /\ h.od = g.od
        /\ h.host = IF original \in Configured(c) THEN Swap(g.host, original, f.name)
                    ELSE g.host
        /\ h.guest = (IF original = None THEN g.guest
                      ELSE Swap(g.guest, original, f.name))
        /\ h.guest # f.name
  BY <1>1, SavedGuests
<1>3. \A g \in c.guests : g \in Guest /\ g.host \in Configured(c)
  BY <1>1 DEF Typed, NothingOfTheRemoved, Configured
<1>4. ASSUME NEW h \in Saved(c, original, f).guests \ Asked(f),
             NEW i \in Saved(c, original, f).guests \ Asked(f),
             h.guest = i.guest \/ (h.host = i.host /\ h.vm = i.vm)
      PROVE  h.guest = i.guest /\ h.host = i.host /\ h.vm = i.vm /\ h.od = i.od
  <2>1. PICK g \in c.guests :
          /\ h.vm = g.vm /\ h.od = g.od
          /\ h.host = IF original \in Configured(c) THEN Swap(g.host, original, f.name)
                      ELSE g.host
          /\ h.guest = (IF original = None THEN g.guest
                        ELSE Swap(g.guest, original, f.name))
          /\ h.guest # f.name
    BY <1>2
  <2>2. PICK j \in c.guests :
          /\ i.vm = j.vm /\ i.od = j.od
          /\ i.host = IF original \in Configured(c) THEN Swap(j.host, original, f.name)
                      ELSE j.host
          /\ i.guest = (IF original = None THEN j.guest
                        ELSE Swap(j.guest, original, f.name))
          /\ i.guest # f.name
    BY <1>2
  <2>3. h.guest = g.guest /\ i.guest = j.guest
    BY <2>1, <2>2 DEF Swap
  <2>4. h.host = i.host => g.host = j.host
    <3>1. CASE original \in Configured(c)
      <4>1. original # None
        BY <1>1, <3>1, FleetAssumption DEF Typed, Configured
      <4>2. g.host \in Configured(c) /\ j.host \in Configured(c)
        BY <1>3
      <4>3. f.name = original \/ f.name \notin Configured(c)
        BY <1>1, <4>1
      <4> QED
        BY <2>1, <2>2, <3>1, <4>2, <4>3 DEF Swap
    <3>2. CASE original \notin Configured(c)
      BY <2>1, <2>2, <3>2
    <3> QED
      BY <3>1, <3>2
  <2>5. g = j
    <3>1. g.guest = j.guest \/ (g.host = j.host /\ g.vm = j.vm)
      BY <1>4, <2>1, <2>2, <2>3, <2>4
    <3> QED
      BY <1>1, <3>1 DEF OneHypervisor
  <2> QED
    BY <2>1, <2>2, <2>5
<1>5. ASSUME NEW h \in Saved(c, original, f).guests \ Asked(f), NEW i \in Asked(f)
      PROVE  ~(h.guest = i.guest \/ (h.host = i.host /\ h.vm = i.vm))
  <2>1. PICK g \in c.guests :
          /\ h.vm = g.vm /\ h.od = g.od
          /\ h.host = IF original \in Configured(c) THEN Swap(g.host, original, f.name)
                      ELSE g.host
          /\ h.guest = (IF original = None THEN g.guest
                        ELSE Swap(g.guest, original, f.name))
          /\ h.guest # f.name
    BY <1>2
  <2>2. f.host # None /\ i.host = f.host /\ i.vm = f.vm /\ i.guest = f.name
    BY <1>5 DEF Asked
  <2>3. /\ f.host \notin {f.name, original}
        /\ g.host = f.host /\ g.vm = f.vm => g.guest \in {f.name, original}
    BY <2>2 DEF Accepted, LinkAllowed
  <2>4. g.guest \notin {f.name, original}
    <3>1. CASE original = None
      <4>1. g.guest # None
        BY <1>3, FleetAssumption DEF Guest
      <4> QED
        BY <2>1, <3>1, <4>1
    <3>2. CASE original # None
      BY <2>1, <3>2 DEF Swap
    <3> QED
      BY <3>1, <3>2
  <2>5. h.host = f.host => g.host = f.host
    BY <2>1, <2>3 DEF Swap
  <2> QED
    BY <2>1, <2>2, <2>3, <2>4, <2>5
<1>6. \A h \in Saved(c, original, f).guests : h \in Guest
  <2>1. Asked(f) \subseteq Guest
    BY AskedType DEF Accepted
  <2> QED
    BY <1>1, <2>1, SavedGuests
<1>7. \A h, i \in Guest : h.guest = i.guest /\ h.host = i.host /\ h.vm = i.vm
                         /\ h.od = i.od => h = i
  BY DEF Guest
<1>8. \A h, i \in Asked(f) : h = i
  BY DEF Asked
<1> SUFFICES ASSUME NEW h \in Saved(c, original, f).guests,
                    NEW i \in Saved(c, original, f).guests,
                    h.guest = i.guest \/ (h.host = i.host /\ h.vm = i.vm)
             PROVE  h = i
  BY DEF OneHypervisor
<1>9. CASE h \in Asked(f) <=> i \in Asked(f)
  BY <1>4, <1>6, <1>7, <1>8, <1>9
<1>10. CASE ~(h \in Asked(f) <=> i \in Asked(f))
  BY <1>5, <1>10
<1> QED
  BY <1>9, <1>10

\* The entries after a save: one with the name of the form, in place of the original, the others
\* as they were but for a relay that is renamed, and none if the original is gone.
After(c, original, f) ==
  IF original # None /\ original \notin Configured(c) THEN Configured(c)
  ELSE (Configured(c) \ {original}) \cup {f.name}

LEMMA PlacedServers ==
  ASSUME NEW c, Typed(c), NEW original \in Names \cup {None}, NEW f \in ServerForm
  PROVE  LET S == Placed(c, original, f).servers
         IN /\ S \in [After(c, original, f) -> Entry]
            /\ \A n \in After(c, original, f) :
                 \/ n \in Configured(c) /\ S[n] = c.servers[n]
                 \/ n = f.name /\ S[n] = Built(c, original, f)
                    /\ (original # None => original \in Configured(c))
            /\ Placed(c, original, f).left = c.left
            /\ Placed(c, original, f).projects = c.projects
<1>1. c.servers \in [Configured(c) -> Entry]
  BY DEF Typed, Configured
<1>2. Built(c, original, f) \in Entry
  BY BuiltType
<1>3. CASE original # None /\ original \notin Configured(c)
  <2>1. Placed(c, original, f) = c /\ After(c, original, f) = Configured(c)
    BY <1>3 DEF Placed, After
  <2> QED
    BY <1>1, <2>1
<1>4. CASE ~(original # None /\ original \notin Configured(c))
  <2>1. After(c, original, f) = (Configured(c) \ {original}) \cup {f.name}
    BY <1>4 DEF After
  <2>2. /\ Placed(c, original, f).servers =
             [n \in (Configured(c) \ {original}) \cup {f.name} |->
                IF n = f.name THEN Built(c, original, f) ELSE c.servers[n]]
        /\ Placed(c, original, f).left = c.left
        /\ Placed(c, original, f).projects = c.projects
    BY <1>4 DEF Placed
  <2> QED
    BY <1>1, <1>2, <1>4, <2>1, <2>2
<1> QED
  BY <1>3, <1>4

LEMMA SavedServers ==
  ASSUME NEW c, Typed(c), NEW original \in Names \cup {None}, NEW f \in ServerForm
  PROVE  LET S == Saved(c, original, f).servers
             P == Placed(c, original, f).servers
         IN /\ S \in [After(c, original, f) -> Entry]
            /\ \A n \in After(c, original, f) :
                 /\ S[n].logs = P[n].logs
                 /\ \/ S[n].relay = P[n].relay
                    \/ original # f.name /\ P[n].relay = original /\ S[n].relay = f.name
<1> DEFINE placed == Placed(c, original, f)
           carried == IF original \in {None, f.name} THEN placed
                      ELSE Renamed(placed, original, f.name)
<1>1. placed.servers \in [After(c, original, f) -> Entry]
  BY PlacedServers
<1>2. Saved(c, original, f).servers = carried.servers
  BY DEF Saved, Relinked
<1>3. CASE original \in {None, f.name}
  <2>1. carried = placed
    BY <1>3
  <2> QED
    BY <1>1, <1>2, <2>1
<1>4. CASE original \notin {None, f.name}
  <2>1. carried = Renamed(placed, original, f.name)
    BY <1>4
  <2> HIDE DEF placed, carried
  <2>2. carried.servers = [n \in DOMAIN placed.servers |->
                             [placed.servers[n] EXCEPT !.relay = Swap(@, original, f.name)]]
    BY <2>1 DEF Renamed, Configured
  <2>3. DOMAIN placed.servers = After(c, original, f)
    BY <1>1
  <2>4. ASSUME NEW e \in Entry
        PROVE  /\ [e EXCEPT !.relay = Swap(@, original, f.name)] \in Entry
               /\ [e EXCEPT !.relay = Swap(@, original, f.name)].logs = e.logs
               /\ [e EXCEPT !.relay = Swap(@, original, f.name)].relay
                    = Swap(e.relay, original, f.name)
    <3>1. Swap(e.relay, original, f.name) \in Names \cup {None}
      BY SwapType DEF Entry, ServerForm
    <3> QED
      BY <3>1 DEF Entry
  <2>5. \A n \in After(c, original, f) : placed.servers[n] \in Entry
    BY <1>1
  <2>6. carried.servers \in [After(c, original, f) -> Entry]
    BY <2>2, <2>3, <2>4, <2>5
  <2>7. \A n \in After(c, original, f) :
          /\ carried.servers[n].logs = placed.servers[n].logs
          /\ carried.servers[n].relay = Swap(placed.servers[n].relay, original, f.name)
    BY <2>2, <2>3, <2>4, <2>5
  <2> QED
    BY <1>2, <1>4, <2>6, <2>7 DEF placed, Swap
<1> QED
  BY <1>3, <1>4

\* What a job leaves out and the projects' machines, after a save.
LEMMA SavedRest ==
  ASSUME NEW c, Typed(c), NEW original \in Names \cup {None}, NEW f \in ServerForm
  PROVE  LET D == Saved(c, original, f)
         IN /\ DOMAIN D.projects = DOMAIN c.projects
            /\ D.projects \in [DOMAIN c.projects -> Project]
            /\ \A p \in DOMAIN c.projects : D.projects[p].hand = c.projects[p].hand
            /\ D.left \in [Jobs -> SUBSET Names]
            /\ \A j \in Jobs : D.left[j] \subseteq {IF original = None THEN n
                                                  ELSE Swap(n, original, f.name) : n \in c.left[j]}
<1> DEFINE placed == Placed(c, original, f)
           carried == IF original \in {None, f.name} THEN placed
                      ELSE Renamed(placed, original, f.name)
<1>1. placed.left = c.left /\ placed.projects = c.projects
  BY PlacedServers
<1>2. /\ Saved(c, original, f).left = carried.left
      /\ Saved(c, original, f).projects = carried.projects
  BY DEF Saved, Relinked
<1>3. c.projects \in [DOMAIN c.projects -> Project] /\ c.left \in [Jobs -> SUBSET Names]
  BY DEF Typed
<1>4. CASE original \in {None, f.name}
  <2>1. carried = placed
    BY <1>4
  <2>2. ASSUME original # None, NEW n PROVE Swap(n, original, f.name) = n
    BY <1>4, <2>2 DEF Swap
  <2> QED
    BY <1>1, <1>2, <1>3, <2>1, <2>2
<1>5. CASE original \notin {None, f.name}
  <2>1. carried = Renamed(placed, original, f.name)
    BY <1>5
  <2> HIDE DEF placed, carried
  <2>a. f.name \in Names
    BY DEF ServerForm
  <2>2. carried.projects = [p \in DOMAIN c.projects |->
                              [c.projects[p] EXCEPT !.on = Swap(@, original, f.name)]]
    BY <1>1, <2>1 DEF Renamed
  <2>3. DOMAIN c.left = Jobs
    BY <1>3
  <2>4. carried.left = [j \in Jobs |-> {Swap(n, original, f.name) : n \in c.left[j]}]
    BY <1>1, <2>1, <2>3 DEF Renamed
  <2>5. \A p \in DOMAIN c.projects :
          /\ [c.projects[p] EXCEPT !.on = Swap(@, original, f.name)] \in Project
          /\ [c.projects[p] EXCEPT !.on = Swap(@, original, f.name)].hand = c.projects[p].hand
    BY <1>3, <2>a, SwapType DEF Project
  <2>6. \A j \in Jobs : {Swap(n, original, f.name) : n \in c.left[j]} \subseteq Names
    BY <1>3, <2>a, SwapType
  <2>7. /\ carried.projects \in [DOMAIN c.projects -> Project]
        /\ \A p \in DOMAIN c.projects : carried.projects[p].hand = c.projects[p].hand
    BY <2>2, <2>5
  <2>8. carried.left \in [Jobs -> SUBSET Names]
    BY <2>4, <2>6
  <2> QED
    BY <1>2, <1>5, <2>4, <2>7, <2>8
<1> QED
  BY <1>4, <1>5

\* A save leads from one consistent file to another.
LEMMA SavedConsistent ==
  ASSUME NEW c, Consistent(c), NEW original \in Names \cup {None}, NEW f \in ServerForm,
         Accepted(c, original, f)
  PROVE  Consistent(Saved(c, original, f))
<1> DEFINE D == Saved(c, original, f)
<1>1. Typed(c) /\ NothingOfTheRemoved(c)
  BY DEF Consistent
<1>2. original # None => f.name = original \/ f.name \notin Configured(c)
  BY DEF Accepted, NameFree
<1>3. OneHypervisor(D)
  BY SavedOneHypervisor
<1>4. D.servers \in [After(c, original, f) -> Entry]
  BY <1>1, SavedServers
<1>5. /\ DOMAIN D.projects = DOMAIN c.projects
      /\ D.projects \in [DOMAIN c.projects -> Project]
      /\ D.left \in [Jobs -> SUBSET Names]
      /\ \A j \in Jobs : D.left[j] \subseteq {IF original = None THEN n
                                            ELSE Swap(n, original, f.name) : n \in c.left[j]}
  BY <1>1, SavedRest
<1>a. Asked(f) \subseteq Guest
  BY AskedType DEF Accepted
<1>6. /\ D.guests \subseteq Guest
      /\ \A h \in D.guests \ Asked(f) : \E g \in c.guests :
           h.host = IF original \in Configured(c) THEN Swap(g.host, original, f.name)
                    ELSE g.host
  BY <1>1, <1>2, <1>a, SavedGuests
<1> HIDE DEF D
<1>7. After(c, original, f) \subseteq Names
  BY <1>1 DEF After, Typed, Configured, ServerForm
<1>8. Typed(D)
  <2>1. DOMAIN c.projects \subseteq Projects
    BY <1>1 DEF Typed
  <2>2. DOMAIN D.servers = After(c, original, f)
    BY <1>4
  <2> QED
    BY <1>4, <1>5, <1>6, <1>7, <2>1, <2>2 DEF Typed
<1>9. None \notin Configured(c)
  BY <1>1, FleetAssumption DEF Typed, Configured
<1>10. \A n \in Configured(c) :
         /\ n # original => n \in After(c, original, f)
         /\ Swap(n, original, f.name) \in After(c, original, f)
  BY <1>9 DEF After, Swap
<1>11. \A h \in D.guests : h.host \in DOMAIN D.servers
  <2> SUFFICES ASSUME NEW h \in D.guests PROVE h.host \in After(c, original, f)
    BY <1>4
  <2>1. CASE h \in Asked(f)
    <3>1. h.host = f.host /\ f.host # None
      BY <2>1 DEF Asked
    <3>2. f.host \in Configured(c) /\ f.host # original
      BY <3>1 DEF Accepted, LinkAllowed
    <3> QED
      BY <3>1, <3>2, <1>10
  <2>2. CASE h \notin Asked(f)
    <3>1. PICK g \in c.guests :
            h.host = IF original \in Configured(c) THEN Swap(g.host, original, f.name)
                     ELSE g.host
      BY <1>6, <2>2
    <3>2. g.host \in Configured(c)
      BY <1>1 DEF NothingOfTheRemoved, Configured
    <3> QED
      BY <1>10, <3>1, <3>2
  <2> QED
    BY <2>1, <2>2
<1>12. \A j \in Jobs : D.left[j] \subseteq DOMAIN D.servers
  <2> SUFFICES ASSUME NEW j \in Jobs, NEW m \in D.left[j] PROVE m \in After(c, original, f)
    BY <1>4
  <2>1. PICK n \in c.left[j] : m = IF original = None THEN n ELSE Swap(n, original, f.name)
    BY <1>5
  <2>2. n \in Configured(c)
    BY <1>1 DEF NothingOfTheRemoved, Configured
  <2> QED
    BY <1>9, <1>10, <2>1, <2>2
<1> QED
  BY <1>3, <1>8, <1>11, <1>12 DEF D, Consistent, NothingOfTheRemoved

LEMMA RemovedConsistent ==
  ASSUME NEW c, Consistent(c), NEW n \in Configured(c)
  PROVE  /\ Consistent(Removed(c, n))
         /\ \A m \in DOMAIN Removed(c, n).servers :
              m \in Configured(c) /\ Removed(c, n).servers[m] = c.servers[m]
         /\ Removed(c, n).projects = c.projects
<1>1. Typed(c) /\ OneHypervisor(c) /\ NothingOfTheRemoved(c)
  BY DEF Consistent
<1>2. /\ Removed(c, n).servers = [m \in Configured(c) \ {n} |-> c.servers[m]]
      /\ Removed(c, n).guests = {g \in c.guests : n \notin {g.host, g.guest}}
      /\ Removed(c, n).projects = c.projects
      /\ Removed(c, n).left = [j \in Jobs |-> c.left[j] \ {n}]
  <2>1. DOMAIN c.left = Jobs
    BY <1>1 DEF Typed
  <2> QED
    BY <2>1 DEF Removed
<1> DEFINE D == Removed(c, n)
<1> HIDE DEF D
<1>3. Typed(D)
  BY <1>1, <1>2 DEF D, Typed, Configured
<1>4. OneHypervisor(D)
  BY <1>1, <1>2 DEF D, OneHypervisor
<1>5. NothingOfTheRemoved(D)
  BY <1>1, <1>2 DEF D, NothingOfTheRemoved, Configured
<1> QED
  BY <1>2, <1>3, <1>4, <1>5 DEF D, Consistent

\* What is stored is what the next handler loads.
LEMMA StoreIs ==
  ASSUME NEW c, Consistent(c), Store(c)
  PROVE  Consistent(cfg)'
BY DEF Store, cfg, Consistent, Typed, OneHypervisor, NothingOfTheRemoved

(****************************** The theorems *******************************)

\* What an edit leaves of the file as it is.
Untouched(D) ==
  /\ \A n \in DOMAIN servers \cap DOMAIN D.servers :
       /\ D.servers[n].logs = servers[n].logs
       /\ D.servers[n].relay = servers[n].relay \/ servers[n].relay \notin DOMAIN D.servers
  /\ \A p \in DOMAIN projects \cap DOMAIN D.projects : D.projects[p].hand = projects[p].hand

HandWritten ==
  /\ \A n \in DOMAIN servers \cap DOMAIN servers' :
       /\ servers'[n].logs = servers[n].logs
       /\ \/ servers'[n].relay = servers[n].relay
          \/ servers[n].relay \notin DOMAIN servers'
  /\ \A p \in DOMAIN projects \cap DOMAIN projects' :
       projects'[p].hand = projects[p].hand

LEMMA EditIs ==
  ASSUME NEW D, Consistent(D), Untouched(D), Edit(D)
  PROVE  Consistent(cfg)' /\ HandWritten
<1>1. Consistent(cfg)'
  BY StoreIs DEF Edit
<1>2. HandWritten
  BY DEF Edit, Store, Untouched, HandWritten
<1> QED
  BY <1>1, <1>2

\* A save touches nothing that is written by hand.
LEMMA SavedUntouched ==
  ASSUME Consistent(cfg), NEW original \in Names \cup {None}, NEW f \in ServerForm,
         Accepted(cfg, original, f)
  PROVE  Untouched(Saved(cfg, original, f))
<1> DEFINE D == Saved(cfg, original, f)
           P == Placed(cfg, original, f)
<1>1. Typed(cfg) /\ cfg.servers = servers /\ cfg.projects = projects
      /\ Configured(cfg) = DOMAIN servers
  BY DEF Consistent, cfg, Configured
<1>2. /\ D.servers \in [After(cfg, original, f) -> Entry]
      /\ \A n \in After(cfg, original, f) :
           /\ D.servers[n].logs = P.servers[n].logs
           /\ \/ D.servers[n].relay = P.servers[n].relay
              \/ /\ original # f.name /\ P.servers[n].relay = original
                 /\ D.servers[n].relay = f.name
  <2> HIDE DEF D, P
  <2>1. D = Saved(cfg, original, f) /\ P = Placed(cfg, original, f)
    BY DEF D, P
  <2> QED
    BY <1>1, <2>1, SavedServers
<1>3. \A n \in After(cfg, original, f) :
        \/ n \in DOMAIN servers /\ P.servers[n] = servers[n]
        \/ n = f.name /\ P.servers[n] = Built(cfg, original, f)
  BY <1>1, PlacedServers
<1>4. /\ DOMAIN D.projects = DOMAIN projects
      /\ \A p \in DOMAIN projects : D.projects[p].hand = projects[p].hand
  BY <1>1, SavedRest
<1> HIDE DEF D, P
<1>5. f.name \in DOMAIN servers => f.name = original
  BY <1>1 DEF Accepted, NameFree
<1>6. original # f.name => original \notin After(cfg, original, f)
  BY <1>1 DEF After
<1>7. ASSUME NEW n \in DOMAIN servers, n \in After(cfg, original, f)
      PROVE  /\ P.servers[n].logs = servers[n].logs
             /\ P.servers[n].relay = servers[n].relay
  <2>1. CASE n = f.name /\ P.servers[n] = Built(cfg, original, f)
    <3>1. n = original /\ n \in Configured(cfg) /\ cfg.servers[n] = servers[n]
      BY <1>1, <1>5, <1>7, <2>1
    <3>2. servers[n] \in Entry
      BY <1>1 DEF Typed
    <3>3. servers[n].logs \in BOOLEAN
      BY <3>2 DEF Entry
    <3> QED
      BY <2>1, <3>1, <3>3 DEF Built
  <2>2. CASE P.servers[n] = servers[n]
    BY <2>2
  <2> QED
    BY <1>3, <1>7, <2>1, <2>2
<1>8. DOMAIN D.servers = After(cfg, original, f)
  BY <1>2
<1> QED
  BY <1>2, <1>4, <1>6, <1>7, <1>8 DEF Untouched, D

\* A project of the form's, or of an import's, in the place it has.
LEMMA ProjectsIs ==
  ASSUME Consistent(cfg), NEW D, D.servers = servers, D.guests = guests, D.left = left,
         NEW touched \in SUBSET Projects,
         DOMAIN D.projects \subseteq DOMAIN projects \cup touched,
         D.projects \in [DOMAIN D.projects -> Project],
         \A p \in DOMAIN projects \cap DOMAIN D.projects : D.projects[p].hand = projects[p].hand
  PROVE  Consistent(D) /\ Untouched(D)
<1>1. Consistent(D)
  BY DEF cfg, Consistent, Typed, OneHypervisor, NothingOfTheRemoved
<1>2. Untouched(D)
  BY DEF Untouched
<1> QED
  BY <1>1, <1>2

LEMMA FiledIs ==
  ASSUME Consistent(cfg), NEW original \in Projects \cup {None}, NEW p \in Projects,
         NEW n \in DOMAIN servers, ContainerAccepted(cfg, original, p, n)
  PROVE  Consistent(Filed(cfg, original, p, n)) /\ Untouched(Filed(cfg, original, p, n))
<1> DEFINE D == Filed(cfg, original, p, n)
           hand == original \in DOMAIN projects /\ projects[original].hand
<1>1. /\ projects \in [DOMAIN projects -> Project] /\ n \in Names
  BY DEF Consistent, Typed, cfg
<1>2. hand \in BOOLEAN /\ (original \in DOMAIN projects => hand = projects[original].hand)
  BY <1>1 DEF Project
<1>3. cfg.projects = projects
  BY DEF cfg
<1>4. CASE original # None /\ original \notin DOMAIN projects
  <2>1. D = cfg
    BY <1>3, <1>4 DEF Filed
  <2> QED
    BY <2>1 DEF Untouched, cfg
<1>5. CASE ~(original # None /\ original \notin DOMAIN projects)
  <2>1. D = [cfg EXCEPT !.projects = [q \in (DOMAIN projects \ {original}) \cup {p} |->
                                       IF q = p THEN [on |-> n, hand |-> hand]
                                       ELSE projects[q]]]
    BY <1>3, <1>5 DEF Filed
  <2>2. /\ D.servers = servers /\ D.guests = guests /\ D.left = left
        /\ D.projects = [q \in (DOMAIN projects \ {original}) \cup {p} |->
                           IF q = p THEN [on |-> n, hand |-> hand] ELSE projects[q]]
    BY <2>1 DEF cfg
  <2>3. [on |-> n, hand |-> hand] \in Project
    BY <1>1, <1>2 DEF Project
  <2> HIDE DEF D, hand
  <2>4. D.projects \in [DOMAIN D.projects -> Project]
    BY <1>1, <2>2, <2>3
  <2>5. DOMAIN D.projects \subseteq DOMAIN projects \cup {p}
    BY <2>2
  <2>6. p \in DOMAIN projects => p = original
    BY <1>3 DEF ContainerAccepted
  <2>7. \A q \in DOMAIN projects \cap DOMAIN D.projects : D.projects[q].hand = projects[q].hand
    BY <1>2, <2>2, <2>6
  <2> QED
    BY <2>2, <2>4, <2>5, <2>7, ProjectsIs DEF D
<1> QED
  BY <1>4, <1>5

\* A step keeps the types, the links and what is written by hand.
LEMMA StepKeeps ==
  ASSUME TypeOK, Consistent(cfg), Next
  PROVE  TypeOK' /\ Consistent(cfg)' /\ HandWritten
<1>n. /\ DOMAIN servers \subseteq Names /\ servers \in [DOMAIN servers -> Entry]
      /\ projects \in [DOMAIN projects -> Project] /\ DOMAIN projects \subseteq Projects
      /\ left \in [Jobs -> SUBSET Names] /\ guests \subseteq Guest
  BY DEF TypeOK, Typed, cfg
<1>t. enrolled \subseteq Addresses /\ open \in Names \cup {None} /\ edits \in 0..MaxEdits
  BY DEF TypeOK
<1>e. ASSUME NEW D, Edit(D), Consistent(D), Untouched(D), enrolled' = enrolled,
             open' \in {None, open}
      PROVE  TypeOK' /\ Consistent(cfg)' /\ HandWritten
  <2>1. Consistent(cfg)' /\ HandWritten
    BY <1>e, EditIs
  <2>2. edits' \in 0..MaxEdits
    BY <1>e, <1>t, FleetAssumption DEF Edit
  <2>3. enrolled' \subseteq Addresses /\ open' \in Names \cup {None}
    BY <1>e, <1>t
  <2> QED
    BY <2>1, <2>2, <2>3 DEF TypeOK, Consistent
<1>u. ASSUME UNCHANGED <<servers, guests, projects, left>>
      PROVE  Consistent(cfg)' /\ Typed(cfg)' /\ HandWritten
  BY <1>u DEF Consistent, Typed, OneHypervisor, NothingOfTheRemoved, cfg, HandWritten
<1>m. ASSUME NEW n \in DOMAIN servers, MarkEnrolled(n)
      PROVE  TypeOK' /\ Consistent(cfg)' /\ HandWritten
  <2>1. servers[n].addr \in Addresses
    BY <1>n DEF Entry
  <2>2. UNCHANGED <<servers, guests, projects, left, open, edits>>
        /\ enrolled' = enrolled \cup {servers[n].addr}
    BY <1>m DEF MarkEnrolled
  <2> QED
    BY <1>t, <1>u, <2>1, <2>2 DEF TypeOK
<1>1. CASE OpenForm
  <2>1. open' \in Names \cup {None} /\ UNCHANGED <<servers, guests, projects, left, enrolled, edits>>
    BY <1>1, <1>n DEF OpenForm
  <2> QED
    BY <1>t, <1>u, <2>1 DEF TypeOK
<1>2. CASE SaveServer
  <2>1. PICK original \in DOMAIN servers \cup {None, open}, f \in Forms :
          /\ Accepted(cfg, original, f)
          /\ Edit(Saved(cfg, original, f))
          /\ open' = IF original = open THEN None ELSE open
          /\ UNCHANGED enrolled
    BY <1>2 DEF SaveServer
  <2>2. original \in Names \cup {None} /\ f \in ServerForm
    BY <1>n, <1>t, FleetAssumption
  <2>3. Consistent(Saved(cfg, original, f))
    BY <2>1, <2>2, SavedConsistent
  <2>4. Untouched(Saved(cfg, original, f))
    BY <2>1, <2>2, SavedUntouched
  <2> QED
    BY <1>e, <2>1, <2>3, <2>4
<1>3. CASE DeleteServer
  <2>1. PICK n \in DOMAIN servers : Edit(Removed(cfg, n)) /\ UNCHANGED <<enrolled, open>>
    BY <1>3 DEF DeleteServer
  <2>2. Consistent(Removed(cfg, n))
    BY RemovedConsistent DEF Configured, cfg
  <2>3. /\ Removed(cfg, n).servers = [m \in DOMAIN servers \ {n} |-> servers[m]]
        /\ Removed(cfg, n).projects = projects
    BY DEF Removed, cfg, Configured
  <2>4. Untouched(Removed(cfg, n))
    BY <2>3 DEF Untouched
  <2> QED
    BY <1>e, <2>1, <2>2, <2>4
<1>4. CASE JobHost
  <2>1. PICK job \in Jobs, n \in DOMAIN servers :
          /\ \E names \in {left[job] \cup {n}, left[job] \ {n}} :
               Edit([cfg EXCEPT !.left[job] = names])
          /\ UNCHANGED <<enrolled, open>>
    BY <1>4 DEF JobHost
  <2>2. PICK names \in {left[job] \cup {n}, left[job] \ {n}} :
          Edit([cfg EXCEPT !.left[job] = names])
    BY <2>1
  <2> DEFINE D == [cfg EXCEPT !.left[job] = names]
  <2>3. /\ D.servers = servers /\ D.guests = guests /\ D.projects = projects
        /\ D.left = [left EXCEPT ![job] = names]
    BY DEF cfg
  <2>4. left[job] \subseteq DOMAIN servers
    BY DEF Consistent, NothingOfTheRemoved, cfg
  <2>5. names \subseteq DOMAIN servers
    BY <2>2, <2>4
  <2> HIDE DEF D
  <2>6. D.left \in [Jobs -> SUBSET Names] /\ \A j \in Jobs : D.left[j] \subseteq DOMAIN servers
    <3>1. \A j \in Jobs : left[j] \subseteq DOMAIN servers
      BY DEF Consistent, NothingOfTheRemoved, cfg
    <3> QED
      BY <1>n, <2>3, <2>5, <3>1
  <2>7. Typed(D)
    BY <1>n, <2>3, <2>6 DEF Typed
  <2>8. OneHypervisor(D)
    BY <2>3 DEF Consistent, OneHypervisor, cfg
  <2>9. NothingOfTheRemoved(D)
    BY <2>3, <2>6 DEF Consistent, NothingOfTheRemoved, cfg
  <2>10. Untouched(D)
    BY <2>3 DEF Untouched
  <2>11. Edit(D)
    BY <2>2 DEF D
  <2> QED
    BY <1>e, <2>1, <2>7, <2>8, <2>9, <2>10, <2>11 DEF Consistent
<1>5. CASE SaveContainer
  <2>1. PICK original \in Projects \cup {None}, p \in Projects, n \in DOMAIN servers :
          /\ ContainerAccepted(cfg, original, p, n)
          /\ Edit(Filed(cfg, original, p, n))
          /\ UNCHANGED <<enrolled, open>>
    BY <1>5 DEF SaveContainer
  <2>2. Consistent(Filed(cfg, original, p, n)) /\ Untouched(Filed(cfg, original, p, n))
    BY <2>1, FiledIs
  <2> QED
    BY <1>e, <2>1, <2>2
<1>6. CASE ImportContainers
  <2>1. PICK ticked \in SUBSET Projects \ {{}}, n \in DOMAIN servers :
          /\ \A p \in ticked : ContainerAccepted(cfg, None, p, n)
          /\ Edit([cfg EXCEPT !.projects = [p \in DOMAIN @ \cup ticked |->
                                             IF p \in ticked THEN [on |-> n, hand |-> FALSE]
                                             ELSE @[p]]])
          /\ UNCHANGED <<enrolled, open>>
    BY <1>6 DEF ImportContainers
  <2> DEFINE D == [cfg EXCEPT !.projects = [p \in DOMAIN @ \cup ticked |->
                                             IF p \in ticked THEN [on |-> n, hand |-> FALSE]
                                             ELSE @[p]]]
  <2>2. /\ D.servers = servers /\ D.guests = guests /\ D.left = left
        /\ D.projects = [p \in DOMAIN projects \cup ticked |->
                           IF p \in ticked THEN [on |-> n, hand |-> FALSE] ELSE projects[p]]
    BY DEF cfg
  <2>3. Edit(D)
    BY <2>1
  <2> HIDE DEF D
  <2>4. [on |-> n, hand |-> FALSE] \in Project
    BY <1>n DEF Project
  <2>5. DOMAIN projects \cap ticked = {}
    BY <2>1, FleetAssumption DEF ContainerAccepted, cfg
  <2>6. /\ D.projects \in [DOMAIN D.projects -> Project]
        /\ DOMAIN D.projects \subseteq DOMAIN projects \cup ticked
        /\ \A p \in DOMAIN projects \cap DOMAIN D.projects :
             D.projects[p].hand = projects[p].hand
    BY <1>n, <2>2, <2>4, <2>5
  <2>7. ticked \in SUBSET Projects
    BY <2>1
  <2>8. Consistent(D) /\ Untouched(D)
    BY <2>2, <2>6, <2>7, ProjectsIs
  <2> QED
    BY <1>e, <2>1, <2>3, <2>8
<1>7. CASE DeleteContainer
  <2>1. PICK p \in DOMAIN projects :
          /\ Edit([cfg EXCEPT !.projects = [q \in DOMAIN projects \ {p} |-> projects[q]]])
          /\ UNCHANGED <<enrolled, open>>
    BY <1>7 DEF DeleteContainer
  <2> DEFINE D == [cfg EXCEPT !.projects = [q \in DOMAIN projects \ {p} |-> projects[q]]]
  <2>2. /\ D.servers = servers /\ D.guests = guests /\ D.left = left
        /\ D.projects = [q \in DOMAIN projects \ {p} |-> projects[q]]
    BY DEF cfg
  <2>3. Edit(D)
    BY <2>1
  <2> HIDE DEF D
  <2>4. /\ D.projects \in [DOMAIN D.projects -> Project]
        /\ DOMAIN D.projects \subseteq DOMAIN projects \cup {}
        /\ \A q \in DOMAIN projects \cap DOMAIN D.projects :
             D.projects[q].hand = projects[q].hand
    BY <1>n, <2>2
  <2>5. {} \in SUBSET Projects
    OBVIOUS
  <2>6. Consistent(D) /\ Untouched(D)
    BY <2>2, <2>4, <2>5, ProjectsIs
  <2> QED
    BY <1>e, <2>1, <2>3, <2>6
<1>8. CASE Enrol
  BY <1>8, <1>m DEF Enrol
<1>9. CASE KeyLogin
  BY <1>9, <1>m DEF KeyLogin
<1> QED
  BY <1>1, <1>2, <1>3, <1>4, <1>5, <1>6, <1>7, <1>8, <1>9 DEF Next

\* A save adds one link at most, to another machine than its own.
LEMMA SavedSound ==
  ASSUME NEW c, Consistent(c), Sound(c), NEW original \in Names \cup {None}, NEW f \in ServerForm,
         Accepted(c, original, f)
  PROVE  Sound(Saved(c, original, f))
<1> DEFINE G == Saved(c, original, f).guests
           from(h, g) == /\ h.vm = g.vm /\ h.od = g.od
                         /\ h.host = IF original \in Configured(c)
                                     THEN Swap(g.host, original, f.name) ELSE g.host
                         /\ h.guest = (IF original = None THEN g.guest
                                       ELSE Swap(g.guest, original, f.name))
                         /\ h.guest # f.name
<1>1. /\ G \subseteq Guest \cup Asked(f)
      /\ \A h \in G \ Asked(f) : \E g \in c.guests : from(h, g)
  BY SavedGuests DEF Consistent, Accepted, NameFree
<1> HIDE DEF G
<1>2. \A h \in G : h.host # h.guest
  <2> SUFFICES ASSUME NEW h \in G
               PROVE  h.host # h.guest
    OBVIOUS
  <2>1. CASE h \in Asked(f)
    BY <2>1 DEF Asked, Accepted, LinkAllowed
  <2>2. CASE h \notin Asked(f)
    <3>1. PICK g \in c.guests : from(h, g)
      BY <1>1, <2>2
    <3>2. g.host # g.guest
      BY DEF Sound, NobodysOwn
    <3>3. h.guest = g.guest
      BY <3>1 DEF Swap
    <3>4. h.host \in {g.host, f.name}
      BY <3>1 DEF Swap
    <3> QED
      BY <3>1, <3>2, <3>3, <3>4
  <2> QED
    BY <2>1, <2>2
<1>3. IsFiniteSet(G \ Asked(f))
  <2> DEFINE F == [h \in G \ Asked(f) |-> CHOOSE g \in c.guests : from(h, g)]
  <2>1. \A h \in G \ Asked(f) : F[h] \in c.guests /\ from(h, F[h])
    BY <1>1
  <2>2. ASSUME NEW h \in G \ Asked(f), NEW i \in G \ Asked(f), F[h] = F[i]
        PROVE  h = i
    <3>1. h \in Guest /\ i \in Guest
      BY <1>1
    <3> HIDE DEF F
    <3>2. from(h, F[h]) /\ from(i, F[h])
      BY <2>1, <2>2
    <3>3. h.vm = i.vm /\ h.od = i.od /\ h.host = i.host /\ h.guest = i.guest
      BY <3>2
    <3> QED
      BY <3>1, <3>3 DEF Guest
  <2>3. F \in [G \ Asked(f) -> c.guests]
    BY <2>1
  <2>4. F \in Injection(G \ Asked(f), c.guests)
    <3> HIDE DEF F
    <3> QED
      BY <2>2, <2>3 DEF Injection, IsInjective
  <2>5. IsFiniteSet(c.guests)
    BY DEF Sound
  <2> HIDE DEF F
  <2> QED
    BY <2>4, <2>5, FS_Injection
<1>4. IsFiniteSet(G)
  <2>1. CASE G \cap Asked(f) = {}
    <3>1. G = G \ Asked(f)
      BY <2>1
    <3> QED
      BY <1>3, <3>1
  <2>2. CASE G \cap Asked(f) # {}
    <3>1. PICK x : x \in G /\ Asked(f) = {x}
      BY <2>2 DEF Asked
    <3>2. G = (G \ Asked(f)) \cup {x}
      BY <3>1
    <3> QED
      BY <1>3, <3>2, FS_AddElement
  <2> QED
    BY <2>1, <2>2
<1> QED
  BY <1>2, <1>4 DEF G, Sound, NobodysOwn

LEMMA SoundStep ==
  ASSUME TypeOK, Consistent(cfg), Sound(cfg), Next
  PROVE  Sound(cfg)'
<1>n. /\ DOMAIN servers \subseteq Names /\ open \in Names \cup {None}
      /\ IsFiniteSet(guests) /\ NobodysOwn(cfg)
  BY DEF TypeOK, Typed, Sound, cfg
<1>1. ASSUME guests' \subseteq guests
      PROVE  Sound(cfg)'
  <2>1. IsFiniteSet(guests')
    BY <1>n, <1>1, FS_Subset
  <2>2. NobodysOwn(cfg)'
    BY <1>n, <1>1 DEF NobodysOwn, cfg
  <2>3. cfg'.guests = guests'
    BY DEF cfg
  <2> QED
    BY <2>1, <2>2, <2>3 DEF Sound
<1>2. CASE SaveServer
  <2>1. PICK original \in DOMAIN servers \cup {None, open}, f \in Forms :
          Accepted(cfg, original, f) /\ Edit(Saved(cfg, original, f))
    BY <1>2 DEF SaveServer
  <2>2. original \in Names \cup {None} /\ f \in ServerForm
    BY <1>n, FleetAssumption
  <2>3. Sound(Saved(cfg, original, f))
    BY <2>1, <2>2, SavedSound
  <2>4. guests' = Saved(cfg, original, f).guests
    BY <2>1 DEF Edit, Store
  <2> QED
    BY <2>3, <2>4 DEF Sound, NobodysOwn, cfg
<1>3. CASE DeleteServer
  <2>1. PICK n \in DOMAIN servers : Edit(Removed(cfg, n))
    BY <1>3 DEF DeleteServer
  <2>2. Removed(cfg, n).guests \subseteq guests
    BY DEF Removed, cfg
  <2> QED
    BY <1>1, <2>1, <2>2 DEF Edit, Store
<1>4. CASE SaveContainer
  <2>1. PICK original, p, n : Edit(Filed(cfg, original, p, n))
    BY <1>4 DEF SaveContainer
  <2>2. Filed(cfg, original, p, n).guests = guests
    BY DEF Filed, cfg
  <2> QED
    BY <1>1, <2>1, <2>2 DEF Edit, Store
<1>5. CASE OpenForm \/ JobHost \/ ImportContainers \/ DeleteContainer \/ Enrol \/ KeyLogin
  <2>1. guests' = guests
    BY <1>5 DEF OpenForm, JobHost, ImportContainers, DeleteContainer, Enrol, KeyLogin,
       MarkEnrolled, Edit, Store, cfg
  <2> QED
    BY <1>1, <2>1
<1> QED
  BY <1>2, <1>3, <1>4, <1>5 DEF Next

\* A file that was good when it was read stays good.
LEMMA StartsGood ==
  ASSUME Init
  PROVE  TypeOK /\ Consistent(cfg) /\ Sound(cfg)
<1>1. PICK c \in Start : /\ servers = c.servers /\ guests = c.guests
                         /\ projects = c.projects /\ left = c.left
  BY DEF Init
<1>2. /\ Typed(c) /\ OneHypervisor(c) /\ NothingOfTheRemoved(c)
      /\ IsFiniteSet(c.guests) /\ NobodysOwn(c)
  BY StartAssumption
<1>s. Sound(cfg)
  BY <1>1, <1>2 DEF Sound, NobodysOwn, cfg
<1>3. Typed(cfg)
  BY <1>1, <1>2 DEF Typed, cfg
<1>4. OneHypervisor(cfg) /\ NothingOfTheRemoved(cfg)
  BY <1>1, <1>2 DEF OneHypervisor, NothingOfTheRemoved, cfg
<1>5. 0 \in 0..MaxEdits
  BY FleetAssumption
<1> QED
  BY <1>s, <1>3, <1>4, <1>5 DEF Init, TypeOK, Consistent

LEMMA LinksInductive ==
  Spec => [](TypeOK /\ Consistent(cfg) /\ Sound(cfg))
<1>1. TypeOK /\ Consistent(cfg) /\ Sound(cfg) /\ [Next]_vars
        => (TypeOK /\ Consistent(cfg) /\ Sound(cfg))'
  <2> SUFFICES ASSUME TypeOK, Consistent(cfg), Sound(cfg), [Next]_vars
               PROVE  TypeOK' /\ Consistent(cfg)' /\ Sound(cfg)'
    OBVIOUS
  <2>1. CASE Next
    BY <2>1, StepKeeps, SoundStep
  <2>2. CASE UNCHANGED vars
    <3>1. TypeOK' /\ Consistent(cfg)'
      BY <2>2 DEF TypeOK, Consistent, Typed, OneHypervisor, NothingOfTheRemoved, cfg, vars
    <3>2. Sound(cfg)'
      BY <2>2 DEF Sound, NobodysOwn, cfg, vars
    <3> QED
      BY <3>1, <3>2
  <2> QED
    BY <2>1, <2>2
<1> QED
  BY <1>1, StartsGood, PTL DEF Spec

\* The variables keep to their types, a guest has one hypervisor and a VM id one
\* machine, and no link and no exclusion outlives the machine it names: whatever
\* the settings handlers save, in any order, from forms fresh or stale.
THEOREM LinksKept ==
  Spec => []LinksHold
<1>1. TypeOK /\ Consistent(cfg) /\ Sound(cfg) => LinksHold
  BY DEF LinksHold, Consistent, Sound
<1> QED
  BY <1>1, LinksInductive, PTL

\* No handler of the settings pages changes what its form does not show.
THEOREM HandWrittenStays ==
  Spec => HandWrittenKept
<1>1. TypeOK /\ Consistent(cfg) /\ [Next]_vars => [HandWritten]_vars
  BY StepKeeps
<1> QED
  BY <1>1, LinksInductive, PTL DEF Spec, HandWrittenKept, HandWritten
(************************* What the edit form does *************************)

\* The machine's link as the form shows it, and the form.
Link(c, n) == {g \in c.guests : g.guest = n}

LEMMA ShownIs ==
  ASSUME NEW c, Typed(c), OneHypervisor(c), NobodysOwn(c), NEW n \in Configured(c)
  PROVE  /\ Shown(c, n).name = n /\ Shown(c, n).addr = c.servers[n].addr
         /\ Shown(c, n).kind = c.servers[n].kind /\ Shown(c, n).mac = c.servers[n].mac
         /\ Shown(c, n).od = (n \in OnDemand(c))
         /\ \/ Link(c, n) = {} /\ Shown(c, n).host = None
            \/ \E g \in c.guests :
                 /\ Link(c, n) = {g} /\ g.guest = n /\ g.host # n /\ g.host # None
                 /\ Shown(c, n).host = g.host /\ Shown(c, n).vm = g.vm
<1> DEFINE of == CHOOSE g \in Link(c, n) : TRUE
<1>1. Shown(c, n) = [name |-> n, addr |-> c.servers[n].addr, kind |-> c.servers[n].kind,
                     mac |-> c.servers[n].mac, od |-> n \in OnDemand(c),
                     host |-> IF Link(c, n) = {} THEN None ELSE of.host,
                     vm |-> IF Link(c, n) = {} THEN NoId ELSE of.vm]
  BY DEF Shown, Link
<1>2. CASE Link(c, n) = {}
  BY <1>1, <1>2
<1>3. CASE Link(c, n) # {}
  <2>1. of \in Link(c, n)
    BY <1>3
  <2> HIDE DEF of
  <2>2. of \in c.guests /\ of.guest = n
    BY <2>1 DEF Link
  <2>3. Link(c, n) = {of}
    BY <2>2 DEF Link, OneHypervisor
  <2>4. of.host # n /\ of.host # None
    BY <2>2, FleetAssumption DEF NobodysOwn, Typed, Guest
  <2> QED
    BY <1>1, <1>3, <2>2, <2>3, <2>4
<1> QED
  BY <1>2, <1>3

\* Saving a form under the name it was opened with.
LEMMA SavedInPlace ==
  ASSUME NEW c, Typed(c), NEW n \in Configured(c), NEW f, f.name = n
  PROVE  /\ Saved(c, n, f).servers = [m \in Configured(c) |-> IF m = n THEN Built(c, n, f)
                                                              ELSE c.servers[m]]
         /\ Saved(c, n, f).guests = {g \in c.guests : g.guest # n} \cup Asked(f)
<1>1. \A g \in c.guests : [g EXCEPT !.host = Swap(g.host, n, n)] = g
  <2> SUFFICES ASSUME NEW g \in c.guests
               PROVE  [g EXCEPT !.host = Swap(g.host, n, n)] = g
    OBVIOUS
  <2>1. Swap(g.host, n, n) = g.host
    BY DEF Swap
  <2>2. g \in Guest
    BY DEF Typed
  <2> QED
    BY <2>1, <2>2 DEF Guest
<1>2. {[g EXCEPT !.host = Swap(g.host, n, n)] : g \in c.guests} = c.guests
  BY <1>1
<1>3. (Configured(c) \ {n}) \cup {n} = Configured(c)
  OBVIOUS
<1>4. Placed(c, n, f) = [c EXCEPT
         !.servers = [m \in Configured(c) |-> IF m = n THEN Built(c, n, f) ELSE c.servers[m]],
         !.guests = {[g EXCEPT !.host = Swap(g.host, n, n)] : g \in @}]
  BY <1>3 DEF Placed
<1>5. Saved(c, n, f) = Relinked(Placed(c, n, f), f)
  BY DEF Saved
<1> QED
  BY <1>2, <1>4, <1>5 DEF Relinked, Asked

\* The file as a record of its four parts.
File(s, g, p, l) == [servers |-> s, guests |-> g, projects |-> p, left |-> l]

\* An entry or a link without the tick of the box.
Tickless(x) == [x EXCEPT !.od = FALSE]

LEMMA UntickedIs ==
  ASSUME NEW s, NEW g, NEW p, NEW l
  PROVE  Unticked(File(s, g, p, l))
           = File([n \in DOMAIN s |-> Tickless(s[n])], {Tickless(x) : x \in g}, p, l)
<1>1. PICK c, a, b : /\ c = [servers |-> s, guests |-> g, projects |-> p, left |-> l]
                     /\ a = {Tickless(x) : x \in g}
                     /\ b = [n \in DOMAIN s |-> Tickless(s[n])]
  OBVIOUS
<1>2. Unticked(c) = [[c EXCEPT !.guests = a] EXCEPT !.servers = b]
  <2>1. c.guests = g /\ c.servers = s
    BY <1>1
  <2>2. Unticked(c) = [c EXCEPT !.guests = {Tickless(x) : x \in c.guests},
                                !.servers = [n \in DOMAIN c.servers |->
                                               Tickless(c.servers[n])]]
    BY <1>1 DEF Unticked, Tickless
  <2>3. Unticked(c) = [c EXCEPT !.guests = a, !.servers = b]
    BY <1>1, <2>1, <2>2
  <2> QED
    BY <2>3
<1>3. [[servers |-> s, guests |-> g, projects |-> p, left |-> l] EXCEPT !.guests = a]
        = [servers |-> s, guests |-> a, projects |-> p, left |-> l]
  OBVIOUS
<1>4. [[servers |-> s, guests |-> a, projects |-> p, left |-> l] EXCEPT !.servers = b]
        = [servers |-> b, guests |-> a, projects |-> p, left |-> l]
  OBVIOUS
<1> QED
  BY <1>1, <1>2, <1>3, <1>4 DEF File

\* An entry and a link without the tick of the box.
LEMMA TicklessEntry ==
  ASSUME NEW addr, NEW kind, NEW mac, NEW relay, NEW logs, NEW od, NEW no
  PROVE  [[addr |-> addr, kind |-> kind, mac |-> mac, od |-> od, relay |-> relay, logs |-> logs]
            EXCEPT !.od = no]
         = [addr |-> addr, kind |-> kind, mac |-> mac, od |-> no, relay |-> relay, logs |-> logs]
OBVIOUS

LEMMA TicklessLink ==
  ASSUME NEW host, NEW vm, NEW guest, NEW od, NEW no
  PROVE  [[host |-> host, vm |-> vm, guest |-> guest, od |-> od] EXCEPT !.od = no]
         = [host |-> host, vm |-> vm, guest |-> guest, od |-> no]
OBVIOUS

LEMMA FileIs ==
  ASSUME Typed(cfg), NEW n \in DOMAIN servers, NEW f, f.name = n
  PROVE  Saved(cfg, n, f) = File([m \in DOMAIN servers |-> IF m = n THEN Built(cfg, n, f)
                                                          ELSE servers[m]],
                                 {g \in guests : g.guest # n} \cup Asked(f), projects, left)
<1>1. Saved(cfg, n, f) = Relinked(Placed(cfg, n, f), f)
  BY DEF Saved
<1>2. n \in Configured(cfg) /\ Configured(cfg) = DOMAIN servers /\ None \notin DOMAIN servers
  BY FleetAssumption DEF Configured, cfg, Typed
<1>3. /\ Saved(cfg, n, f).servers = [m \in DOMAIN servers |-> IF m = n THEN Built(cfg, n, f)
                                                              ELSE servers[m]]
      /\ Saved(cfg, n, f).guests = {g \in guests : g.guest # n} \cup Asked(f)
  BY <1>2, SavedInPlace DEF cfg
<1>4. PICK s, g : Saved(cfg, n, f) = File(s, g, projects, left)
  BY <1>1, <1>2 DEF Placed, Relinked, cfg, File
<1>5. s = Saved(cfg, n, f).servers /\ g = Saved(cfg, n, f).guests
  BY <1>4 DEF File
<1> QED
  BY <1>3, <1>4, <1>5

\* The tick of a form that is saved as it was shown is the machine's own reason from
\* then on, if it has one.
LEMMA BoxKept ==
  ASSUME Consistent(cfg), Sound(cfg), NEW n \in DOMAIN servers,
         NEW f, f = Shown(cfg, n), NEW after, after = Saved(cfg, n, f)
  PROVE  /\ \A m : m # n => (m \in OwnReason(after) <=> m \in OwnReason(cfg))
         /\ n \in OwnReason(after) <=> n \in OnDemand(cfg)
         /\ \A g \in after.guests : \E h \in guests : g.host = h.host /\ g.guest = h.guest
         /\ \A h \in guests : \E g \in after.guests : g.host = h.host /\ g.guest = h.guest
         /\ IsFiniteSet(after.guests)
         /\ \A m : CanWake(after, m) <=> CanWake(cfg, m)
<1>c. /\ Typed(cfg) /\ OneHypervisor(cfg) /\ NobodysOwn(cfg) /\ IsFiniteSet(guests)
      /\ n \in Configured(cfg) /\ Configured(cfg) = DOMAIN servers
      /\ cfg.servers = servers /\ cfg.guests = guests /\ guests \subseteq Guest
      /\ servers[n] \in Entry
  BY DEF Consistent, Sound, Configured, cfg, Typed
<1>1. /\ f.name = n /\ f.addr = servers[n].addr /\ f.kind = servers[n].kind
      /\ f.mac = servers[n].mac /\ f.od = (n \in OnDemand(cfg))
  BY <1>c, ShownIs
<1>2. \/ Link(cfg, n) = {} /\ f.host = None
      \/ \E g \in guests : /\ Link(cfg, n) = {g} /\ g.guest = n /\ g.host # n /\ g.host # None
                          /\ f.host = g.host /\ f.vm = g.vm
  BY <1>c, ShownIs
<1>3. /\ after.servers = [m \in DOMAIN servers |-> IF m = n THEN Built(cfg, n, f) ELSE servers[m]]
      /\ after.guests = {g \in guests : g.guest # n} \cup Asked(f)
  BY <1>1, <1>c, FileIs DEF File
<1>4. /\ DOMAIN after.servers = DOMAIN servers
      /\ \A m \in DOMAIN servers : m # n => after.servers[m] = servers[m]
      /\ after.servers[n].mac = servers[n].mac
      /\ after.servers[n].od = (f.od /\ ~f.mac /\ f.host = None)
  BY <1>1, <1>3 DEF Built
<1>a. /\ \A g \in Asked(f) : f.host # None /\ g.host = f.host /\ g.guest = n /\ g.od = f.od
      /\ f.host # None => \E g \in Asked(f) : g.host = f.host /\ g.guest = n /\ g.od = f.od
  <2>1. CASE f.host = None
    BY <2>1 DEF Asked
  <2>2. CASE f.host # None
    <3>1. PICK a : a = [host |-> f.host, vm |-> f.vm, guest |-> f.name, od |-> f.od]
      OBVIOUS
    <3>2. a.host = f.host /\ a.guest = n /\ a.od = f.od
      BY <1>1, <3>1
    <3>3. Asked(f) = {a}
      BY <2>2, <3>1 DEF Asked
    <3> QED
      BY <2>2, <3>2, <3>3
  <2> QED
    BY <2>1, <2>2
<1>b. \A g : g \in after.guests <=> (g \in guests /\ g.guest # n) \/ g \in Asked(f)
  <2>1. after.guests = {g \in guests : g.guest # n} \cup Asked(f)
    BY <1>3
  <2> QED
    BY <2>1
<1>5. \A g \in after.guests :
        \/ g \in guests /\ g.guest # n
        \/ f.host # None /\ g.host = f.host /\ g.guest = n /\ g.od = f.od
  <2> SUFFICES ASSUME NEW g \in after.guests
               PROVE  \/ g \in guests /\ g.guest # n
                      \/ f.host # None /\ g.host = f.host /\ g.guest = n /\ g.od = f.od
    OBVIOUS
  <2>1. (g \in guests /\ g.guest # n) \/ g \in Asked(f)
    BY <1>b
  <2>2. CASE g \in Asked(f)
    BY <1>a, <2>2
  <2> QED
    BY <2>1, <2>2
<1>6. \A g \in guests :
        \/ g.guest # n /\ g \in after.guests
        \/ g.guest = n /\ g.host = f.host /\ f.host # None
  <2> SUFFICES ASSUME NEW g \in guests
               PROVE  \/ g.guest # n /\ g \in after.guests
                      \/ g.guest = n /\ g.host = f.host /\ f.host # None
    OBVIOUS
  <2>1. g.guest # n => g \in after.guests
    BY <1>b
  <2>2. g.guest = n => g \in Link(cfg, n)
    BY <1>c DEF Link
  <2>3. g \in Link(cfg, n) => g.host = f.host /\ f.host # None
    BY <1>2
  <2> QED
    BY <2>1, <2>2, <2>3
<1>7. f.host # None => \E g \in after.guests : g.host = f.host /\ g.guest = n /\ g.od = f.od
  BY <1>a, <1>b
<1>8. f.host # None => \E g \in guests : g.host = f.host /\ g.guest = n
  BY <1>2
<1>9. \A m : m # n => (m \in OwnReason(after) <=> m \in OwnReason(cfg))
  <2> SUFFICES ASSUME NEW m, m # n
               PROVE  m \in OwnReason(after) <=> m \in OwnReason(cfg)
    OBVIOUS
  <2>1. (\E g \in after.guests : g.od /\ g.guest = m) <=> (\E g \in guests : g.od /\ g.guest = m)
    BY <1>5, <1>6
  <2>2. m \in OwnReason(after) <=>
          \/ m \in DOMAIN after.servers /\ (after.servers[m].mac \/ after.servers[m].od)
          \/ \E g \in after.guests : g.od /\ g.guest = m
    BY DEF OwnReason, Configured
  <2>3. m \in OwnReason(cfg) <=>
          \/ m \in DOMAIN servers /\ (servers[m].mac \/ servers[m].od)
          \/ \E g \in guests : g.od /\ g.guest = m
    BY <1>c DEF OwnReason
  <2> QED
    BY <1>4, <2>1, <2>2, <2>3
<1>10. n \in OwnReason(after) <=> n \in OnDemand(cfg)
  <2>1. n \in OwnReason(after) <=>
          \/ after.servers[n].mac \/ after.servers[n].od
          \/ \E g \in after.guests : g.od /\ g.guest = n
    BY <1>4 DEF OwnReason, Configured
  <2>2. servers[n].mac => n \in OnDemand(cfg)
    <3>1. servers[n].mac => n \in OwnReason(cfg)
      BY <1>c DEF OwnReason
    <3> QED
      BY <1>c, <3>1, OnDemandLeast DEF Closed
  <2>3. (\E g \in after.guests : g.od /\ g.guest = n) <=> f.host # None /\ f.od
    BY <1>5, <1>7
  <2> QED
    BY <1>1, <1>4, <2>1, <2>2, <2>3
<1>11. /\ \A g \in after.guests : \E h \in guests : g.host = h.host /\ g.guest = h.guest
       /\ \A h \in guests : \E g \in after.guests : g.host = h.host /\ g.guest = h.guest
  BY <1>5, <1>6, <1>7, <1>8
<1>12. IsFiniteSet(after.guests)
  <2>1. IsFiniteSet({g \in guests : g.guest # n})
    BY <1>c, FS_Subset
  <2>2. CASE Asked(f) = {}
    BY <1>3, <2>1, <2>2
  <2>3. CASE Asked(f) # {}
    <3>1. PICK x : Asked(f) = {x}
      BY <2>3 DEF Asked
    <3> QED
      BY <1>3, <2>1, <3>1, FS_AddElement
  <2> QED
    BY <2>2, <2>3
<1>13. \A m : CanWake(after, m) <=> CanWake(cfg, m)
  <2> SUFFICES ASSUME NEW m
               PROVE  CanWake(after, m) <=> CanWake(cfg, m)
    OBVIOUS
  <2>1. (\E g \in after.guests : g.guest = m) <=> (\E g \in guests : g.guest = m)
    BY <1>11
  <2>2. m \in DOMAIN servers => after.servers[m].mac = servers[m].mac
    BY <1>4
  <2> QED
    BY <1>c, <1>4, <2>1, <2>2 DEF CanWake, Configured
<1> QED
  BY <1>9, <1>10, <1>11, <1>12, <1>13

LEMMA BoxUnticked ==
  ASSUME Consistent(cfg), Sound(cfg), NEW n \in DOMAIN servers,
         NEW f, f = Shown(cfg, n)
  PROVE  Unticked(Saved(cfg, n, f)) = Unticked(cfg)
<1>c. /\ Typed(cfg) /\ OneHypervisor(cfg) /\ NobodysOwn(cfg)
      /\ n \in Configured(cfg) /\ Configured(cfg) = DOMAIN servers
      /\ cfg.servers = servers /\ cfg.guests = guests /\ guests \subseteq Guest
      /\ \A m \in DOMAIN servers : servers[m] \in Entry
      /\ cfg = File(servers, guests, projects, left)
  BY DEF Consistent, Sound, Configured, cfg, Typed, File
<1>1. /\ f.name = n /\ f.addr = servers[n].addr /\ f.kind = servers[n].kind
      /\ f.mac = servers[n].mac
  BY <1>c, ShownIs
<1>2. \/ Link(cfg, n) = {} /\ f.host = None
      \/ \E g \in guests : /\ Link(cfg, n) = {g} /\ g.guest = n /\ g.host # None
                          /\ f.host = g.host /\ f.vm = g.vm
  BY <1>c, ShownIs
<1> DEFINE S == [m \in DOMAIN servers |-> IF m = n THEN Built(cfg, n, f) ELSE servers[m]]
           G == {g \in guests : g.guest # n} \cup Asked(f)
<1>3. Saved(cfg, n, f) = File(S, G, projects, left)
  BY <1>1, <1>c, FileIs
<1>4. Tickless(Built(cfg, n, f)) = Tickless(servers[n])
  <2>b. PICK b : b = (f.od /\ ~f.mac /\ f.host = None)
    OBVIOUS
  <2>1. Built(cfg, n, f) = [addr |-> servers[n].addr, kind |-> servers[n].kind,
                            mac |-> servers[n].mac, od |-> b,
                            relay |-> servers[n].relay, logs |-> servers[n].logs]
    <3>1. servers[n].logs \in BOOLEAN
      BY <1>c DEF Entry
    <3>2. (n \in Configured(cfg) /\ servers[n].logs) = servers[n].logs
      BY <1>c, <3>1
    <3> QED
      BY <1>c, <1>1, <2>b, <3>2 DEF Built
  <2>2. servers[n] = [addr |-> servers[n].addr, kind |-> servers[n].kind,
                      mac |-> servers[n].mac, od |-> servers[n].od,
                      relay |-> servers[n].relay, logs |-> servers[n].logs]
    BY <1>c DEF Entry
  <2>3. \A no : [Built(cfg, n, f) EXCEPT !.od = no] = [servers[n] EXCEPT !.od = no]
    BY <2>1, <2>2, TicklessEntry
  <2> QED
    BY <2>3 DEF Tickless
<1>5. [m \in DOMAIN S |-> Tickless(S[m])] = [m \in DOMAIN servers |-> Tickless(servers[m])]
  <2>1. DOMAIN S = DOMAIN servers /\ \A m \in DOMAIN servers : Tickless(S[m]) = Tickless(servers[m])
    BY <1>4
  <2> HIDE DEF S
  <2> QED
    BY <2>1
<1>6. {Tickless(x) : x \in G} = {Tickless(x) : x \in guests}
  <2>1. CASE Link(cfg, n) = {} /\ f.host = None
    <3>1. G = guests
      BY <1>c, <2>1 DEF Link, Asked
    <3> QED
      BY <3>1
  <2>2. ASSUME NEW g \in guests, Link(cfg, n) = {g}, g.guest = n, g.host # None,
               f.host = g.host, f.vm = g.vm
        PROVE  {Tickless(x) : x \in G} = {Tickless(x) : x \in guests}
    <3>1. PICK a : a = [host |-> f.host, vm |-> f.vm, guest |-> f.name, od |-> f.od]
      OBVIOUS
    <3>2. G = {x \in guests : x.guest # n} \cup {a}
      BY <2>2, <3>1 DEF Asked
    <3>3. guests = {x \in guests : x.guest # n} \cup {g}
      BY <1>c, <2>2 DEF Link
    <3>4. g = [host |-> g.host, vm |-> g.vm, guest |-> g.guest, od |-> g.od]
      BY <1>c DEF Guest
    <3>5. Tickless(a) = Tickless(g)
      <4>1. a = [host |-> g.host, vm |-> g.vm, guest |-> g.guest, od |-> f.od]
        BY <1>1, <2>2, <3>1
      <4>2. \A no : [a EXCEPT !.od = no] = [g EXCEPT !.od = no]
        BY <3>4, <4>1, TicklessLink
      <4> QED
        BY <4>2 DEF Tickless
    <3> HIDE DEF G
    <3> QED
      BY <3>2, <3>3, <3>5
  <2> QED
    BY <1>2, <2>1, <2>2
<1> HIDE DEF S, G
<1>7. /\ Unticked(File(S, G, projects, left))
           = File([m \in DOMAIN S |-> Tickless(S[m])], {Tickless(x) : x \in G}, projects, left)
      /\ Unticked(File(servers, guests, projects, left))
           = File([m \in DOMAIN servers |-> Tickless(servers[m])], {Tickless(x) : x \in guests},
                  projects, left)
  BY UntickedIs
<1> QED
  BY <1>c, <1>3, <1>5, <1>6, <1>7

\* Which machines are expected to be off is the least that follows from the reasons
\* in the file, however the hypervisors are nested (config.py: on_demand).
THEOREM OnDemandIsTheLeast ==
  Spec => []OnDemandIsLeast
<1>1. TypeOK /\ Consistent(cfg) /\ Sound(cfg) => OnDemandIsLeast
  <2> SUFFICES ASSUME Sound(cfg)
               PROVE  OnDemandIsLeast
    OBVIOUS
  <2>1. IsFiniteSet(cfg.guests) /\ cfg.guests = guests
    BY DEF Sound, cfg
  <2>2. /\ Closed(guests, OwnReason(cfg), OnDemand(cfg))
        /\ \A S : Closed(guests, OwnReason(cfg), S) => OnDemand(cfg) \subseteq S
    BY <2>1, OnDemandLeast
  <2> QED
    BY <2>2 DEF OnDemandIsLeast, Closed
<1> QED
  BY <1>1, LinksInductive, PTL

\* Saving a form as it is shown writes an inherited reason down as the machine's own,
\* and changes nothing else (web/settings.py: _server_values, save_server).
THEOREM BoxMeansWhatItSays ==
  Spec => []BoxIsMeant
<1>1. TypeOK /\ Consistent(cfg) /\ Sound(cfg) => BoxIsMeant
  <2> SUFFICES ASSUME Consistent(cfg), Sound(cfg), NEW n \in DOMAIN servers
               PROVE  /\ Unticked(Saved(cfg, n, Shown(cfg, n))) = Unticked(cfg)
                      /\ OnDemand(Saved(cfg, n, Shown(cfg, n))) = OnDemand(cfg)
                      /\ \A m \in Names : CanWake(Saved(cfg, n, Shown(cfg, n)), m)
                                          <=> CanWake(cfg, m)
    BY DEF BoxIsMeant
  <2>1. PICK f, after : f = Shown(cfg, n) /\ after = Saved(cfg, n, f)
    OBVIOUS
  <2>2. /\ \A m : m # n => (m \in OwnReason(after) <=> m \in OwnReason(cfg))
        /\ n \in OwnReason(after) <=> n \in OnDemand(cfg)
        /\ \A g \in after.guests : \E h \in guests : g.host = h.host /\ g.guest = h.guest
        /\ \A h \in guests : \E g \in after.guests : g.host = h.host /\ g.guest = h.guest
        /\ IsFiniteSet(after.guests)
        /\ \A m : CanWake(after, m) <=> CanWake(cfg, m)
    BY <2>1, BoxKept
  <2>3. IsFiniteSet(cfg.guests) /\ cfg.guests = guests
    BY DEF Sound, cfg
  <2>4. /\ Closed(guests, OwnReason(cfg), OnDemand(cfg))
        /\ \A S : Closed(guests, OwnReason(cfg), S) => OnDemand(cfg) \subseteq S
    BY <2>3, OnDemandLeast
  <2>5. /\ Closed(after.guests, OwnReason(after), OnDemand(after))
        /\ \A S : Closed(after.guests, OwnReason(after), S) => OnDemand(after) \subseteq S
    BY <2>2, OnDemandLeast
  <2>6. Closed(after.guests, OwnReason(after), OnDemand(cfg))
    BY <2>2, <2>4 DEF Closed
  <2>7. Closed(guests, OwnReason(cfg), OnDemand(after))
    BY <2>2, <2>4, <2>5 DEF Closed
  <2>8. OnDemand(after) = OnDemand(cfg)
    BY <2>4, <2>5, <2>6, <2>7
  <2>9. Unticked(after) = Unticked(cfg)
    BY <2>1, BoxUnticked
  <2> QED
    BY <2>1, <2>2, <2>8, <2>9
<1> QED
  BY <1>1, LinksInductive, PTL

LEMMA RelaidEntry ==
  ASSUME NEW addr, NEW kind, NEW mac, NEW relay, NEW logs, NEW od, NEW to
  PROVE  [[addr |-> addr, kind |-> kind, mac |-> mac, od |-> od, relay |-> relay, logs |-> logs]
            EXCEPT !.relay = to]
         = [addr |-> addr, kind |-> kind, mac |-> mac, od |-> od, relay |-> to, logs |-> logs]
OBVIOUS

LEMMA MovedLink ==
  ASSUME NEW g, g = [host |-> g.host, vm |-> g.vm, guest |-> g.guest, od |-> g.od], NEW to
  PROVE  /\ [g EXCEPT !.host = to] = [host |-> to, vm |-> g.vm, guest |-> g.guest, od |-> g.od]
         /\ [g EXCEPT !.guest = to] = [host |-> g.host, vm |-> g.vm, guest |-> to, od |-> g.od]
<1>1. DOMAIN g = {"host", "vm", "guest", "od"}
  OBVIOUS
<1>2. PICK h : h = [g EXCEPT !.host = to]
  OBVIOUS
<1>3. DOMAIN h = {"host", "vm", "guest", "od"} /\ h = [x \in DOMAIN h |-> h[x]]
  BY <1>1, <1>2
<1>4. h.host = to /\ h.vm = g.vm /\ h.guest = g.guest /\ h.od = g.od
  BY <1>1, <1>2
<1>5. h = [host |-> to, vm |-> g.vm, guest |-> g.guest, od |-> g.od]
  BY <1>3, <1>4
<1>6. PICK k : k = [g EXCEPT !.guest = to]
  OBVIOUS
<1>7. DOMAIN k = {"host", "vm", "guest", "od"} /\ k = [x \in DOMAIN k |-> k[x]]
  BY <1>1, <1>6
<1>8. k.host = g.host /\ k.vm = g.vm /\ k.guest = to /\ k.od = g.od
  BY <1>1, <1>6
<1>9. k = [host |-> g.host, vm |-> g.vm, guest |-> to, od |-> g.od]
  BY <1>7, <1>8
<1> QED
  BY <1>2, <1>5, <1>6, <1>9

\* A link with a new name for the old at both of its ends.
Both(g, old, new) == [host |-> Swap(g.host, old, new), vm |-> g.vm,
                      guest |-> Swap(g.guest, old, new), od |-> g.od]

\* As _rename_references and save_server write it, one end each.
Moved(g, old, new) == [g EXCEPT !.host = Swap(g.host, old, new)]
Named(g, old, new) == [g EXCEPT !.guest = Swap(g.guest, old, new)]

\* An entry, the projects and the exclusions that follow a rename.
Relaid(e, old, new) == [e EXCEPT !.relay = Swap(@, old, new)]
MovedProjects(old, new) ==
  [p \in DOMAIN projects |-> [projects[p] EXCEPT !.on = Swap(@, old, new)]]
MovedOut(old, new) == [j \in DOMAIN left |-> {Swap(n, old, new) : n \in left[j]}]

LEMMA BothIs ==
  ASSUME NEW g \in Guest, NEW old, NEW new
  PROVE  /\ [g EXCEPT !.host = Swap(@, old, new), !.guest = Swap(@, old, new)]
              = Both(g, old, new)
         /\ Named(Moved(g, old, new), old, new) = Both(g, old, new)
<1>h. PICK h : h = [g EXCEPT !.host = Swap(g.host, old, new)] /\ h = Moved(g, old, new)
  BY DEF Moved
<1>1. g = [host |-> g.host, vm |-> g.vm, guest |-> g.guest, od |-> g.od]
  BY DEF Guest
<1>2. PICK a, b : a = Swap(g.host, old, new) /\ b = Swap(g.guest, old, new)
  OBVIOUS
<1>3. h = [host |-> a, vm |-> g.vm, guest |-> g.guest, od |-> g.od]
  BY <1>h, <1>1, <1>2, MovedLink
<1>4. /\ h.host = a /\ h.vm = g.vm /\ h.guest = g.guest /\ h.od = g.od
      /\ h = [host |-> h.host, vm |-> h.vm, guest |-> h.guest, od |-> h.od]
  <2>1. PICK k : k = [host |-> a, vm |-> g.vm, guest |-> g.guest, od |-> g.od]
    OBVIOUS
  <2>2. /\ k.host = a /\ k.vm = g.vm /\ k.guest = g.guest /\ k.od = g.od
    BY <2>1
  <2>3. h = k
    BY <1>3, <2>1
  <2> QED
    BY <2>1, <2>2, <2>3
<1>5. [h EXCEPT !.guest = b] = [host |-> a, vm |-> g.vm, guest |-> b, od |-> g.od]
  <2>1. [h EXCEPT !.guest = b] = [host |-> h.host, vm |-> h.vm, guest |-> b, od |-> h.od]
    BY <1>4, MovedLink
  <2> QED
    BY <1>4, <2>1
<1>6. [g EXCEPT !.host = Swap(@, old, new), !.guest = Swap(@, old, new)] = [h EXCEPT !.guest = b]
  <2>1. [g EXCEPT !.host = Swap(@, old, new), !.guest = Swap(@, old, new)]
          = [g EXCEPT !.host = a, !.guest = b]
    BY <1>1, <1>2
  <2>2. [g EXCEPT !.host = a, !.guest = b] = [[g EXCEPT !.host = a] EXCEPT !.guest = b]
    OBVIOUS
  <2> QED
    BY <1>h, <1>2, <2>1, <2>2
<1> QED
  BY <1>h, <1>2, <1>4, <1>5, <1>6 DEF Both, Named

LEMMA WithNameIs ==
  ASSUME NEW old \in DOMAIN servers, NEW new, new \notin DOMAIN servers, guests \subseteq Guest
  PROVE  WithName(cfg, old, new) =
           File([n \in (DOMAIN servers \ {old}) \cup {new} |->
                   IF n = new THEN Relaid(servers[old], old, new)
                   ELSE Relaid(servers[n], old, new)],
                {Both(g, old, new) : g \in guests},
                MovedProjects(old, new), MovedOut(old, new))
<1>1. {Swap(m, old, new) : m \in DOMAIN servers} = (DOMAIN servers \ {old}) \cup {new}
  BY DEF Swap
<1>2. \A n \in (DOMAIN servers \ {old}) \cup {new} :
        Swap(n, new, old) = IF n = new THEN old ELSE n
  BY DEF Swap
<1>3. /\ cfg.servers = servers /\ cfg.guests = guests /\ cfg.projects = projects
      /\ cfg.left = left /\ Configured(cfg) = DOMAIN servers
  BY DEF cfg, Configured
<1>4. {[g EXCEPT !.host = Swap(@, old, new), !.guest = Swap(@, old, new)] : g \in guests}
        = {Both(g, old, new) : g \in guests}
  <2>1. \A g \in guests : [g EXCEPT !.host = Swap(@, old, new), !.guest = Swap(@, old, new)]
                            = Both(g, old, new)
    BY BothIs
  <2> QED
    BY <2>1
<1>5. [n \in {Swap(m, old, new) : m \in DOMAIN servers} |->
         [servers[Swap(n, new, old)] EXCEPT !.relay = Swap(@, old, new)]]
        = [n \in (DOMAIN servers \ {old}) \cup {new} |->
             IF n = new THEN Relaid(servers[old], old, new) ELSE Relaid(servers[n], old, new)]
  <2>1. [n \in {Swap(m, old, new) : m \in DOMAIN servers} |->
           [servers[Swap(n, new, old)] EXCEPT !.relay = Swap(@, old, new)]]
          = [n \in {Swap(m, old, new) : m \in DOMAIN servers} |->
               Relaid(servers[Swap(n, new, old)], old, new)]
    BY DEF Relaid
  <2> QED
    BY <1>1, <1>2, <2>1
<1> QED
  BY <1>3, <1>4, <1>5 DEF WithName, File, MovedProjects, MovedOut

\* The file after a save under a new name, before the box.
ServersAfter(f, old, new) ==
  [n \in (DOMAIN servers \ {old}) \cup {new} |->
     IF n = new THEN Relaid(Built(cfg, old, f), old, new) ELSE Relaid(servers[n], old, new)]
GuestsAfter(f, old, new) ==
  {h \in {Both(g, old, new) : g \in guests} : h.guest # new} \cup Asked(f)

LEMMA RenamedFileIs ==
  ASSUME Typed(cfg), NEW old \in DOMAIN servers, NEW f, NEW new, f.name = new,
         new \notin DOMAIN servers
  PROVE  Saved(cfg, old, f) =
           File(ServersAfter(f, old, new), GuestsAfter(f, old, new),
                MovedProjects(old, new), MovedOut(old, new))
<1> DEFINE D == (DOMAIN servers \ {old}) \cup {new}
           S == [n \in D |-> IF n = new THEN Built(cfg, old, f) ELSE servers[n]]
           G == {[g EXCEPT !.host = Swap(g.host, old, new)] : g \in guests}
<1>1. /\ cfg.servers = servers /\ cfg.guests = guests /\ cfg.projects = projects
      /\ cfg.left = left /\ Configured(cfg) = DOMAIN servers /\ old # None
      /\ old \notin {None, new} /\ guests \subseteq Guest
      /\ cfg = File(servers, guests, projects, left)
  BY FleetAssumption DEF cfg, Configured, Typed, File
<1>2. Placed(cfg, old, f) = File(S, G, projects, left)
  <2>1. Placed(cfg, old, f) = [cfg EXCEPT !.servers = S, !.guests = G]
    <3>1. Placed(cfg, old, f) = [cfg EXCEPT
            !.servers = [n \in (Configured(cfg) \ {old}) \cup {f.name} |->
                           IF n = f.name THEN Built(cfg, old, f) ELSE cfg.servers[n]],
            !.guests = {[g EXCEPT !.host = Swap(g.host, old, f.name)] : g \in cfg.guests}]
      BY <1>1 DEF Placed
    <3>2. [n \in (Configured(cfg) \ {old}) \cup {f.name} |->
             IF n = f.name THEN Built(cfg, old, f) ELSE cfg.servers[n]] = S
      BY <1>1
    <3>3. {[g EXCEPT !.host = Swap(g.host, old, f.name)] : g \in cfg.guests} = G
      BY <1>1
    <3> HIDE DEF S, G
    <3> QED
      BY <3>1, <3>2, <3>3
  <2>2. PICK a, b : a = S /\ b = G
    OBVIOUS
  <2>3. [cfg EXCEPT !.servers = a, !.guests = b] = [[cfg EXCEPT !.servers = a] EXCEPT !.guests = b]
    OBVIOUS
  <2>4. [[servers |-> servers, guests |-> guests, projects |-> projects, left |-> left]
           EXCEPT !.servers = a]
          = [servers |-> a, guests |-> guests, projects |-> projects, left |-> left]
    OBVIOUS
  <2>5. [[servers |-> a, guests |-> guests, projects |-> projects, left |-> left]
           EXCEPT !.guests = b]
          = [servers |-> a, guests |-> b, projects |-> projects, left |-> left]
    OBVIOUS
  <2> QED
    BY <1>1, <2>1, <2>2, <2>3, <2>4, <2>5 DEF File
<1>3. Saved(cfg, old, f) = Relinked(Renamed(File(S, G, projects, left), old, new), f)
  BY <1>1, <1>2 DEF Saved
<1>4. DOMAIN S = D
  OBVIOUS
<1>5. Renamed(File(S, G, projects, left), old, new)
        = File([n \in D |-> [S[n] EXCEPT !.relay = Swap(@, old, new)]],
               {[h EXCEPT !.guest = Swap(h.guest, old, new)] : h \in G},
               MovedProjects(old, new), MovedOut(old, new))
  <2> HIDE DEF S, G
  <2> QED
    BY <1>4 DEF Renamed, File, Configured, MovedProjects, MovedOut
<1>6. [n \in D |-> [S[n] EXCEPT !.relay = Swap(@, old, new)]]
        = [n \in D |-> IF n = new THEN Relaid(Built(cfg, old, f), old, new)
                       ELSE Relaid(servers[n], old, new)]
  <2>1. \A n \in D : S[n] = IF n = new THEN Built(cfg, old, f) ELSE servers[n]
    OBVIOUS
  <2> HIDE DEF S, D
  <2>2. [n \in D |-> [S[n] EXCEPT !.relay = Swap(@, old, new)]]
          = [n \in D |-> Relaid(S[n], old, new)]
    BY DEF Relaid
  <2> QED
    BY <2>1, <2>2
<1>7. {[h EXCEPT !.guest = Swap(h.guest, old, new)] : h \in G}
        = {Both(g, old, new) : g \in guests}
  <2>1. \A g \in guests : Named(Moved(g, old, new), old, new) = Both(g, old, new)
    BY <1>1, BothIs
  <2>2. G = {Moved(g, old, new) : g \in guests}
    BY DEF Moved
  <2>3. {Named(h, old, new) : h \in {Moved(g, old, new) : g \in guests}}
          = {Both(g, old, new) : g \in guests}
    BY <2>1
  <2> HIDE DEF G
  <2>4. {[h EXCEPT !.guest = Swap(h.guest, old, new)] : h \in G} = {Named(h, old, new) : h \in G}
    BY DEF Named
  <2> QED
    BY <2>2, <2>3, <2>4
<1>8. ASSUME NEW s, NEW g, NEW p, NEW l
      PROVE  Relinked(File(s, g, p, l), f)
               = File(s, {h \in g : h.guest # new} \cup Asked(f), p, l)
  <2>1. PICK c, b : /\ c = File(s, g, p, l)
                    /\ b = {h \in g : h.guest # new} \cup Asked(f)
    OBVIOUS
  <2>2. c.guests = g
    BY <2>1 DEF File
  <2>3. Relinked(c, f) = [c EXCEPT !.guests = {h \in c.guests : h.guest # f.name} \cup Asked(f)]
    BY <2>1 DEF Relinked, Asked, File
  <2>4. [[servers |-> s, guests |-> g, projects |-> p, left |-> l] EXCEPT !.guests = b]
          = [servers |-> s, guests |-> b, projects |-> p, left |-> l]
    OBVIOUS
  <2> QED
    BY <2>1, <2>2, <2>3, <2>4 DEF File
<1> HIDE DEF S, G
<1>9. PICK s, g, p, l :
        /\ s = [n \in D |-> IF n = new THEN Relaid(Built(cfg, old, f), old, new)
                             ELSE Relaid(servers[n], old, new)]
        /\ g = {Both(x, old, new) : x \in guests}
        /\ p = MovedProjects(old, new) /\ l = MovedOut(old, new)
  OBVIOUS
<1>10. Renamed(File(S, G, projects, left), old, new) = File(s, g, p, l)
  BY <1>5, <1>6, <1>7, <1>9
<1>11. Saved(cfg, old, f) = File(s, {h \in g : h.guest # new} \cup Asked(f), p, l)
  BY <1>3, <1>8, <1>10
<1> QED
  BY <1>9, <1>11 DEF ServersAfter, GuestsAfter

\* The entry that stays under its new name, and the link that is written anew, but for
\* the box.
LEMMA RenamedEntry ==
  ASSUME Typed(cfg), NEW old \in DOMAIN servers, NEW f, NEW new,
         f.addr = servers[old].addr, f.kind = servers[old].kind, f.mac = servers[old].mac
  PROVE  Tickless(Relaid(Built(cfg, old, f), old, new)) = Tickless(Relaid(servers[old], old, new))
<1>c. servers[old] \in Entry /\ cfg.servers = servers /\ old \in Configured(cfg)
  BY DEF Typed, Configured, cfg
<1>1. PICK b : b = (f.od /\ ~f.mac /\ f.host = None)
  OBVIOUS
<1>2. PICK e : e = servers[old]
  OBVIOUS
<1>3. Built(cfg, old, f) = [addr |-> e.addr, kind |-> e.kind, mac |-> e.mac, od |-> b,
                            relay |-> e.relay, logs |-> e.logs]
  <2>1. e.logs \in BOOLEAN
    BY <1>c, <1>2 DEF Entry
  <2>2. (old \in Configured(cfg) /\ e.logs) = e.logs
    BY <1>c, <2>1
  <2> QED
    BY <1>c, <1>1, <1>2, <2>2 DEF Built
<1>4. PICK a, k, m, r, l, o :
        /\ a = e.addr /\ k = e.kind /\ m = e.mac /\ r = e.relay /\ l = e.logs /\ o = e.od
        /\ e = [addr |-> a, kind |-> k, mac |-> m, od |-> o, relay |-> r, logs |-> l]
  BY <1>c, <1>2 DEF Entry
<1>5. PICK to : to = Swap(r, old, new)
  OBVIOUS
<1>6. PICK u : u = [addr |-> a, kind |-> k, mac |-> m, od |-> b, relay |-> r, logs |-> l]
  OBVIOUS
<1>7. u = Built(cfg, old, f) /\ u.relay = r
  BY <1>3, <1>4, <1>6
<1>8. PICK v : v = [u EXCEPT !.relay = to]
  OBVIOUS
<1>9. PICK w : w = [e EXCEPT !.relay = to]
  OBVIOUS
<1>10. v = [addr |-> a, kind |-> k, mac |-> m, od |-> b, relay |-> to, logs |-> l]
  BY <1>6, <1>8, RelaidEntry
<1>11. w = [addr |-> a, kind |-> k, mac |-> m, od |-> o, relay |-> to, logs |-> l]
  BY <1>4, <1>9, RelaidEntry
<1>12. \A no : [v EXCEPT !.od = no] = [w EXCEPT !.od = no]
  BY <1>10, <1>11, TicklessEntry
<1>13. Tickless(v) = Tickless(w)
  BY <1>12 DEF Tickless
<1>14. v = Relaid(Built(cfg, old, f), old, new) /\ w = Relaid(servers[old], old, new)
  BY <1>2, <1>4, <1>5, <1>7, <1>8, <1>9 DEF Relaid
<1> QED
  BY <1>13, <1>14

LEMMA RenamedUnticked ==
  ASSUME Consistent(cfg), Sound(cfg), NEW old \in DOMAIN servers, NEW f, NEW new,
         new \notin DOMAIN servers, \A g \in guests : g.guest # new,
         f.name = new, f.addr = servers[old].addr, f.kind = servers[old].kind,
         f.mac = servers[old].mac, f.host = Shown(cfg, old).host, f.vm = Shown(cfg, old).vm
  PROVE  Unticked(Saved(cfg, old, f)) = Unticked(WithName(cfg, old, new))
<1>c. /\ Typed(cfg) /\ OneHypervisor(cfg) /\ NobodysOwn(cfg)
      /\ old \in Configured(cfg) /\ cfg.servers = servers /\ cfg.guests = guests
      /\ guests \subseteq Guest /\ \A g \in guests : g.host # g.guest
  BY DEF Consistent, Sound, Configured, cfg, Typed, NobodysOwn
<1>2. \/ Link(cfg, old) = {} /\ f.host = None
      \/ \E g \in guests : /\ Link(cfg, old) = {g} /\ g.guest = old /\ g.host # None
                          /\ f.host = g.host /\ f.vm = g.vm
  BY <1>c, ShownIs
<1> DEFINE D == (DOMAIN servers \ {old}) \cup {new}
           relaid(e) == Relaid(e, old, new)
           S == [n \in D |-> IF n = new THEN relaid(Built(cfg, old, f)) ELSE relaid(servers[n])]
           W == [n \in D |-> IF n = new THEN relaid(servers[old]) ELSE relaid(servers[n])]
           B == {Both(g, old, new) : g \in guests}
           G == {h \in B : h.guest # new} \cup Asked(f)
<1> DEFINE p == MovedProjects(old, new)
           l == MovedOut(old, new)
<1>3. /\ Saved(cfg, old, f) = File(S, G, p, l)
      /\ WithName(cfg, old, new) = File(W, B, p, l)
  <2>2. Saved(cfg, old, f) = File(S, G, p, l)
    <3>1. Saved(cfg, old, f) = File(ServersAfter(f, old, new), GuestsAfter(f, old, new), p, l)
      BY <1>c, RenamedFileIs
    <3>2. ServersAfter(f, old, new) = S
      BY DEF ServersAfter
    <3>3. GuestsAfter(f, old, new) = G
      BY DEF GuestsAfter
    <3> HIDE DEF S, G
    <3> QED
      BY <3>1, <3>2, <3>3
  <2>3. WithName(cfg, old, new) = File(W, B, p, l)
    BY <1>c, WithNameIs
  <2> QED
    BY <2>2, <2>3
<1>4. [n \in DOMAIN S |-> Tickless(S[n])] = [n \in DOMAIN W |-> Tickless(W[n])]
  <2>1. Tickless(relaid(Built(cfg, old, f))) = Tickless(relaid(servers[old]))
    BY <1>c, RenamedEntry
  <2>2. /\ DOMAIN S = D /\ DOMAIN W = D
        /\ \A n \in D : S[n] = IF n = new THEN relaid(Built(cfg, old, f)) ELSE relaid(servers[n])
        /\ \A n \in D : W[n] = IF n = new THEN relaid(servers[old]) ELSE relaid(servers[n])
    <3> HIDE DEF D
    <3> QED
      OBVIOUS
  <2> HIDE DEF S, W, D
  <2>3. \A n \in D : Tickless(S[n]) = Tickless(W[n])
    BY <2>1, <2>2
  <2> QED
    BY <2>2, <2>3
<1>5. {Tickless(x) : x \in G} = {Tickless(x) : x \in B}
  <2>0. \A g \in guests : Both(g, old, new).guest = new <=> g.guest = old
    BY DEF Both, Swap
  <2>1. CASE Link(cfg, old) = {} /\ f.host = None
    <3>1. \A g \in guests : g.guest # old
      BY <1>c, <2>1 DEF Link
    <3>2. G = B
      BY <2>0, <2>1, <3>1 DEF Asked
    <3> QED
      BY <3>2
  <2>2. ASSUME NEW g \in guests, Link(cfg, old) = {g}, g.guest = old, g.host # None,
               f.host = g.host, f.vm = g.vm
        PROVE  {Tickless(x) : x \in G} = {Tickless(x) : x \in B}
    <3>1. PICK a, b : /\ a = [host |-> f.host, vm |-> f.vm, guest |-> f.name, od |-> f.od]
                      /\ b = Both(g, old, new)
      OBVIOUS
    <3>2. G = {h \in B : h.guest # new} \cup {a}
      BY <2>2, <3>1 DEF Asked
    <3>3. \A h \in guests : h.guest = old => h = g
      BY <1>c, <2>2 DEF Link
    <3>4. b \in B /\ b.guest = new /\ \A h \in B : h.guest = new => h = b
      BY <2>0, <2>2, <3>1, <3>3
    <3>5. a = [host |-> g.host, vm |-> g.vm, guest |-> new, od |-> f.od]
      BY <2>2, <3>1
    <3>6. b = [host |-> g.host, vm |-> g.vm, guest |-> new, od |-> g.od]
      BY <1>c, <2>2, <3>1 DEF Both, Swap
    <3>7. \A no : [a EXCEPT !.od = no] = [b EXCEPT !.od = no]
      BY <3>5, <3>6, TicklessLink
    <3>8. Tickless(a) = Tickless(b)
      BY <3>7 DEF Tickless
    <3> HIDE DEF G, B
    <3> QED
      BY <3>2, <3>4, <3>8
  <2> QED
    BY <1>2, <2>1, <2>2
<1> HIDE DEF S, G, W, B
<1>6. /\ Unticked(File(S, G, p, l))
           = File([n \in DOMAIN S |-> Tickless(S[n])], {Tickless(x) : x \in G}, p, l)
      /\ Unticked(File(W, B, p, l))
           = File([n \in DOMAIN W |-> Tickless(W[n])], {Tickless(x) : x \in B}, p, l)
  BY UntickedIs
<1> QED
  BY <1>3, <1>4, <1>5, <1>6

\* A rename through the form is a renaming of the whole file: every reference follows
\* it and nothing else changes, but for what the box writes (web/settings.py:
\* save_server, _rename_references; membership.py: rename).
THEOREM RenamingRenames ==
  Spec => []RenameIsRenaming
<1>1. TypeOK /\ Consistent(cfg) /\ Sound(cfg) => RenameIsRenaming
  <2> SUFFICES ASSUME Consistent(cfg), Sound(cfg), NEW old \in DOMAIN servers,
                      NEW new \in Names \ (DOMAIN servers \cup {g.guest : g \in guests})
               PROVE  Unticked(Saved(cfg, old, [Shown(cfg, old) EXCEPT !.name = new]))
                        = Unticked(WithName(cfg, old, new))
    BY DEF RenameIsRenaming
  <2>1. new \notin DOMAIN servers /\ \A g \in guests : g.guest # new
    OBVIOUS
  <2>2. PICK h : h = Shown(cfg, old)
    OBVIOUS
  <2>f. PICK f : f = [h EXCEPT !.name = new]
    OBVIOUS
  <2>3. DOMAIN h = {"name", "addr", "kind", "mac", "od", "host", "vm"}
    BY <2>2 DEF Shown
  <2>4. /\ f.name = new /\ f.addr = h.addr /\ f.kind = h.kind /\ f.mac = h.mac
        /\ f.host = h.host /\ f.vm = h.vm
    BY <2>f, <2>3
  <2>5. Typed(cfg) /\ OneHypervisor(cfg) /\ NobodysOwn(cfg) /\ old \in Configured(cfg)
        /\ cfg.servers = servers
    BY DEF Consistent, Sound, Configured, cfg
  <2>6. h.addr = servers[old].addr /\ h.kind = servers[old].kind /\ h.mac = servers[old].mac
    BY <2>2, <2>5, ShownIs
  <2>7. Unticked(Saved(cfg, old, f)) = Unticked(WithName(cfg, old, new))
    BY <2>1, <2>2, <2>4, <2>6, RenamedUnticked
  <2> QED
    BY <2>2, <2>f, <2>7
<1> QED
  BY <1>1, LinksInductive, PTL

=============================================================================
