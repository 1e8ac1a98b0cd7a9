---------------------------- MODULE UpgradeProofs -----------------------------
(***************************************************************************)
(* The properties of Upgrade, for any number of pages, upgrades, releases  *)
(* and restarts.                                                           *)
(***************************************************************************)
EXTENDS Upgrade, NaturalsInduction, WellFoundedInduction, TLAPS

(******************************** Operators ********************************)

\* Of the releases on the host there is a highest, which `latest` names.
LEMMA HighestIsHighest ==
  ASSUME NEW S \in SUBSET Releases, S # {}
  PROVE  Highest(S) \in S /\ \A w \in S : w <= Highest(S)
<1> DEFINE T == {Newest - v : v \in S}
<1>1. Newest \in Nat
  BY UpgradeAssumption
<1>2. T \subseteq Nat /\ T # {}
  <2>1. \A v \in S : Newest - v \in Nat
    BY <1>1 DEF Releases
  <2>2. PICK v \in S : TRUE
    OBVIOUS
  <2> QED
    BY <2>1, <2>2
<1>3. PICK m \in T : \A n \in T : ~(<<n, m>> \in OpToRel(<, Nat))
  BY <1>2, NatLessThanWellFounded, WFMin, Zenon
<1>4. \A n \in T : ~(n < m)
  BY <1>2, <1>3 DEF OpToRel
<1>5. PICK v \in S : m = Newest - v
  BY <1>3
<1>6. \A w \in S : w <= v
  <2> TAKE w \in S
  <2>1. ~(Newest - w < Newest - v)
    BY <1>4, <1>5
  <2> QED
    BY <1>1, <2>1 DEF Releases
<1> QED
  BY <1>5, <1>6 DEF Highest

LEMMA OlderType ==
  ASSUME NEW cap \in Nat, NEW age \in 0..cap
  PROVE  Older(age, cap) \in 0..cap /\ age <= Older(age, cap)
BY DEF Older

LEMMA OfferType ==
  ASSUME NEW release \in Releases \cup {None}
  PROVE  Offer(release) \in Releases
<1>1. 0 \in Releases
  BY UpgradeAssumption DEF Releases
<1> QED
  BY <1>1 DEF Offer, IsNewer

LEMMA AnswerType ==
  ASSUME NEW release \in Releases \cup {None}
  PROVE  Answer(release) \in [age : 0..CheckEvery, ttl : {RetryAfter, CheckEvery},
                             release : Releases \cup {None}]
BY UpgradeAssumption DEF Answer

LEMMA LatestsType ==
  ASSUME TypeOK, NEW latest \in Latests
  PROVE  latest \in [age : 0..CheckEvery, ttl : {RetryAfter, CheckEvery},
                    release : Releases \cup {None}]
<1>1. CASE Remembered
  BY <1>1 DEF Latests, Remembered, TypeOK
<1>2. CASE ~Remembered
  <2>1. latest = Answer(published) \/ latest = Answer(None)
    BY <1>2 DEF Latests
  <2> QED
    BY <2>1, AnswerType DEF TypeOK
<1> QED
  BY <1>1, <1>2

LEMMA MadeType ==
  ASSUME TypeOK, images # {}, file # Other
  PROVE  Made \in Releases /\ (file = Latest => \A w \in images : w <= Made)
<1>1. CASE file = Latest
  BY <1>1, HighestIsHighest DEF Made, TypeOK
<1>2. CASE file # Latest
  BY <1>2 DEF Made, TypeOK
<1> QED
  BY <1>1, <1>2

(********************************* Types ***********************************)

\* What the types rest on: there is an image, and an upgrade under way was handed over
\* for the kind of tag that the compose file has.
TagInv ==
  /\ images # {}
  /\ (file = Other) <=> (tag = Other)
  /\ (file = Latest) <=> (tag = Latest)
  /\ \A u \in Units : Active(u) =>
        /\ file # Other
        /\ (unit[u].pin = Latest) <=> (file = Latest)
        /\ unit[u].at = "edit" => unit[u].pin # Latest

\* A page that asks or notes knows what about: it is enough to look at the one that moves.
LEMMA PageStep ==
  ASSUME TypeOK, NEW p \in Pages,
         page' \in [Pages -> Page], \A q \in Pages \ {p} : page'[q] = page[q],
         page'[p].at \in {"noting", "asking"} <=> page'[p].seen # None
  PROVE  \A q \in Pages : page'[q].at \in {"noting", "asking"} <=> page'[q].seen # None
BY DEF TypeOK

\* The answers of a page, in the three ways they are given.
LEMMA TellType ==
  ASSUME TypeOK, NEW p \in Pages, Tell(p)
  PROVE  /\ page' \in [Pages -> Page]
         /\ \A q \in Pages : page'[q].at \in {"noting", "asking"} <=> page'[q].seen # None
         /\ checked' \in [age : 0..CheckEvery, ttl : {RetryAfter, CheckEvery},
                          release : Releases \cup {None}]
         /\ record' = None /\ asked' = TRUE
<1>1. PICK latest \in Latests :
        /\ checked' = latest
        /\ page' = [page EXCEPT ![p].at = "idle", ![p].seen = None,
                                ![p].offer = Offer(latest.release)]
  BY DEF Tell
<1>2. latest \in [age : 0..CheckEvery, ttl : {RetryAfter, CheckEvery},
                 release : Releases \cup {None}]
  BY LatestsType
<1>3. Offer(latest.release) \in Releases
  BY <1>2, OfferType
<1>a. page \in [Pages -> Page]
  BY DEF TypeOK
<1>b. [page[p] EXCEPT !.at = "idle", !.seen = None, !.offer = Offer(latest.release)] \in Page
  BY <1>3, <1>a DEF Page
<1>c. page' = [page EXCEPT ![p] = [page[p] EXCEPT !.at = "idle", !.seen = None,
                                                 !.offer = Offer(latest.release)]]
  BY <1>1
<1>4. page' \in [Pages -> Page]
  BY <1>a, <1>b, <1>c
<1>5. /\ \A q \in Pages \ {p} : page'[q] = page[q]
      /\ page'[p].at = "idle" /\ page'[p].seen = None
  BY <1>1 DEF TypeOK, Page
<1>6. \A q \in Pages : page'[q].at \in {"noting", "asking"} <=> page'[q].seen # None
  BY <1>4, <1>5, PageStep
<1> QED
  BY <1>1, <1>2, <1>4, <1>6 DEF Tell

LEMMA AnewType ==
  ASSUME TypeOK, Anew
  PROVE  /\ page' \in [Pages -> Page]
         /\ \A q \in Pages : page'[q].at = "idle" /\ page'[q].seen = None
         /\ checked' = None /\ job' = "none"
<1>1. 0 \in Releases
  BY UpgradeAssumption DEF Releases
<1>2. page \in [Pages -> Page]
  BY DEF TypeOK
<1>3. \A p \in Pages : page'[p] = [page[p] EXCEPT !.at = "idle", !.target = 0, !.seen = None]
  BY DEF Anew
<1>4. \A p \in Pages : [page[p] EXCEPT !.at = "idle", !.target = 0, !.seen = None] \in Page
  BY <1>1, <1>2 DEF Page
<1>5. page' \in [Pages -> Page]
  BY <1>3, <1>4 DEF Anew
<1>6. \A p \in Pages : page'[p].at = "idle" /\ page'[p].seen = None
  <2> TAKE p \in Pages
  <2>1. page[p] \in Page
    BY <1>2
  <2> QED
    BY <1>3, <2>1 DEF Page
<1> QED
  BY <1>5, <1>6 DEF Anew

LEMMA EndsType ==
  ASSUME TypeOK, NEW u \in Units, NEW code \in {0, 1}, Ends(u, code)
  PROVE  /\ unit' \in [Units -> Unit]
         /\ unit'[u].at = "report" /\ unit'[u].pin = unit[u].pin
         /\ unit'[u].target = unit[u].target
         /\ \A v \in Units \ {u} : unit'[v] = unit[v]
<1>1. unit \in [Units -> Unit]
  BY DEF TypeOK
<1>2. unit' = [unit EXCEPT ![u] = [unit[u] EXCEPT !.at = "report", !.code = code]]
  BY <1>1 DEF Ends, Unit
<1>3. /\ [unit[u] EXCEPT !.at = "report", !.code = code] \in Unit
      /\ [unit[u] EXCEPT !.at = "report", !.code = code].at = "report"
      /\ [unit[u] EXCEPT !.at = "report", !.code = code].pin = unit[u].pin
      /\ [unit[u] EXCEPT !.at = "report", !.code = code].target = unit[u].target
  BY <1>1 DEF Unit
<1> QED
  BY <1>1, <1>2, <1>3

\* Where the upgrades go on from one step to the next, the same tag's kind is meant.
LEMMA TagStays ==
  ASSUME TagInv, images' # {},
         (file' = Other) <=> (tag' = Other), (file' = Latest) <=> (tag' = Latest),
         (file' = Other) <=> (file = Other), (file' = Latest) <=> (file = Latest),
         \A u \in Units : Active(u)' =>
            /\ Active(u) /\ unit'[u].pin = unit[u].pin
            /\ unit'[u].at = "edit" => unit[u].at = "edit" \/ unit[u].pin # Latest
  PROVE  TagInv'
<1>1. \A u \in Units : Active(u)' =>
         /\ file' # Other
         /\ (unit'[u].pin = Latest) <=> (file' = Latest)
         /\ unit'[u].at = "edit" => unit'[u].pin # Latest
  <2> TAKE u \in Units
  <2> HAVE Active(u)'
  <2>1. /\ Active(u) /\ unit'[u].pin = unit[u].pin
        /\ unit'[u].at = "edit" => unit[u].at = "edit" \/ unit[u].pin # Latest
    OBVIOUS
  <2>2. /\ file # Other
        /\ (unit[u].pin = Latest) <=> (file = Latest)
        /\ unit[u].at = "edit" => unit[u].pin # Latest
    BY <2>1 DEF TagInv
  <2> QED
    BY <2>1, <2>2
<1> QED
  BY <1>1 DEF TagInv

LEMMA TypeStep ==
  ASSUME TypeOK, TagInv, [Next]_vars
  PROVE  TypeOK' /\ TagInv'
<1> USE UpgradeAssumption
<1>a. version \in Releases /\ 0 \in Releases /\ Other \notin Releases
  BY DEF TypeOK, Releases
<1>1. CASE UNCHANGED vars
  <2>1. TypeOK'
    BY <1>1 DEF vars, host, TypeOK
  <2>2. TagInv'
    BY <1>1 DEF vars, host, TagInv, Active
  <2> QED
    BY <2>1, <2>2
<1>2. ASSUME NEW p \in Pages, Press(p) PROVE TypeOK' /\ TagInv'
  <2>d. [page[p] EXCEPT !.at = "starting", !.target = page[p].offer] \in Page
    <3>1. page[p] \in Page
      BY DEF TypeOK
    <3> QED
      BY <3>1 DEF Page
  <2>e. page' = [page EXCEPT ![p] = [page[p] EXCEPT !.at = "starting",
                                                   !.target = page[p].offer]]
    BY <1>2 DEF Press
  <2>1. page' \in [Pages -> Page]
    BY <2>d, <2>e DEF TypeOK
  <2>a. /\ \A q \in Pages \ {p} : page'[q] = page[q]
        /\ page'[p].at = "starting" /\ page'[p].seen = page[p].seen /\ page[p].at = "idle"
    BY <1>2 DEF Press, TypeOK, Page
  <2>b. page[p].seen = None
    BY <2>a DEF TypeOK
  <2>c. \A q \in Pages : page'[q].at \in {"noting", "asking"} <=> page'[q].seen # None
    BY <2>1, <2>a, <2>b, PageStep
  <2>2. TypeOK'
    BY <1>2, <2>1, <2>c DEF Press, host, TypeOK
  <2>3. TagInv'
    BY <1>2 DEF Press, host, TagInv, Active
  <2> QED
    BY <2>2, <2>3
<1>3. ASSUME NEW p \in Pages, Hand(p) PROVE TypeOK' /\ TagInv'
  <2>1. CASE page' = [page EXCEPT ![p].at = "idle", ![p].target = 0] /\ UNCHANGED <<unit, rc>>
    <3>d. [page[p] EXCEPT !.at = "idle", !.target = 0] \in Page
      <4>1. page[p] \in Page
        BY DEF TypeOK
      <4> QED
        BY <1>a, <4>1 DEF Page
    <3>e. page' = [page EXCEPT ![p] = [page[p] EXCEPT !.at = "idle", !.target = 0]]
      BY <2>1
    <3>1. page' \in [Pages -> Page]
      BY <3>d, <3>e DEF TypeOK
    <3>a. /\ \A q \in Pages \ {p} : page'[q] = page[q]
          /\ page'[p].at = "idle" /\ page'[p].seen = page[p].seen
      BY <2>1 DEF TypeOK, Page
    <3>b. page[p].seen = None
      BY <1>3 DEF Hand, TypeOK
    <3>c. \A q \in Pages : page'[q].at \in {"noting", "asking"} <=> page'[q].seen # None
      BY <3>1, <3>a, <3>b, PageStep
    <3>2. TypeOK'
      BY <1>3, <2>1, <3>1, <3>c DEF Hand, TypeOK
    <3>3. TagInv'
      BY <1>3, <2>1 DEF Hand, TagInv, Active
    <3> QED
      BY <3>2, <3>3
  <2>2. ASSUME NEW u \in Units,
               /\ MayHand(page[p].target) /\ unit[u].at = "free"
               /\ unit' = [unit EXCEPT ![u] = [at |-> "pull", target |-> page[p].target,
                                              pin |-> tag, code |-> 0]]
               /\ rc' = None
               /\ page' = [page EXCEPT ![p].at = "noting", ![p].seen = u]
        PROVE  TypeOK' /\ TagInv'
    <3>d. [page[p] EXCEPT !.at = "noting", !.seen = u] \in Page
      <4>1. page[p] \in Page
        BY DEF TypeOK
      <4> QED
        BY <4>1 DEF Page
    <3>e. page' = [page EXCEPT ![p] = [page[p] EXCEPT !.at = "noting", !.seen = u]]
      BY <2>2
    <3>1. page' \in [Pages -> Page]
      BY <3>d, <3>e DEF TypeOK
    <3>a. /\ \A q \in Pages \ {p} : page'[q] = page[q]
          /\ page'[p].at = "noting" /\ page'[p].seen = u /\ u # None
      BY <2>2 DEF TypeOK, Page
    <3>b. \A q \in Pages : page'[q].at \in {"noting", "asking"} <=> page'[q].seen # None
      BY <3>1, <3>a, PageStep
    <3>2. unit' \in [Units -> Unit]
      BY <2>2 DEF TypeOK, Unit, Page
    <3>3. TypeOK'
      BY <1>3, <2>2, <3>1, <3>b, <3>2 DEF Hand, TypeOK
    <3>4. tag # Other /\ file # Other
      BY <1>a, <2>2 DEF MayHand, TagInv
    <3>5. UNCHANGED <<file, tag, images>>
      BY <1>3 DEF Hand
    <3>6. TagInv'
      BY <2>2, <3>4, <3>5 DEF TagInv, Active, TypeOK
    <3> QED
      BY <3>3, <3>6
  <2> QED
    BY <1>3, <2>1, <2>2 DEF Hand
<1>4. ASSUME NEW p \in Pages, Note(p) PROVE TypeOK' /\ TagInv'
  <2>d. [page[p] EXCEPT !.at = "idle", !.target = 0, !.seen = None] \in Page
    <3>1. page[p] \in Page
      BY DEF TypeOK
    <3> QED
      BY <1>a, <3>1 DEF Page
  <2>e. page' = [page EXCEPT ![p] = [page[p] EXCEPT !.at = "idle", !.target = 0, !.seen = None]]
    BY <1>4 DEF Note
  <2>1. page' \in [Pages -> Page]
    BY <2>d, <2>e DEF TypeOK
  <2>a. /\ \A q \in Pages \ {p} : page'[q] = page[q]
        /\ page'[p].at = "idle" /\ page'[p].seen = None
    BY <1>4 DEF Note, TypeOK, Page
  <2>b. \A q \in Pages : page'[q].at \in {"noting", "asking"} <=> page'[q].seen # None
    BY <2>1, <2>a, PageStep
  <2>2. page[p].seen \in Units /\ page[p].target \in Releases
    BY <1>4 DEF Note, TypeOK, Page
  <2>3. record' \in [unit : Units, target : Releases, age : Nat]
    BY <1>4, <2>2 DEF Note
  <2>4. TypeOK'
    BY <1>4, <2>1, <2>b, <2>3 DEF Note, host, TypeOK
  <2>5. TagInv'
    BY <1>4 DEF Note, host, TagInv, Active
  <2> QED
    BY <2>4, <2>5
<1>5. ASSUME NEW u \in Units, Pull(u) PROVE TypeOK' /\ TagInv'
  <2> DEFINE got == IF unit[u].pin = Latest THEN published ELSE unit[u].target
  <2>1. got \in Releases
    BY DEF TypeOK, Unit
  <2>2. CASE /\ images' = images \cup {got}
             /\ unit' = [unit EXCEPT ![u].at = IF unit[u].pin = Latest THEN "up" ELSE "edit"]
    <3>1. unit' \in [Units -> Unit] /\ images' \in SUBSET Releases
      BY <2>1, <2>2 DEF TypeOK, Unit
    <3>2. TypeOK'
      BY <1>5, <3>1 DEF Pull, TypeOK
    <3>3. \A v \in Units : Active(v)' =>
            /\ Active(v) /\ unit'[v].pin = unit[v].pin
            /\ unit'[v].at = "edit" => unit[v].at = "edit" \/ unit[v].pin # Latest
      BY <1>5, <2>2 DEF Pull, Active, TypeOK, Unit
    <3>4. TagInv'
      BY <1>5, <2>2, <3>3, TagStays DEF Pull, TagInv
    <3> QED
      BY <3>2, <3>4
  <2>3. CASE Ends(u, 1) /\ UNCHANGED images
    <3>1. TypeOK'
      BY <1>5, <2>3, EndsType DEF Pull, TypeOK
    <3>2. \A v \in Units : Active(v)' =>
            /\ Active(v) /\ unit'[v].pin = unit[v].pin
            /\ unit'[v].at = "edit" => unit[v].at = "edit" \/ unit[v].pin # Latest
      BY <1>5, <2>3, EndsType DEF Pull, Active
    <3>3. TagInv'
      BY <1>5, <2>3, <3>2, TagStays DEF Pull, TagInv
    <3> QED
      BY <3>1, <3>3
  <2> QED
    BY <1>5, <2>2, <2>3 DEF Pull
<1>6. ASSUME NEW u \in Units, Move(u) PROVE TypeOK' /\ TagInv'
  <2>a. unit[u].at = "edit"
    BY <1>6 DEF Move
  <2>b. Active(u)
    BY <2>a DEF Active
  <2>c. unit[u].target \in Releases
    BY DEF TypeOK, Unit
  <2>1. unit[u].target \in Releases /\ unit[u].pin # Latest /\ file # Other /\ Active(u)
    BY <2>a, <2>b, <2>c DEF TagInv
  <2>2. CASE file = unit[u].pin
    <3>1. file' = unit[u].target /\ unit' = [unit EXCEPT ![u].at = "up"]
      BY <1>6, <2>2 DEF Move
    <3>2. unit' \in [Units -> Unit]
      BY <3>1 DEF TypeOK, Unit
    <3>3. TypeOK'
      BY <1>6, <2>1, <3>1, <3>2 DEF Move, TypeOK
    <3>4. \A v \in Units : Active(v)' =>
            /\ Active(v) /\ unit'[v].pin = unit[v].pin
            /\ unit'[v].at = "edit" => unit[v].at = "edit" \/ unit[v].pin # Latest
      BY <1>6, <3>1 DEF Move, Active, TypeOK, Unit
    <3>5. file # Other /\ file # Latest /\ file' # Other /\ file' # Latest
      BY <2>1, <2>2, <3>1 DEF Releases
    <3>a. images' = images /\ tag' = tag /\ images # {}
      BY <1>6 DEF Move, TagInv
    <3>b. tag # Other /\ tag # Latest
      BY <3>5 DEF TagInv
    <3>6. TagInv'
      BY <3>4, <3>5, <3>a, <3>b, TagStays
    <3> QED
      BY <3>3, <3>6
  <2>3. CASE file # unit[u].pin
    <3>1. Ends(u, 1) /\ UNCHANGED file
      BY <1>6, <2>3 DEF Move
    <3>2. TypeOK'
      BY <1>6, <3>1, EndsType DEF Move, TypeOK
    <3>3. \A v \in Units : Active(v)' =>
            /\ Active(v) /\ unit'[v].pin = unit[v].pin
            /\ unit'[v].at = "edit" => unit[v].at = "edit" \/ unit[v].pin # Latest
      BY <2>1, <3>1, EndsType DEF Active
    <3>4. TagInv'
      BY <1>6, <3>1, <3>3, TagStays DEF Move, TagInv
    <3> QED
      BY <3>2, <3>4
  <2> QED
    BY <2>2, <2>3, Zenon
<1>7. ASSUME NEW u \in Units, Up(u) PROVE TypeOK' /\ TagInv'
  <2>a. Active(u)
    BY <1>7 DEF Up, Active
  <2>1. file # Other /\ Active(u)
    BY <2>a DEF TagInv
  <2>2. Made \in Releases
    BY <2>1, MadeType DEF TagInv
  <2>3. \E code \in {0, 1} : Ends(u, code)
    BY <1>7 DEF Up
  <2>4. /\ unit' \in [Units -> Unit]
        /\ \A v \in Units : Active(v)' =>
              /\ Active(v) /\ unit'[v].pin = unit[v].pin
              /\ unit'[v].at = "edit" => unit[v].at = "edit" \/ unit[v].pin # Latest
    BY <2>1, <2>3, EndsType DEF Active
  <2>5. /\ version' \in Releases /\ tag' \in {tag, file}
        /\ page' \in [Pages -> Page]
        /\ \A q \in Pages : page'[q].at \in {"noting", "asking"} <=> page'[q].seen # None
        /\ checked' \in {checked, None} /\ job' \in {job, "none"}
    <3>1. CASE UNCHANGED <<page, job, checked>>
      BY <1>7, <2>2, <3>1 DEF Up, TypeOK
    <3>2. CASE Anew
      BY <1>7, <2>2, <3>2, AnewType DEF Up, TypeOK
    <3> QED
      BY <1>7, <3>1, <3>2 DEF Up
  <2>6. TypeOK'
    BY <1>7, <2>4, <2>5 DEF Up, TypeOK
  <2>7. TagInv'
    BY <1>7, <2>4, <2>5, TagStays DEF Up, TagInv
  <2> QED
    BY <2>6, <2>7
<1>8. ASSUME NEW u \in Units, Report(u) PROVE TypeOK' /\ TagInv'
  <2>1. unit' \in [Units -> Unit] /\ rc' \in {0, 1}
    BY <1>a, <1>8 DEF Report, TypeOK, Unit, Over, Free
  <2>2. TypeOK'
    BY <1>8, <2>1 DEF Report, TypeOK
  <2>3. \A v \in Units : Active(v)' =>
          /\ Active(v) /\ unit'[v].pin = unit[v].pin
          /\ unit'[v].at = "edit" => unit[v].at = "edit" \/ unit[v].pin # Latest
    BY <1>8 DEF Report, Active, Over, Free, TypeOK
  <2>4. TagInv'
    BY <1>8, <2>3, TagStays DEF Report, TagInv
  <2> QED
    BY <2>2, <2>4
<1>9. ASSUME Restart PROVE TypeOK' /\ TagInv'
  <2>1. Over \in Unit /\ Over.at = "end"
    BY <1>a DEF Over, Free, Unit
  <2>2. unit' \in [Units -> Unit] /\ \A u \in Units : unit'[u] \in {unit[u], Over}
    BY <1>9, <2>1 DEF Restart, TypeOK
  <2>3. restarts' \in 0..MaxRestarts
    BY <1>9 DEF Restart, TypeOK
  <2>4. TypeOK'
    BY <1>9, <2>2, <2>3, AnewType DEF Restart, TypeOK
  <2>5. \A v \in Units : Active(v)' =>
          /\ Active(v) /\ unit'[v].pin = unit[v].pin
          /\ unit'[v].at = "edit" => unit[v].at = "edit" \/ unit[v].pin # Latest
    BY <2>1, <2>2 DEF Active
  <2>6. TagInv'
    BY <1>9, <2>5, TagStays DEF Restart, TagInv
  <2> QED
    BY <2>4, <2>6
<1>10. ASSUME NEW p \in Pages, Tell(p), UNCHANGED <<host, published, news, job, restarts>>
       PROVE  TypeOK' /\ TagInv'
  <2>1. TypeOK'
    BY <1>10, TellType DEF host, TypeOK
  <2>2. TagInv'
    BY <1>10 DEF host, TagInv, Active
  <2> QED
    BY <2>1, <2>2
<1>11. ASSUME NEW p \in Pages, Look(p) PROVE TypeOK' /\ TagInv'
  <2>1. CASE record = None \/ Done \/ Overdue
    BY <1>10, <1>11, <2>1 DEF Look
  <2>2. CASE ~(record = None \/ Done \/ Overdue)
    <3>1. page' = [page EXCEPT ![p].at = "asking", ![p].seen = record.unit]
      BY <1>11, <2>2 DEF Look
    <3>a. record.unit \in Units /\ record.unit # None
      BY <2>2 DEF TypeOK
    <3>e. [page[p] EXCEPT !.at = "asking", !.seen = record.unit] \in Page
      <4>1. page[p] \in Page
        BY DEF TypeOK
      <4> QED
        BY <3>a, <4>1 DEF Page
    <3>f. page' = [page EXCEPT ![p] = [page[p] EXCEPT !.at = "asking", !.seen = record.unit]]
      BY <3>1
    <3>b. page' \in [Pages -> Page]
      BY <3>e, <3>f DEF TypeOK
    <3>c. /\ \A q \in Pages \ {p} : page'[q] = page[q]
          /\ page'[p].at = "asking" /\ page'[p].seen = record.unit
      BY <3>1 DEF TypeOK, Page
    <3>d. \A q \in Pages : page'[q].at \in {"noting", "asking"} <=> page'[q].seen # None
      BY <3>a, <3>b, <3>c, PageStep
    <3>2. /\ page' \in [Pages -> Page]
          /\ \A q \in Pages : page'[q].at \in {"noting", "asking"} <=> page'[q].seen # None
      BY <3>b, <3>d
    <3>3. TypeOK'
      BY <1>11, <2>2, <3>2 DEF Look, host, TypeOK
    <3>4. TagInv'
      BY <1>11, <2>2 DEF Look, host, TagInv, Active
    <3> QED
      BY <3>3, <3>4
  <2> QED
    BY <2>1, <2>2
<1>12. ASSUME NEW p \in Pages, Hear(p) PROVE TypeOK' /\ TagInv'
  <2>1. CASE Tell(p)
    BY <1>10, <1>12, <2>1 DEF Hear
  <2>2. CASE Pending(p)
    <3>d. [page[p] EXCEPT !.at = "idle", !.seen = None, !.offer = 0] \in Page
      <4>1. page[p] \in Page
        BY DEF TypeOK
      <4> QED
        BY <1>a, <4>1 DEF Page
    <3>e. page' = [page EXCEPT ![p] = [page[p] EXCEPT !.at = "idle", !.seen = None,
                                                     !.offer = 0]]
      BY <2>2 DEF Pending
    <3>1. page' \in [Pages -> Page]
      BY <3>d, <3>e DEF TypeOK
    <3>a. /\ \A q \in Pages \ {p} : page'[q] = page[q]
          /\ page'[p].at = "idle" /\ page'[p].seen = None
      BY <2>2 DEF Pending, TypeOK, Page
    <3>b. \A q \in Pages : page'[q].at \in {"noting", "asking"} <=> page'[q].seen # None
      BY <3>1, <3>a, PageStep
    <3>2. TypeOK'
      BY <1>12, <2>2, <3>1, <3>b DEF Hear, Pending, host, TypeOK
    <3>3. TagInv'
      BY <1>12 DEF Hear, host, TagInv, Active
    <3> QED
      BY <3>2, <3>3
  <2> QED
    BY <1>12, <2>1, <2>2 DEF Hear
<1>13. CASE JobBegins \/ JobEnds \/ Publish
  <2>1. published' \in Releases /\ news' \in 0..CheckEvery
    BY <1>13 DEF JobBegins, JobEnds, Publish, TypeOK, Releases
  <2>2. TypeOK'
    BY <1>13, <2>1 DEF JobBegins, JobEnds, Publish, host, TypeOK
  <2>3. TagInv'
    BY <1>13 DEF JobBegins, JobEnds, Publish, host, TagInv, Active
  <2> QED
    BY <2>2, <2>3
<1>14. CASE Tick
  <2>1. news' \in 0..CheckEvery
    BY <1>14, OlderType DEF Tick, TypeOK
  <2>2. checked' = None \/ checked' \in [age : 0..CheckEvery, ttl : {RetryAfter, CheckEvery},
                                        release : Releases \cup {None}]
    <3>1. CASE checked = None
      BY <1>14, <3>1 DEF Tick
    <3>2. CASE checked # None
      <4>1. Older(checked.age, CheckEvery) \in 0..CheckEvery
        BY <3>2, OlderType DEF TypeOK
      <4> QED
        BY <1>14, <3>2, <4>1 DEF Tick, TypeOK
    <3> QED
      BY <3>1, <3>2
  <2>3. record' = None \/ record' \in [unit : Units, target : Releases, age : Nat]
    BY <1>14 DEF Tick, TypeOK
  <2>4. TypeOK'
    BY <1>14, <2>1, <2>2, <2>3 DEF Tick, host, TypeOK
  <2>5. TagInv'
    BY <1>14 DEF Tick, host, TagInv, Active
  <2> QED
    BY <2>4, <2>5
<1> QED
  BY <1>1, <1>2, <1>3, <1>4, <1>5, <1>6, <1>7, <1>8, <1>9, <1>11, <1>12, <1>13, <1>14
  DEF Next, Request, OnHost

\* Types hold, and the kinds of tag agree, in every state.
THEOREM TypesHold == Spec => [](TypeOK /\ TagInv)
<1>1. Init => TypeOK /\ TagInv
  <2> SUFFICES ASSUME Init PROVE TypeOK /\ TagInv
    OBVIOUS
  <2>1. 0 \in Releases /\ published \in Releases /\ 0 \in 0..CheckEvery /\ 0 \in 0..MaxRestarts
    BY UpgradeAssumption DEF Init, Releases
  <2>2. Free \in Unit /\ Free.at = "free"
    BY <2>1 DEF Free, Unit
  <2>3. unit \in [Units -> Unit] /\ \A u \in Units : ~Active(u)
    BY <2>2 DEF Init, Active
  <2>4. page \in [Pages -> Page] /\ \A p \in Pages : page[p].at = "idle" /\ page[p].seen = None
    BY <2>1 DEF Init, Page
  <2>5. TypeOK
    BY <2>1, <2>3, <2>4 DEF Init, TypeOK
  <2>6. TagInv
    BY <2>3 DEF Init, TagInv
  <2> QED
    BY <2>5, <2>6
<1>2. TypeOK /\ TagInv /\ [Next]_vars => (TypeOK /\ TagInv)'
  BY TypeStep
<1> QED
  BY <1>1, <1>2, PTL DEF Spec

(**************************** A job that began *****************************)

\* What follows the button starts from an upgrade under way, so it can only meet a job
\* that began with one; the button itself is refused while there is a job.
LEMMA SparedStep ==
  ASSUME TypeOK, BegunJobsAreSpared, [Next]_vars
  PROVE  BegunJobsAreSpared'
<1> SUFFICES ASSUME job' = "alone" PROVE ~UnderWay'
  BY DEF BegunJobsAreSpared
<1>1. CASE UNCHANGED vars
  BY <1>1 DEF vars, host, BegunJobsAreSpared, UnderWay, Active
<1>2. ASSUME NEW p \in Pages, Press(p) PROVE ~UnderWay'
  BY <1>2 DEF Press
<1>3. ASSUME NEW p \in Pages, page[p].at = "starting", job' = job PROVE FALSE
  BY <1>3 DEF BegunJobsAreSpared, UnderWay
<1>4. ASSUME NEW u \in Units, Active(u), job' \in {job, "none"} PROVE FALSE
  BY <1>4 DEF BegunJobsAreSpared, UnderWay
<1>5. ASSUME UNCHANGED <<unit, job>>,
             \A q \in Pages : page'[q].at # "starting" \/ page'[q] = page[q]
      PROVE  ~UnderWay'
  BY <1>5 DEF BegunJobsAreSpared, UnderWay, Active
<1>6. ASSUME NEW p \in Pages, Hand(p) PROVE ~UnderWay'
  BY <1>3, <1>6 DEF Hand
<1>7. ASSUME NEW p \in Pages, Note(p) \/ Look(p) \/ Hear(p) PROVE ~UnderWay'
  <2>1. UNCHANGED <<unit, job>>
    BY <1>7 DEF Note, Look, Hear, host
  <2>2. \A q \in Pages : page'[q].at # "starting" \/ page'[q] = page[q]
    BY <1>7 DEF Note, Look, Hear, Tell, Pending, TypeOK, Page
  <2> QED
    BY <1>5, <2>1, <2>2
<1>8. ASSUME NEW u \in Units, OnHost(u) PROVE ~UnderWay'
  <2>1. Active(u)
    BY <1>8 DEF OnHost, Pull, Move, Up, Report, Active
  <2>2. job' \in {job, "none"}
    BY <1>8 DEF OnHost, Pull, Move, Up, Report, Anew
  <2> QED
    BY <1>4, <2>1, <2>2
<1>9. CASE Restart
  BY <1>9 DEF Restart, Anew
<1>10. CASE JobBegins
  BY <1>10 DEF JobBegins, UnderWay, Active, host
<1>11. CASE JobEnds
  BY <1>11 DEF JobEnds
<1>12. CASE Publish \/ Tick
  BY <1>5, <1>12 DEF Publish, Tick, host
<1> QED
  BY <1>1, <1>2, <1>6, <1>7, <1>8, <1>9, <1>10, <1>11, <1>12 DEF Next, Request

\* No upgrade cuts a job that was running before its button was pressed (settings.upgrade,
\* which asks for jobs before it awaits).
THEOREM JobsSpared == Spec => []BegunJobsAreSpared
<1>1. Init => BegunJobsAreSpared
  BY DEF Init, BegunJobsAreSpared
<1>2. TypeOK /\ BegunJobsAreSpared /\ [Next]_vars => BegunJobsAreSpared'
  BY SparedStep
<1> QED
  BY <1>1, <1>2, TypesHold, PTL DEF Spec

(************************ What the compose file names **********************)

\* The image that runs is there, and so is the one the file names, which is no older; an
\* upgrade that is to move the tag has pulled what it moves it to, and moves it upwards.
ImgInv ==
  /\ version \in images
  /\ file \in Releases => file \in images /\ version <= file
  /\ \A u \in Units : unit[u].at = "edit" => unit[u].target \in images
  /\ \A u \in Units : Active(u) =>
        unit[u].pin # Other /\ (unit[u].pin \in Releases => unit[u].pin < unit[u].target)

\* The upgrades keep to that, and so does the host when it starts what the file names.
LEMMA ImgUnits ==
  ASSUME ImgInv, images \subseteq images',
         \A u \in Units : Active(u)' =>
            /\ Active(u) /\ unit'[u].pin = unit[u].pin
            /\ unit'[u].target = unit[u].target
            /\ unit'[u].at = "edit" => unit'[u].target \in images'
  PROVE  /\ \A u \in Units : unit'[u].at = "edit" => unit'[u].target \in images'
         /\ \A u \in Units : Active(u)' =>
               unit'[u].pin # Other /\ (unit'[u].pin \in Releases
                                        => unit'[u].pin < unit'[u].target)
<1>1. \A u \in Units : unit'[u].at = "edit" => Active(u)'
  BY DEF Active
<1>2. ASSUME NEW u \in Units, Active(u)'
      PROVE  unit'[u].pin # Other /\ (unit'[u].pin \in Releases
                                      => unit'[u].pin < unit'[u].target)
  <2>1. Active(u) /\ unit'[u].pin = unit[u].pin /\ unit'[u].target = unit[u].target
    BY <1>2
  <2>2. unit[u].pin # Other /\ (unit[u].pin \in Releases => unit[u].pin < unit[u].target)
    BY <2>1 DEF ImgInv
  <2> QED
    BY <2>1, <2>2
<1> QED
  BY <1>1, <1>2 DEF Active

LEMMA ImgStep ==
  ASSUME TypeOK, TagInv, ImgInv, [Next]_vars
  PROVE  ImgInv' /\ version' >= version
<1> USE UpgradeAssumption
<1>a. version \in Nat /\ version \in Releases
  BY DEF TypeOK, Releases
<1>b. ASSUME UNCHANGED host PROVE ImgInv' /\ version' >= version
  <2>1. ImgInv'
    BY <1>b DEF host, ImgInv, Active
  <2> QED
    BY <1>a, <1>b, <2>1 DEF host
<1>1. CASE UNCHANGED vars
  BY <1>1, <1>b DEF vars
<1>2. ASSUME NEW p \in Pages, Press(p) \/ Note(p) \/ Look(p) \/ Hear(p)
      PROVE  ImgInv' /\ version' >= version
  BY <1>2, <1>b DEF Press, Note, Look, Hear
<1>3. CASE JobBegins \/ JobEnds \/ Publish \/ Tick
  BY <1>3, <1>b DEF JobBegins, JobEnds, Publish, Tick
<1>4. ASSUME NEW p \in Pages, Hand(p) PROVE ImgInv' /\ version' >= version
  <2>1. UNCHANGED <<version, tag, file, images>>
    BY <1>4 DEF Hand
  <2>2. CASE UNCHANGED unit
    BY <1>a, <2>1, <2>2 DEF ImgInv, Active
  <2>3. ASSUME NEW u \in Units, MayHand(page[p].target),
               unit' = [unit EXCEPT ![u] = [at |-> "pull", target |-> page[p].target,
                                            pin |-> tag, code |-> 0]]
        PROVE  ImgInv' /\ version' >= version
    <3>1. tag # Other /\ (tag \in Releases => tag < page[p].target)
      BY <1>a, <2>3 DEF MayHand, Releases, TypeOK, Page
    <3>2. /\ \A v \in Units \ {u} : unit'[v] = unit[v]
          /\ unit'[u].at = "pull" /\ unit'[u].pin = tag /\ unit'[u].target = page[p].target
      BY <2>3 DEF TypeOK
    <3>3. /\ \A v \in Units : unit'[v].at = "edit" => unit'[v].target \in images
          /\ \A v \in Units : Active(v)' =>
               unit'[v].pin # Other /\ (unit'[v].pin \in Releases
                                        => unit'[v].pin < unit'[v].target)
      BY <3>1, <3>2 DEF ImgInv, Active
    <3> QED
      BY <1>a, <2>1, <3>3 DEF ImgInv
  <2> QED
    BY <1>4, <2>2, <2>3 DEF Hand
<1>5. ASSUME NEW u \in Units, Pull(u) PROVE ImgInv' /\ version' >= version
  <2>1. UNCHANGED <<version, file>> /\ images \subseteq images'
    BY <1>5 DEF Pull
  <2>2. \A v \in Units : Active(v)' =>
          /\ Active(v) /\ unit'[v].pin = unit[v].pin
          /\ unit'[v].target = unit[v].target
          /\ unit'[v].at = "edit" => unit'[v].target \in images'
    <3>1. CASE /\ images' = images \cup {IF unit[u].pin = Latest THEN published
                                                                ELSE unit[u].target}
               /\ unit' = [unit EXCEPT ![u].at = IF unit[u].pin = Latest THEN "up" ELSE "edit"]
      <4>1. /\ \A v \in Units \ {u} : unit'[v] = unit[v]
            /\ unit'[u].pin = unit[u].pin /\ unit'[u].target = unit[u].target
            /\ unit'[u].at = IF unit[u].pin = Latest THEN "up" ELSE "edit"
        BY <3>1 DEF TypeOK, Unit
      <4>2. Active(u)
        BY <1>5 DEF Pull, Active
      <4>3. unit'[u].at = "edit" => unit'[u].target \in images'
        BY <3>1, <4>1
      <4>4. \A v \in Units \ {u} : unit'[v].at = "edit" => unit'[v].target \in images'
        BY <2>1, <4>1 DEF ImgInv
      <4> QED
        BY <4>1, <4>2, <4>3, <4>4 DEF Active
    <3>2. CASE Ends(u, 1) /\ UNCHANGED images
      <4>1. Active(u)
        BY <1>5 DEF Pull, Active
      <4> QED
        BY <3>2, <4>1, EndsType DEF ImgInv, Active
    <3> QED
      BY <1>5, <3>1, <3>2 DEF Pull
  <2>3. /\ \A v \in Units : unit'[v].at = "edit" => unit'[v].target \in images'
        /\ \A v \in Units : Active(v)' =>
               unit'[v].pin # Other /\ (unit'[v].pin \in Releases
                                        => unit'[v].pin < unit'[v].target)
    BY <2>1, <2>2, ImgUnits
  <2>4. version' \in images' /\ (file' \in Releases => file' \in images' /\ version' <= file')
    BY <2>1 DEF ImgInv
  <2>5. ImgInv'
    BY <2>3, <2>4 DEF ImgInv
  <2> QED
    BY <1>a, <2>1, <2>5
<1>6. ASSUME NEW u \in Units, Move(u) PROVE ImgInv' /\ version' >= version
  <2>1. UNCHANGED <<version, images>> /\ unit[u].at = "edit"
    BY <1>6 DEF Move
  <2>a. Active(u)
    BY <2>1 DEF Active
  <2>b. unit[u].target \in Releases /\ unit[u].target \in images
    BY <2>1 DEF TypeOK, Unit, ImgInv
  <2>c. unit[u].pin \in Releases /\ unit[u].pin < unit[u].target
    <3>1. unit[u].pin # Other /\ unit[u].pin # Latest
      BY <2>1, <2>a DEF ImgInv, TagInv
    <3>2. unit[u].pin \in Releases \cup {Latest, Other}
      BY DEF TypeOK, Unit
    <3> QED
      BY <2>a, <3>1, <3>2 DEF ImgInv
  <2>2. CASE file = unit[u].pin
    <3>1. file' = unit[u].target /\ unit' = [unit EXCEPT ![u].at = "up"]
      BY <1>6, <2>2 DEF Move
    <3>2. version <= file /\ file < unit[u].target
      BY <2>2, <2>c DEF ImgInv
    <3>3. file' \in images /\ version <= file'
      BY <1>a, <2>2, <2>b, <2>c, <3>1, <3>2 DEF Releases
    <3>4. \A v \in Units : Active(v)' =>
            /\ Active(v) /\ unit'[v].pin = unit[v].pin
            /\ unit'[v].target = unit[v].target
            /\ unit'[v].at = "edit" => unit'[v].target \in images'
      BY <2>1, <2>a, <3>1 DEF Active, TypeOK, Unit, ImgInv
    <3>5. /\ \A v \in Units : unit'[v].at = "edit" => unit'[v].target \in images'
          /\ \A v \in Units : Active(v)' =>
               unit'[v].pin # Other /\ (unit'[v].pin \in Releases
                                        => unit'[v].pin < unit'[v].target)
      BY <2>1, <3>4, ImgUnits
    <3> QED
      BY <1>a, <2>1, <3>3, <3>5 DEF ImgInv
  <2>3. CASE file # unit[u].pin
    <3>1. Ends(u, 1) /\ UNCHANGED file
      BY <1>6, <2>3 DEF Move
    <3>2. \A v \in Units : Active(v)' =>
            /\ Active(v) /\ unit'[v].pin = unit[v].pin
            /\ unit'[v].target = unit[v].target
            /\ unit'[v].at = "edit" => unit'[v].target \in images'
      BY <2>1, <2>a, <3>1, EndsType DEF Active, ImgInv
    <3>3. /\ \A v \in Units : unit'[v].at = "edit" => unit'[v].target \in images'
          /\ \A v \in Units : Active(v)' =>
               unit'[v].pin # Other /\ (unit'[v].pin \in Releases
                                        => unit'[v].pin < unit'[v].target)
      BY <2>1, <3>2, ImgUnits
    <3> QED
      BY <1>a, <2>1, <3>1, <3>3 DEF ImgInv
  <2> QED
    BY <2>2, <2>3, Zenon
<1>7. ASSUME NEW u \in Units, Up(u) PROVE ImgInv' /\ version' >= version
  <2>a. Active(u)
    BY <1>7 DEF Up, Active
  <2>b. file # Other
    BY <2>a DEF TagInv
  <2>1. UNCHANGED <<file, images>>
    BY <1>7 DEF Up
  <2>2. Made \in images /\ version <= Made /\ (file \in Releases => Made <= file)
    <3>1. CASE file = Latest
      <4>1. Made \in images /\ version <= Made
        BY <3>1, HighestIsHighest DEF Made, TypeOK, TagInv, ImgInv
      <4> QED
        BY <3>1, <4>1 DEF Releases
    <3>2. CASE file # Latest
      <4>1. file \in Releases /\ Made = file
        BY <2>b, <3>2 DEF Made, TypeOK
      <4> QED
        BY <4>1 DEF ImgInv, Releases
    <3> QED
      BY <3>1, <3>2
  <2>3. version' \in {version, Made}
    BY <1>7 DEF Up
  <2>4. version' \in images /\ version' >= version /\ (file \in Releases => version' <= file)
    <3>1. CASE version' = version
      BY <1>a, <3>1 DEF ImgInv
    <3>2. CASE version' = Made
      <4>1. Made \in Releases
        BY <2>2 DEF TypeOK
      <4> QED
        BY <1>a, <2>2, <3>2, <4>1 DEF Releases
    <3> QED
      BY <2>3, <3>1, <3>2
  <2>5. \E code \in {0, 1} : Ends(u, code)
    BY <1>7 DEF Up
  <2>6. \A v \in Units : Active(v)' =>
          /\ Active(v) /\ unit'[v].pin = unit[v].pin
          /\ unit'[v].target = unit[v].target
          /\ unit'[v].at = "edit" => unit'[v].target \in images'
    BY <2>1, <2>a, <2>5, EndsType DEF Active, ImgInv
  <2>7. /\ \A v \in Units : unit'[v].at = "edit" => unit'[v].target \in images'
        /\ \A v \in Units : Active(v)' =>
               unit'[v].pin # Other /\ (unit'[v].pin \in Releases
                                        => unit'[v].pin < unit'[v].target)
    BY <2>1, <2>6, ImgUnits
  <2> QED
    BY <2>1, <2>4, <2>7 DEF ImgInv
<1>8. ASSUME NEW u \in Units, Report(u) PROVE ImgInv' /\ version' >= version
  <2>1. UNCHANGED <<version, file, images>> /\ unit' = [unit EXCEPT ![u] = Over]
    BY <1>8 DEF Report
  <2>2. /\ \A v \in Units \ {u} : unit'[v] = unit[v]
        /\ unit'[u].at = "end"
    BY <2>1 DEF TypeOK, Over, Free
  <2>3. /\ \A v \in Units : unit'[v].at = "edit" => unit'[v].target \in images
        /\ \A v \in Units : Active(v)' =>
               unit'[v].pin # Other /\ (unit'[v].pin \in Releases
                                        => unit'[v].pin < unit'[v].target)
    BY <2>2 DEF ImgInv, Active
  <2> QED
    BY <1>a, <2>1, <2>3 DEF ImgInv
<1>9. CASE Restart
  <2>1. UNCHANGED <<version, file, images>>
    BY <1>9 DEF Restart
  <2>2. Over.at = "end"
    BY DEF Over, Free
  <2>3. \A v \in Units : unit'[v] \in {unit[v], Over}
    BY <1>9 DEF Restart, TypeOK
  <2>4. /\ \A v \in Units : unit'[v].at = "edit" => unit'[v].target \in images
        /\ \A v \in Units : Active(v)' =>
               unit'[v].pin # Other /\ (unit'[v].pin \in Releases
                                        => unit'[v].pin < unit'[v].target)
    BY <2>2, <2>3 DEF ImgInv, Active
  <2> QED
    BY <1>a, <2>1, <2>4 DEF ImgInv
<1> QED
  BY <1>1, <1>2, <1>3, <1>4, <1>5, <1>6, <1>7, <1>8, <1>9 DEF Next, Request, OnHost

LEMMA ImgHolds == Spec => []ImgInv
<1>1. Init => ImgInv
  <2> SUFFICES ASSUME Init PROVE ImgInv
    OBVIOUS
  <2>1. \A u \in Units : unit[u].at = "free"
    BY DEF Init, Free
  <2>2. file \in Releases => file = 0
    BY UpgradeAssumption DEF Init, Releases
  <2> QED
    BY <2>1, <2>2 DEF Init, ImgInv, Active
<1>2. TypeOK /\ TagInv /\ ImgInv /\ [Next]_vars => ImgInv'
  BY ImgStep
<1> QED
  BY <1>1, <1>2, TypesHold, PTL DEF Spec

\* Whatever fails on the way and however many upgrades overlap, the compose file names
\* an image that is on the host (release.upgrade_command: pull, then sed).
THEOREM ImageStays == Spec => []ImageIsThere
<1>1. TypeOK /\ TagInv /\ ImgInv => ImageIsThere
  BY DEF TypeOK, ImgInv, ImageIsThere, FileNamesAnImage
<1> QED
  BY <1>1, TypesHold, ImgHolds, PTL

\* Timar never goes back to an older release (release.upgrade_command moves only the tag
\* that its process was made from).
THEOREM OnlyUpwards == Spec => NeverOlder
<1>1. TypeOK /\ TagInv /\ ImgInv /\ [Next]_vars => [version' >= version]_version
  BY ImgStep
<1>2. Spec => [][version' >= version]_version
  BY <1>1, TypesHold, ImgHolds, PTL DEF Spec
<1> QED
  BY <1>2 DEF NeverOlder

(************************** What was handed over ***************************)

\* A page that is asking, or was answered since the last tick, found the entry not overdue.
RecInv ==
  record # None => /\ record.age <= GiveUp + 1
                   /\ asked => record.age <= GiveUp
                   /\ \A p \in Pages : page[p].at = "asking" => record.age <= GiveUp

LEMMA RecStep ==
  ASSUME TypeOK, RecInv, [Next]_vars
  PROVE  RecInv'
<1> USE UpgradeAssumption
<1>a. record # None => record.age \in Nat
  BY DEF TypeOK
<1>b. ASSUME UNCHANGED <<record, asked>>,
             \A p \in Pages : page'[p].at = "asking" => page[p].at = "asking"
      PROVE  RecInv'
  BY <1>b DEF RecInv
<1>1. CASE UNCHANGED vars
  BY <1>1, <1>b DEF vars
<1>2. ASSUME NEW p \in Pages, Press(p) PROVE RecInv'
  <2>1. \A q \in Pages : page'[q].at = "asking" => page[q].at = "asking"
    BY <1>2 DEF Press, TypeOK, Page
  <2> QED
    BY <1>2, <1>b, <2>1 DEF Press
<1>3. ASSUME NEW p \in Pages, Hand(p) PROVE RecInv'
  <2>1. \A q \in Pages : page'[q].at = "asking" => page[q].at = "asking"
    BY <1>3 DEF Hand, TypeOK, Page
  <2> QED
    BY <1>3, <1>b, <2>1 DEF Hand
<1>4. ASSUME NEW p \in Pages, Note(p) PROVE RecInv'
  <2>1. record'.age = 0
    BY <1>4 DEF Note
  <2> QED
    BY <2>1 DEF RecInv
<1>5. ASSUME NEW u \in Units, OnHost(u) PROVE RecInv'
  <2>1. UNCHANGED <<record, asked>>
    BY <1>5 DEF OnHost, Pull, Move, Up, Report
  <2>2. UNCHANGED page \/ Anew
    BY <1>5 DEF OnHost, Pull, Move, Up, Report
  <2>3. \A p \in Pages : page'[p].at = "asking" => page[p].at = "asking"
    BY <2>2, AnewType
  <2> QED
    BY <1>b, <2>1, <2>3
<1>6. CASE Restart
  <2>1. UNCHANGED <<record, asked>> /\ Anew
    BY <1>6 DEF Restart
  <2> QED
    BY <1>b, <2>1, AnewType
<1>7. ASSUME NEW p \in Pages, Tell(p) PROVE RecInv'
  BY <1>7 DEF Tell, RecInv
<1>8. ASSUME NEW p \in Pages, Look(p) PROVE RecInv'
  <2>1. CASE record = None \/ Done \/ Overdue
    BY <1>7, <1>8, <2>1 DEF Look
  <2>2. CASE ~(record = None \/ Done \/ Overdue)
    <3>1. UNCHANGED <<record, asked>>
      BY <1>8, <2>2 DEF Look
    <3>2. record.age <= GiveUp
      BY <1>a, <2>2 DEF Overdue
    <3> QED
      BY <1>a, <3>1, <3>2 DEF RecInv
  <2> QED
    BY <2>1, <2>2
<1>9. ASSUME NEW p \in Pages, Hear(p) PROVE RecInv'
  <2>1. CASE Pending(p)
    <3>1. record # None => record.age <= GiveUp
      BY <1>9 DEF Hear, RecInv
    <3>2. record' = record
      BY <2>1 DEF Pending
    <3> QED
      BY <1>a, <3>1, <3>2 DEF RecInv
  <2> QED
    BY <1>7, <1>9, <2>1 DEF Hear
<1>10. CASE JobBegins \/ JobEnds \/ Publish
  BY <1>10, <1>b DEF JobBegins, JobEnds, Publish
<1>11. CASE Tick
  <2>1. CASE record = None
    BY <1>11, <2>1 DEF Tick, RecInv
  <2>2. CASE record # None
    <3>1. record.age \in Nat /\ record.age <= GiveUp
      BY <1>a, <1>11, <2>2 DEF Tick, RecInv
    <3>2. record'.age = record.age + 1 /\ ~asked'
      BY <1>11, <2>2 DEF Tick, TypeOK
    <3>3. \A p \in Pages : page'[p].at = "idle"
      BY <1>11 DEF Tick
    <3> QED
      BY <3>1, <3>2, <3>3 DEF RecInv
  <2> QED
    BY <2>1, <2>2
<1> QED
  BY <1>1, <1>2, <1>3, <1>4, <1>5, <1>6, <1>8, <1>9, <1>10, <1>11 DEF Next, Request

\* However late the host's answer, and whatever it is, an upgrade that was noted is told
\* and forgotten within one tick of GiveUp (release.upgrade_status).
THEOREM AlwaysTold == Spec => []ToldInTime
<1>1. Init => RecInv
  BY DEF Init, RecInv
<1>2. TypeOK /\ RecInv /\ [Next]_vars => RecInv'
  BY RecStep
<1>3. RecInv => ToldInTime
  BY DEF RecInv, ToldInTime
<1> QED
  BY <1>1, <1>2, <1>3, TypesHold, PTL DEF Spec

(***************************** What is offered *****************************)

\* Nothing is newer than what is published, and an answer that is remembered for another
\* release than that is older than the release.
NewsInv ==
  /\ version <= published
  /\ \A v \in images : v <= published
  /\ \A p \in Pages : page[p].target <= published /\ page[p].offer <= published
  /\ \A u \in Units : unit[u].target <= published
  /\ checked # None =>
       IF checked.release = None THEN checked.ttl = RetryAfter
       ELSE /\ checked.release <= published
            /\ checked.release # published => news <= checked.age

LEMMA OlderKeeps ==
  ASSUME NEW cap \in Nat, NEW a \in 0..cap, NEW b \in 0..cap, a <= b
  PROVE  Older(a, cap) <= Older(b, cap)
BY DEF Older

\* An answer given now, remembered or new.
LEMMA LatestsKeep ==
  ASSUME TypeOK, NewsInv, NEW latest \in Latests
  PROVE  /\ latest.release = None => latest.ttl = RetryAfter
         /\ latest.release # None =>
              /\ latest.release <= published
              /\ latest.release # published => news <= latest.age
         /\ latest.age < latest.ttl
<1> USE UpgradeAssumption
<1>1. CASE Remembered
  <2>1. latest = checked /\ checked # None /\ checked.age < checked.ttl
    BY <1>1 DEF Latests, Remembered
  <2> QED
    BY <2>1 DEF NewsInv
<1>2. CASE ~Remembered
  <2>1. latest = Answer(published) \/ latest = Answer(None)
    BY <1>2 DEF Latests
  <2>2. published \in Nat /\ published # None
    BY DEF TypeOK, Releases
  <2> QED
    BY <2>1, <2>2 DEF Answer
<1> QED
  BY <1>1, <1>2

LEMMA NewsStep ==
  ASSUME TypeOK, TagInv, ImgInv, NewsInv, [Next]_vars
  PROVE  NewsInv'
<1> USE UpgradeAssumption
<1>a. published \in Nat /\ version \in Nat /\ news \in 0..CheckEvery /\ images \subseteq Nat
  BY DEF TypeOK, Releases
<1>e. page \in [Pages -> Page]
  BY DEF TypeOK
<1>b. ASSUME UNCHANGED <<published, news>>,
             version' <= published, \A v \in images' : v <= published,
             \A u \in Units : unit'[u].target <= published,
             \A p \in Pages : page'[p].target <= published /\ page'[p].offer <= published,
             checked' = checked \/ checked' = None \/ checked' \in Latests
      PROVE  NewsInv'
  <2>1. checked' # None =>
          IF checked'.release = None THEN checked'.ttl = RetryAfter
          ELSE /\ checked'.release <= published
               /\ checked'.release # published => news <= checked'.age
    BY <1>b, LatestsKeep DEF NewsInv
  <2> QED
    BY <1>b, <2>1 DEF NewsInv
<1>c. ASSUME NEW p \in Pages, Tell(p)
      PROVE  /\ checked' \in Latests
             /\ \A q \in Pages : page'[q].target <= published /\ page'[q].offer <= published
  <2>1. PICK latest \in Latests :
          /\ checked' = latest
          /\ page' = [page EXCEPT ![p].at = "idle", ![p].seen = None,
                                  ![p].offer = Offer(latest.release)]
    BY <1>c DEF Tell
  <2>2. Offer(latest.release) <= published
    BY <1>a, LatestsKeep DEF Offer, IsNewer
  <2>3. /\ \A q \in Pages \ {p} : page'[q] = page[q]
        /\ page'[p].target = page[p].target /\ page'[p].offer = Offer(latest.release)
    BY <2>1 DEF TypeOK, Page
  <2> QED
    BY <2>1, <2>2, <2>3 DEF NewsInv
<1>d. ASSUME Anew PROVE \A p \in Pages : page'[p].target <= published
                                         /\ page'[p].offer <= published
  <2>1. \A p \in Pages : page'[p].target = 0 /\ page'[p].offer = page[p].offer
    BY <1>e, <1>d DEF Anew, Page
  <2> QED
    BY <1>a, <2>1 DEF NewsInv
<1>1. CASE UNCHANGED vars
  BY <1>1, <1>b DEF vars, host, NewsInv
<1>2. ASSUME NEW p \in Pages, Press(p) PROVE NewsInv'
  <2>1. \A q \in Pages : /\ page'[q].target \in {page[q].target, page[q].offer}
                         /\ page'[q].offer = page[q].offer
    BY <1>2 DEF Press, TypeOK, Page
  <2> QED
    BY <1>2, <1>b, <2>1 DEF Press, host, NewsInv
<1>3. ASSUME NEW p \in Pages, Hand(p) PROVE NewsInv'
  <2>a. /\ \A q \in Pages \ {p} : page'[q] = page[q]
        /\ page'[p].target \in {page[p].target, 0} /\ page'[p].offer = page[p].offer
    BY <1>e, <1>3 DEF Hand, Page
  <2>1. \A q \in Pages : page'[q].target \in {page[q].target, 0} /\ page'[q].offer = page[q].offer
    BY <2>a
  <2>2. \A u \in Units : unit'[u].target \in {unit[u].target, page[p].target}
    BY <1>3 DEF Hand, TypeOK, Unit
  <2> QED
    BY <1>3, <1>a, <1>b, <2>1, <2>2 DEF Hand, NewsInv
<1>4. ASSUME NEW p \in Pages, Note(p) PROVE NewsInv'
  <2>a. /\ \A q \in Pages \ {p} : page'[q] = page[q]
        /\ page'[p].target = 0 /\ page'[p].offer = page[p].offer
    BY <1>e, <1>4 DEF Note, Page
  <2>1. \A q \in Pages : page'[q].target \in {page[q].target, 0} /\ page'[q].offer = page[q].offer
    BY <2>a
  <2>2. \A q \in Pages : page'[q].target <= published /\ page'[q].offer <= published
    BY <1>a, <2>1 DEF NewsInv
  <2>3. UNCHANGED <<host, published, news, checked>>
    BY <1>4 DEF Note
  <2> QED
    BY <1>b, <2>2, <2>3 DEF host, NewsInv
<1>5. ASSUME NEW u \in Units, Pull(u) PROVE NewsInv'
  <2>1. \A v \in Units : unit'[v].target = unit[v].target
    <3>1. CASE unit' = [unit EXCEPT ![u].at = IF unit[u].pin = Latest THEN "up" ELSE "edit"]
      BY <3>1 DEF TypeOK, Unit
    <3>2. CASE Ends(u, 1)
      BY <3>2, EndsType
    <3> QED
      BY <1>5, <3>1, <3>2 DEF Pull
  <2>2. images' \subseteq images \cup {published, unit[u].target}
    BY <1>5 DEF Pull
  <2> QED
    BY <1>5, <1>a, <1>b, <2>1, <2>2 DEF Pull, NewsInv
<1>6. ASSUME NEW u \in Units, Move(u) PROVE NewsInv'
  <2>1. \A v \in Units : unit'[v].target = unit[v].target
    <3>1. CASE unit' = [unit EXCEPT ![u].at = "up"]
      BY <3>1 DEF TypeOK, Unit
    <3>2. CASE Ends(u, 1)
      BY <3>2, EndsType
    <3> QED
      BY <1>6, <3>1, <3>2 DEF Move
  <2> QED
    BY <1>6, <1>b, <2>1 DEF Move, NewsInv
<1>7. ASSUME NEW u \in Units, Up(u) PROVE NewsInv'
  <2>1. \A v \in Units : unit'[v].target = unit[v].target
    <3>1. \E code \in {0, 1} : Ends(u, code)
      BY <1>7 DEF Up
    <3> QED
      BY <3>1, EndsType
  <2>2. ImgInv'
    BY ImgStep
  <2>3. UNCHANGED <<images, published, news>> /\ version' \in images
    BY <1>7, <2>2 DEF Up, ImgInv
  <2>4. \A p \in Pages : page'[p].target <= published /\ page'[p].offer <= published
    BY <1>7, <1>d DEF Up, NewsInv
  <2>5. checked' = checked \/ checked' = None
    BY <1>7 DEF Up, Anew
  <2> QED
    BY <1>b, <2>1, <2>3, <2>4, <2>5 DEF NewsInv
<1>8. ASSUME NEW u \in Units, Report(u) PROVE NewsInv'
  <2>1. \A v \in Units : unit'[v].target \in {unit[v].target, 0}
    BY <1>8 DEF Report, TypeOK, Unit, Over, Free
  <2> QED
    BY <1>8, <1>a, <1>b, <2>1 DEF Report, NewsInv
<1>9. CASE Restart
  <2>1. \A v \in Units : unit'[v] \in {unit[v], Over}
    BY <1>9 DEF Restart, TypeOK
  <2>2. \A v \in Units : unit'[v].target \in {unit[v].target, 0}
    BY <2>1 DEF Over, Free
  <2>3. /\ checked' = None
        /\ \A p \in Pages : page'[p].target <= published /\ page'[p].offer <= published
    BY <1>9, <1>d DEF Restart, Anew
  <2> QED
    BY <1>9, <1>a, <1>b, <2>2, <2>3 DEF Restart, NewsInv
<1>10. ASSUME NEW p \in Pages, Look(p) PROVE NewsInv'
  <2>1. CASE Tell(p)
    BY <1>10, <1>b, <1>c, <2>1 DEF Look, host, NewsInv
  <2>2. CASE ~Tell(p)
    <3>1. /\ page' = [page EXCEPT ![p].at = "asking", ![p].seen = record.unit]
          /\ checked' = checked
      BY <1>10, <2>2 DEF Look
    <3>2. \A q \in Pages : page'[q].target = page[q].target /\ page'[q].offer = page[q].offer
      BY <3>1 DEF TypeOK, Page
    <3> QED
      BY <1>10, <1>b, <3>1, <3>2 DEF Look, host, NewsInv
  <2> QED
    BY <2>1, <2>2
<1>11. ASSUME NEW p \in Pages, Hear(p) PROVE NewsInv'
  <2>1. CASE Tell(p)
    BY <1>11, <1>b, <1>c, <2>1 DEF Hear, host, NewsInv
  <2>2. CASE Pending(p)
    <3>a. /\ \A q \in Pages \ {p} : page'[q] = page[q]
          /\ page'[p].target = page[p].target /\ page'[p].offer = 0
      BY <1>e, <2>2 DEF Pending, Page
    <3>1. \A q \in Pages : page'[q].target = page[q].target /\ page'[q].offer \in {page[q].offer, 0}
      BY <3>a
    <3>2. \A q \in Pages : page'[q].target <= published /\ page'[q].offer <= published
      BY <1>a, <3>1 DEF NewsInv
    <3>3. UNCHANGED <<host, published, news, checked>>
      BY <1>11, <2>2 DEF Hear, Pending
    <3> QED
      BY <1>b, <3>2, <3>3 DEF host, NewsInv
  <2> QED
    BY <1>11, <2>1, <2>2 DEF Hear
<1>12. CASE JobBegins \/ JobEnds
  BY <1>12, <1>b DEF JobBegins, JobEnds, host, NewsInv
<1>13. CASE Publish
  <2>1. published' = published + 1 /\ news' = 0 /\ UNCHANGED <<host, checked, page>>
    BY <1>13 DEF Publish
  <2>2. /\ \A p \in Pages : page[p].target \in Nat /\ page[p].offer \in Nat
        /\ \A u \in Units : unit[u].target \in Nat
    BY DEF TypeOK, Page, Unit, Releases
  <2>3. checked # None => /\ checked.age \in Nat
                          /\ checked.release \in Nat \cup {None}
    BY DEF TypeOK, Releases
  <2> QED
    BY <1>a, <2>1, <2>2, <2>3 DEF host, NewsInv
<1>14. CASE Tick
  <2>1. UNCHANGED <<host, published, page>> /\ news' = Older(news, CheckEvery)
    BY <1>14 DEF Tick
  <2>2. checked' # None =>
          IF checked'.release = None THEN checked'.ttl = RetryAfter
          ELSE /\ checked'.release <= published
               /\ checked'.release # published => news' <= checked'.age
    <3>1. CASE checked = None
      BY <1>14, <3>1 DEF Tick
    <3>2. CASE checked # None
      <4>1. /\ checked'.age = Older(checked.age, CheckEvery)
            /\ checked'.release = checked.release /\ checked'.ttl = checked.ttl
        BY <1>14, <3>2 DEF Tick, TypeOK
      <4>2. checked.age \in 0..CheckEvery
        BY <3>2 DEF TypeOK
      <4>3. news <= checked.age => news' <= checked'.age
        BY <1>a, <2>1, <4>1, <4>2, OlderKeeps
      <4> QED
        BY <3>2, <4>1, <4>3 DEF NewsInv
    <3> QED
      BY <3>1, <3>2
  <2> QED
    BY <2>1, <2>2 DEF host, NewsInv
<1> QED
  BY <1>1, <1>2, <1>3, <1>4, <1>5, <1>6, <1>7, <1>8, <1>9, <1>10, <1>11, <1>12, <1>13, <1>14
  DEF Next, Request, OnHost

\* What a page is told then: a release that is out that long, unless it runs, or the last
\* check failed less than RetryAfter ago.
LEMMA OfferStep ==
  ASSUME TypeOK, NewsInv, NEW p \in Pages, Tell(p), news >= CheckEvery
  PROVE  \/ version = published
         \/ page'[p].offer = published
         \/ checked'.release = None /\ checked'.age < RetryAfter
<1> USE UpgradeAssumption
<1>1. PICK latest \in Latests :
        /\ checked' = latest
        /\ page' = [page EXCEPT ![p].at = "idle", ![p].seen = None,
                                ![p].offer = Offer(latest.release)]
  BY DEF Tell
<1>2. latest \in [age : 0..CheckEvery, ttl : {RetryAfter, CheckEvery},
                 release : Releases \cup {None}]
  BY LatestsType
<1>3. page'[p].offer = Offer(latest.release)
  BY <1>1 DEF TypeOK, Page
<1>4. CASE latest.release = None
  BY <1>1, <1>4, LatestsKeep
<1>5. CASE latest.release # None
  <2>1. latest.release = published
    <3>1. latest.age < CheckEvery
      BY <1>2, LatestsKeep
    <3>2. ~(news <= latest.age)
      BY <1>2, <3>1 DEF TypeOK
    <3> QED
      BY <1>5, <3>2, LatestsKeep
  <2>2. version = published \/ published > version
    BY DEF NewsInv, TypeOK, Releases
  <2> QED
    BY <1>3, <1>5, <2>1, <2>2 DEF Offer, IsNewer
<1> QED
  BY <1>4, <1>5

\* A release is hidden by no failed check for longer than RetryAfter, and by no answer for
\* longer than CheckEvery (release.latest and its cache).
THEOREM ReleasesAreSeen == Spec => NoReleaseHidden
<1> DEFINE Seen == \A p \in Pages :
                     Tell(p) /\ news >= CheckEvery
                     => \/ version = published
                        \/ page'[p].offer = published
                        \/ checked'.release = None /\ checked'.age < RetryAfter
<1>1. Init => NewsInv
  <2> SUFFICES ASSUME Init PROVE NewsInv
    OBVIOUS
  <2>1. published \in Nat /\ 0 <= published
    BY DEF Init
  <2>2. /\ \A p \in Pages : page[p].target = 0 /\ page[p].offer = 0
        /\ \A u \in Units : unit[u].target = 0
    BY DEF Init, Free
  <2> QED
    BY <2>1, <2>2 DEF Init, NewsInv
<1>2. TypeOK /\ TagInv /\ ImgInv /\ NewsInv /\ [Next]_vars => NewsInv'
  BY NewsStep
<1>3. TypeOK /\ NewsInv /\ [Next]_vars => [Seen]_vars
  BY OfferStep
<1>4. Spec => [][Seen]_vars
  BY <1>1, <1>2, <1>3, TypesHold, ImgHolds, PTL DEF Spec
<1> QED
  BY <1>4 DEF NoReleaseHidden

=============================================================================
