------------------------------ MODULE LoopProofs ------------------------------
(***************************************************************************)
(* The two loops against the clock, for any lengths of day and TICK and    *)
(* any number of edits and restarts.                                       *)
(*                                                                         *)
(* JobLoop and the calendar of Schedule, for any lengths of hour and week  *)
(* and any lateness of the timers; a TICK is shorter than an hour.  First, *)
(* next_run answers the next moment that a schedule names.  Then the loop: *)
(* when it sleeps to a moment, there was an instant at most a TICK before  *)
(* it at which it asked (Asked); when it sleeps a TICK, no moment lies in  *)
(* it (MomentInv).                                                         *)
(*                                                                         *)
(* UpdateWindow, for any machines, windows and lengths of run.  Its clock  *)
(* and process are JobLoop's (Clock), the rest is its own.                 *)
(***************************************************************************)
EXTENDS JobLoop, UpdateWindow, WellFoundedInduction, TLAPS

-----------------------------------------------------------------------------
(* Days and weeks: division with a remainder, for any length of them.      *)

LEMMA Division ==
  ASSUME NEW t \in Int, NEW D \in Nat \ {0}
  PROVE  /\ t \div D \in Int /\ t % D \in Int
         /\ 0 <= t % D /\ t % D < D
         /\ t = D * (t \div D) + (t % D)
OBVIOUS

LEMMA OneUp ==
  ASSUME NEW D \in Nat \ {0}, NEW p \in Int, NEW q \in Int, p < q
  PROVE  D * p + D <= D * q
OBVIOUS

LEMMA Quotient ==
  ASSUME NEW D \in Nat \ {0}, NEW t \in Int, NEW q \in Int, NEW r \in Int,
         0 <= r, r < D, t = D * q + r
  PROVE  t \div D = q /\ t % D = r
<1>1. PICK p \in Int, s \in Int : p = t \div D /\ s = t % D /\ 0 <= s /\ s < D /\ t = D * p + s
  BY Division
<1>2. ~(p < q)
  <2> SUFFICES ASSUME p < q
               PROVE  FALSE
    OBVIOUS
  <2>1. D * p + D <= D * q
    BY OneUp
  <2> QED
    BY <1>1, <2>1
<1>3. ~(q < p)
  <2> SUFFICES ASSUME q < p
               PROVE  FALSE
    OBVIOUS
  <2>1. D * q + D <= D * p
    BY OneUp
  <2> QED
    BY <1>1, <2>1
<1>4. p = q
  BY <1>2, <1>3
<1> QED
  BY <1>1, <1>4

LEMMA MidnightIs ==
  ASSUME NEW t \in Int
  PROVE  \E q, r \in Int : /\ q = t \div Day /\ r = t % Day
                           /\ 0 <= r /\ r < Day /\ t = Day * q + r
                           /\ Midnight(t) = Day * q
<1>1. Day \in Nat \ {0}
  BY ScheduleAssumption, ClockAssumption
<1>2. PICK q \in Int, r \in Int : /\ q = t \div Day /\ r = t % Day
                                 /\ 0 <= r /\ r < Day /\ t = Day * q + r
  BY <1>1, Division
<1>3. Midnight(t) = t - r
  BY <1>2 DEF Midnight
<1>4. Midnight(t) = Day * q
  <2>1. \A m \in Int : t = m + r => t - r = m
    BY <1>2
  <2>2. Day * q \in Int
    BY <1>1, <1>2
  <2> QED
    BY <1>2, <1>3, <2>1, <2>2
<1> QED
  BY <1>2, <1>4

\* The day of a moment, and the moments of one time of the day.
LEMMA DayOf ==
  ASSUME NEW p \in Int, NEW at \in Int, 0 <= at, at < Day
  PROVE  /\ (Day * p + at) % Day = at
         /\ (Day * p + at) \div Day = p
BY ScheduleAssumption, ClockAssumption, Quotient

LEMMA DaysApart ==
  ASSUME NEW p \in Int, NEW q \in Int, NEW at \in Int
  PROVE  /\ Day * p \in Int
         /\ p < q => Day * p + Day <= Day * q
         /\ Day * p + at < Day * q + at => p < q
         /\ Day * (p + 1) = Day * p + Day
<1>1. Day \in Nat \ {0}
  BY ScheduleAssumption, ClockAssumption
<1>2. Day * p \in Int /\ Day * q \in Int
  BY <1>1
<1>3. p < q => Day * p + Day <= Day * q
  BY <1>1, OneUp
<1>4. q < p => Day * q + Day <= Day * p
  BY <1>1, OneUp
<1>5. Day * p + at < Day * q + at => p < q
  <2>1. PICK a \in Int, b \in Int : a = Day * p /\ b = Day * q
    BY <1>2
  <2>2. p = q => a = b
    BY <2>1
  <2>3. q < p => b + Day <= a
    BY <1>4, <2>1
  <2>4. a + at < b + at => p < q
    BY <1>1, <2>2, <2>3
  <2> QED
    BY <2>1, <2>4
<1>6. Day * (p + 1) = Day * p + Day
  BY <1>1
<1> QED
  BY <1>2, <1>3, <1>5, <1>6

\* candidate, of the day of t, or the same time of another day: which it is.
LEMMA DailyIsNext ==
  ASSUME NEW s \in Schedule, s.at \in 0..(Day - 1), NEW t \in Int
  PROVE  /\ NextDaily(s, t) \in Int /\ NextDaily(s, t) > t
         /\ NextDaily(s, t) % Day = s.at
         /\ \A u \in Int : u > t /\ u % Day = s.at => u >= NextDaily(s, t)
<1>0. Day \in Nat \ {0}
  BY ClockAssumption
<1>1. PICK at \in Int : at = s.at /\ 0 <= at /\ at < Day /\ Day \in Nat \ {0}
  <2>1. s.at \in Int
    BY DEF Schedule
  <2>2. 0 <= s.at /\ s.at < Day
    BY <1>0, <2>1
  <2> QED
    BY <1>0, <2>1, <2>2
<1>2. PICK q \in Int, r \in Int : 0 <= r /\ r < Day /\ t = Day * q + r /\ Midnight(t) = Day * q
  BY MidnightIs
<1>3. PICK m \in Int : m = Day * q
  BY DaysApart
<1>4. NextDaily(s, t) = IF m + at <= t THEN m + at + Day ELSE m + at
  BY <1>1, <1>2, <1>3 DEF NextDaily
<1>5. t = m + r
  BY <1>2, <1>3
<1>6. (m + at) % Day = at
  BY <1>1, <1>3, DayOf
<1>7. (m + at + Day) % Day = at
  <2>1. Day * (q + 1) = m + Day
    BY <1>3, DaysApart
  <2>2. Day * (q + 1) + at = m + at + Day
    BY <1>1, <1>3, <2>1
  <2>3. \A p \in Int : (Day * p + at) % Day = at
    BY <1>1, DayOf
  <2>4. q + 1 \in Int
    OBVIOUS
  <2>5. (Day * (q + 1) + at) % Day = at
    BY <2>3, <2>4
  <2> QED
    BY <2>2, <2>5
<1>8. ASSUME NEW u \in Int, u > t, u % Day = at
      PROVE  u >= NextDaily(s, t)
  <2>1. PICK p \in Int : u = Day * p + at
    <3>1. u \div Day \in Int /\ u = Day * (u \div Day) + (u % Day)
      BY <1>1, Division
    <3> QED
      BY <1>8, <3>1
  <2>2. PICK k \in Int : k = Day * p /\ u = k + at
    BY <2>1, DaysApart
  <2>3. ~(p < q)
    <3>1. p < q => k + Day <= m
      BY <1>3, <2>2, DaysApart
    <3> QED
      BY <1>1, <1>2, <1>5, <1>8, <2>2, <3>1
  <2>4. p = q => u = m + at
    BY <1>3, <2>1
  <2>5. p > q => m + Day <= k
    BY <1>3, <2>2, DaysApart
  <2> QED
    BY <1>1, <1>4, <1>8, <2>2, <2>3, <2>4, <2>5
<1>9. NextDaily(s, t) \in Int /\ NextDaily(s, t) > t
  BY <1>1, <1>2, <1>4, <1>5
<1>10. NextDaily(s, t) % Day = at
  BY <1>4, <1>6, <1>7
<1> QED
  BY <1>1, <1>8, <1>9, <1>10

\* So many days ahead it is the weekday that is asked for, and not before.
LEMMA DaysAhead ==
  ASSUME NEW q \in Int, NEW d \in Int, 0 <= d, d < Days
  PROVE  \E k \in Int :
           /\ k = (d - (q % Days)) % Days /\ 0 <= k /\ k < Days
           /\ (q + k) % Days = d
           /\ (q + k + Days) % Days = d
           /\ \A p \in Int : p % Days = d /\ p >= q => p = q + k \/ p >= q + k + Days
<1>1. Days \in Nat \ {0}
  BY ScheduleAssumption, ClockAssumption
<1>2. PICK a \in Int, w \in Int : w = q % Days /\ q = Days * a + w
  BY <1>1, Division
<1>3. PICK b \in Int, k \in Int : k = (d - w) % Days /\ 0 <= k /\ k < Days
                                 /\ d - w = Days * b + k
  <2>1. d - w \in Int
    BY <1>2
  <2>2. PICK e \in Int : e = d - w
    BY <2>1
  <2>3. e \div Days \in Int /\ e % Days \in Int /\ 0 <= e % Days /\ e % Days < Days
        /\ e = Days * (e \div Days) + (e % Days)
    BY <1>1, Division
  <2> QED
    BY <2>2, <2>3
<1>4. q + k = Days * (a - b) + d
  <2>1. Days * (a - b) = Days * a - Days * b
    BY <1>1
  <2>2. PICK x \in Int, y \in Int : x = Days * a /\ y = Days * b
    BY <1>1
  <2> QED
    BY <1>2, <1>3, <2>1, <2>2
<1>5. PICK c \in Int : c = a - b /\ q + k = Days * c + d
  BY <1>4
<1>6. (q + k) % Days = d
  <2>1. PICK n \in Int : n = q + k
    BY <1>3
  <2>2. n = Days * c + d
    BY <1>5, <2>1
  <2>3. n % Days = d
    BY <1>1, <2>2, Quotient
  <2> QED
    BY <2>1, <2>3
<1>7. (q + k + Days) % Days = d
  <2>1. Days * (c + 1) = Days * c + Days
    BY <1>1
  <2>2. q + k + Days = Days * (c + 1) + d /\ c + 1 \in Int /\ q + k + Days \in Int
    <3>1. PICK x \in Int : x = Days * c
      BY <1>1
    <3> QED
      BY <1>1, <1>5, <2>1, <3>1
  <2> QED
    BY <1>1, <2>2, Quotient
<1>8. ASSUME NEW p \in Int, p % Days = d, p >= q
      PROVE  p = q + k \/ p >= q + k + Days
  <2>1. PICK e \in Int : p = Days * e + d
    <3>1. p \div Days \in Int /\ p = Days * (p \div Days) + (p % Days)
      BY <1>1, Division
    <3> QED
      BY <1>8, <3>1
  <2>2. PICK x \in Int, y \in Int : x = Days * c /\ y = Days * e
    BY <1>1
  <2>3. e < c => y + Days <= x
    BY <1>1, <2>2, OneUp
  <2>4. c < e => x + Days <= y
    BY <1>1, <2>2, OneUp
  <2>5. e = c => x = y
    BY <2>2
  <2>6. p = y + d /\ q + k = x + d
    BY <1>5, <2>1, <2>2
  <2>7. ~(e < c)
    BY <1>1, <1>3, <1>8, <2>3, <2>6
  <2>8. c < e => p >= q + k + Days
    BY <1>1, <1>3, <2>4, <2>6
  <2>9. e = c => p = q + k
    BY <2>5, <2>6
  <2> QED
    BY <2>7, <2>8, <2>9
<1> QED
  BY <1>2, <1>3, <1>6, <1>7, <1>8

LEMMA WeeklyIsNext ==
  ASSUME NEW s \in Schedule, s.at \in 0..(Day - 1), s.day \in 0..(Days - 1), NEW t \in Int
  PROVE  /\ NextWeekly(s, t) \in Int /\ NextWeekly(s, t) > t
         /\ NextWeekly(s, t) % Day = s.at /\ Weekday(NextWeekly(s, t)) = s.day
         /\ \A u \in Int : u > t /\ u % Day = s.at /\ Weekday(u) = s.day => u >= NextWeekly(s, t)
<1>1. PICK at \in Int, d \in Int : /\ at = s.at /\ 0 <= at /\ at < Day
                                  /\ d = s.day /\ 0 <= d /\ d < Days
  BY ScheduleAssumption, ClockAssumption DEF Schedule
<1>0. Day \in Nat \ {0} /\ Days \in Nat \ {0}
  BY ScheduleAssumption, ClockAssumption
<1>2. PICK q \in Int, r \in Int : 0 <= r /\ r < Day /\ t = Day * q + r /\ Midnight(t) = Day * q
  BY MidnightIs
<1>3. PICK m \in Int : m = Day * q
  BY DaysApart
<1>4. PICK k \in Int :
           /\ k = (d - (q % Days)) % Days /\ 0 <= k /\ k < Days
           /\ (q + k) % Days = d
           /\ (q + k + Days) % Days = d
           /\ \A p \in Int : p % Days = d /\ p >= q => p = q + k \/ p >= q + k + Days
  <2>1. 0 <= d /\ d < Days
    BY <1>1
  <2> QED
    BY <2>1, DaysAhead
<1>5. PICK c \in Int : c = Day * (q + k)
  BY <1>0
<1>6. PICK e \in Int : e = Day * (q + k + Days)
  BY <1>0
<1>7. c = m + k * Day /\ e = c + Days * Day
  BY <1>0, <1>3, <1>5, <1>6
<1>8. NextWeekly(s, t) = IF c + at <= t THEN e + at ELSE c + at
  <2>1. Weekday(m + at) = q % Days
    BY <1>1, <1>3, DayOf DEF Weekday
  <2>2. PICK x \in Int, y \in Int : x = k * Day /\ y = Days * Day
    BY <1>0
  <2>3. NextWeekly(s, t) = IF m + at + x <= t THEN m + at + x + y ELSE m + at + x
    BY <1>1, <1>2, <1>3, <1>4, <2>1, <2>2 DEF NextWeekly
  <2>4. m + at + x = c + at /\ m + at + x + y = e + at
    BY <1>1, <1>7, <2>2
  <2>5. PICK y1 \in Int, y2 \in Int : y1 = c + at /\ y2 = e + at
    BY <1>1
  <2>6. NextWeekly(s, t) = IF y1 <= t THEN y2 ELSE y1
    BY <2>3, <2>4, <2>5
  <2> QED
    BY <2>5, <2>6
<1>9. (c + at) % Day = at /\ Weekday(c + at) = d
  <2>1. \A p \in Int : (Day * p + at) % Day = at /\ (Day * p + at) \div Day = p
    BY <1>1, DayOf
  <2>2. (c + at) % Day = at /\ (c + at) \div Day = q + k
    BY <1>5, <2>1
  <2> QED
    BY <1>4, <2>2 DEF Weekday
<1>10. (e + at) % Day = at /\ Weekday(e + at) = d
  <2>1. \A p \in Int : (Day * p + at) % Day = at /\ (Day * p + at) \div Day = p
    BY <1>1, DayOf
  <2>2. q + k + Days \in Int
    BY <1>0
  <2>3. (e + at) % Day = at /\ (e + at) \div Day = q + k + Days
    BY <1>6, <2>1, <2>2
  <2> QED
    BY <1>4, <2>3 DEF Weekday
<1>11. Day <= Days * Day
  <2>1. \A a \in Nat \ {0}, b \in Nat \ {0} : b <= a * b
    BY SMT
  <2> QED
    BY <1>0, <2>1
<1>12. m <= c
  <2>1. \A a \in Int, b \in Nat \ {0} : 0 <= a => 0 <= a * b
    BY SMT
  <2>2. PICK x \in Int : x = k * Day
    BY <1>0
  <2> QED
    BY <1>0, <1>4, <1>7, <2>1, <2>2
<1>13. NextWeekly(s, t) \in Int /\ NextWeekly(s, t) > t
  <2>1. PICK y \in Int : y = Days * Day
    BY <1>0
  <2> QED
    BY <1>0, <1>1, <1>2, <1>3, <1>7, <1>8, <1>11, <1>12, <2>1
<1>14. ASSUME NEW u \in Int, u > t, u % Day = at, Weekday(u) = d
       PROVE  u >= NextWeekly(s, t)
  <2>1. PICK p \in Int : u = Day * p + at /\ p % Days = d
    <3>1. u \div Day \in Int /\ u = Day * (u \div Day) + (u % Day)
      BY <1>0, Division
    <3> QED
      BY <1>14, <3>1 DEF Weekday
  <2>2. PICK v \in Int : v = Day * p /\ u = v + at
    BY <2>1, DaysApart
  <2>3. p >= q
    <3>1. p < q => v + Day <= m
      BY <1>3, <2>2, DaysApart
    <3> QED
      BY <1>0, <1>1, <1>2, <1>3, <1>14, <2>2, <3>1
  <2>4. p = q + k \/ p >= q + k + Days
    BY <1>4, <2>1, <2>3
  <2>5. p = q + k => u = c + at
    BY <1>5, <2>1
  <2>6. p >= q + k + Days => v >= e
    <3>1. PICK n \in Int : n = q + k + Days
      BY <1>0
    <3>2. n < p => Day * n + Day <= Day * p
      BY DaysApart
    <3>3. n = p => Day * n = Day * p
      OBVIOUS
    <3> QED
      BY <1>0, <1>6, <2>2, <3>1, <3>2, <3>3
  <2>7. p >= q + k + Days => u >= e + at
    BY <1>1, <2>2, <2>6
  <2>8. c <= e
    <3>1. PICK y \in Int : y = Days * Day
      BY <1>0
    <3> QED
      BY <1>0, <1>7, <1>11, <3>1
  <2>9. CASE c + at <= t
    BY <1>1, <1>8, <1>14, <2>4, <2>5, <2>7, <2>9
  <2>10. CASE ~(c + at <= t)
    BY <1>1, <1>8, <1>14, <2>4, <2>5, <2>7, <2>8, <2>10
  <2> QED
    BY <2>9, <2>10
<1> QED
  BY <1>1, <1>8, <1>9, <1>10, <1>13, <1>14

\* schedule.next_run of a daily or weekly schedule is the next moment the schedule names:
\* one of them, after `after`, and none between.
THEOREM NextRunIsNext ==
  ASSUME NEW s \in Schedule, Calendar(s), NEW t \in Int, NEW l
  PROVE  /\ NextRun(s, t, l) \in Int /\ NextRun(s, t, l) > t
         /\ IsMoment(s, NextRun(s, t, l))
         /\ \A u \in Int : u > t /\ IsMoment(s, u) => u >= NextRun(s, t, l)
<1>1. /\ s.enabled /\ s.kind # "interval" /\ s.at \in 0..(Day - 1)
      /\ s.kind = "weekly" => s.day \in 0..(Days - 1)
  BY DEF Calendar, Invalid
<1>2. s.kind \in {"daily", "weekly"}
  BY <1>1 DEF Schedule
<1>3. CASE s.kind = "daily"
  <2>1. NextRun(s, t, l) = NextDaily(s, t)
    BY <1>1, <1>3 DEF NextRun
  <2> QED
    BY <1>1, <1>3, <2>1, DailyIsNext DEF IsMoment
<1>4. CASE s.kind = "weekly"
  <2>1. NextRun(s, t, l) = NextWeekly(s, t)
    BY <1>1, <1>4 DEF NextRun
  <2> QED
    BY <1>1, <1>4, <2>1, WeeklyIsNext DEF IsMoment
<1> QED
  BY <1>2, <1>3, <1>4

-----------------------------------------------------------------------------
(* The loop.                                                               *)

Answer(s, t, l) == IF Invalid(s) THEN None ELSE NextRun(s, t, l)

LEMMA HourFloor ==
  \A e \in Int : e >= 1 => Hour * e \in Int /\ Hour * e >= Hour
<1>1. \A h \in Nat, e \in Int : e >= 1 => h * e \in Int /\ h * e >= h
  BY SMT
<1> QED
  BY <1>1, ScheduleAssumption, ClockAssumption

\* What next_run answers, by the kind of the schedule.
LEMMA AnswerIs ==
  ASSUME NEW s \in Schedule, NEW t \in Nat, NEW l \in Nat \cup {None}
  PROVE  \/ Calendar(s) /\ ~Relative(s) /\ Answer(s, t, l) \in Nat /\ Answer(s, t, l) > t
            /\ IsMoment(s, Answer(s, t, l))
            /\ \A u \in Int : u > t /\ IsMoment(s, u) => u >= Answer(s, t, l)
         \/ Relative(s) /\ ~Calendar(s) /\ Hour * s.every \in Nat /\ Hour * s.every >= Hour
            /\ \/ l = None /\ Answer(s, t, l) = t + Hour * s.every
               \/ l # None /\ Answer(s, t, l) = l + Hour * s.every /\ l + Hour * s.every > t
               \/ l # None /\ Answer(s, t, l) = t /\ l + Hour * s.every <= t
         \/ Answer(s, t, l) = None /\ ~Calendar(s) /\ ~Relative(s)
<1>1. CASE Calendar(s)
  <2>1. ~Relative(s) /\ Answer(s, t, l) = NextRun(s, t, l)
    BY <1>1 DEF Calendar, Relative, Answer
  <2>2. t \in Int
    OBVIOUS
  <2>3. /\ NextRun(s, t, l) \in Int /\ NextRun(s, t, l) > t
        /\ IsMoment(s, NextRun(s, t, l))
        /\ \A u \in Int : u > t /\ IsMoment(s, u) => u >= NextRun(s, t, l)
    BY <1>1, <2>2, NextRunIsNext
  <2>4. NextRun(s, t, l) \in Nat
    BY <2>3
  <2> QED
    BY <1>1, <2>1, <2>3, <2>4
<1>2. CASE Relative(s)
  <2>1. s.enabled /\ ~Invalid(s) /\ s.kind = "interval" /\ ~Calendar(s)
    BY <1>2 DEF Calendar, Relative
  <2>2. PICK e \in Int : e = s.every /\ e >= 1
    BY <2>1 DEF Invalid, Schedule
  <2>3. PICK x \in Nat : x = Hour * e /\ x >= Hour
    BY <2>2, HourFloor, ScheduleAssumption, ClockAssumption
  <2>4. Answer(s, t, l) = NextInterval(s, t, l)
    BY <2>1 DEF Answer, NextRun
  <2>5. CASE l = None
    <3>1. NextInterval(s, t, l) = IF t + x > t THEN t + x ELSE t
      BY <2>2, <2>3, <2>5 DEF NextInterval
    <3>2. t + x > t
      BY <2>3, ScheduleAssumption, ClockAssumption
    <3> QED
      BY <1>2, <2>1, <2>2, <2>3, <2>4, <2>5, <3>1, <3>2
  <2>6. CASE l # None
    <3>1. NextInterval(s, t, l) = IF l + x > t THEN l + x ELSE t
      BY <2>2, <2>3, <2>6 DEF NextInterval
    <3>2. l \in Nat
      BY <2>6
    <3>3. (Answer(s, t, l) = l + x /\ l + x > t) \/ (Answer(s, t, l) = t /\ l + x <= t)
      BY <2>3, <2>4, <3>1, <3>2
    <3> QED
      BY <1>2, <2>1, <2>2, <2>3, <2>6, <3>3
  <2> QED
    BY <2>5, <2>6
<1>3. CASE ~Calendar(s) /\ ~Relative(s)
  <2>1. ~Invalid(s) => ~s.enabled
    BY <1>3 DEF Calendar, Relative
  <2>2. ~s.enabled => NextRun(s, t, l) = None
    BY DEF NextRun
  <2> QED
    BY <1>3, <2>1, <2>2 DEF Answer
<1> QED
  BY <1>1, <1>2, <1>3

\* A round of the loop: it sleeps a TICK, or to the moment it was told.
LEMMA AskIs ==
  ASSUME Ask
  PROVE  /\ up /\ loop = "tick" /\ now >= wake
         /\ next' = Answer(sched, now, last)
         /\ \/ /\ loop' = "tick" /\ wake' = now + Tick
               /\ next' = None \/ next' - now > Tick
            \/ /\ loop' = "due" /\ wake' = next'
               /\ next' # None /\ ~(next' - now > Tick)
         /\ UNCHANGED <<now, late, up, sched, last, manual, began, former, since, edits, crashes>>
BY DEF Ask, Sleep, Answer

-----------------------------------------------------------------------------
(* The inductive invariant, by what it is about.                           *)

\* What is remembered is of the past; a timer is not further off than a TICK, and
\* not later than it may be.
ClockInv ==
    /\ last <= now /\ began <= now /\ manual <= now /\ since <= now
    /\ \A f \in former : f.until <= now
    /\ up /\ loop # "run" => wake <= now + Tick /\ now <= wake + late

\* A run that has ended is in last_run, and the two kinds of run exclude each other.
OrderInv ==
    /\ loop = "run" => manual = None
    /\ loop # "run" => began <= last
    /\ manual # None => last <= manual

\* The loop asked at t, when the schedule was s and last_run was l, and was told a moment
\* at most a TICK away; a change of the schedule since then is remembered.
Asked(t, s, l) ==
    /\ t <= now
    /\ wake = Answer(s, t, l) /\ wake # None /\ wake <= t + Tick
    /\ began <= t /\ began <= l
    /\ l = last \/ t <= last
    /\ \/ s = sched /\ since <= t
       \/ t <= since /\ \E f \in former : f.sched = s /\ t <= f.until
DueInv ==
    up /\ loop = "due" =>
        \E t \in Times, s \in Schedules, l \in Times \cup {None} : Asked(t, s, l)

\* The interval is over when the timer ends or after: but for how late it was asked.
IntervalInv ==
    up /\ Relative(sched) /\ last # None /\ loop # "run" /\ manual = None =>
        /\ loop = "tick" => \/ wake <= last + Hour * sched.every
                            \/ wake <= since + Tick
        /\ loop = "due" => \/ wake <= last + Hour * sched.every + late
                           \/ wake <= since + Tick + late

\* Up to the end of its sleep the loop leaves no moment out.
Covered == IF loop = "tick" THEN wake ELSE wake - 1
MomentInv ==
    late = 0 /\ up /\ Calendar(sched) /\ loop # "run" =>
        \A m \in Int : since + Tick < m /\ m <= Covered /\ IsMoment(sched, m) =>
            m <= now /\ (began >= m \/ manual # None \/ last >= m)

LoopInv == TypeOK /\ ClockInv /\ OrderInv /\ DueInv /\ IntervalInv /\ MomentInv /\ ShownIsNamed

\* The types the arithmetic needs.
LEMMA Ints ==
  ASSUME TypeOK
  PROVE  /\ now \in Nat /\ late \in Nat /\ wake \in Nat /\ since \in Nat
         /\ last \in Int /\ began \in Int /\ manual \in Int
         /\ last \in Nat \cup {None} /\ sched \in Schedule
         /\ Tick \in Nat \ {0} /\ Hour \in Nat /\ Tick < Hour /\ None = -1
         /\ next \in Int
BY JobLoopAssumption, ScheduleAssumption, ClockAssumption DEF TypeOK, Times, None

LEMMA InitHolds ==
  Init => LoopInv
<1> SUFFICES ASSUME Init
             PROVE  LoopInv
  OBVIOUS
<1>1. TypeOK
  BY JobLoopAssumption, ClockAssumption DEF Init, TypeOK, Times, None
<1>2. ClockInv /\ OrderInv /\ DueInv /\ ShownIsNamed
  BY <1>1, Ints DEF Init, ClockInv, OrderInv, DueInv, ShownIsNamed
<1>3. IntervalInv
  BY DEF Init, IntervalInv
<1>4. MomentInv
  BY <1>1, Ints DEF Init, MomentInv, Covered
<1> QED
  BY <1>1, <1>2, <1>3, <1>4 DEF LoopInv

-----------------------------------------------------------------------------
(* Step by step.                                                           *)

\* What was asked stays true while the clock goes on and runs end.
LEMMA AskedKept ==
  ASSUME TypeOK, TypeOK', DueInv, up, loop = "due", now <= now', last' = last \/ last' = now',
         UNCHANGED <<wake, began, sched, since, former>>
  PROVE  \E t \in Times, s \in Schedules, l \in Times \cup {None} : Asked(t, s, l)'
<1>1. PICK t \in Times, s \in Schedules, l \in Times \cup {None} : Asked(t, s, l)
  BY DEF DueInv
<1>2. t \in Nat
  BY DEF Times
<1>3. t <= now' /\ (l = last' \/ t <= last')
  <2>1. now \in Nat /\ now' \in Nat
    BY DEF TypeOK, Times
  <2>2. t <= now /\ (l = last \/ t <= last)
    BY <1>1 DEF Asked
  <2>3. t <= now'
    BY <1>2, <2>1, <2>2
  <2> QED
    BY <2>2, <2>3
<1>4. Asked(t, s, l)'
  BY <1>1, <1>3 DEF Asked
<1> QED
  BY <1>4

LEMMA PassKeeps ==
  ASSUME LoopInv, Pass
  PROVE  LoopInv'
<1>1. /\ now < Horizon /\ now' = now + 1 /\ (up /\ loop # "run" => now < wake + late)
      /\ UNCHANGED <<late, up, sched, last, next, loop, wake, manual, began, former, since,
                     edits, crashes>>
  BY DEF Pass
<1>2. TypeOK /\ ClockInv /\ OrderInv /\ DueInv /\ IntervalInv /\ MomentInv /\ ShownIsNamed
  BY DEF LoopInv
<1>3. /\ now \in Nat /\ now' \in Nat /\ late \in Nat /\ wake \in Nat /\ since \in Nat
      /\ last \in Int /\ began \in Int /\ manual \in Int /\ Horizon \in Nat /\ Tick \in Nat
  BY <1>1, <1>2, Ints, JobLoopAssumption, ClockAssumption
<1>4. TypeOK'
  <2>1. now' \in Times
    BY <1>1, <1>3 DEF Times
  <2> QED
    BY <1>1, <1>2, <2>1 DEF TypeOK
<1>5. ClockInv'
  <2>1. \A f \in former : f.until <= now'
    <3>1. \A f \in former : f.until \in Nat /\ f.until <= now
      BY <1>2 DEF TypeOK, ClockInv, Times
    <3> QED
      BY <1>1, <1>3, <3>1
  <2> QED
    BY <1>1, <1>2, <1>3, <2>1 DEF ClockInv
<1>6. OrderInv' /\ ShownIsNamed'
  BY <1>1, <1>2 DEF OrderInv, ShownIsNamed
<1>7. DueInv'
  <2> SUFFICES ASSUME up, loop = "due"
               PROVE  \E t \in Times, s \in Schedules, l \in Times \cup {None} : Asked(t, s, l)'
    BY <1>1 DEF DueInv
  <2>1. now <= now'
    BY <1>1, <1>3
  <2> QED
    BY <1>1, <1>2, <1>4, <2>1, AskedKept
<1>8. IntervalInv'
  BY <1>1, <1>2 DEF IntervalInv
<1>9. MomentInv'
  <2>1. Covered' = Covered
    BY <1>1 DEF Covered
  <2>2. \A m \in Int : m <= now => m <= now'
    BY <1>1, <1>3
  <2> QED
    BY <1>1, <1>2, <2>1, <2>2 DEF MomentInv
<1> QED
  BY <1>4, <1>5, <1>6, <1>7, <1>8, <1>9 DEF LoopInv

LEMMA AskKeeps ==
  ASSUME LoopInv, Ask
  PROVE  LoopInv'
<1>1. /\ up /\ loop = "tick" /\ now >= wake
      /\ next' = Answer(sched, now, last)
      /\ \/ /\ loop' = "tick" /\ wake' = now + Tick
            /\ next' = None \/ next' - now > Tick
         \/ /\ loop' = "due" /\ wake' = next'
            /\ next' # None /\ ~(next' - now > Tick)
      /\ UNCHANGED <<now, late, up, sched, last, manual, began, former, since, edits, crashes>>
  BY AskIs
<1>2. TypeOK /\ ClockInv /\ OrderInv /\ DueInv /\ IntervalInv /\ MomentInv /\ ShownIsNamed
  BY DEF LoopInv
<1>3. /\ now \in Nat /\ late \in Nat /\ wake \in Nat /\ since \in Nat
      /\ last \in Int /\ began \in Int /\ manual \in Int /\ Tick \in Nat \ {0}
      /\ last \in Nat \cup {None} /\ sched \in Schedule /\ None = -1
      /\ Hour \in Nat /\ Tick < Hour
  BY <1>2, Ints
<1>4. \/ Calendar(sched) /\ ~Relative(sched) /\ next' \in Nat /\ next' > now
         /\ IsMoment(sched, next')
         /\ \A u \in Int : u > now /\ IsMoment(sched, u) => u >= next'
      \/ Relative(sched) /\ ~Calendar(sched)
         /\ Hour * sched.every \in Nat /\ Hour * sched.every >= Hour
         /\ \/ last = None /\ next' = now + Hour * sched.every
            \/ last # None /\ next' = last + Hour * sched.every /\ last + Hour * sched.every > now
            \/ last # None /\ next' = now /\ last + Hour * sched.every <= now
      \/ next' = None /\ ~Calendar(sched) /\ ~Relative(sched)
  BY <1>1, <1>3, AnswerIs
<1>5. next' \in Nat \cup {None} /\ (next' # None => next' >= now)
  <2>1. CASE Relative(sched)
    <3>1. PICK x \in Nat : x = Hour * sched.every
      BY <1>4, <2>1
    <3> QED
      BY <1>3, <1>4, <2>1, <3>1
  <2>2. CASE ~Relative(sched)
    BY <1>3, <1>4, <2>2
  <2> QED
    BY <2>1, <2>2
<1>6. wake' \in Nat /\ wake' <= now + Tick /\ wake' >= now
  BY <1>1, <1>3, <1>5
<1>7. TypeOK'
  BY <1>1, <1>2, <1>5, <1>6 DEF TypeOK
<1>8. ClockInv'
  <2>1. now <= wake' + late
    <3>1. \A a, b, c \in Nat : b >= a => a <= b + c
      OBVIOUS
    <3> QED
      BY <1>3, <1>6, <3>1
  <2> QED
    BY <1>1, <1>2, <1>6, <2>1 DEF ClockInv
<1>9. OrderInv'
  BY <1>1, <1>2 DEF OrderInv
<1>10. DueInv'
  <2> SUFFICES ASSUME loop' = "due"
               PROVE  \E t \in Times, s \in Schedules, l \in Times \cup {None} : Asked(t, s, l)'
    BY DEF DueInv
  <2>1. PICK t \in Times, s \in Schedules, l \in Times \cup {None} :
          t = now /\ s = sched /\ l = last
    BY <1>2 DEF TypeOK
  <2>2. wake' = Answer(s, t, l) /\ wake' # None /\ wake' <= t + Tick
    BY <1>1, <1>6, <2>1
  <2>3. t <= now' /\ began' <= t /\ began' <= l /\ since' <= t
    BY <1>1, <1>2, <1>3, <2>1 DEF ClockInv, OrderInv
  <2>4. Asked(t, s, l)'
    BY <1>1, <2>1, <2>2, <2>3 DEF Asked
  <2> QED
    BY <2>4
<1>11. IntervalInv'
  <2> SUFFICES ASSUME Relative(sched), last # None, manual = None
               PROVE  /\ loop' = "tick" => \/ wake' <= last + Hour * sched.every
                                           \/ wake' <= since + Tick
                      /\ loop' = "due" => \/ wake' <= last + Hour * sched.every + late
                                          \/ wake' <= since + Tick + late
    BY <1>1 DEF IntervalInv
  <2>1. PICK x \in Nat : x = Hour * sched.every
    BY <1>4
  <2>2. wake <= last + x \/ wake <= since + Tick
    BY <1>1, <1>2, <2>1 DEF IntervalInv
  <2>3. (next' = last + x /\ last + x > now) \/ (next' = now /\ last + x <= now)
    BY <1>4, <2>1
  <2>4. now <= wake + late
    BY <1>1, <1>2 DEF ClockInv
  <2>5. loop' = "tick" => wake' <= last + x
    BY <1>1, <1>3, <1>5, <2>3
  <2>6. loop' = "due" => wake' <= last + x + late \/ wake' <= since + Tick + late
    BY <1>1, <1>3, <2>2, <2>3, <2>4
  <2> QED
    BY <2>1, <2>5, <2>6
<1>12. MomentInv'
  <2> SUFFICES ASSUME late = 0, Calendar(sched), NEW m \in Int,
                      since + Tick < m, m <= Covered', IsMoment(sched, m)
               PROVE  m <= now /\ (began >= m \/ manual # None \/ last >= m)
    BY <1>1 DEF MomentInv
  <2>1. now <= wake + late
    BY <1>1, <1>2 DEF ClockInv
  <2>2. Covered = now
    BY <1>1, <1>3, <2>1 DEF Covered
  <2>3. /\ next' \in Nat /\ next' > now
        /\ \A u \in Int : u > now /\ IsMoment(sched, u) => u >= next'
    BY <1>4
  <2>4. Covered' \in Int /\ Covered' < next'
    BY <1>1, <1>3, <2>3 DEF Covered
  <2>5. m <= now
    <3>1. ~(m >= next')
      BY <2>3, <2>4
    <3>2. ~(m > now)
      BY <2>3, <3>1
    <3> QED
      BY <1>3, <3>2
  <2> QED
    BY <1>1, <1>2, <2>2, <2>5 DEF MomentInv
<1>13. ShownIsNamed'
  BY <1>1, <1>4 DEF ShownIsNamed
<1> QED
  BY <1>7, <1>8, <1>9, <1>10, <1>11, <1>12, <1>13 DEF LoopInv

LEMMA FireKeeps ==
  ASSUME LoopInv, Fire
  PROVE  LoopInv'
<1>1. /\ up /\ loop = "due" /\ now >= wake /\ wake' = now
      /\ \/ manual = None /\ loop' = "run" /\ began' = now
         \/ manual # None /\ loop' = "tick" /\ began' = began
      /\ UNCHANGED <<now, late, up, sched, last, next, manual, former, since, edits, crashes>>
  BY DEF Fire
<1>2. TypeOK /\ ClockInv /\ OrderInv /\ DueInv /\ IntervalInv /\ MomentInv /\ ShownIsNamed
  BY DEF LoopInv
<1>3. /\ now \in Nat /\ late \in Nat /\ wake \in Nat /\ since \in Nat
      /\ last \in Int /\ began \in Int /\ manual \in Int /\ Tick \in Nat \ {0}
  BY <1>2, Ints
<1>4. TypeOK'
  BY <1>1, <1>2, <1>3 DEF TypeOK
<1>5. ClockInv'
  <2>1. now <= now + Tick /\ now <= now + late /\ now <= now
    BY <1>3
  <2> QED
    BY <1>1, <1>2, <2>1 DEF ClockInv
<1>6. OrderInv' /\ ShownIsNamed' /\ DueInv' /\ IntervalInv'
  BY <1>1, <1>2 DEF OrderInv, ShownIsNamed, DueInv, IntervalInv
<1>7. MomentInv'
  <2> SUFFICES ASSUME loop' = "tick", NEW m \in Int, m <= now
               PROVE  m <= now /\ manual # None
    BY <1>1 DEF MomentInv, Covered
  <2> QED
    BY <1>1
<1> QED
  BY <1>4, <1>5, <1>6, <1>7 DEF LoopInv

LEMMA FinishKeeps ==
  ASSUME LoopInv, Finish
  PROVE  LoopInv'
<1>1. /\ up /\ loop = "run" /\ loop' = "tick" /\ wake' = now /\ last' = now
      /\ UNCHANGED <<now, late, up, sched, next, manual, began, former, since, edits, crashes>>
  BY DEF Finish
<1>2. TypeOK /\ ClockInv /\ OrderInv /\ DueInv /\ IntervalInv /\ MomentInv /\ ShownIsNamed
  BY DEF LoopInv
<1>3. /\ now \in Nat /\ late \in Nat /\ since \in Nat /\ sched \in Schedule
      /\ began \in Int /\ manual \in Int /\ Tick \in Nat \ {0}
  BY <1>2, Ints
<1>4. TypeOK'
  BY <1>1, <1>2, <1>3 DEF TypeOK
<1>5. ClockInv'
  <2>1. now <= now + Tick /\ now <= now + late /\ now <= now
    BY <1>3
  <2> QED
    BY <1>1, <1>2, <2>1 DEF ClockInv
<1>6. OrderInv' /\ ShownIsNamed' /\ DueInv'
  BY <1>1, <1>2 DEF OrderInv, ShownIsNamed, DueInv, ClockInv
<1>7. IntervalInv'
  <2> SUFFICES ASSUME Relative(sched)
               PROVE  now <= now + Hour * sched.every
    BY <1>1 DEF IntervalInv
  <2>1. PICK e \in Int : e = sched.every /\ e >= 1
    BY <1>3 DEF Relative, Invalid, Schedule
  <2>2. Hour * e \in Int /\ Hour * e >= Hour
    BY <2>1, HourFloor
  <2>3. PICK x \in Int : x = Hour * e /\ x >= 0
    BY <2>2, ScheduleAssumption, ClockAssumption
  <2> QED
    BY <1>3, <2>1, <2>3
<1>8. MomentInv'
  <2> SUFFICES ASSUME NEW m \in Int, m <= now
               PROVE  m <= now /\ now >= m
    BY <1>1 DEF MomentInv, Covered
  <2> QED
    BY <1>3
<1> QED
  BY <1>4, <1>5, <1>6, <1>7, <1>8 DEF LoopInv

\* An interval is longer than a TICK, so a run that has just ended puts the next one off.
LEMMA PutOff ==
  ASSUME NEW s \in Schedule, Relative(s), NEW t \in Nat
  PROVE  t + Tick <= t + Hour * s.every
<1>1. PICK e \in Int : e = s.every /\ e >= 1
  BY DEF Relative, Invalid, Schedule
<1>2. Hour * e \in Int /\ Hour * e >= Hour
  BY <1>1, HourFloor
<1>3. PICK x \in Int : x = Hour * e /\ x >= Hour
  BY <1>2
<1> QED
  BY <1>1, <1>3, ScheduleAssumption, ClockAssumption, JobLoopAssumption

LEMMA ManualKeeps ==
  ASSUME LoopInv, ManualStart \/ ManualFinish
  PROVE  LoopInv'
<1>1. /\ up
      /\ \/ manual = None /\ loop # "run" /\ manual' = now /\ last' = last
         \/ manual # None /\ manual' = None /\ last' = now
      /\ UNCHANGED <<now, late, up, sched, next, loop, wake, began, former, since, edits, crashes>>
  BY DEF ManualStart, ManualFinish
<1>2. TypeOK /\ ClockInv /\ OrderInv /\ DueInv /\ IntervalInv /\ MomentInv /\ ShownIsNamed
  BY DEF LoopInv
<1>3. /\ now \in Nat /\ late \in Nat /\ since \in Nat /\ sched \in Schedule /\ wake \in Nat
      /\ began \in Int /\ manual \in Int /\ Tick \in Nat \ {0} /\ None = -1
  BY <1>2, Ints
<1>4. TypeOK'
  BY <1>1, <1>2, <1>3 DEF TypeOK
<1>5. ClockInv'
  <2>1. now <= now /\ None <= now
    BY <1>3
  <2> QED
    BY <1>1, <1>2, <2>1 DEF ClockInv
<1>6. OrderInv'
  <2>1. loop' = "run" => manual' = None
    BY <1>1, <1>2 DEF OrderInv
  <2>2. began <= now /\ (manual # None => last <= manual) /\ last <= now
    BY <1>2 DEF OrderInv, ClockInv
  <2>3. loop' # "run" => began' <= last'
    BY <1>1, <1>2, <2>2 DEF OrderInv
  <2>4. manual' # None => last' <= manual'
    BY <1>1, <2>2
  <2> QED
    BY <2>1, <2>3, <2>4 DEF OrderInv
<1>7. ShownIsNamed'
  BY <1>1, <1>2 DEF ShownIsNamed
<1>8. DueInv'
  <2> SUFFICES ASSUME up, loop = "due"
               PROVE  \E t \in Times, s \in Schedules, l \in Times \cup {None} : Asked(t, s, l)'
    BY <1>1 DEF DueInv
  <2>1. now <= now' /\ (last' = last \/ last' = now')
    BY <1>1, <1>3
  <2> QED
    BY <1>1, <1>2, <1>4, <2>1, AskedKept
<1>9. IntervalInv'
  <2> SUFFICES ASSUME Relative(sched), manual' = None, loop # "run"
               PROVE  /\ wake <= last' + Hour * sched.every
                      /\ wake <= last' + Hour * sched.every + late
    BY <1>1 DEF IntervalInv
  <2>1. last' = now
    <3>1. now # None
      BY <1>3
    <3> QED
      BY <1>1, <3>1
  <2>2. wake <= now + Tick
    BY <1>1, <1>2 DEF ClockInv
  <2>3. now + Tick <= now + Hour * sched.every
    BY <1>3, PutOff
  <2>4. PICK e \in Int : e = sched.every /\ e >= 1
    BY <1>3 DEF Relative, Invalid, Schedule
  <2>5. PICK x \in Int : x = Hour * e
    BY <2>4, HourFloor
  <2>6. wake <= now + x
    BY <1>3, <2>2, <2>3, <2>4, <2>5
  <2>7. wake <= now + x + late
    BY <1>3, <2>5, <2>6
  <2> QED
    BY <2>1, <2>4, <2>5, <2>6, <2>7
<1>10. MomentInv'
  <2> SUFFICES ASSUME late = 0, Calendar(sched), loop # "run", NEW m \in Int,
                      since + Tick < m, m <= Covered, IsMoment(sched, m)
               PROVE  m <= now /\ (began >= m \/ manual' # None \/ last' >= m)
    BY <1>1 DEF MomentInv, Covered
  <2>1. m <= now /\ (began >= m \/ manual # None \/ last >= m)
    BY <1>1, <1>2 DEF MomentInv
  <2>2. now # None /\ now >= m
    BY <1>3, <2>1
  <2> QED
    BY <1>1, <2>1, <2>2
<1> QED
  BY <1>4, <1>5, <1>6, <1>7, <1>8, <1>9, <1>10 DEF LoopInv

LEMMA EditKeeps ==
  ASSUME LoopInv, Edit
  PROVE  LoopInv'
<1>1. /\ up /\ edits < MaxEdits /\ edits' = edits + 1
      /\ sched' \in Schedules /\ next' = None /\ since' = now
      /\ former' = former \cup {[sched |-> sched, until |-> now]}
      /\ UNCHANGED <<now, late, up, last, loop, wake, manual, began, crashes>>
  BY DEF Edit
<1>2. TypeOK /\ ClockInv /\ OrderInv /\ DueInv /\ IntervalInv /\ MomentInv /\ ShownIsNamed
  BY DEF LoopInv
<1>3. /\ now \in Nat /\ late \in Nat /\ since \in Nat /\ sched \in Schedule /\ wake \in Nat
      /\ began \in Int /\ manual \in Int /\ Tick \in Nat \ {0} /\ None = -1
  BY <1>2, Ints
<1>4. [sched |-> sched, until |-> now] \in [sched : Schedules, until : Times]
  BY <1>2 DEF TypeOK
<1>5. edits' \in 0..MaxEdits
  BY <1>1, <1>2, JobLoopAssumption, ClockAssumption DEF TypeOK
<1>6. TypeOK'
  BY <1>1, <1>2, <1>3, <1>4, <1>5 DEF TypeOK
<1>7. ClockInv'
  <2>1. \A f \in former' : f.until <= now
    <3>1. [sched |-> sched, until |-> now].until = now /\ now <= now
      BY <1>3
    <3> QED
      BY <1>1, <1>2, <3>1 DEF ClockInv
  <2>2. now <= now
    BY <1>3
  <2> QED
    BY <1>1, <1>2, <2>1, <2>2 DEF ClockInv
<1>8. OrderInv' /\ ShownIsNamed'
  BY <1>1, <1>2 DEF OrderInv, ShownIsNamed
<1>9. DueInv'
  <2> SUFFICES ASSUME loop = "due"
               PROVE  \E t \in Times, s \in Schedules, l \in Times \cup {None} : Asked(t, s, l)'
    BY <1>1 DEF DueInv
  <2>1. PICK t \in Times, s \in Schedules, l \in Times \cup {None} : Asked(t, s, l)
    BY <1>1, <1>2 DEF DueInv
  <2>2. t <= now
    BY <2>1 DEF Asked
  <2>3. \E f \in former' : f.sched = s /\ t <= f.until
    <3>1. CASE s = sched
      <4>1. PICK f : f = [sched |-> s, until |-> now]
        OBVIOUS
      <4>2. f \in former' /\ f.sched = s /\ f.until = now
        BY <1>1, <3>1, <4>1
      <4> QED
        BY <2>2, <4>2
    <3>2. CASE s # sched
      BY <1>1, <2>1, <3>2 DEF Asked
    <3> QED
      BY <3>1, <3>2
  <2>4. Asked(t, s, l)'
    BY <1>1, <2>1, <2>2, <2>3 DEF Asked
  <2> QED
    BY <2>4
<1>10. IntervalInv'
  <2>1. up /\ loop # "run" => wake <= now + Tick /\ wake <= now + Tick + late
    <3>1. up /\ loop # "run" => wake <= now + Tick
      BY <1>2 DEF ClockInv
    <3> QED
      BY <1>3, <3>1
  <2> QED
    BY <1>1, <2>1 DEF IntervalInv
<1>11. MomentInv'
  <2>1. ASSUME loop # "run", NEW m \in Int, now + Tick < m, m <= Covered
        PROVE  FALSE
    <3>1. wake <= now + Tick
      BY <1>1, <1>2, <2>1 DEF ClockInv
    <3> QED
      BY <1>3, <2>1, <3>1 DEF Covered
  <2>2. Covered' = Covered
    BY <1>1 DEF Covered
  <2> QED
    BY <1>1, <2>1, <2>2 DEF MomentInv
<1> QED
  BY <1>6, <1>7, <1>8, <1>9, <1>10, <1>11 DEF LoopInv

LEMMA RestartKeeps ==
  ASSUME LoopInv, Crash \/ Boot
  PROVE  LoopInv'
<1>2. TypeOK /\ ClockInv /\ OrderInv /\ DueInv /\ IntervalInv /\ MomentInv /\ ShownIsNamed
  BY DEF LoopInv
<1>3. /\ now \in Nat /\ late \in Nat /\ since \in Nat /\ sched \in Schedule /\ wake \in Nat
      /\ began \in Int /\ manual \in Int /\ Tick \in Nat \ {0} /\ None = -1
  BY <1>2, Ints
<1>4. CASE Crash
  <2>1. /\ crashes < MaxCrashes /\ crashes' = crashes + 1 /\ up' = FALSE
        /\ UNCHANGED <<now, late, sched, last, next, loop, wake, manual, began, former, since,
                       edits>>
    BY <1>4 DEF Crash
  <2>2. crashes' \in 0..MaxCrashes
    BY <1>2, <2>1, JobLoopAssumption, ClockAssumption DEF TypeOK
  <2>3. TypeOK'
    BY <1>2, <2>1, <2>2 DEF TypeOK
  <2>4. ClockInv' /\ OrderInv' /\ DueInv' /\ ShownIsNamed'
    BY <1>2, <2>1 DEF ClockInv, OrderInv, DueInv, ShownIsNamed
  <2>5. IntervalInv' /\ MomentInv'
    BY <2>1 DEF IntervalInv, MomentInv
  <2> QED
    BY <2>3, <2>4, <2>5 DEF LoopInv
<1>5. CASE Boot
  <2>1. /\ up' = TRUE /\ loop' = "tick" /\ wake' = now /\ manual' = None
        /\ last' = IF loop = "run" THEN began ELSE IF manual # None THEN manual ELSE last
        /\ former' = {} /\ since' = now
        /\ UNCHANGED <<now, late, sched, next, began, edits, crashes>>
    BY <1>5 DEF Boot
  <2>2. last' \in Times \cup {None}
    BY <1>2, <2>1 DEF TypeOK
  <2>3. TypeOK'
    BY <1>2, <1>3, <2>1, <2>2 DEF TypeOK
  <2>4. now <= now /\ None <= now /\ now <= now + Tick /\ now <= now + late
    BY <1>3
  <2>5. began <= now /\ manual <= now /\ last <= now /\ (loop # "run" => began <= last)
        /\ (manual # None => last <= manual)
    BY <1>2 DEF ClockInv, OrderInv
  <2>6. last' <= now /\ began <= last'
    <3>1. last \in Int /\ began <= began
      BY <1>2, Ints
    <3>2. CASE loop = "run"
      BY <2>1, <2>5, <3>1, <3>2
    <3>3. CASE loop # "run" /\ manual # None
      BY <1>3, <2>1, <2>5, <3>1, <3>3
    <3>4. CASE loop # "run" /\ manual = None
      BY <2>1, <2>5, <3>4
    <3> QED
      BY <3>2, <3>3, <3>4
  <2>7. ClockInv'
    BY <1>2, <2>1, <2>4, <2>5, <2>6 DEF ClockInv
  <2>8. OrderInv' /\ DueInv' /\ ShownIsNamed'
    BY <1>2, <2>1, <2>6 DEF OrderInv, DueInv, ShownIsNamed
  <2>9. IntervalInv'
    BY <2>1, <2>4 DEF IntervalInv
  <2>10. MomentInv'
    <3>1. ASSUME NEW m \in Int, now + Tick < m, m <= now
          PROVE  FALSE
      BY <1>3, <3>1
    <3> QED
      BY <2>1, <3>1 DEF MomentInv, Covered
  <2> QED
    BY <2>3, <2>7, <2>8, <2>9, <2>10 DEF LoopInv
<1> QED
  BY <1>4, <1>5

LEMMA LoopKept ==
  ASSUME LoopInv, [Next]_vars
  PROVE  LoopInv'
<1>1. CASE Pass
  BY <1>1, PassKeeps
<1>2. CASE Ask
  BY <1>2, AskKeeps
<1>3. CASE Fire
  BY <1>3, FireKeeps
<1>4. CASE Finish
  BY <1>4, FinishKeeps
<1>5. CASE ManualStart \/ ManualFinish
  BY <1>5, ManualKeeps
<1>6. CASE Edit
  BY <1>6, EditKeeps
<1>7. CASE Crash \/ Boot
  BY <1>7, RestartKeeps
<1>8. CASE UNCHANGED vars
  <2>1. UNCHANGED <<now, late, up, sched, last, next, loop, wake, manual, began, former, since,
                    edits, crashes>>
    BY <1>8 DEF vars
  <2>2. TypeOK /\ ClockInv /\ OrderInv /\ DueInv /\ IntervalInv /\ MomentInv /\ ShownIsNamed
    BY DEF LoopInv
  <2>3. TypeOK' /\ ClockInv' /\ OrderInv' /\ ShownIsNamed'
    BY <2>1, <2>2 DEF TypeOK, ClockInv, OrderInv, ShownIsNamed
  <2>4. DueInv'
    BY <2>1, <2>2 DEF DueInv, Asked
  <2>5. IntervalInv' /\ MomentInv'
    BY <2>1, <2>2 DEF IntervalInv, MomentInv, Covered
  <2> QED
    BY <2>3, <2>4, <2>5 DEF LoopInv
<1> QED
  BY <1>1, <1>2, <1>3, <1>4, <1>5, <1>6, <1>7, <1>8 DEF Next

LEMMA InvHolds ==
  Spec => []LoopInv
<1>1. LoopInv /\ [Next]_vars => LoopInv'
  BY LoopKept
<1> QED
  BY InitHolds, <1>1, PTL DEF Spec

-----------------------------------------------------------------------------
(* What follows.                                                           *)

LEMMA LoopServes ==
  ASSUME LoopInv
  PROVE  ScheduleKept
<1>1. TypeOK /\ ClockInv /\ OrderInv /\ DueInv /\ IntervalInv /\ MomentInv /\ ShownIsNamed
  BY DEF LoopInv
<1>2. /\ now \in Nat /\ late \in Nat /\ since \in Nat /\ sched \in Schedule /\ wake \in Nat
      /\ last \in Int /\ Tick \in Nat \ {0}
  BY <1>1, Ints
<1>3. IntervalServed
  <2> SUFFICES ASSUME up, Relative(sched), last # None, loop # "run", manual = None
               PROVE  \/ now <= last + Hour * sched.every + 2 * late
                      \/ now <= since + Tick + 2 * late
    BY DEF IntervalServed
  <2>1. now <= wake + late /\ loop \in {"tick", "due"}
    BY <1>1 DEF ClockInv, TypeOK
  <2>2. PICK e \in Int : e = sched.every /\ e >= 1
    BY <1>2 DEF Relative, Invalid, Schedule
  <2>3. PICK x \in Int : x = Hour * e
    BY <2>2, HourFloor
  <2>4. \/ wake <= last + x
        \/ wake <= since + Tick
        \/ wake <= last + x + late
        \/ wake <= since + Tick + late
    BY <1>1, <2>1, <2>2, <2>3 DEF IntervalInv
  <2>5. now <= last + x + 2 * late \/ now <= since + Tick + 2 * late
    BY <1>2, <2>1, <2>3, <2>4
  <2> QED
    BY <2>2, <2>3, <2>5
<1>4. ServedOnTime
  <2> SUFFICES ASSUME late = 0, up, Calendar(sched), loop # "run",
                      NEW m \in since + Tick + late + 1 .. now - late - 1, IsMoment(sched, m)
               PROVE  began >= m \/ manual # None \/ last >= m
    BY DEF ServedOnTime, MomentServed
  <2>1. m \in Int /\ since + Tick < m /\ m <= now - 1
    BY <1>2
  <2>2. now <= wake
    BY <1>1, <1>2 DEF ClockInv
  <2>3. m <= Covered
    BY <1>2, <2>1, <2>2 DEF Covered
  <2> QED
    BY <1>1, <2>1, <2>3 DEF MomentInv
<1> QED
  BY <1>1, <1>3, <1>4 DEF ScheduleKept

\* The loop of one job keeps its schedule, for any lengths of day, week and TICK, any
\* lateness of the timers and any number of edits and restarts (Scheduler._job_loop).
THEOREM TheLoopKeepsTheSchedule ==
  Spec => []ScheduleKept
<1>1. LoopInv => ScheduleKept
  BY LoopServes
<1> QED
  BY InvHolds, <1>1, PTL

\* What the loop goes by when it starts the job.
LEMMA StartIs ==
  ASSUME LoopInv, [Next]_vars, loop # "run", loop' = "run"
  PROVE  /\ up /\ loop = "due" /\ now >= wake /\ now <= wake + late /\ manual = None
         /\ \E t \in Times, s \in Schedules, l \in Times \cup {None} : Asked(t, s, l)
<1>1. Fire /\ manual = None
  BY DEF Next, vars, Pass, Ask, Sleep, Fire, Finish, ManualStart, ManualFinish, Edit, Crash, Boot
<1>2. up /\ loop = "due" /\ now >= wake
  BY <1>1 DEF Fire
<1> QED
  BY <1>1, <1>2 DEF LoopInv, ClockInv, DueInv

LEMMA DueWhenStarted ==
  ASSUME LoopInv, now >= wake, now <= wake + late,
         NEW t \in Times, NEW s \in Schedules, NEW l \in Times \cup {None}, Asked(t, s, l)
  PROVE  /\ IsDue(s) /\ now <= t + Tick + late
         /\ Calendar(s) => \E m \in now - late .. now : IsMoment(s, m) /\ began < m
         /\ Relative(s) /\ began # None => now >= began + Hour * s.every
<1>1. /\ now \in Nat /\ late \in Nat /\ wake \in Nat /\ last \in Int /\ began \in Int
      /\ Tick \in Nat \ {0} /\ Hour \in Nat /\ Tick < Hour /\ None = -1
  BY Ints DEF LoopInv
<1>2. s \in Schedule /\ t \in Nat /\ l \in Nat \cup {None}
  BY JobLoopAssumption, ClockAssumption DEF Times
<1>3. /\ wake = Answer(s, t, l) /\ wake # None /\ wake <= t + Tick
      /\ began <= t /\ began <= l /\ (l = last \/ t <= last)
  BY DEF Asked
<1>4. \/ Calendar(s) /\ ~Relative(s) /\ wake > t /\ IsMoment(s, wake)
      \/ Relative(s) /\ ~Calendar(s) /\ Hour * s.every \in Nat /\ Hour * s.every >= Hour
         /\ \/ l = None /\ wake = t + Hour * s.every
            \/ l # None /\ wake = l + Hour * s.every
            \/ l # None /\ wake = t /\ l + Hour * s.every <= t
  BY <1>2, <1>3, AnswerIs
<1>5. now <= t + Tick + late
  BY <1>1, <1>2, <1>3
<1>6. CASE Calendar(s)
  <2>1. ~Relative(s) /\ wake > t /\ IsMoment(s, wake)
    BY <1>4, <1>6
  <2>2. wake \in now - late .. now /\ began < wake
    BY <1>1, <1>2, <1>3, <2>1
  <2>3. IsDue(s)
    BY <1>6, <2>1, <2>2 DEF IsDue
  <2> QED
    BY <1>5, <2>1, <2>2, <2>3
<1>7. CASE Relative(s)
  <2>1. ~Calendar(s)
    BY <1>4, <1>7
  <2>2. PICK x \in Nat : x = Hour * s.every /\ x >= Hour
    BY <1>4, <2>1
  <2>3. l # None
    <3> SUFFICES ASSUME l = None
                 PROVE  FALSE
      OBVIOUS
    <3>1. wake = t + x
      BY <1>4, <2>1, <2>2
    <3> QED
      BY <1>1, <1>2, <1>3, <2>2, <3>1
  <2>4. l \in Nat /\ wake >= l + x
    BY <1>1, <1>2, <1>4, <2>1, <2>2, <2>3
  <2>5. now >= l + x
    BY <1>1, <2>2, <2>4
  <2>6. last # None
    BY <1>1, <1>2, <1>3, <2>4
  <2>7. now >= last + x \/ now <= last + Tick + late
    <3>1. CASE l = last
      BY <2>5, <3>1
    <3>2. CASE t <= last
      BY <1>1, <1>2, <1>5, <3>2
    <3> QED
      BY <1>3, <3>1, <3>2
  <2>8. now >= began + x
    BY <1>1, <1>3, <2>2, <2>4, <2>5
  <2>9. IsDue(s)
    BY <1>7, <2>2, <2>6, <2>7 DEF IsDue
  <2> QED
    BY <1>5, <2>1, <2>2, <2>8, <2>9
<1> QED
  BY <1>4, <1>6, <1>7

\* The loop starts the job only when the schedule it asked has it due, and a schedule
\* that was changed is not gone by for longer than a TICK (Scheduler._job_loop).
THEOREM StartsAreDue ==
  Spec => OnlyWhenDue
<1>1. LoopInv /\ [Next]_vars =>
        [loop # "run" /\ loop' = "run" =>
           \/ IsDue(sched)
           \/ \E f \in former : now <= f.until + Tick + late /\ IsDue(f.sched)]_vars
  <2> SUFFICES ASSUME LoopInv, [Next]_vars, loop # "run", loop' = "run"
               PROVE  \/ IsDue(sched)
                      \/ \E f \in former : now <= f.until + Tick + late /\ IsDue(f.sched)
    OBVIOUS
  <2>1. /\ up /\ loop = "due" /\ now >= wake /\ now <= wake + late
        /\ \E t \in Times, s \in Schedules, l \in Times \cup {None} : Asked(t, s, l)
    BY StartIs
  <2>2. PICK t \in Times, s \in Schedules, l \in Times \cup {None} : Asked(t, s, l)
    BY <2>1
  <2>3. IsDue(s) /\ now <= t + Tick + late
    BY <2>1, <2>2, DueWhenStarted
  <2>4. s = sched \/ \E f \in former : f.sched = s /\ t <= f.until
    BY <2>2 DEF Asked
  <2>5. CASE s = sched
    BY <2>3, <2>5
  <2>6. CASE s # sched
    <3>1. PICK f \in former : f.sched = s /\ t <= f.until
      BY <2>4, <2>6
    <3>2. f.until \in Nat /\ t \in Nat /\ now \in Nat /\ late \in Nat /\ Tick \in Nat
      BY Ints DEF LoopInv, TypeOK, Times
    <3>3. now <= f.until + Tick + late
      BY <2>3, <3>1, <3>2
    <3> QED
      BY <2>3, <3>1, <3>3
  <2> QED
    BY <2>5, <2>6
<1> QED
  BY InvHolds, <1>1, PTL DEF Spec, OnlyWhenDue

\* A moment of the calendar starts the job once, and an interval separates its starts,
\* also after a restart (Scheduler._job_loop runs without asking again).
THEOREM MomentsServeOnce ==
  Spec => OncePerMoment
<1>1. LoopInv /\ [Next]_vars =>
        [loop # "run" /\ loop' = "run" /\ since + Tick + late < now =>
           /\ Calendar(sched) => \E m \in now - late .. now : IsMoment(sched, m) /\ began < m
           /\ Relative(sched) /\ began # None => now >= began + Hour * sched.every]_vars
  <2> SUFFICES ASSUME LoopInv, [Next]_vars, loop # "run", loop' = "run",
                      since + Tick + late < now
               PROVE  /\ Calendar(sched) =>
                           \E m \in now - late .. now : IsMoment(sched, m) /\ began < m
                      /\ Relative(sched) /\ began # None => now >= began + Hour * sched.every
    OBVIOUS
  <2>1. /\ up /\ loop = "due" /\ now >= wake /\ now <= wake + late
        /\ \E t \in Times, s \in Schedules, l \in Times \cup {None} : Asked(t, s, l)
    BY StartIs
  <2>2. PICK t \in Times, s \in Schedules, l \in Times \cup {None} : Asked(t, s, l)
    BY <2>1
  <2>3. /\ now <= t + Tick + late
        /\ Calendar(s) => \E m \in now - late .. now : IsMoment(s, m) /\ began < m
        /\ Relative(s) /\ began # None => now >= began + Hour * s.every
    BY <2>1, <2>2, DueWhenStarted
  <2>4. since \in Nat /\ t \in Nat /\ now \in Nat /\ late \in Nat /\ Tick \in Nat
    BY Ints DEF LoopInv, TypeOK, Times
  <2>5. since < t
    BY <2>3, <2>4
  <2>6. s = sched
    BY <2>2, <2>4, <2>5 DEF Asked
  <2> QED
    BY <2>3, <2>6
<1> QED
  BY InvHolds, <1>1, PTL DEF Spec, OncePerMoment

\* Both: whatever the lengths of hour, day and week, the loop starts its job when it is due,
\* and once (Scheduler._job_loop).
THEOREM StartsAreOwed ==
  Spec => EachStartIsOwed
BY StartsAreDue, MomentsServeOnce, PTL DEF EachStartIsOwed

-----------------------------------------------------------------------------
(* UpdateWindow: its windows, which are as long as they are and open a day *)
(* apart, wherever midnight falls.                                         *)

\* Remainders of what is within a day of midnight.
LEMMA Small ==
  ASSUME NEW D \in Nat \ {0}, NEW x \in Int
  PROVE  /\ 0 <= x /\ x < D => x % D = x
         /\ -D <= x /\ x < 0 => x % D = x + D
<1>1. ASSUME 0 <= x, x < D
      PROVE  x % D = x
  <2>1. x = D * 0 + x
    OBVIOUS
  <2> QED
    BY <1>1, <2>1, Quotient
<1>2. ASSUME -D <= x, x < 0
      PROVE  x % D = x + D
  <2>1. PICK y \in Int : y = x + D
    OBVIOUS
  <2>2. x = D * (-1) + y /\ 0 <= y /\ y < D
    BY <1>2, <2>1
  <2>3. x % D = y
    BY <2>2, Quotient
  <2> QED
    BY <2>1, <2>3
<1> QED
  BY <1>1, <1>2

\* The openings of a window are days apart.
LEMMA Openings ==
  ASSUME NEW o \in Int, NEW p \in Int, o % Day = p % Day, o < p
  PROVE  o + Day <= p
<1>1. Day \in Nat \ {0}
  BY ClockAssumption, UpdateWindowAssumption DEF Constants
<1>2. PICK a \in Int, b \in Int, r \in Int : o = Day * a + r /\ p = Day * b + r
  <2>1. o \div Day \in Int /\ o % Day \in Int /\ o = Day * (o \div Day) + (o % Day)
    BY <1>1, Division
  <2>2. p \div Day \in Int /\ p = Day * (p \div Day) + (o % Day)
    BY <1>1, Division
  <2> QED
    BY <2>1, <2>2
<1>3. PICK x \in Int, y \in Int : x = Day * a /\ y = Day * b
  BY <1>1
<1>4. /\ a < b => x + Day <= y
      /\ b < a => y + Day <= x
  BY <1>1, <1>3, OneUp
<1>5. a = b => x = y
  BY <1>3
<1>6. o = x + r /\ p = y + r
  BY <1>2, <1>3
<1> QED
  BY <1>1, <1>4, <1>5, <1>6

\* The midnight before t, and a time of that day and of the day before.
LEMMA MidnightBefore ==
  ASSUME NEW t \in Int, NEW f \in Int, 0 <= f, f < Day
  PROVE  \E d, r \in Int :
           /\ t = d + r /\ 0 <= r /\ r < Day /\ (Day <= t => Day <= d)
           /\ r = t % Day
           /\ \A x \in Int : x = d + f \/ x = d + f - Day => x % Day = f
<1>1. Day \in Nat \ {0}
  BY ClockAssumption, UpdateWindowAssumption DEF Constants
<1>2. PICK q \in Int, r \in Int : r = t % Day /\ 0 <= r /\ r < Day /\ t = Day * q + r
  BY <1>1, Division
<1>3. PICK d \in Int, one \in Int, p \in Int : d = Day * q /\ one = 1 /\ p = q - 1
  BY <1>1
<1>4. t = d + r
  BY <1>2, <1>3
<1>5. Day <= t => Day <= d
  <2>1. Day * one = Day
    BY <1>1, <1>3
  <2>2. /\ q < one => d + Day <= Day
        /\ one < q => Day + Day <= d
    BY <1>1, <1>3, <2>1, OneUp
  <2>3. q = one => d = Day
    BY <1>1, <1>3, <2>1
  <2> QED
    BY <1>1, <1>2, <1>3, <1>4, <2>2, <2>3
<1>6. ASSUME NEW x \in Int, x = d + f
      PROVE  x % Day = f
  <2>1. x = Day * q + f
    BY <1>3, <1>6
  <2> QED
    BY <1>1, <2>1, Quotient
<1>7. ASSUME NEW x \in Int, x = d + f - Day
      PROVE  x % Day = f
  <2>1. x = Day * p + f
    <3>1. PICK e \in Int : e = Day * p
      BY <1>1, <1>3
    <3>2. d = e + Day
      BY <1>1, <1>3, <3>1
    <3> QED
      BY <1>1, <1>7, <3>1, <3>2
  <2> QED
    BY <1>1, <1>3, <2>1, Quotient
<1>8. r = t % Day /\ 0 <= r /\ r < Day
  BY <1>2
<1> QED
  BY <1>4, <1>5, <1>6, <1>7, <1>8

\* A window's length is less than a day, and more than nothing.
LEMMA LengthIs ==
  ASSUME NEW m \in Machines
  PROVE  \E f, t, n \in Int :
           /\ f = Window[m].from /\ t = Window[m].to /\ n = Length(m)
           /\ 0 <= f /\ f < Day /\ 0 <= t /\ t < Day
           /\ (f < t /\ n = t - f) \/ (t < f /\ n = t - f + Day)
<1>1. PICK f \in Int, t \in Int :
        /\ f = Window[m].from /\ t = Window[m].to
        /\ 0 <= f /\ f < Day /\ 0 <= t /\ t < Day /\ f # t /\ Day \in Nat \ {0}
  <2>1. Day \in Nat \ {0}
    BY ClockAssumption
  <2>2. /\ Window[m] \in [from : 0 .. Day - 1, to : 0 .. Day - 1]
        /\ Window[m].from # Window[m].to
    BY UpdateWindowAssumption DEF Constants
  <2>3. /\ Window[m].from \in 0 .. Day - 1 /\ Window[m].to \in 0 .. Day - 1
    BY <2>2
  <2>4. /\ Window[m].from \in Int /\ 0 <= Window[m].from /\ Window[m].from < Day
        /\ Window[m].to \in Int /\ 0 <= Window[m].to /\ Window[m].to < Day
    BY <2>1, <2>3
  <2> QED
    BY <2>1, <2>2, <2>4
<1>2. PICK x \in Int, y \in Int : x = t - f /\ y = x + Day
  BY <1>1
<1>3. /\ 0 <= x /\ x < Day => x % Day = x
      /\ -Day <= x /\ x < 0 => x % Day = y
  BY <1>1, <1>2, Small
<1>4. PICK n \in Int : n = x % Day
  BY <1>1, Division
<1>5. (f < t /\ n = x) \/ (t < f /\ n = y)
  <2>1. f < t => 0 <= x /\ x < Day
    BY <1>1, <1>2
  <2>2. t < f => -Day <= x /\ x < 0
    BY <1>1, <1>2
  <2>3. f < t \/ t < f
    BY <1>1
  <2> QED
    BY <1>3, <1>4, <2>1, <2>2, <2>3, Zenon
<1>6. n = Length(m)
  BY <1>1, <1>2, <1>4 DEF Length
<1> QED
  BY <1>1, <1>2, <1>5, <1>6

\* What is open at t is the window that opened last, for its length.
LEMMA OpeningIs ==
  ASSUME NEW m \in Machines, NEW t \in Int, Day <= t
  PROVE  /\ Opening(Window[m], t) \in Int
         /\ Opening(Window[m], t) # None =>
              /\ IsOpening(m, Opening(Window[m], t))
              /\ Opening(Window[m], t) <= t
              /\ t < Opening(Window[m], t) + Length(m)
         /\ \A o \in Int : IsOpening(m, o) /\ o <= t /\ t < o + Length(m) =>
              Opening(Window[m], t) = o /\ o # None
<1>1. PICK f \in Int, to \in Int, len \in Int :
        /\ f = Window[m].from /\ to = Window[m].to /\ len = Length(m)
        /\ 0 <= f /\ f < Day /\ 0 <= to /\ to < Day
        /\ (f < to /\ len = to - f) \/ (to < f /\ len = to - f + Day)
  BY LengthIs
<1>2. Day \in Nat \ {0}
  BY ClockAssumption, UpdateWindowAssumption DEF Constants
<1>3. PICK d \in Int, r \in Int :
        /\ t = d + r /\ 0 <= r /\ r < Day /\ (Day <= t => Day <= d)
        /\ r = t % Day
        /\ \A x \in Int : x = d + f \/ x = d + f - Day => x % Day = f
  <2>1. f \in Int /\ 0 <= f /\ f < Day
    BY <1>1
  <2> QED
    BY <2>1, MidnightBefore
<1>4. t = d + r /\ 0 <= r /\ r < Day /\ Day <= d
  BY <1>3
<1>5. PICK x \in Int, y \in Int : x = d + f /\ y = d + f - Day
  BY <1>2
<1>6. x % Day = f /\ y % Day = f
  BY <1>3, <1>5
<1>7. PICK op \in Int : op = Opening(Window[m], t)
                       /\ \/ f < to /\ f <= r /\ r < to /\ op = x
                          \/ f > to /\ r >= f /\ op = x
                          \/ f > to /\ r < to /\ op = y
                          \/ op = -1 /\ ~(f < to /\ f <= r /\ r < to)
                                    /\ ~(f > to /\ (r >= f \/ r < to))
  <2>1. t - (t % Day) = d
    BY <1>2, <1>3
  <2>2. r = t % Day /\ f = Window[m].from /\ to = Window[m].to
    BY <1>1, <1>3
  <2>3. x = t - (t % Day) + f /\ y = t - (t % Day) + f - Day
    BY <1>2, <1>5, <2>1
  <2>4. Opening(Window[m], t) =
          CASE f < to /\ f <= r /\ r < to -> x
            [] f > to /\ r >= f -> x
            [] f > to /\ r < to -> y
            [] OTHER -> -1
    BY <2>2, <2>3 DEF Opening, None
  <2>5. -1 \in Int
    OBVIOUS
  <2> QED
    BY <1>1, <1>2, <1>4, <2>4, <2>5
<1>8. op # -1 => op <= t /\ t < op + len
  BY <1>1, <1>2, <1>4, <1>5, <1>7
<1>9. op # -1 => op % Day = f
  BY <1>6, <1>7
<1>10. ASSUME NEW o \in Int, o % Day = f, o <= t, t < o + len
       PROVE  op = o /\ o # -1
  <2>1. /\ x < o => x + Day <= o
        /\ o < y => o + Day <= y
        /\ y < o => y + Day <= o
    BY <1>6, <1>10, Openings
  <2>2. o = x \/ o = y
    BY <1>1, <1>2, <1>4, <1>5, <1>10, <2>1
  <2> QED
    BY <1>1, <1>2, <1>4, <1>5, <1>7, <1>10, <2>2
<1>11. \A o : IsOpening(m, o) <=> o % Day = f
  BY <1>1 DEF IsOpening
<1> QED
  BY <1>1, <1>7, <1>8, <1>9, <1>10, <1>11 DEF None

\* The night of a moment is the latest opening up to it.
LEMMA NightIs ==
  ASSUME NEW m \in Machines, NEW t \in Int
  PROVE  /\ NightOf(m, t) \in Int
         /\ IsOpening(m, NightOf(m, t))
         /\ NightOf(m, t) <= t /\ t < NightOf(m, t) + Day
         /\ \A o \in Int : IsOpening(m, o) /\ o <= t => o <= NightOf(m, t)
<1>1. PICK f \in Int : f = Window[m].from /\ 0 <= f /\ f < Day
  BY LengthIs
<1>2. Day \in Nat \ {0}
  BY ClockAssumption, UpdateWindowAssumption DEF Constants
<1>3. PICK q \in Int, r \in Int : r = (t - f) % Day /\ 0 <= r /\ r < Day /\ t - f = Day * q + r
  <2>1. PICK x \in Int : x = t - f
    BY <1>1
  <2>2. PICK q \in Int, r \in Int : r = x % Day /\ 0 <= r /\ r < Day /\ x = Day * q + r
    BY <1>2, Division
  <2> QED
    BY <2>1, <2>2
<1>4. PICK n \in Int : n = t - r
  OBVIOUS
<1>5. NightOf(m, t) = n
  BY <1>1, <1>3, <1>4 DEF NightOf
<1>6. n % Day = f
  <2>1. n = Day * q + f
    <3>1. PICK d \in Int : d = Day * q
      BY <1>2
    <3> QED
      BY <1>1, <1>3, <1>4, <3>1
  <2> QED
    BY <1>1, <1>2, <2>1, Quotient
<1>7. ASSUME NEW o \in Int, o % Day = f, o <= t
      PROVE  o <= n
  <2>1. n < o => n + Day <= o
    BY <1>6, <1>7, Openings
  <2> QED
    BY <1>2, <1>3, <1>4, <1>7, <2>1
<1> QED
  BY <1>1, <1>2, <1>3, <1>4, <1>5, <1>6, <1>7 DEF IsOpening

\* Induction over the naturals, by the least counterexample.
LEMMA Minimal ==
  \A R, S, T : IsWellFoundedOn(R, S) /\ T \subseteq S /\ T # {} =>
     \E x \in T : \A y \in T : <<y, x>> \notin R
BY WFMin

LEMMA Least ==
  ASSUME NEW T, T \subseteq Nat, T # {}
  PROVE  \E x \in T : \A y \in T : x <= y
<1>1. OpToRel(<, Nat) = {p \in Nat \X Nat : p[1] < p[2]}
  BY DEF OpToRel
<1>2. IsWellFoundedOn(OpToRel(<, Nat), Nat)
  BY NatLessThanWellFounded
<1>3. PICK R : R = {p \in Nat \X Nat : p[1] < p[2]} /\ IsWellFoundedOn(R, Nat)
  BY <1>1, <1>2
<1>4. PICK x \in T : \A y \in T : <<y, x>> \notin R
  BY <1>3, Minimal
<1>5. \A y \in T : ~(y < x)
  BY <1>3, <1>4
<1> QED
  BY <1>4, <1>5

\* Whose turn it is: nobody who is listed before is in the queue.
LEMMA FirstIs ==
  ASSUME NEW q \in SUBSET Machines, q # {}
  PROVE  /\ First(q) \in q
         /\ \E i \in 1..Len(Order) :
              Order[i] = First(q) /\ \A j \in 1..(i - 1) : Order[j] \notin q
<1>1. Len(Order) \in Nat
  BY ClockAssumption, UpdateWindowAssumption DEF Constants
<1>2. PICK i \in 1..Len(Order) :
        Order[i] \in q /\ \A j \in 1..Len(Order) : Order[j] \in q => i <= j
  <2>1. PICK T : T = {i \in 1..Len(Order) : Order[i] \in q}
    OBVIOUS
  <2>2. T \subseteq Nat
    BY <1>1, <2>1
  <2>3. T # {}
    <3>1. \A m \in Machines : \E i \in 1..Len(Order) : Order[i] = m
      BY ClockAssumption, UpdateWindowAssumption DEF Constants
    <3>2. PICK m \in q : m \in Machines
      OBVIOUS
    <3> QED
      BY <2>1, <3>1, <3>2
  <2> QED
    BY <2>1, <2>2, <2>3, Least
<1>3. \A j \in 1..(i - 1) : Order[j] \notin q
  BY <1>1, <1>2
<1>4. \E m \in q : \E k \in 1..Len(Order) :
        Order[k] = m /\ \A j \in 1..(k - 1) : Order[j] \notin q
  BY <1>2, <1>3
<1> QED
  BY <1>4 DEF First

-----------------------------------------------------------------------------
(* The inductive invariant, by what it is about.                           *)

\* What is remembered is of the past; a loop at rest asks again soon after it last asked,
\* or was disturbed.
Known == IF asked > quiet THEN asked ELSE quiet
RestInv ==
  /\ Day <= now /\ quiet <= now /\ asked <= now
  /\ \A m \in Machines : ownRun[m] <= now /\ updated[m] <= now
  /\ up /\ windowLoop = "tick" => now <= windowWake /\ windowWake <= Known + Busy + Tick

\* A round is as far through the list as time allows, and goes through machines that were due.
Passed(k) == k \in 0..Len(Order) /\ \A i \in 1..k : Order[i] \notin queue
AtRun(k) == /\ k < Len(Order) /\ asked <= ownRun[First(queue)]
            /\ ownRun[First(queue)] <= asked + RunLength * k
            /\ now <= ownRun[First(queue)] + RunLength
RoundInv ==
  up /\ windowLoop # "tick" =>
    /\ asked # None
    /\ \E k \in Nat : Passed(k) /\ IF windowLoop = "next" THEN now <= asked + RunLength * k
                                   ELSE queue # {} /\ AtRun(k)
    /\ \A m \in queue : /\ Opening(Window[m], asked) # None
                        /\ tried[m] # Opening(Window[m], asked)

\* An update ends a round after its window at the latest.
LateInv ==
  \A m \in Machines : updated[m] # None =>
    updated[m] < NightOf(m, updated[m]) + Length(m) + Busy

\* Who was due when the loop last asked has been gone through, or is to be.
Waits(m) == windowLoop # "tick" /\ m \in queue
SettledInv ==
  up /\ ~fleet /\ asked > quiet =>
    \A m \in Machines : Due(m, asked) => Waits(m)

\* A window in which the loop asked when the machine could be due is not left out.
Ripe(m, o) ==
  /\ Roomy(m) /\ IsOpening(m, o) /\ quiet < o /\ o <= asked /\ now < o + Day
  /\ updated[m] # None => /\ NightOf(m, updated[m]) + Every[m] * Day <= o
                            /\ updated[m] + Every[m] * Day - Slack <= asked
NightInv ==
  up /\ ~fleet =>
    \A m \in Machines \ out, o \in Int : Ripe(m, o) => tried[m] = o \/ Waits(m)

\* The latest run of a machine's own was for the window that is recorded, or is under way.
AttemptInv ==
  \A m \in Machines : ownRun[m] # None /\ m \notin cut /\ Length(m) + Busy <= Day =>
    \/ up /\ windowLoop \in {"run", "ran"} /\ m = First(queue)
    \/ tried[m] # None /\ tried[m] <= ownRun[m] /\ ownRun[m] < tried[m] + Day

WindowInv ==
  WindowTypeOK /\ RestInv /\ RoundInv /\ LateInv /\ SettledInv /\ NightInv /\ AttemptInv

\* The numbers in it.
LEMMA Numbers ==
  /\ Day \in Nat \ {0} /\ Tick \in Nat \ {0} /\ RunLength \in Nat \ {0}
  /\ Horizon \in Nat /\ Day <= Horizon /\ MaxEdits \in Nat /\ MaxCrashes \in Nat
  /\ Slack \in Nat /\ Len(Order) \in Nat
  /\ Busy \in Nat /\ Busy = RunLength * Len(Order)
  /\ \A m \in Machines : /\ Every[m] * Day \in Nat \ {0}
                          /\ Length(m) \in Nat /\ Length(m) < Day
<1>1. /\ Day \in Nat \ {0} /\ Tick \in Nat \ {0} /\ RunLength \in Nat \ {0}
      /\ Horizon \in Nat /\ Day <= Horizon /\ MaxEdits \in Nat /\ MaxCrashes \in Nat
      /\ Len(Order) \in Nat /\ \A m \in Machines : Every[m] \in Nat \ {0}
  BY ClockAssumption, UpdateWindowAssumption DEF Constants
<1>2. Slack \in Nat
  BY <1>1 DEF Slack
<1>3. Busy \in Nat /\ Busy = RunLength * Len(Order)
  BY <1>1 DEF Busy
<1>4. ASSUME NEW m \in Machines
      PROVE  Every[m] * Day \in Nat \ {0} /\ Length(m) \in Nat /\ Length(m) < Day
  <2>1. PICK e \in Nat \ {0} : e = Every[m]
    BY <1>1
  <2>2. e * Day \in Nat \ {0}
    BY <1>1, <2>1
  <2>3. Length(m) \in Nat /\ Length(m) < Day
    <3>1. PICK f \in Int, t \in Int, n \in Int :
            /\ n = Length(m) /\ 0 <= f /\ f < Day /\ 0 <= t /\ t < Day
            /\ (f < t /\ n = t - f) \/ (t < f /\ n = t - f + Day)
      BY LengthIs
    <3>2. 0 <= n /\ n < Day
      BY <1>1, <3>1
    <3> QED
      BY <3>1, <3>2
  <2> QED
    BY <2>1, <2>2, <2>3
<1> QED
  BY <1>1, <1>2, <1>3, <1>4

\* How far a round can be.
LEMMA Rounds ==
  \A k, i \in Nat : /\ RunLength * k \in Nat
                    /\ k < i => RunLength * k + RunLength <= RunLength * i
                    /\ k <= Len(Order) => RunLength * k <= Busy
                    /\ k < Len(Order) => RunLength * k + RunLength <= Busy
<1>1. RunLength \in Nat \ {0} /\ Len(Order) \in Nat /\ Busy = RunLength * Len(Order)
  BY Numbers
<1>2. ASSUME NEW k \in Nat, NEW i \in Nat
      PROVE  /\ RunLength * k \in Nat
             /\ k < i => RunLength * k + RunLength <= RunLength * i
  BY <1>1, OneUp
<1>3. ASSUME NEW k \in Nat
      PROVE  /\ k < Len(Order) => RunLength * k + RunLength <= Busy
             /\ k <= Len(Order) => RunLength * k <= Busy
  <2>1. k < Len(Order) => RunLength * k + RunLength <= Busy
    BY <1>1, <1>2, <1>3
  <2>2. k = Len(Order) => RunLength * k = Busy
    BY <1>1
  <2>3. PICK x \in Nat, y \in Nat : x = RunLength * k /\ y = Busy
    BY <1>1, <1>2, <1>3, Numbers
  <2> QED
    BY <1>1, <2>1, <2>2, <2>3
<1> QED
  BY <1>2, <1>3

\* What is recorded, and what it is recorded as.
LEMMA TypesOfWindow ==
  ASSUME WindowInv
  PROVE  /\ now \in Nat /\ quiet \in Nat /\ windowWake \in Nat
         /\ now <= Horizon /\ Day <= quiet
         /\ up \in BOOLEAN /\ fleet \in BOOLEAN
         /\ asked \in Int /\ asked <= now /\ (asked # None => Day <= asked)
         /\ queue \subseteq Machines /\ out \subseteq Machines
         /\ windowLoop \in {"tick", "next", "run", "ran"}
         /\ \A m \in Machines : /\ tried[m] \in Int /\ updated[m] \in Int /\ ownRun[m] \in Int
                                /\ updated[m] <= now /\ ownRun[m] <= now
<1>1. Day \in Nat \ {0} /\ Horizon \in Nat
  BY Numbers
<1> QED
  BY <1>1 DEF WindowInv, WindowTypeOK, WindowTimes, None, RestInv

\* The machine whose run it is, where it stands and what it was due for.
LEMMA AtFirst ==
  ASSUME WindowInv, up, windowLoop # "tick", queue # {}
  PROVE  LET h == First(queue)
             a == Opening(Window[h], asked)
         IN  /\ h \in queue /\ h \in Machines
             /\ a \in Int /\ a # None /\ IsOpening(h, a)
             /\ a <= asked /\ asked < a + Length(h)
             /\ tried[h] # a
             /\ \E i \in Nat \ {0} :
                  /\ i <= Len(Order) /\ Order[i] = h
                  /\ \A j \in 1..(i - 1) : Order[j] \notin queue
                  /\ now <= asked + RunLength * i
                  /\ windowLoop = "next" => now <= asked + RunLength * (i - 1)
                  /\ windowLoop # "next" => /\ asked <= ownRun[h]
                                      /\ ownRun[h] <= asked + RunLength * (i - 1)
                                      /\ now <= ownRun[h] + RunLength
<1> DEFINE h == First(queue)
           a == Opening(Window[h], asked)
<1>1. queue \in SUBSET Machines /\ asked \in Int /\ asked # None /\ Day <= asked
      /\ now \in Nat /\ asked <= now
  BY TypesOfWindow DEF WindowInv, RoundInv
<1>2. PICK i \in 1..Len(Order) : Order[i] = h /\ \A j \in 1..(i - 1) : Order[j] \notin queue
  BY <1>1, FirstIs
<1>3. h \in queue /\ h \in Machines
  BY <1>1, FirstIs
<1>4. /\ a \in Int /\ a # None /\ IsOpening(h, a)
      /\ a <= asked /\ asked < a + Length(h)
      /\ tried[h] # a
  <2>1. a # None /\ tried[h] # a
    BY <1>3 DEF WindowInv, RoundInv
  <2> QED
    BY <1>1, <1>3, <2>1, OpeningIs
<1>5. PICK k \in Nat : Passed(k) /\ IF windowLoop = "next" THEN now <= asked + RunLength * k
                                    ELSE AtRun(k)
  BY DEF WindowInv, RoundInv
<1>6. Len(Order) \in Nat /\ i \in Nat \ {0} /\ i - 1 \in Nat
  BY <1>2, Numbers
<1>7. k < i
  BY <1>2, <1>3, <1>5, <1>6 DEF Passed
<1>8. PICK x \in Nat, y \in Nat, z \in Nat :
        /\ x = RunLength * k /\ y = RunLength * (i - 1) /\ z = RunLength * i
        /\ x <= y /\ y + RunLength <= z /\ RunLength \in Nat
  <2>1. PICK j \in Nat : j = i - 1 /\ j < i /\ (k < j \/ k = j)
    BY <1>6, <1>7
  <2>2. /\ RunLength * k \in Nat /\ RunLength * j \in Nat /\ RunLength * i \in Nat
        /\ k < j => RunLength * k + RunLength <= RunLength * j
        /\ RunLength * j + RunLength <= RunLength * i
    BY <1>6, <2>1, Rounds
  <2>3. RunLength \in Nat
    BY Numbers
  <2>4. RunLength * k <= RunLength * j
    BY <2>1, <2>2, <2>3
  <2> QED
    BY <2>1, <2>2, <2>3, <2>4
<1>9. /\ now <= asked + z
      /\ windowLoop = "next" => now <= asked + y
      /\ windowLoop # "next" => asked <= ownRun[h] /\ ownRun[h] <= asked + y /\ now <= ownRun[h] + RunLength
  <2>1. ownRun[h] \in Int
    BY <1>3, TypesOfWindow
  <2>2. CASE windowLoop = "next"
    BY <1>1, <1>5, <1>8, <2>2
  <2>3. CASE windowLoop # "next"
    BY <1>1, <1>5, <1>8, <2>1, <2>3 DEF AtRun
  <2> QED
    BY <2>2, <2>3
<1>10. i <= Len(Order)
  BY <1>2, <1>6
<1> QED
  BY <1>2, <1>3, <1>4, <1>6, <1>8, <1>9, <1>10

\* A round takes no longer than the runs of all machines.
LEMMA RoundIsBusy ==
  ASSUME WindowInv, up, windowLoop # "tick"
  PROVE  now <= asked + Busy
<1>1. PICK k \in Nat : /\ k <= Len(Order) /\ Passed(k)
                       /\ IF windowLoop = "next" THEN now <= asked + RunLength * k
                          ELSE queue # {} /\ AtRun(k)
  BY Numbers DEF WindowInv, RoundInv, Passed
<1>2. now \in Nat /\ asked \in Int /\ Busy \in Nat
  BY TypesOfWindow, Numbers
<1>3. CASE windowLoop = "next"
  <2>1. RunLength * k \in Nat /\ RunLength * k <= Busy
    BY <1>1, Rounds
  <2> QED
    BY <1>1, <1>2, <1>3, <2>1
<1>4. CASE windowLoop # "next"
  <2>1. k < Len(Order) /\ queue # {}
    BY <1>1, <1>4 DEF AtRun
  <2>2. RunLength * k \in Nat /\ RunLength * k + RunLength <= Busy /\ RunLength \in Nat
    BY <2>1, Rounds, Numbers
  <2>3. ownRun[First(queue)] \in Int
    BY <2>1, <1>4, AtFirst, TypesOfWindow
  <2> QED
    BY <1>1, <1>2, <1>4, <2>2, <2>3 DEF AtRun
<1> QED
  BY <1>3, <1>4

-----------------------------------------------------------------------------
(* The steps.                                                              *)

LEMMA WindowStarts == ASSUME WindowInit PROVE WindowInv
<1>1. /\ Day \in Nat \ {0} /\ Horizon \in Nat /\ Day <= Horizon /\ Busy \in Nat
      /\ Tick \in Nat \ {0} /\ MaxEdits \in Nat /\ MaxCrashes \in Nat
  BY Numbers
<1>2. /\ now = Day /\ quiet = Day /\ windowWake = Day /\ asked = None /\ windowLoop = "tick"
      /\ queue = {} /\ out = {} /\ cut = {} /\ up = TRUE /\ fleet = FALSE
      /\ edits = 0 /\ crashes = 0
      /\ tried \in [Machines -> {None}] /\ updated \in [Machines -> {None}]
      /\ ownRun \in [Machines -> {None}]
      /\ \A m \in Machines : ownRun[m] = None /\ updated[m] = None /\ tried[m] = None
  BY DEF WindowInit
<1>3. WindowTypeOK
  <2>1. None \in Int
    BY DEF None
  <2>2. /\ tried \in [Machines -> Int]
        /\ updated \in [Machines -> WindowTimes \cup {None}]
        /\ ownRun \in [Machines -> WindowTimes \cup {None}]
    BY <1>2, <2>1
  <2>3. /\ now \in WindowTimes /\ quiet \in WindowTimes /\ windowWake \in Nat
        /\ edits \in 0..MaxEdits /\ crashes \in 0..MaxCrashes
    BY <1>1, <1>2 DEF WindowTimes
  <2> QED
    BY <1>2, <2>2, <2>3 DEF WindowTypeOK
<1>4. RestInv
  BY <1>1, <1>2 DEF RestInv, Known, None
<1>5. RoundInv /\ LateInv /\ AttemptInv
  BY <1>2 DEF RoundInv, LateInv, AttemptInv
<1>6. SettledInv /\ NightInv
  BY <1>1, <1>2 DEF SettledInv, NightInv, Ripe, None
<1> QED
  BY <1>3, <1>4, <1>5, <1>6 DEF WindowInv

LEMMA WindowTypes ==
  ASSUME WindowInv, [WindowNext]_windowVars
  PROVE  WindowTypeOK'
<1>1. /\ Day \in Nat \ {0} /\ Horizon \in Nat /\ Day <= Horizon
      /\ Tick \in Nat \ {0} /\ MaxEdits \in Nat /\ MaxCrashes \in Nat
  BY Numbers
<1>2. WindowTypeOK /\ now \in Nat
  BY TypesOfWindow DEF WindowInv
<1>3. CASE WindowPass
  BY <1>1, <1>2, <1>3 DEF WindowPass, WindowTypeOK, WindowTimes, record, history
<1>4. CASE WindowAsk
  BY <1>1, <1>2, <1>4 DEF WindowAsk, WindowTypeOK, WindowTimes, record, history
<1>5. CASE Begin
  BY <1>1, <1>2, <1>5 DEF Begin, WindowTypeOK, WindowTimes, record, history
<1>6. CASE RunEnds
  BY <1>1, <1>2, <1>6 DEF RunEnds, WindowTypeOK, WindowTimes, record, history
<1>7. CASE MarkTried
  <2>1. up /\ windowLoop = "ran" /\ queue # {}
    BY <1>7 DEF MarkTried, WindowInv, RoundInv
  <2>2. PICK h \in Machines, a \in Int :
          h = First(queue) /\ a = Opening(Window[h], asked) /\ IsOpening(h, a)
    BY <2>1, AtFirst
  <2>3. tried' = [tried EXCEPT ![h] = a] /\ queue' \subseteq queue
    BY <1>7, <2>2 DEF MarkTried
  <2>4. /\ tried' \in [Machines -> Int]
        /\ \A m \in Machines : tried'[m] # None => IsOpening(m, tried'[m])
    BY <1>2, <2>2, <2>3 DEF WindowTypeOK
  <2>5. UNCHANGED <<now, up, asked, windowWake, fleet, updated, out, ownRun, cut, quiet, edits, crashes>>
        /\ windowLoop' = "next"
    BY <1>7 DEF MarkTried, history
  <2> QED
    BY <1>2, <2>3, <2>4, <2>5 DEF WindowTypeOK, WindowTimes
<1>8. CASE Rest
  BY <1>1, <1>2, <1>8 DEF Rest, WindowTypeOK, WindowTimes, record, history
<1>9. CASE FleetBegins \/ FleetEnds
  BY <1>1, <1>2, <1>9 DEF FleetBegins, FleetEnds, WindowTypeOK, WindowTimes, record, history
<1>10. CASE \E m \in Machines : Toggle(m)
  BY <1>1, <1>2, <1>10 DEF Toggle, WindowTypeOK, WindowTimes, record, history
<1>11. CASE WindowCrash
  <2>1. cut' \subseteq Machines
    <3>1. windowLoop \in {"run", "ran"} => First(queue) \in Machines
      BY <1>11, AtFirst DEF WindowCrash, WindowInv, RoundInv
    <3> QED
      BY <1>2, <1>11, <3>1 DEF WindowCrash, WindowTypeOK
  <2>2. /\ UNCHANGED <<now, windowLoop, windowWake, asked, queue, fleet, tried, updated, out, ownRun, quiet>>
        /\ UNCHANGED edits
        /\ up' \in BOOLEAN
    BY <1>11 DEF WindowCrash, record
  <2>3. crashes' \in 0..MaxCrashes
    BY <1>1, <1>2, <1>11 DEF WindowCrash, WindowTypeOK
  <2> QED
    BY <1>2, <2>1, <2>2, <2>3 DEF WindowTypeOK, WindowTimes
<1>12. CASE WindowBoot
  BY <1>1, <1>2, <1>12 DEF WindowBoot, WindowTypeOK, WindowTimes, record, history
<1>13. CASE UNCHANGED windowVars
  BY <1>2, <1>13 DEF windowVars, WindowTypeOK, WindowTimes, record, history
<1> QED
  BY <1>3, <1>4, <1>5, <1>6, <1>7, <1>8, <1>9, <1>10, <1>11, <1>12, <1>13 DEF WindowNext

LEMMA WindowRest ==
  ASSUME WindowInv, [WindowNext]_windowVars
  PROVE  RestInv'
<1>1. Day \in Nat \ {0} /\ Tick \in Nat \ {0} /\ Busy \in Nat
  BY Numbers
<1>2. /\ now \in Nat /\ quiet \in Nat /\ windowWake \in Nat /\ asked \in Int
      /\ \A m \in Machines : updated[m] \in Int /\ ownRun[m] \in Int
      /\ up \in BOOLEAN
  BY TypesOfWindow
<1>3. RestInv
  BY DEF WindowInv
<1>4. CASE WindowPass
  BY <1>1, <1>2, <1>3, <1>4 DEF WindowPass, RestInv, Known, record, history
<1>5. CASE WindowAsk
  BY <1>1, <1>2, <1>3, <1>5 DEF WindowAsk, RestInv, Known, record, history
<1>6. CASE Begin
  <2>1. \A m \in Machines : ownRun'[m] = ownRun[m] \/ ownRun'[m] = now
    BY <1>6 DEF Begin, WindowInv, WindowTypeOK
  <2>2. UNCHANGED <<now, up, asked, windowWake, quiet, updated>> /\ windowLoop' # "tick"
    BY <1>6 DEF Begin, record
  <2> QED
    BY <1>1, <1>2, <1>3, <2>1, <2>2 DEF RestInv
<1>7. CASE RunEnds
  <2>1. \A m \in Machines : updated'[m] = updated[m] \/ updated'[m] = now
    BY <1>7 DEF RunEnds, WindowInv, WindowTypeOK
  <2>2. UNCHANGED <<now, up, asked, windowWake, quiet, ownRun>> /\ windowLoop' # "tick"
    BY <1>7 DEF RunEnds, history
  <2> QED
    BY <1>1, <1>2, <1>3, <2>1, <2>2 DEF RestInv
<1>8. CASE MarkTried
  BY <1>1, <1>2, <1>3, <1>8 DEF MarkTried, RestInv, Known, record, history
<1>9. CASE Rest
  <2>1. now <= asked + Busy
    BY <1>9, RoundIsBusy DEF Rest
  <2> QED
    BY <1>1, <1>2, <1>3, <1>9, <2>1 DEF Rest, RestInv, Known, record, history
<1>10. CASE FleetBegins \/ FleetEnds \/ \E m \in Machines : Toggle(m)
  BY <1>1, <1>2, <1>3, <1>10
    DEF FleetBegins, FleetEnds, Toggle, RestInv, Known, record, history
<1>11. CASE WindowCrash \/ WindowBoot
  BY <1>1, <1>2, <1>3, <1>11 DEF WindowCrash, WindowBoot, RestInv, Known, None, record, history
<1>12. CASE UNCHANGED windowVars
  BY <1>3, <1>12 DEF windowVars, RestInv, Known, record, history
<1> QED
  BY <1>4, <1>5, <1>6, <1>7, <1>8, <1>9, <1>10, <1>11, <1>12 DEF WindowNext

LEMMA WindowRound ==
  ASSUME WindowInv, [WindowNext]_windowVars
  PROVE  RoundInv'
<1>1. /\ RunLength \in Nat \ {0} /\ Len(Order) \in Nat
      /\ now \in Nat /\ asked \in Int /\ Day \in Nat \ {0} /\ Day <= now
  BY Numbers, TypesOfWindow DEF WindowInv, RestInv
<1>2. RoundInv
  BY DEF WindowInv
<1>3. ASSUME up, windowLoop # "tick"
      PROVE  /\ asked # None
             /\ \A m \in queue : /\ Opening(Window[m], asked) # None
                                 /\ tried[m] # Opening(Window[m], asked)
             /\ \E k \in Nat : Passed(k) /\ IF windowLoop = "next" THEN now <= asked + RunLength * k
                                            ELSE queue # {} /\ AtRun(k)
  BY <1>2, <1>3 DEF RoundInv
<1>4. CASE WindowPass
  <2>1. /\ UNCHANGED <<up, windowLoop, asked, queue, tried, ownRun>> /\ now' = now + 1
        /\ up /\ windowLoop # "tick" => windowLoop = "run" /\ now < ownRun[First(queue)] + RunLength
    BY <1>4, TypesOfWindow DEF WindowPass, record, history
  <2>2. SUFFICES ASSUME up, windowLoop = "run"
                 PROVE  \E k \in Nat : Passed(k)' /\ queue' # {} /\ AtRun(k)'
    BY <1>3, <2>1 DEF RoundInv
  <2>3. PICK k \in Nat : Passed(k) /\ queue # {} /\ AtRun(k)
    BY <1>3, <2>2
  <2>4. ownRun[First(queue)] \in Int
    BY <2>2, <2>3, AtFirst, TypesOfWindow
  <2>5. Passed(k)' /\ queue' # {}
    BY <2>1, <2>3 DEF Passed
  <2>6. AtRun(k)'
    BY <1>1, <2>1, <2>2, <2>3, <2>4 DEF AtRun
  <2> QED
    BY <2>5, <2>6
<1>5. CASE WindowAsk
  <2>1. /\ UNCHANGED <<up, now, tried>> /\ asked' = now /\ windowLoop' = "next"
        /\ queue' = {m \in Machines : Due(m, now)}
    BY <1>5 DEF WindowAsk, record
  <2>2. asked' # None
    BY <1>1, <2>1 DEF None
  <2>3. \A m \in queue' : /\ Opening(Window[m], asked') # None
                          /\ tried'[m] # Opening(Window[m], asked')
    BY <2>1 DEF Due
  <2>4. Passed(0)' /\ now' <= asked' + RunLength * 0
    BY <1>1, <2>1 DEF Passed
  <2> QED
    BY <2>1, <2>2, <2>3, <2>4 DEF RoundInv
<1>6. CASE Begin
  <2>1. up /\ windowLoop = "next" /\ queue # {} /\ UNCHANGED <<now, up, asked, tried>>
    BY <1>6 DEF Begin, record
  <2> DEFINE h == First(queue)
  <2>2. PICK i \in Nat \ {0} :
          /\ i <= Len(Order) /\ Order[i] = h
          /\ \A j \in 1..(i - 1) : Order[j] \notin queue
          /\ now <= asked + RunLength * (i - 1)
    BY <2>1, AtFirst
  <2>3. CASE queue' = queue /\ windowLoop' = "run" /\ ownRun' = [ownRun EXCEPT ![h] = now]
    <3>1. h \in Machines
      BY <2>1, AtFirst
    <3>2. ownRun'[First(queue)'] = now
      BY <2>3, <3>1 DEF WindowInv, WindowTypeOK
    <3>3. PICK k \in Nat : k = i - 1 /\ k < Len(Order)
      BY <1>1, <2>2
    <3>4. Passed(k)'
      BY <1>1, <2>2, <2>3, <3>3 DEF Passed
    <3>5. asked <= now
      BY TypesOfWindow
    <3>6. AtRun(k)'
      BY <1>1, <2>1, <2>2, <2>3, <3>2, <3>3, <3>5 DEF AtRun
    <3> QED
      BY <1>3, <2>1, <2>3, <3>4, <3>6 DEF RoundInv
  <2>4. CASE queue' = queue \ {h} /\ windowLoop' = windowLoop
    <3>1. PICK k \in Nat : Passed(k) /\ now <= asked + RunLength * k
      BY <1>3, <2>1
    <3>2. Passed(k)'
      BY <2>4, <3>1 DEF Passed
    <3> QED
      BY <1>3, <2>1, <2>4, <3>1, <3>2 DEF RoundInv
  <2> QED
    BY <1>6, <2>3, <2>4 DEF Begin
<1>7. CASE RunEnds
  <2>1. /\ UNCHANGED <<up, now, asked, queue, tried, ownRun>>
        /\ up /\ windowLoop = "run" /\ windowLoop' = "ran"
    BY <1>7 DEF RunEnds, history
  <2>2. \A k : Passed(k)' = Passed(k) /\ AtRun(k)' = AtRun(k)
    BY <2>1 DEF Passed, AtRun
  <2>3. PICK k \in Nat : Passed(k) /\ queue # {} /\ AtRun(k)
    BY <1>3, <2>1
  <2> QED
    BY <1>3, <2>1, <2>2, <2>3 DEF RoundInv
<1>8. CASE MarkTried
  <2> DEFINE h == First(queue)
             a == Opening(Window[h], asked)
  <2>1. /\ UNCHANGED <<up, now, asked>> /\ up /\ windowLoop = "ran" /\ windowLoop' = "next"
        /\ tried' = [tried EXCEPT ![h] = a] /\ queue' = queue \ {h}
    BY <1>8 DEF MarkTried
  <2>2. queue # {}
    BY <1>3, <2>1
  <2>3. PICK i \in Nat \ {0} :
          /\ i <= Len(Order) /\ Order[i] = h
          /\ \A j \in 1..(i - 1) : Order[j] \notin queue
          /\ now <= asked + RunLength * i
    BY <2>1, <2>2, AtFirst
  <2>4. Passed(i)'
    <3>1. \A j \in 1..i : Order[j] \notin queue'
      BY <2>1, <2>3
    <3> QED
      BY <1>1, <2>3, <3>1 DEF Passed
  <2>5. \A m \in queue' : tried'[m] = tried[m] /\ m \in queue
    BY <2>1, TypesOfWindow DEF WindowInv, WindowTypeOK
  <2> QED
    BY <1>3, <2>1, <2>3, <2>4, <2>5 DEF RoundInv
<1>9. CASE Rest \/ FleetBegins \/ FleetEnds \/ WindowCrash \/ WindowBoot
  BY <1>9 DEF Rest, FleetBegins, FleetEnds, WindowCrash, WindowBoot, RoundInv
<1>10. CASE (\E m \in Machines : Toggle(m)) \/ UNCHANGED windowVars
  <2>1. UNCHANGED <<up, windowLoop, now, asked, queue, tried, ownRun>>
    BY <1>10 DEF Toggle, windowVars, record, history
  <2>2. \A k : Passed(k)' = Passed(k) /\ AtRun(k)' = AtRun(k)
    BY <2>1 DEF Passed, AtRun
  <2> QED
    BY <1>2, <2>1, <2>2 DEF RoundInv
<1> QED
  BY <1>4, <1>5, <1>6, <1>7, <1>8, <1>9, <1>10 DEF WindowNext

LEMMA WindowLate ==
  ASSUME WindowInv, [WindowNext]_windowVars
  PROVE  LateInv'
<1>1. \A m \in Machines : updated[m] \in Int
  BY TypesOfWindow
<1>2. LateInv
  BY DEF WindowInv
<1>3. CASE UNCHANGED updated
  BY <1>2, <1>3 DEF LateInv, NightOf, Length
<1>4. CASE RunEnds /\ ~UNCHANGED updated
  <2> DEFINE h == First(queue)
             a == Opening(Window[h], asked)
  <2>1. up /\ windowLoop = "run" /\ queue # {} /\ updated' = [updated EXCEPT ![h] = now]
    BY <1>4 DEF RunEnds, WindowInv, RoundInv
  <2>2. h \in Machines /\ a \in Int /\ IsOpening(h, a) /\ a <= asked /\ asked < a + Length(h)
    BY <2>1, AtFirst
  <2>3. /\ now <= asked + Busy /\ asked <= now /\ now \in Int /\ asked \in Int
        /\ Busy \in Nat /\ Length(h) \in Nat
    BY <2>1, <2>2, RoundIsBusy, TypesOfWindow, Numbers
  <2>4. NightOf(h, now) \in Int /\ a <= NightOf(h, now)
    BY <2>2, <2>3, NightIs
  <2>5. now < NightOf(h, now) + Length(h) + Busy
    BY <2>2, <2>3, <2>4
  <2>6. /\ \A m \in Machines \ {h} : updated'[m] = updated[m]
        /\ updated'[h] = now
    BY <2>1, <2>2 DEF WindowInv, WindowTypeOK
  <2>7. \A m \in Machines : updated'[m] # None =>
          updated'[m] < NightOf(m, updated'[m]) + Length(m) + Busy
    BY <1>2, <2>5, <2>6 DEF LateInv
  <2> QED
    BY <2>7 DEF LateInv, NightOf, Length
<1>5. UNCHANGED updated \/ RunEnds
  BY DEF WindowNext, windowVars, record, WindowPass, WindowAsk, Begin, MarkTried, Rest,
    FleetBegins, FleetEnds, Toggle, WindowCrash, WindowBoot
<1> QED
  BY <1>3, <1>4, <1>5

LEMMA WindowSettled ==
  ASSUME WindowInv, [WindowNext]_windowVars
  PROVE  SettledInv'
<1>1. /\ now \in Nat /\ quiet \in Nat /\ asked \in Int /\ asked <= now /\ quiet <= now
  BY TypesOfWindow DEF WindowInv, RestInv
<1>2. SettledInv
  BY DEF WindowInv
<1>3. CASE WindowAsk
  <2>1. /\ UNCHANGED <<tried, updated, out>> /\ asked' = now /\ windowLoop' = "next"
        /\ queue' = {m \in Machines : Due(m, now)}
    BY <1>3 DEF WindowAsk, record
  <2>2. \A m \in Machines : Due(m, asked)' <=> Due(m, now)
    BY <2>1 DEF Due, Recent
  <2> QED
    BY <2>1, <2>2 DEF SettledInv, Waits
<1>4. CASE Begin
  <2>1. /\ UNCHANGED <<up, fleet, asked, quiet, tried, updated, out>>
        /\ windowLoop = "next" /\ windowLoop' # "tick"
        /\ (~fleet => queue' = queue)
    BY <1>4 DEF Begin, record
  <2>2. \A m \in Machines : Due(m, asked)' <=> Due(m, asked)
    BY <2>1 DEF Due, Recent
  <2> QED
    BY <1>2, <2>1, <2>2 DEF SettledInv, Waits
<1>5. CASE RunEnds
  <2>1. /\ UNCHANGED <<up, fleet, asked, quiet, tried, out, queue>>
        /\ up /\ windowLoop = "run" /\ windowLoop' = "ran"
        /\ queue # {}
        /\ (updated' = updated \/ updated' = [updated EXCEPT ![First(queue)] = now])
    BY <1>5 DEF RunEnds, history, WindowInv, RoundInv
  <2>2. First(queue) \in queue /\ queue \subseteq Machines
    BY <2>1, AtFirst, TypesOfWindow
  <2>3. \A m \in Machines \ queue : updated'[m] = updated[m]
    BY <2>1, <2>2 DEF WindowInv, WindowTypeOK
  <2>4. \A m \in Machines \ queue : Due(m, asked)' <=> Due(m, asked)
    BY <2>1, <2>3 DEF Due, Recent
  <2> QED
    BY <1>2, <2>1, <2>4 DEF SettledInv, Waits
<1>6. CASE MarkTried
  <2>1. /\ UNCHANGED <<up, fleet, asked, quiet, updated, out>>
        /\ up /\ windowLoop = "ran" /\ windowLoop' = "next"
        /\ queue # {}
    BY <1>6 DEF MarkTried, history, WindowInv, RoundInv
  <2>2. PICK h \in Machines, a \in Int : h = First(queue) /\ a = Opening(Window[h], asked)
    BY <2>1, AtFirst
  <2>3. tried' = [tried EXCEPT ![h] = a] /\ queue' = queue \ {h}
    BY <1>6, <2>2 DEF MarkTried
  <2>4. tried'[h] = a /\ \A m \in Machines \ {h} : tried'[m] = tried[m]
    BY <2>2, <2>3 DEF WindowInv, WindowTypeOK
  <2>5. ~Due(h, asked)'
    BY <2>1, <2>2, <2>4 DEF Due
  <2>6. \A m \in Machines \ {h} : Due(m, asked)' <=> Due(m, asked)
    BY <2>1, <2>4 DEF Due, Recent
  <2> QED
    BY <1>2, <2>1, <2>3, <2>5, <2>6 DEF SettledInv, Waits
<1>7. CASE Rest
  <2>1. UNCHANGED <<up, fleet, asked, quiet, tried, updated, out>> /\ queue = {}
    BY <1>7 DEF Rest, record, history
  <2>2. \A m \in Machines : Due(m, asked)' <=> Due(m, asked)
    BY <2>1 DEF Due, Recent
  <2> QED
    BY <1>2, <2>1, <2>2 DEF SettledInv, Waits
<1>8. CASE FleetBegins \/ WindowCrash
  BY <1>8 DEF FleetBegins, WindowCrash, SettledInv
<1>9. CASE FleetEnds \/ WindowBoot \/ \E m \in Machines : Toggle(m)
  <2>1. quiet' = now /\ (asked' = asked \/ asked' = -1)
    BY <1>9 DEF FleetEnds, WindowBoot, Toggle, None
  <2>2. ~(asked' > quiet')
    BY <1>1, <2>1
  <2> QED
    BY <2>2 DEF SettledInv
<1>10. CASE WindowPass \/ UNCHANGED windowVars
  <2>1. UNCHANGED <<up, fleet, asked, quiet, tried, updated, out, windowLoop, queue>>
    BY <1>10 DEF WindowPass, windowVars, record, history
  <2>2. \A m \in Machines : Due(m, asked)' <=> Due(m, asked)
    BY <2>1 DEF Due, Recent
  <2> QED
    BY <1>2, <2>1, <2>2 DEF SettledInv, Waits
<1> QED
  BY <1>3, <1>4, <1>5, <1>6, <1>7, <1>8, <1>9, <1>10 DEF WindowNext

\* One who can be due in a window that is open now, and has been asked about or not.
LEMMA RipeIsDue ==
  ASSUME WindowInv, WindowAsk, ~fleet, NEW m \in Machines \ out, NEW o \in Int, Ripe(m, o)'
  PROVE  tried[m] = o \/ Due(m, now)
<1> DEFINE night == NightOf(m, updated[m])
<1>1. /\ Day \in Nat \ {0} /\ Tick \in Nat \ {0} /\ Busy \in Nat /\ Slack \in Nat
      /\ Every[m] * Day \in Nat /\ Length(m) \in Nat /\ None = -1
  BY Numbers DEF None
<1>2. /\ now \in Nat /\ Day <= now /\ asked \in Int /\ quiet \in Nat /\ windowWake \in Nat
      /\ updated[m] \in Int /\ tried[m] \in Int
  BY TypesOfWindow DEF WindowInv, RestInv
<1>3. /\ up /\ windowLoop = "tick" /\ now >= windowWake
      /\ asked' = now /\ UNCHANGED <<now, quiet, tried, updated>>
  BY DEF WindowAsk, record, history
<1>4. /\ Roomy(m) /\ IsOpening(m, o) /\ quiet < o /\ o <= now /\ now < o + Day
      /\ updated[m] # None => /\ night + Every[m] * Day <= o
                                /\ updated[m] + Every[m] * Day - Slack <= now
  BY <1>3 DEF Ripe, Roomy, Length, IsOpening, NightOf
<1>5. Busy + Tick <= Length(m) /\ 2 * Busy + Tick <= Slack
  BY <1>4 DEF Roomy
<1>6. now <= Known + Busy + Tick
  BY <1>1, <1>2, <1>3 DEF WindowInv, RestInv, Known
<1>7. CASE now < o + Length(m)
  <2>1. Opening(Window[m], now) = o /\ o # None
    BY <1>2, <1>4, <1>7, OpeningIs
  <2>2. ~Recent(m, now)
    BY <1>1, <1>2, <1>4 DEF Recent
  <2> QED
    BY <2>1, <2>2 DEF Due
<1>8. CASE o + Length(m) <= now
  <2>1. quiet < asked /\ now <= asked + Busy + Tick
    BY <1>1, <1>2, <1>4, <1>5, <1>6, <1>8 DEF Known
  <2>2. o <= asked
    BY <1>1, <1>2, <1>5, <1>8, <2>1
  <2>3. ASSUME updated[m] # None
        PROVE  updated[m] + Every[m] * Day - Slack <= asked
    <3>1. updated[m] < night + Length(m) + Busy
      BY <2>3 DEF WindowInv, LateInv
    <3>2. night \in Int
      BY <1>2, NightIs
    <3>3. PICK e \in Nat : e = Every[m] * Day
      BY <1>1
    <3> QED
      BY <1>1, <1>2, <1>4, <1>5, <1>8, <2>1, <2>3, <3>1, <3>2, <3>3
  <2>4. Ripe(m, o)
    BY <1>4, <2>2, <2>3 DEF Ripe
  <2> QED
    BY <1>3, <2>4 DEF WindowInv, NightInv, Waits
<1> QED
  BY <1>1, <1>2, <1>7, <1>8

LEMMA WindowNight ==
  ASSUME WindowInv, [WindowNext]_windowVars
  PROVE  NightInv'
<1>1. /\ now \in Nat /\ quiet \in Nat /\ asked \in Int /\ asked <= now /\ quiet <= now
      /\ Day \in Nat \ {0}
  BY TypesOfWindow, Numbers DEF WindowInv, RestInv
<1>2. NightInv
  BY DEF WindowInv
<1> USE DEF NightInv, Waits
<1>3. CASE WindowPass \/ UNCHANGED windowVars
  <2>1. /\ UNCHANGED <<up, fleet, asked, quiet, tried, updated, out, windowLoop, queue>>
        /\ now' = now \/ now' = now + 1
    BY <1>3 DEF WindowPass, windowVars, record, history
  <2>2. \A m \in Machines, o \in Int : Ripe(m, o)' => Ripe(m, o)
    BY <1>1, <2>1 DEF Ripe, Roomy, Length, IsOpening, NightOf
  <2> QED
    BY <1>2, <2>1, <2>2
<1>4. CASE WindowAsk
  <2>1. /\ UNCHANGED <<fleet, tried, out>> /\ windowLoop' = "next"
        /\ queue' = {m \in Machines : Due(m, now)}
    BY <1>4 DEF WindowAsk, record
  <2> QED
    BY <1>4, <2>1, RipeIsDue
<1>5. CASE Begin
  <2>1. /\ UNCHANGED <<up, fleet, now, asked, quiet, tried, updated, out>> /\ windowLoop' # "tick"
        /\ (~fleet => queue' = queue)
    BY <1>5 DEF Begin, record
  <2>2. \A m \in Machines, o \in Int : Ripe(m, o)' <=> Ripe(m, o)
    BY <2>1 DEF Ripe, Roomy, Length, IsOpening, NightOf
  <2> QED
    BY <1>2, <2>1, <2>2
<1>6. CASE RunEnds
  <2>1. /\ UNCHANGED <<up, fleet, now, asked, quiet, tried, out, queue>>
        /\ up /\ windowLoop = "run" /\ windowLoop' = "ran" /\ queue # {}
        /\ (updated' = updated \/ updated' = [updated EXCEPT ![First(queue)] = now])
    BY <1>6 DEF RunEnds, history, WindowInv, RoundInv
  <2>2. First(queue) \in queue
    BY <2>1, AtFirst
  <2>3. \A m \in Machines \ queue : updated'[m] = updated[m]
    BY <2>1, <2>2 DEF WindowInv, WindowTypeOK
  <2>4. \A m \in Machines \ queue, o \in Int : Ripe(m, o)' <=> Ripe(m, o)
    BY <2>1, <2>3 DEF Ripe, Roomy, Length, IsOpening, NightOf
  <2> QED
    BY <1>2, <2>1, <2>4
<1>7. CASE MarkTried
  <2>1. /\ UNCHANGED <<up, fleet, now, asked, quiet, updated, out>>
        /\ up /\ windowLoop = "ran" /\ windowLoop' = "next" /\ queue # {}
    BY <1>7 DEF MarkTried, history, WindowInv, RoundInv
  <2>2. PICK h \in Machines, a \in Int :
          /\ h = First(queue) /\ a = Opening(Window[h], asked) /\ IsOpening(h, a)
          /\ a <= asked /\ asked < a + Length(h)
    BY <2>1, AtFirst
  <2>3. tried' = [tried EXCEPT ![h] = a] /\ queue' = queue \ {h}
    BY <1>7, <2>2 DEF MarkTried
  <2>4. tried'[h] = a /\ \A m \in Machines \ {h} : tried'[m] = tried[m]
    BY <2>2, <2>3 DEF WindowInv, WindowTypeOK
  <2>5. \A m \in Machines, o \in Int : Ripe(m, o)' <=> Ripe(m, o)
    BY <2>1 DEF Ripe, Roomy, Length, IsOpening, NightOf
  <2>6. ASSUME NEW o \in Int, Ripe(h, o)
        PROVE  a = o
    <3>1. o % Day = a % Day /\ o <= asked /\ now < o + Day
      BY <2>2, <2>6 DEF Ripe, IsOpening
    <3>2. /\ o < a => o + Day <= a
          /\ a < o => a + Day <= o
      BY <3>1, Openings
    <3>3. Length(h) \in Nat /\ Length(h) < Day
      BY Numbers
    <3> QED
      BY <1>1, <2>2, <3>1, <3>2, <3>3
  <2> QED
    BY <1>2, <2>1, <2>3, <2>4, <2>5, <2>6
<1>8. CASE Rest
  <2>1. UNCHANGED <<up, fleet, now, asked, quiet, tried, updated, out>> /\ queue = {}
    BY <1>8 DEF Rest, record, history
  <2>2. \A m \in Machines, o \in Int : Ripe(m, o)' <=> Ripe(m, o)
    BY <2>1 DEF Ripe, Roomy, Length, IsOpening, NightOf
  <2> QED
    BY <1>2, <2>1, <2>2
<1>9. CASE FleetBegins \/ WindowCrash
  BY <1>9 DEF FleetBegins, WindowCrash
<1>10. CASE FleetEnds \/ WindowBoot \/ \E m \in Machines : Toggle(m)
  <2>1. quiet' = now /\ (asked' = asked \/ asked' = -1)
    BY <1>10 DEF FleetEnds, WindowBoot, Toggle, None
  <2>2. \A m \in Machines, o \in Int : ~Ripe(m, o)'
    BY <1>1, <2>1 DEF Ripe
  <2> QED
    BY <2>2
<1> QED
  BY <1>3, <1>4, <1>5, <1>6, <1>7, <1>8, <1>9, <1>10 DEF WindowNext

LEMMA WindowAttempt ==
  ASSUME WindowInv, [WindowNext]_windowVars
  PROVE  AttemptInv'
<1>1. AttemptInv
  BY DEF WindowInv
<1>2. CASE Begin
  <2>1. up /\ windowLoop = "next" /\ queue # {} /\ UNCHANGED <<up, tried>>
    BY <1>2 DEF Begin, record
  <2>2. PICK h \in Machines : h = First(queue)
    BY <2>1, AtFirst
  <2>3. CASE /\ queue' = queue /\ windowLoop' = "run"
             /\ ownRun' = [ownRun EXCEPT ![h] = now] /\ cut' = cut \ {h}
    <3>1. \A m \in Machines \ {h} : ownRun'[m] = ownRun[m] /\ (m \notin cut' => m \notin cut)
      BY <2>3 DEF WindowInv, WindowTypeOK
    <3>2. h = First(queue')
      BY <2>2, <2>3
    <3> QED
      BY <1>1, <2>1, <2>2, <2>3, <3>1, <3>2 DEF AttemptInv, Length, First
  <2>4. CASE UNCHANGED <<windowLoop, ownRun, cut>>
    BY <1>1, <2>1, <2>4 DEF AttemptInv, Length
  <2> QED
    BY <1>2, <2>2, <2>3, <2>4 DEF Begin
<1>3. CASE MarkTried
  <2>1. UNCHANGED <<up, ownRun, cut>> /\ up /\ windowLoop = "ran" /\ queue # {}
    BY <1>3 DEF MarkTried, history, WindowInv, RoundInv
  <2>2. PICK h \in Machines, a \in Int, i \in Nat \ {0} :
          /\ h = First(queue) /\ a = Opening(Window[h], asked) /\ a # None
          /\ a <= asked /\ asked < a + Length(h) /\ i <= Len(Order)
          /\ asked <= ownRun[h] /\ ownRun[h] <= asked + RunLength * (i - 1)
    BY <2>1, AtFirst
  <2>3. tried' = [tried EXCEPT ![h] = a]
    BY <1>3, <2>2 DEF MarkTried
  <2>4. tried'[h] = a /\ \A m \in Machines \ {h} : tried'[m] = tried[m]
    BY <2>2, <2>3 DEF WindowInv, WindowTypeOK
  <2>5. /\ Busy \in Nat /\ Length(h) \in Nat /\ Day \in Nat /\ Len(Order) \in Nat
        /\ asked \in Int /\ ownRun[h] \in Int
    BY Numbers, TypesOfWindow
  <2>6. ownRun[h] <= asked + Busy
    <3>1. PICK j \in Nat : j = i - 1 /\ j <= Len(Order)
      BY <2>2, <2>5
    <3>2. RunLength * j \in Nat /\ RunLength * j <= Busy
      BY <3>1, Rounds
    <3> QED
      BY <2>2, <2>5, <3>1, <3>2
  <2>7. Length(h) + Busy <= Day => a <= ownRun[h] /\ ownRun[h] < a + Day
    BY <2>2, <2>5, <2>6
  <2> QED
    BY <1>1, <2>1, <2>2, <2>4, <2>7 DEF AttemptInv, Length
<1>4. CASE RunEnds
  <2>1. UNCHANGED <<up, ownRun, cut, tried, queue>> /\ up /\ windowLoop = "run" /\ windowLoop' = "ran"
    BY <1>4 DEF RunEnds, history
  <2> QED
    BY <1>1, <2>1 DEF AttemptInv, Length, First
<1>5. CASE WindowCrash
  <2>1. UNCHANGED <<ownRun, tried>> /\ cut \subseteq cut'
        /\ (up /\ windowLoop \in {"run", "ran"} => First(queue) \in cut')
    BY <1>5 DEF WindowCrash, record
  <2> QED
    BY <1>1, <2>1 DEF AttemptInv, Length
<1>6. CASE WindowAsk \/ Rest \/ WindowBoot
  <2>1. UNCHANGED <<ownRun, tried, cut>> /\ ~(up /\ windowLoop \in {"run", "ran"})
    BY <1>6 DEF WindowAsk, Rest, WindowBoot, record, history
  <2> QED
    BY <1>1, <2>1 DEF AttemptInv, Length
<1>7. CASE \/ WindowPass \/ FleetBegins \/ FleetEnds
           \/ (\E m \in Machines : Toggle(m)) \/ UNCHANGED windowVars
  <2>1. UNCHANGED <<up, windowLoop, queue, ownRun, tried, cut>>
    BY <1>7 DEF WindowPass, FleetBegins, FleetEnds, Toggle, windowVars, record, history
  <2> QED
    BY <1>1, <2>1 DEF AttemptInv, Length, First
<1> QED
  BY <1>2, <1>3, <1>4, <1>5, <1>6, <1>7 DEF WindowNext

LEMMA WindowsInvariant == WindowSpec => []WindowInv
<1>1. WindowInit => WindowInv
  BY WindowStarts
<1>2. WindowInv /\ [WindowNext]_windowVars => WindowInv'
  BY WindowTypes, WindowRest, WindowRound, WindowLate, WindowSettled, WindowNight, WindowAttempt
    DEF WindowInv
<1> QED
  BY <1>1, <1>2, PTL DEF WindowSpec

\* A machine whose window has room for the runs of all is tried in each of its nights that
\* the loop lives through, as many nights after its last update as the configuration says,
\* and however late in its window that was (update_window.due and its slack of half a day,
\* mark_tried, Scheduler._window_loop).
THEOREM NightsAreKept == WindowSpec => []NightsKept
<1>1. ASSUME WindowInv PROVE NoNightLeftOut
  <2> SUFFICES ASSUME up, ~fleet, windowLoop = "tick", NEW m \in Machines \ out, Roomy(m),
                      NEW o \in quiet + 1 .. now - Length(m),
                      IsOpening(m, o), now < o + Day,
                      updated[m] # None =>
                        NightOf(m, updated[m]) + Every[m] * Day <= o
               PROVE  tried[m] = o
    BY DEF NoNightLeftOut
  <2> DEFINE night == NightOf(m, updated[m])
  <2>1. /\ Day \in Nat \ {0} /\ Tick \in Nat \ {0} /\ Busy \in Nat /\ Slack \in Nat
        /\ Every[m] * Day \in Nat /\ Length(m) \in Nat
    BY Numbers
  <2>2. /\ now \in Nat /\ asked \in Int /\ quiet \in Nat /\ windowWake \in Nat /\ updated[m] \in Int
    BY <1>1, TypesOfWindow
  <2>3. o \in Int /\ quiet < o /\ o + Length(m) <= now
    BY <2>1, <2>2
  <2>4. Busy + Tick <= Length(m) /\ 2 * Busy + Tick <= Slack
    BY DEF Roomy
  <2>5. now <= Known + Busy + Tick
    BY <1>1, <2>1, <2>2 DEF WindowInv, RestInv, Known
  <2>6. o <= asked /\ now <= asked + Busy + Tick
    BY <2>1, <2>2, <2>3, <2>4, <2>5 DEF Known
  <2>7. ASSUME updated[m] # None
        PROVE  updated[m] + Every[m] * Day - Slack <= asked
    <3>1. updated[m] < night + Length(m) + Busy
      BY <1>1, <2>7 DEF WindowInv, LateInv
    <3>2. night \in Int
      BY <2>2, NightIs
    <3>3. PICK e \in Nat : e = Every[m] * Day /\ night + e <= o
      BY <2>1, <2>7
    <3> QED
      BY <2>1, <2>2, <2>3, <2>4, <2>6, <3>1, <3>2, <3>3
  <2>8. Ripe(m, o)
    BY <2>3, <2>6, <2>7 DEF Ripe
  <2> QED
    BY <1>1, <2>3, <2>8 DEF WindowInv, NightInv, Waits
<1>2. WindowInv => NightsKept
  BY <1>1 DEF NightsKept, WindowInv
<1> QED
  BY <1>2, WindowsInvariant, PTL

\* A machine that is due waits for a round of the loop and a TICK at most, unless the fleet
\* is updated (Scheduler._window_loop, which asks for all the due machines at once).
THEOREM NoneIsKeptWaiting == WindowSpec => []NotKeptWaiting
<1>1. ASSUME WindowInv PROVE NotKeptWaiting
  <2> SUFFICES ASSUME up, ~fleet, windowLoop = "tick", NEW m \in Machines,
                      ~(now <= quiet + Busy + Tick)
               PROVE  \E t \in now - Busy - Tick .. now : ~Due(m, t)
    BY DEF NotKeptWaiting
  <2>1. /\ now \in Nat /\ asked \in Int /\ quiet \in Nat /\ windowWake \in Nat /\ asked <= now
        /\ Tick \in Nat /\ Busy \in Nat
    BY <1>1, TypesOfWindow, Numbers
  <2>2. asked > quiet /\ now <= asked + Busy + Tick
    BY <1>1, <2>1 DEF WindowInv, RestInv, Known
  <2>3. ~Due(m, asked)
    BY <1>1, <2>2 DEF WindowInv, SettledInv, Waits
  <2>4. asked \in now - Busy - Tick .. now
    BY <2>1, <2>2
  <2> QED
    BY <2>3, <2>4
<1> QED
  BY <1>1, WindowsInvariant, PTL

\* A machine is begun once in a window: the mark made with the moment the loop asked holds
\* until the window closes, also after a run that outlived it, unless a crash cut the run
\* short or the runs before its own take longer than the machine's window is closed
\* (update_window.mark_tried).
THEOREM OneAttemptInAWindow == WindowSpec => OneAttemptUnlessCut
<1> DEFINE Step == \A m \in Machines : Starts(m) /\ Opening(Window[m], now) # None =>
                     \/ ownRun[m] < Opening(Window[m], now) \/ m \in cut
                     \/ Length(m) + Busy > Day
<1>1. ASSUME WindowInv, [WindowNext]_windowVars PROVE Step
  <2> SUFFICES ASSUME NEW m \in Machines, Starts(m), Opening(Window[m], now) # None,
                      ~(ownRun[m] < Opening(Window[m], now)), m \notin cut,
                      ~(Length(m) + Busy > Day)
               PROVE  FALSE
    OBVIOUS
  <2>1. Begin
    BY <1>1 DEF Starts, WindowNext, windowVars, record, WindowPass, WindowAsk, RunEnds, MarkTried, Rest,
      FleetBegins, FleetEnds, Toggle, WindowCrash, WindowBoot
  <2>2. up /\ windowLoop = "next" /\ queue # {} /\ m = First(queue)
    BY <2>1 DEF Begin, Starts
  <2>3. PICK a \in Int :
          /\ IsOpening(m, a) /\ a <= asked /\ asked < a + Length(m) /\ tried[m] # a
    BY <1>1, <2>2, AtFirst
  <2>4. /\ now \in Nat /\ Day <= now /\ asked \in Int /\ asked <= now
        /\ tried[m] \in Int /\ ownRun[m] \in Int /\ ownRun[m] <= now
        /\ Day \in Nat \ {0} /\ Busy \in Nat /\ Length(m) \in Nat /\ Length(m) < Day
        /\ now <= asked + Busy /\ None = -1
    BY <1>1, <2>2, TypesOfWindow, Numbers, RoundIsBusy DEF WindowInv, RestInv, None
  <2>5. PICK p \in Int : /\ p = Opening(Window[m], now) /\ IsOpening(m, p)
                         /\ p <= now /\ now < p + Length(m)
    <3>1. now \in Int /\ Day <= now
      BY <2>4
    <3> QED
      BY <3>1, OpeningIs
  <2>6. p <= ownRun[m] /\ ownRun[m] # None /\ Length(m) + Busy <= Day
    BY <2>4, <2>5
  <2>7. /\ tried[m] # None /\ tried[m] <= ownRun[m] /\ ownRun[m] < tried[m] + Day
        /\ IsOpening(m, tried[m])
    BY <1>1, <2>2, <2>6 DEF WindowInv, AttemptInv, WindowTypeOK
  <2>8. /\ a < p => a + Day <= p
        /\ p < a => p + Day <= a
        /\ tried[m] < p => tried[m] + Day <= p
        /\ p < tried[m] => p + Day <= tried[m]
    BY <2>3, <2>4, <2>5, <2>7, Openings DEF IsOpening
  <2>9. p = a
    BY <2>3, <2>4, <2>5, <2>6, <2>8
  <2>10. p = tried[m]
    BY <2>4, <2>5, <2>6, <2>7, <2>8
  <2> QED
    BY <2>3, <2>9, <2>10
<1>2. WindowInv /\ [WindowNext]_windowVars => [Step]_windowVars
  BY <1>1
<1>3. OneAttemptUnlessCut <=> [][Step]_windowVars
  BY DEF OneAttemptUnlessCut
<1> QED
  BY <1>2, <1>3, WindowsInvariant, PTL DEF WindowSpec

=============================================================================
