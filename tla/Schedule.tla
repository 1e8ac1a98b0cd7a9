------------------------------- MODULE Schedule -------------------------------
(***************************************************************************)
(* When a job runs next: next_run of timar/schedule.py.  The midnight that *)
(* datetimes are counted from is a Monday's; a day of a few units is       *)
(* enough for TLC.                                                         *)
(***************************************************************************)
EXTENDS Clock

CONSTANTS
    Hour,   \* the units of an hour
    Days    \* the days of a week: the length of schedule.DAYS

ASSUME ScheduleAssumption ==
    /\ Hour \in Nat \ {0}
    /\ Days \in Nat \ {0}

Schedule == [enabled : BOOLEAN, kind : {"interval", "daily", "weekly"},
             at : Int, day : Int, every : Int]
Never == [enabled |-> FALSE, kind |-> "daily", at |-> 0, day |-> 0, every |-> 1]

\* ScheduleError: a time, a day or an interval that is out of range.
Invalid(s) ==
    /\ s.enabled
    /\ \/ s.kind = "interval" /\ s.every < 1
       \/ s.kind # "interval" /\ s.at \notin 0 .. Day - 1
       \/ s.kind = "weekly" /\ s.day \notin 0 .. Days - 1

Midnight(t) == t - (t % Day)
Weekday(t) == (t \div Day) % Days

NextDaily(s, after) ==
    LET candidate == Midnight(after) + s.at
    IN IF candidate <= after THEN candidate + Day ELSE candidate

NextWeekly(s, after) ==
    LET today == Midnight(after) + s.at
        candidate == today + ((s.day - Weekday(today)) % Days) * Day
    IN IF candidate <= after THEN candidate + Days * Day ELSE candidate

NextInterval(s, after, last) ==
    LET base == IF last = None THEN after ELSE last
        candidate == base + Hour * s.every
    IN IF candidate > after THEN candidate ELSE after

\* next_run of a schedule that is not Invalid.
NextRun(s, after, last) ==
    CASE ~s.enabled -> None
      [] s.enabled /\ s.kind = "interval" -> NextInterval(s, after, last)
      [] s.enabled /\ s.kind = "daily" -> NextDaily(s, after)
      [] s.enabled /\ s.kind = "weekly" -> NextWeekly(s, after)

\* The reference: the moments a daily or weekly schedule names.
IsMoment(s, t) ==
    /\ t % Day = s.at
    /\ s.kind = "weekly" => Weekday(t) = s.day

=============================================================================
