------------------------------ MODULE WakeupPlan ------------------------------
(***************************************************************************)
(* The computation of the next wakeup: among the enabled schedules, the    *)
(* one that is due first from now on, if it is due before the telemetry    *)
(* interval runs out; the telemetry timer otherwise.                       *)
(*                                                                         *)
(* Time is counted in ticks (the seconds of the code) and repeats every    *)
(* week: schedules know weekdays and minutes, never dates, and an interval *)
(* is shorter than a day.                                                  *)
(***************************************************************************)
EXTENDS Integers, FiniteSets

CONSTANTS
  TicksPerMinute, (* 60 in the code.   *)
  MinutesPerDay,  (* 1440 in the code. *)
  DaysPerWeek,    (* 7 in the code.    *)
  ScheduleItems   (* MAX_SCHEDULE_ITEMS *)

ASSUME CalendarAssumption ==
  /\ TicksPerMinute \in Nat \ {0}
  /\ MinutesPerDay \in Nat \ {0}
  /\ DaysPerWeek \in Nat \ {0}
  /\ ScheduleItems \in Nat \ {0}

TicksPerDay == MinutesPerDay * TicksPerMinute
Week        == DaysPerWeek * TicksPerDay

Times     == 0 .. Week - 1
Minutes   == 0 .. MinutesPerDay - 1
Weekdays  == 0 .. DaysPerWeek - 1
Ids       == 0 .. ScheduleItems - 1
BadMinute == -1 (* A time string that does not parse. *)

DayOf(t)       == t \div TicksPerDay
TickOfDay(t)   == t % TicksPerDay
MinuteOfDay(t) == TickOfDay(t) \div TicksPerMinute
Later(t, k)    == (t + k) % Week
Until(t, u)    == (u - t) % Week  (* The ticks from t to the next u. *)

(* How many ticks after now the schedule's time comes, d days ahead: its   *)
(* minute of that day, less the part of today that is over.                *)
Candidate(s, now, d) ==
  d * TicksPerDay + s.minute * TicksPerMinute - TickOfDay(now)

(* The days of the coming week on which the schedule is due.               *)
DueDays(s, now) ==
  {d \in 0 .. DaysPerWeek - 1 :
     /\ (DayOf(now) + d) % DaysPerWeek \in s.days
     /\ Candidate(s, now, d) >= 0}

Considered(s, now) == s.enabled /\ s.minute # BadMinute /\ DueDays(s, now) # {}

(* The search stops at the first such day. *)
FirstDue(s, now) ==
  LET first == CHOOSE d \in DueDays(s, now) : \A e \in DueDays(s, now) : d <= e
  IN  Candidate(s, now, first)

(* Fault: the last schedule found replaces the closest one. *)
Precedes_ById(table, now, i, j) == j <= i

(* The table is searched by id and only a strictly earlier schedule        *)
(* replaces the closest one so far: of several due together, the lowest.   *)
Precedes(table, now, i, j) ==
  LET di == FirstDue(table[i], now)
      dj == FirstDue(table[j], now)
  IN  di < dj \/ (di = dj /\ i <= j)

Found(table, now) == {i \in Ids : Considered(table[i], now)}

Closest(table, now) ==
  CHOOSE i \in Found(table, now) :
    \A j \in Found(table, now) : Precedes(table, now, i, j)

(* Fault: the timer wins a tie. *)
AlarmFirst_Strict(table, interval, now) ==
  /\ Found(table, now) # {}
  /\ FirstDue(table[Closest(table, now)], now) < interval

(* The alarm wins when its schedule is due before the interval is over. *)
AlarmFirst(table, interval, now) ==
  /\ Found(table, now) # {}
  /\ FirstDue(table[Closest(table, now)], now) <= interval

AlarmTime(table, now) == Later(now, FirstDue(table[Closest(table, now)], now))

-----------------------------------------------------------------------------
(* What the search is for, by looking at every moment of the interval      *)

(* The schedule is due at time t. *)
Occurs(s, t) ==
  /\ s.enabled
  /\ s.minute = MinuteOfDay(t)
  /\ t % TicksPerMinute = 0
  /\ DayOf(t) \in s.days

SomeOccurs(table, t) == \E id \in Ids : Occurs(table[id], t)

(* An alarm is planned for the first moment of the interval, this one      *)
(* included, at which an enabled schedule is due, and that schedule is the *)
(* one that is found; without such a moment no alarm is planned.           *)
IsEarliest(table, interval, now) ==
  IF AlarmFirst(table, interval, now)
    THEN LET at == AlarmTime(table, now) IN
         /\ Until(now, at) <= interval
         /\ Occurs(table[Closest(table, now)], at)
         /\ \A k \in 0 .. Until(now, at) - 1 : ~SomeOccurs(table, Later(now, k))
    ELSE \A k \in 0 .. interval : ~SomeOccurs(table, Later(now, k))
=============================================================================
