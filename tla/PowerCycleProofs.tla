-------------------------- MODULE PowerCycleProofs --------------------------
(***************************************************************************)
(* Proofs about PowerCycle, for every calendar, table and interval: types, *)
(* the plan, the agreement of RTC and context, and that a device which was *)
(* programmed in time wakes when it should and only then by its alarm.     *)
(***************************************************************************)
EXTENDS PowerCycle, AlgorithmsProofs

(* What the proofs assume of the calendar and of the shutdown: a week has  *)
(* several days, and all but the last of them and a minute are more than a *)
(* shutdown takes.                                                         *)
Roomy == DaysPerWeek > 1 /\ Lag + TicksPerDay + TicksPerMinute <= Week

-----------------------------------------------------------------------------
(* The invariant *)

Committed == {"planned", "saving", "cutting", "off"}
Busy      == {"planned", "saving", "cutting"}
Asleep    == {"saving", "cutting", "off"}

(* The plan is what the search gives for the moment it was made. *)
PlanInv ==
  pc \in Committed =>
    /\ plan.kind = "alarm" => /\ AlarmFirst(table, interval, plan.from)
                              /\ plan.id = Closest(table, plan.from)
                              /\ plan.at = AlarmTime(table, plan.from)
    /\ plan.kind = "timer" => ~AlarmFirst(table, interval, plan.from)
    /\ pc = "planned" => plan = PlanAt(plan.from)

(* A plan is armed when the RTC is programmed, and there is one; it is     *)
(* saved last.                                                             *)
ArmedInv ==
  /\ pc = "planned" => ~plan.armed
  /\ plan.armed => plan.kind # "none"
  /\ pc \in {"planned", "saving"} => ~plan.saved

Elapsed == Until(plan.from, clock)

LagInv == pc \in Busy /\ plan.kind # "none" => Elapsed = lag

(* The alarm is that of the plan, and has rung once its moment has come.   *)
AlarmInv ==
  pc \in Asleep /\ plan.armed /\ plan.kind = "alarm" =>
    /\ alarm = table[plan.id].minute
    /\ ctrl.aie
    /\ ~ctrl.af => Elapsed < Until(plan.from, plan.at)

(* The timer runs, and does not outlast the plan by more than the shutdown *)
(* took.                                                                   *)
TimerInv ==
  pc \in Asleep /\ plan.armed /\ plan.kind = "timer" =>
    /\ ctrl.tie /\ timer.on /\ ~ctrl.aie
    /\ Accepted(interval) /\ timer.period = TimerPeriod(interval)
    /\ Elapsed + timer.left <= lag + timer.period

ContextInv ==
  pc \in {"cutting", "off"} /\ plan.armed /\ plan.saved =>
    IF plan.kind = "alarm"
      THEN pending = [reason |-> Scheduled, action |-> Low4(table[plan.id].action)]
      ELSE pending.reason = Telemetry

(* A device is never off with its alarm ringing. *)
OffInv == pc = "off" => ~AlarmInt(ctrl)

Inv == /\ TypeOK /\ PlanInv /\ ArmedInv /\ LagInv
       /\ AlarmInv /\ TimerInv /\ ContextInv /\ OffInv

-----------------------------------------------------------------------------
(* Types *)

(* What the assumptions say of the constants. *)
LEMMA PowerNumbers ==
  /\ TimerCountMax \in Nat \ {0} /\ MaxTicks \in Nat \ {0} /\ Lag \in Nat
  /\ Intervals \subseteq 0 .. TicksPerDay - 1 /\ 0 \in Intervals
  /\ \A i \in Intervals : i \in Nat
  /\ 0 \in Times /\ SyncTimes \subseteq Times
<1>1. MaxTicks \in Nat \ {0}
  BY PowerAssumption, CalendarNumbers DEF MaxTicks
<1> QED
  BY <1>1, PowerAssumption, CalendarNumbers DEF Times

(* The factory table holds schedules. *)
LEMMA BlankIsSchedule == Blank \in Schedule
BY DEF Blank, Schedule, Actions, PowerOff

(* The parts of a schedule that the search reads. *)
LEMMA SchedulesAre ==
  ASSUME NEW s \in Schedule
  PROVE  s.minute \in Minutes \cup {BadMinute} /\ s.action \in Actions
BY DEF Schedule

(* The table holds schedules. *)
LEMMA TableIsReadable ==
  ASSUME table \in [Ids -> Offered \cup {Blank}]
  PROVE  /\ Readable(table)
         /\ \A i \in Ids : table[i].action \in Actions
<1>1. \A i \in Ids : table[i] \in Schedule
  BY BlankIsSchedule, PowerAssumption
<1> QED
  BY <1>1, SchedulesAre DEF Readable

(* Four bits of an action. *)
LEMMA FourBits ==
  ASSUME NEW a \in Actions
  PROVE  Low4(a) \in 0 .. 15
BY DEF Actions, Low4

(* The timer counts no less than what it is asked for, and less than a     *)
(* minute more.                                                            *)
LEMMA PeriodOf ==
  ASSUME NEW i \in Nat, Accepted(i)
  PROVE  /\ TimerPeriod(i) \in 1 .. MaxTicks
         /\ TimerPeriod(i) >= i /\ TimerPeriod(i) < i + TicksPerMinute
<1> DEFINE P == TicksPerMinute
           n == (i + P - 1) \div P
           r == (i + P - 1) % P
<1>1. i \in 1 .. MaxTicks /\ MaxTicks \in Nat
  BY PowerNumbers DEF Accepted
<1>2. CASE i <= TimerCountMax
  BY <1>1, <1>2, CalendarNumbers DEF TimerPeriod
<1>3. CASE ~(i <= TimerCountMax)
  <2>1. P \in Nat \ {0} /\ i + P - 1 \in Int
    BY CalendarNumbers
  <2>2. r \in 0 .. P - 1 /\ n \in Int /\ i + P - 1 = n * P + r
    BY <2>1, Remainder
  <2>3. TimerPeriod(i) = n * P
    BY <1>3 DEF TimerPeriod
  <2> HIDE DEF n, r
  <2>4. n * P \in Int
    BY <2>1, <2>2, Distributes
  <2>5. n * P >= i /\ n * P < i + P
    BY <2>1, <2>2, <2>4
  <2>6. ASSUME n > TimerCountMax PROVE FALSE
    <3>1. (TimerCountMax + 1) * P <= n * P
      BY <2>1, <2>2, <2>6, PowerNumbers, Monotone
    <3>2. (TimerCountMax + 1) * P = MaxTicks + P
      BY <2>1, PowerNumbers DEF MaxTicks
    <3> QED
      BY <1>1, <2>1, <2>4, <2>5, <3>1, <3>2
  <2>7. n * P <= MaxTicks
    BY <2>1, <2>2, <2>6, PowerNumbers, Monotone DEF MaxTicks
  <2> QED
    BY <1>1, <2>3, <2>4, <2>5, <2>7
<1> QED
  BY <1>2, <1>3

-----------------------------------------------------------------------------
(* The passing of time *)

(* A tick, and a shutdown, are less than a week. *)
LEMMA RoomyNumbers ==
  ASSUME Roomy
  PROVE  Week > 1 /\ 1 \in 0 .. Week - 1 /\ Lag < Week
BY PowerNumbers, CalendarNumbers DEF Roomy

(* The ticks to a moment, this week or the next. *)
LEMMA UntilCases ==
  ASSUME NEW t \in Times, NEW u \in Times
  PROVE  /\ Until(t, u) = IF u >= t THEN u - t ELSE u - t + Week
         /\ Until(t, u) \in 0 .. Week - 1
         /\ t \in Int /\ u \in Int
<1>1. t \in 0 .. Week - 1 /\ u \in 0 .. Week - 1
  BY DEF Times
<1>2. (u - t) % Week = IF u >= t THEN u - t ELSE u - t + Week
  BY <1>1, CalendarNumbers, WrapsBack
<1>3. Until(t, u) = IF u >= t THEN u - t ELSE u - t + Week
  BY <1>2 DEF Until
<1>4. Until(t, u) \in 0 .. Week - 1
  BY LaterAndUntil
<1>5. t \in Int /\ u \in Int
  BY <1>1, CalendarNumbers
<1> QED
  BY <1>3, <1>4, <1>5

(* A tick later, one tick more has elapsed. *)
LEMMA TickElapses ==
  ASSUME Roomy, NEW from \in Times, NEW t \in Times
  PROVE  /\ Later(t, 1) \in Times
         /\ Until(from, Later(t, 1))
              = IF Until(from, t) + 1 < Week THEN Until(from, t) + 1 ELSE 0
<1>1. Later(t, 1) \in Times
  BY RoomyNumbers, LaterAndUntil
<1>2. Later(t, 1) = IF t + 1 < Week THEN t + 1 ELSE t + 1 - Week
  <2>1. t \in 0 .. Week - 1
    BY DEF Times
  <2> QED
    BY <2>1, RoomyNumbers, CalendarNumbers, WrapsOnce DEF Later
<1> DEFINE n == Later(t, 1)
<1> HIDE DEF n
<1>3. /\ n \in Times
      /\ n = IF t + 1 < Week THEN t + 1 ELSE t + 1 - Week
  BY <1>1, <1>2 DEF n
<1>4. from \in 0 .. Week - 1 /\ t \in 0 .. Week - 1
  BY DEF Times
<1>5. Until(from, n) = IF Until(from, t) + 1 < Week THEN Until(from, t) + 1 ELSE 0
  <2>1. Until(from, t) = IF t >= from THEN t - from ELSE t - from + Week
    BY UntilCases
  <2>2. Until(from, n) = IF n >= from THEN n - from ELSE n - from + Week
    BY <1>3, UntilCases
  <2> QED
    BY <1>3, <1>4, <2>1, <2>2, CalendarNumbers
<1> QED
  BY <1>1, <1>5 DEF n

(* Two moments at the same distance are the same. *)
LEMMA UntilSame ==
  ASSUME NEW from \in Times, NEW t \in Times, NEW u \in Times,
         Until(from, t) = Until(from, u)
  PROVE  t = u
BY LaterAndUntil

(* What is left until a moment that has not come. *)
LEMMA UntilLeft ==
  ASSUME NEW from \in Times, NEW t \in Times, NEW u \in Times,
         Until(from, t) <= Until(from, u)
  PROVE  Until(t, u) = Until(from, u) - Until(from, t)
<1>1. /\ from \in 0 .. Week - 1 /\ t \in 0 .. Week - 1 /\ u \in 0 .. Week - 1
      /\ Week \in Nat
  BY CalendarNumbers DEF Times
<1> QED
  BY <1>1, UntilCases

(* A moment less than a day ahead that is not over is a moment to come.    *)
LEMMA NotOver ==
  ASSUME NEW from \in Times, NEW t \in Times, NEW u \in Times,
         Until(from, u) < TicksPerDay, Until(from, t) + TicksPerDay <= Week,
         Until(t, u) \in 1 .. TicksPerDay - 1
  PROVE  Until(from, t) < Until(from, u)
<1>1. /\ from \in 0 .. Week - 1 /\ t \in 0 .. Week - 1 /\ u \in 0 .. Week - 1
      /\ Week \in Nat /\ TicksPerDay \in Nat
  BY CalendarNumbers DEF Times
<1> QED
  BY <1>1, UntilCases

(* Two moments of the same tick of the day, less than a day apart. *)
LEMMA SameTick ==
  ASSUME NEW t \in Times, NEW u \in Times, TickOfDay(t) = TickOfDay(u),
         Until(t, u) < TicksPerDay
  PROVE  t = u
<1> DEFINE q == DayOf(t)
           e == DayOf(u)
           r == TickOfDay(t)
           n == IF u >= t THEN e - q ELSE e - q + DaysPerWeek
<1>1. /\ q \in Int /\ e \in Int /\ r \in Int
      /\ t = q * TicksPerDay + r /\ u = e * TicksPerDay + r
  BY DayAndTick, CalendarNumbers DEF Weekdays
<1>2. TicksPerDay \in Nat \ {0} /\ DaysPerWeek \in Nat /\ Week = DaysPerWeek * TicksPerDay
  BY CalendarNumbers
<1>3. /\ Until(t, u) = IF u >= t THEN u - t ELSE u - t + Week
      /\ Until(t, u) \in Int /\ Until(t, u) >= 0 /\ t \in Int /\ u \in Int
  BY UntilCases, CalendarNumbers
<1> HIDE DEF q, e, r
<1>4. /\ q * TicksPerDay \in Int /\ e * TicksPerDay \in Int /\ Week \in Int
      /\ (e - q) * TicksPerDay = e * TicksPerDay - q * TicksPerDay
      /\ (e - q + DaysPerWeek) * TicksPerDay = e * TicksPerDay - q * TicksPerDay + Week
  BY <1>1, <1>2
<1>5. Until(t, u) = n * TicksPerDay /\ n \in Int
  BY <1>1, <1>2, <1>3, <1>4
<1> HIDE DEF n
<1>6. n <= 0
  <2>1. ASSUME n >= 1 PROVE FALSE
    <3>1. 1 * TicksPerDay <= n * TicksPerDay
      BY <1>2, <1>5, <2>1, Monotone
    <3> QED
      BY <1>2, <1>3, <1>5, <3>1
  <2> QED
    BY <1>5, <2>1
<1>7. n * TicksPerDay <= 0 * TicksPerDay
  BY <1>2, <1>5, <1>6, Monotone
<1>8. Until(t, u) = 0
  BY <1>2, <1>3, <1>5, <1>7
<1>9. t \in 0 .. Week - 1 /\ u \in 0 .. Week - 1
  BY DEF Times
<1> QED
  BY <1>3, <1>8, <1>9, CalendarNumbers

(* The start of a minute is a moment of its own in its day. *)
LEMMA SameMinute ==
  ASSUME NEW t \in Times, NEW u \in Times, MinuteOfDay(t) = MinuteOfDay(u),
         t % TicksPerMinute = 0, u % TicksPerMinute = 0
  PROVE  TickOfDay(t) = TickOfDay(u)
<1>1. /\ TickOfDay(t) \in Int /\ TickOfDay(u) \in Int
      /\ TickOfDay(t) % TicksPerMinute = 0 /\ TickOfDay(u) % TicksPerMinute = 0
  BY DayAndTick, TickOfMinute, CalendarNumbers
<1>2. ASSUME NEW x \in Int, x % TicksPerMinute = 0
      PROVE  x = (x \div TicksPerMinute) * TicksPerMinute
  <2>1. x = (x \div TicksPerMinute) * TicksPerMinute + (x % TicksPerMinute)
        /\ x \div TicksPerMinute \in Int
    BY CalendarNumbers, Remainder
  <2>2. (x \div TicksPerMinute) * TicksPerMinute \in Int
    BY <2>1, CalendarNumbers, Distributes
  <2> QED
    BY <1>2, <2>1, <2>2
<1> QED
  BY <1>1, <1>2 DEF MinuteOfDay

-----------------------------------------------------------------------------
(* Type correctness *)

Controls == [af : BOOLEAN, tf : BOOLEAN, aie : BOOLEAN, tie : BOOLEAN]
Timers   == [on : BOOLEAN, period : 0 .. MaxTicks, left : 0 .. MaxTicks]
Plans    == [kind : {"none", "alarm", "timer"}, id : Ids \cup {-1},
             from : Times, at : Times, armed : BOOLEAN, saved : BOOLEAN]
Contexts == [reason : {Telemetry, Scheduled}, action : 0 .. 15]

(* A boot forgets the plan. *)
LEMMA NoPlanType ==
  NoPlan \in Plans /\ NoPlan.kind = "none" /\ ~NoPlan.armed /\ ~NoPlan.saved
BY PowerNumbers DEF NoPlan, Plans

(* A stopped timer is a timer. *)
LEMMA StoppedType == Stopped \in Timers /\ ~Stopped.on
BY PowerNumbers DEF Stopped, Timers

(* rtc_ht8563_clear_flags clears the flags and enables the alarm. *)
LEMMA ClearedType ==
  ASSUME NEW c \in Controls
  PROVE  Cleared(c) \in Controls /\ ~Cleared(c).af /\ Cleared(c).aie
BY DEF Controls, Cleared

(* What the search plans for a moment. *)
LEMMA PlanAtIs ==
  ASSUME TypeOK, NEW now \in Times
  PROVE  /\ PlanAt(now) \in Plans
         /\ PlanAt(now).from = now /\ ~PlanAt(now).armed /\ ~PlanAt(now).saved
         /\ PlanAt(now).kind # "none"
         /\ PlanAt(now).kind = "alarm" =>
              /\ AlarmFirst(table, interval, now)
              /\ PlanAt(now).id = Closest(table, now)
              /\ PlanAt(now).at = AlarmTime(table, now)
         /\ PlanAt(now).kind = "timer" => ~AlarmFirst(table, interval, now)
<1>1. Readable(table)
  BY TableIsReadable DEF TypeOK
<1>2. CASE AlarmFirst(table, interval, now)
  <2>1. Closest(table, now) \in Ids /\ AlarmTime(table, now) \in Times
    BY <1>1, <1>2, AlarmIsMoment DEF AlarmFirst
  <2>2. PlanAt(now) = [kind |-> "alarm", id |-> Closest(table, now), from |-> now,
                       at |-> AlarmTime(table, now), armed |-> FALSE,
                       saved |-> FALSE]
    BY <1>2 DEF PlanAt
  <2> QED
    BY <1>2, <2>1, <2>2 DEF Plans
<1>3. CASE ~AlarmFirst(table, interval, now)
  <2>1. interval \in 0 .. Week - 1
    BY PowerNumbers, CalendarNumbers DEF TypeOK
  <2>2. Later(now, interval) \in Times
    BY <2>1, LaterAndUntil
  <2>3. PlanAt(now) = [kind |-> "timer", id |-> -1, from |-> now,
                       at |-> Later(now, interval), armed |-> FALSE,
                       saved |-> FALSE]
    BY <1>3 DEF PlanAt
  <2> QED
    BY <1>3, <2>2, <2>3 DEF Plans
<1> QED
  BY <1>2, <1>3

(* The alarm of a plan is one of the table's. *)
LEMMA PlannedAlarm ==
  ASSUME TypeOK, PlanInv, pc \in Committed, plan.kind = "alarm"
  PROVE  /\ plan.id \in Ids /\ table[plan.id].minute \in Minutes
         /\ Low4(table[plan.id].action) \in 0 .. 15
         /\ MinuteOfDay(plan.at) = table[plan.id].minute /\ plan.at % TicksPerMinute = 0
         /\ Until(plan.from, plan.at) = FirstDue(table[plan.id], plan.from)
         /\ Until(plan.from, plan.at) <= interval
<1>1. Readable(table) /\ plan.from \in Times /\ \A i \in Ids : table[i].action \in Actions
  BY TableIsReadable DEF TypeOK
<1>2. /\ AlarmFirst(table, interval, plan.from)
      /\ plan.id = Closest(table, plan.from) /\ plan.at = AlarmTime(table, plan.from)
  BY DEF PlanInv
<1>3. /\ plan.id \in Ids /\ table[plan.id].minute \in Minutes
      /\ MinuteOfDay(plan.at) = table[plan.id].minute /\ plan.at % TicksPerMinute = 0
      /\ Until(plan.from, plan.at) = FirstDue(table[plan.id], plan.from)
  BY <1>1, <1>2, AlarmIsMoment DEF AlarmFirst
<1>4. Low4(table[plan.id].action) \in 0 .. 15
  BY <1>1, <1>3, FourBits
<1>5. FirstDue(table[plan.id], plan.from) <= interval
  BY <1>2 DEF AlarmFirst
<1> QED
  BY <1>3, <1>4, <1>5

(* A running timer counts down and reloads. *)
LEMMA TimerTicks ==
  ASSUME TypeOK, Tick
  PROVE  /\ timer' \in Timers /\ timer'.on = timer.on /\ timer'.period = timer.period
         /\ timer'.on => /\ timer'.left \in 1 .. timer'.period
                         /\ ~TimerEnds => timer'.left = timer.left - 1
                         /\ TimerEnds => timer'.left = timer.period
<1>1. timer \in Timers /\ MaxTicks \in Nat
  BY PowerNumbers DEF TypeOK, Timers
<1>2. CASE ~timer.on
  BY <1>1, <1>2 DEF Tick
<1>3. CASE timer.on
  <2>1. timer.left \in 1 .. timer.period /\ timer.period \in 0 .. MaxTicks
    BY <1>1, <1>3 DEF TypeOK, Timers
  <2>2. timer' = [timer EXCEPT !.left = IF TimerEnds THEN timer.period ELSE timer.left - 1]
    BY <1>3 DEF Tick
  <2>3. /\ timer'.on = timer.on /\ timer'.period = timer.period
        /\ timer'.left = IF TimerEnds THEN timer.period ELSE timer.left - 1
    BY <1>1, <2>2 DEF Timers
  <2>4. (IF TimerEnds THEN timer.period ELSE timer.left - 1) \in 1 .. timer.period
    BY <1>1, <1>3, <2>1 DEF TimerEnds
  <2>5. timer'.left \in 0 .. MaxTicks
    BY <1>1, <2>1, <2>3, <2>4
  <2>6. timer' \in Timers
    BY <1>1, <2>1, <2>2, <2>3, <2>5 DEF Timers
  <2> QED
    BY <2>3, <2>4, <2>6
<1> QED
  BY <1>2, <1>3

-----------------------------------------------------------------------------
(* What is sent *)

(* What a boot can emit. *)
LEMMA SmallActions ==
  /\ None \in Actions /\ PowerOff \in Actions
  /\ \A a \in 0 .. 15 : SlotFor(a) \in Actions
BY DEF Actions, None, PowerOff, PowerOn, FirstTemp, SlotEnd, SlotFor

(* A step that sends nothing. *)
LEMMA SilentSteps == Silent => emitted' \in Actions
BY SmallActions DEF Silent

-----------------------------------------------------------------------------
(* The clock ticks *)

(* A tick sets flags and leaves the enable bits. *)
LEMMA TickKeepsControls ==
  ASSUME TypeOK, Tick
  PROVE  /\ ctrl' \in Controls /\ ctrl'.aie = ctrl.aie /\ ctrl'.tie = ctrl.tie
         /\ ctrl'.af <=> ctrl.af \/ Rings(clock')
BY DEF TypeOK, Tick, Controls

(* A tick keeps the types. *)
LEMMA TickTypes ==
  ASSUME Roomy, TypeOK, Tick
  PROVE  TypeOK'
<1> USE DEF TypeOK, Controls, Timers
<1>1. clock' \in Times
  BY TickElapses DEF Tick
<1>2. ctrl' \in Controls
  BY TickKeepsControls
<1>3. timer' \in Timers /\ (timer'.on => timer'.left \in 1 .. timer'.period)
  BY TimerTicks
<1>4. pc' \in {"off", "boot", "menu", "online", "planned", "saving", "cutting"}
  BY DEF Tick
<1>5. lag' \in 0 .. Lag
  BY PowerNumbers DEF Tick
<1>6. UNCHANGED <<alarm, table, interval, pending, plan>> /\ emitted' \in Actions
  BY SilentSteps DEF Tick, fram
<1> QED
  BY <1>1, <1>2, <1>3, <1>4, <1>5, <1>6

(* When the moment of the plan comes, the alarm of the plan rings. *)
LEMMA RingsAtThePlan ==
  ASSUME TypeOK, PlanInv, AlarmInv, pc \in Asleep, plan.armed, plan.kind = "alarm"
  PROVE  Rings(plan.at)
<1>1. MinuteOfDay(plan.at) = table[plan.id].minute /\ plan.at % TicksPerMinute = 0
  BY PlannedAlarm DEF Asleep, Committed
<1> QED
  BY <1>1 DEF AlarmInv, Rings

(* What a tick does to the time that has elapsed. *)
LEMMA TickGoesOn ==
  ASSUME Roomy, TypeOK, Tick
  PROVE  /\ Elapsed' = IF Elapsed + 1 < Week THEN Elapsed + 1 ELSE 0
         /\ Elapsed \in 0 .. Week - 1 /\ Elapsed' \in 0 .. Week - 1
         /\ clock' \in Times /\ plan' = plan
<1>1. plan' = plan /\ plan.from \in Times /\ clock \in Times /\ clock' = Later(clock, 1)
  BY DEF TypeOK, Tick
<1>2. clock' \in Times
  BY <1>1, TickElapses
<1>3. Elapsed' = Until(plan.from, clock')
  BY <1>1 DEF Elapsed
<1> QED
  BY <1>1, <1>2, <1>3, TickElapses, LaterAndUntil DEF Elapsed

(* A tick keeps the invariant: the alarm rings in time, the timer runs out. *)
LEMMA TickStep ==
  ASSUME Roomy, Inv, Tick
  PROVE  Inv'
<1> USE DEF Inv, Committed, Busy, Asleep
<1>1. TypeOK'
  BY TickTypes
<1>2. /\ UNCHANGED <<alarm, table, interval, pending, plan>>
      /\ pc' = pc \/ pc' = "boot"
  BY DEF Tick, fram
<1>3. PlanInv' /\ ArmedInv'
  BY <1>2 DEF PlanInv, ArmedInv, PlanAt
<1>4. ContextInv'
  BY <1>2 DEF ContextInv
<1>5. /\ Elapsed' = IF Elapsed + 1 < Week THEN Elapsed + 1 ELSE 0
      /\ Elapsed \in 0 .. Week - 1 /\ Elapsed' \in 0 .. Week - 1
      /\ Week \in Nat /\ Lag \in Nat /\ Lag < Week
  BY TickGoesOn, RoomyNumbers, PowerNumbers, CalendarNumbers
<1>6. LagInv'
  <2> SUFFICES ASSUME pc' \in Busy, plan'.kind # "none"
               PROVE  Elapsed' = lag'
    BY DEF LagInv
  <2>1. pc \in Busy /\ lag < Lag /\ lag' = lag + 1 /\ Elapsed = lag /\ lag \in Nat
    BY <1>2, PowerNumbers DEF Tick, LagInv, TypeOK
  <2> QED
    BY <1>5, <2>1
<1>7. AlarmInv'
  <2> SUFFICES ASSUME pc' \in Asleep, plan'.armed, plan'.kind = "alarm"
               PROVE  /\ alarm' = table'[plan'.id].minute
                      /\ ctrl'.aie
                      /\ ~ctrl'.af => Elapsed' < Until(plan'.from, plan'.at)
    BY DEF AlarmInv
  <2>1. /\ pc \in Asleep /\ plan.armed /\ plan.kind = "alarm"
        /\ alarm = table[plan.id].minute /\ ctrl.aie
        /\ ~ctrl.af => Elapsed < Until(plan.from, plan.at)
    BY <1>2 DEF AlarmInv
  <2>2. alarm' = table'[plan'.id].minute /\ ctrl'.aie
    BY <1>2, <2>1, TickKeepsControls
  <2>3. ASSUME ~ctrl'.af PROVE Elapsed' < Until(plan.from, plan.at)
    <3>1. ~ctrl.af /\ ~Rings(clock')
      BY <2>3, TickKeepsControls
    <3>2. clock' # plan.at
      BY <2>1, <3>1, RingsAtThePlan
    <3>3. /\ plan.from \in Times /\ plan.at \in Times /\ clock' \in Times
          /\ Elapsed' = Until(plan.from, clock')
      BY <1>2, TickGoesOn DEF TypeOK, Elapsed
    <3>4. Elapsed' # Until(plan.from, plan.at)
      BY <3>2, <3>3, UntilSame
    <3>5. Until(plan.from, plan.at) \in 0 .. Week - 1
      BY <3>3, LaterAndUntil
    <3> QED
      BY <1>5, <2>1, <3>1, <3>4, <3>5
  <2> QED
    BY <1>2, <2>2, <2>3
<1>8. TimerInv'
  <2> SUFFICES ASSUME pc' \in Asleep, plan'.armed, plan'.kind = "timer"
               PROVE  /\ ctrl'.tie /\ timer'.on /\ ~ctrl'.aie
                      /\ Accepted(interval') /\ timer'.period = TimerPeriod(interval')
                      /\ Elapsed' + timer'.left <= lag' + timer'.period
    BY DEF TimerInv
  <2>1. /\ pc \in Asleep /\ plan.armed /\ plan.kind = "timer"
        /\ ctrl.tie /\ timer.on /\ ~ctrl.aie
        /\ Accepted(interval) /\ timer.period = TimerPeriod(interval)
        /\ Elapsed + timer.left <= lag + timer.period
    BY <1>2 DEF TimerInv
  <2>2. /\ timer'.on /\ timer'.period = timer.period
        /\ timer'.left \in 1 .. timer'.period
        /\ ~TimerEnds => timer'.left = timer.left - 1
        /\ TimerEnds => timer'.left = timer.period
    BY <2>1, TimerTicks
  <2>3. /\ ctrl'.tie /\ ~ctrl'.aie
        /\ Accepted(interval') /\ timer'.period = TimerPeriod(interval')
    BY <1>2, <2>1, <2>2, TickKeepsControls
  <2>4. /\ timer.left \in 1 .. timer.period /\ timer.period \in Nat /\ lag \in Nat
        /\ timer'.left \in Nat
    BY <2>1, <2>2, PowerNumbers DEF TypeOK
  <2>5. CASE pc = "off"
    <3>1. ~TimerEnds /\ lag' = lag
      BY <2>1, <2>5 DEF Tick
    <3> QED
      BY <1>5, <2>1, <2>2, <2>3, <2>4, <3>1
  <2>6. CASE pc # "off"
    <3>1. pc' = pc /\ lag' = lag + 1 /\ pc \in Busy
      BY <1>2, <2>1, <2>6 DEF Tick
    <3>2. Elapsed' = lag' /\ lag' \in Nat
      BY <1>2, <1>6, <2>1, <2>4, <3>1 DEF LagInv
    <3> QED
      BY <2>2, <2>3, <2>4, <3>2
  <2> QED
    BY <2>5, <2>6
<1>9. OffInv'
  BY DEF Tick, OffInv, AlarmInt
<1> QED
  BY <1>1, <1>3, <1>4, <1>6, <1>7, <1>8, <1>9

-----------------------------------------------------------------------------
(* The steps of a device that is awake *)

(* No plan is relied on but on the way to the power cut. *)
LEMMA AwakeKeeps ==
  ASSUME TypeOK', pc' \notin Committed, plan'.armed => plan'.kind # "none"
  PROVE  Inv'
BY DEF Inv, PlanInv, ArmedInv, LagInv, AlarmInv, TimerInv, ContextInv, OffInv,
       Committed, Busy, Asleep

(* Boot, menu, commands and resets keep the invariant. *)
LEMMA AwakeStep ==
  ASSUME Inv, Press \/ Booting \/ Commands \/ Reset
  PROVE  Inv'
<1> USE DEF Inv, TypeOK, Committed, rtc, fram
<1>1. 0 \in 0 .. Lag
  BY PowerNumbers
<1>2. CASE Press
  BY <1>2, SilentSteps, AwakeKeeps DEF Press, ArmedInv
<1>3. CASE Dispatch
  <2>1. emitted' \in Actions
    BY <1>3, SmallActions DEF Dispatch
  <2>2. plan' \in Plans /\ plan'.kind = "none" /\ ~plan'.armed
    BY <1>3, NoPlanType DEF Dispatch
  <2> QED
    BY <1>1, <1>3, <2>1, <2>2, AwakeKeeps DEF Dispatch, Plans
<1>4. CASE OpenMenu \/ Reset
  <2>1. plan' \in Plans /\ plan'.kind = "none" /\ ~plan'.armed /\ emitted' \in Actions
    BY <1>4, NoPlanType, SilentSteps DEF OpenMenu, Reset
  <2> QED
    BY <1>1, <1>4, <2>1, AwakeKeeps DEF OpenMenu, Reset, Plans
<1>5. CASE ExitMenu
  <2>1. PICK a \in {None, PowerOff} : pending' = [pending EXCEPT !.action = Low4(a)]
    BY <1>5 DEF ExitMenu
  <2>2. Low4(a) \in 0 .. 15
    BY SmallActions, FourBits
  <2>3. pending' \in [reason : {Telemetry, Scheduled}, action : 0 .. 15]
    BY <2>1, <2>2
  <2> QED
    BY <1>5, <2>3, SilentSteps, AwakeKeeps DEF ExitMenu, ArmedInv
<1>6. CASE SyncClock
  <2>1. clock' \in Times
    BY <1>6, PowerNumbers DEF SyncClock
  <2> QED
    BY <1>6, <2>1, SilentSteps, AwakeKeeps DEF SyncClock, ArmedInv
<1>7. CASE SaveSchedule
  <2>1. table' \in [Ids -> Offered \cup {Blank}]
    BY <1>7 DEF SaveSchedule
  <2> QED
    BY <1>7, <2>1, SilentSteps, AwakeKeeps DEF SaveSchedule, ArmedInv
<1>8. CASE ResetContext
  <2>1. pending' \in [reason : {Telemetry, Scheduled}, action : 0 .. 15]
    BY <1>8 DEF ResetContext, PowerOff
  <2> QED
    BY <1>8, <2>1, SilentSteps, AwakeKeeps DEF ResetContext, ArmedInv
<1>9. CASE EndDownload
  <2>1. pending' \in [reason : {Telemetry, Scheduled}, action : 0 .. 15]
    BY <1>9, SmallActions, FourBits DEF EndDownload
  <2> QED
    BY <1>9, <2>1, SilentSteps, AwakeKeeps DEF EndDownload, ArmedInv
<1> QED
  BY <1>2, <1>3, <1>4, <1>5, <1>6, <1>7, <1>8, <1>9 DEF Booting, Commands

-----------------------------------------------------------------------------
(* The steps of the shutdown *)

(* The plan is that of the clock just read, cleared the flags or not. *)
LEMMA PlanStep ==
  ASSUME Inv, Plan \/ PlanUncleared
  PROVE  Inv'
<1> USE DEF Inv, rtc, fram
<1>1. TypeOK /\ clock \in Times /\ pc' = "planned" /\ plan' = PlanAt(clock) /\ lag' = 0
      /\ UNCHANGED <<clock, alarm, timer, table, interval, pending>>
      /\ emitted' \in Actions
  BY SilentSteps DEF Plan, PlanUncleared, TypeOK
<1>2. /\ plan' \in Plans /\ plan'.from = clock /\ plan'.kind # "none"
      /\ ~plan'.armed /\ ~plan'.saved
      /\ plan'.kind = "alarm" => /\ AlarmFirst(table, interval, clock)
                                 /\ plan'.id = Closest(table, clock)
                                 /\ plan'.at = AlarmTime(table, clock)
      /\ plan'.kind = "timer" => ~AlarmFirst(table, interval, clock)
  BY <1>1, PlanAtIs
<1>3. ctrl' \in Controls
  BY <1>1, ClearedType DEF Plan, PlanUncleared, TypeOK, Controls
<1>4. TypeOK'
  <2>1. plan' \in [kind : {"none", "alarm", "timer"}, id : Ids \cup {-1},
                   from : Times, at : Times, armed : BOOLEAN, saved : BOOLEAN]
    BY <1>2 DEF Plans
  <2>2. 0 \in 0 .. Lag
    BY PowerNumbers
  <2> QED
    BY <1>1, <1>3, <2>1, <2>2 DEF TypeOK, Controls
<1>5. PlanInv' /\ ArmedInv'
  BY <1>1, <1>2 DEF PlanInv, ArmedInv, PlanAt
<1>6. LagInv'
  <2>1. Until(clock, clock) = 0
    BY <1>1, UntilCases
  <2> QED
    BY <1>1, <1>2, <2>1 DEF LagInv, Elapsed
<1> QED
  BY <1>1, <1>2, <1>4, <1>5, <1>6
     DEF AlarmInv, TimerInv, ContextInv, OffInv, Asleep

(* Without a clock there is no plan. *)
LEMMA PlanFailsStep ==
  ASSUME Inv, PlanFails
  PROVE  Inv'
<1> USE DEF Inv, rtc, fram
<1>1. /\ plan' \in Plans /\ plan'.kind = "none" /\ ~plan'.armed /\ 0 \in 0 .. Lag
      /\ emitted' \in Actions
  BY NoPlanType, PowerNumbers, SilentSteps DEF PlanFails
<1>2. TypeOK'
  BY <1>1 DEF PlanFails, TypeOK, Plans
<1> QED
  BY <1>1, <1>2 DEF PlanFails, PlanInv, ArmedInv, LagInv, AlarmInv, TimerInv,
     ContextInv, OffInv

(* An alarm that is set in time is still to come. *)
LEMMA SetAlarmStep ==
  ASSUME Roomy, Inv, SetAlarm
  PROVE  Inv'
<1> USE DEF Inv, rtc, fram
<1>1. /\ TypeOK /\ pc = "planned" /\ pc' = "saving" /\ plan.kind = "alarm"
      /\ alarm' = table[plan.id].minute
      /\ UNCHANGED <<clock, timer, table, interval, pending, lag>>
      /\ emitted' \in Actions
  BY SilentSteps DEF SetAlarm
<1>2. /\ ctrl' \in Controls /\ ~ctrl'.af /\ ctrl'.aie
  BY ClearedType DEF SetAlarm, TypeOK, Controls
<1> DEFINE inTime == Until(clock, plan.at) \in 1 .. interval
<1>0. inTime \in BOOLEAN /\ plan' = [plan EXCEPT !.armed = inTime] /\ plan \in Plans
  BY DEF SetAlarm, TypeOK, Plans
<1> HIDE DEF inTime
<1>3. /\ plan' \in Plans /\ plan'.kind = plan.kind /\ plan'.id = plan.id
      /\ plan'.from = plan.from /\ plan'.at = plan.at
      /\ plan'.armed = inTime /\ plan'.saved = plan.saved
  BY <1>0 DEF Plans
<1>4. /\ table[plan.id].minute \in Minutes
      /\ Until(plan.from, plan.at) <= interval
  BY <1>1, PlannedAlarm DEF Committed
<1>5. TypeOK'
  BY <1>1, <1>2, <1>3, <1>4 DEF TypeOK, Controls, Plans
<1>6. PlanInv' /\ ArmedInv'
  BY <1>1, <1>3 DEF PlanInv, ArmedInv, Committed
<1>7. Elapsed' = Elapsed /\ Elapsed = lag /\ LagInv'
  BY <1>1, <1>3 DEF LagInv, Busy, Elapsed
<1>8. AlarmInv'
  <2> SUFFICES ASSUME plan'.armed
               PROVE  Elapsed < Until(plan.from, plan.at)
    BY <1>1, <1>2, <1>3, <1>7 DEF AlarmInv
  <2>1. /\ plan.from \in Times /\ clock \in Times /\ plan.at \in Times
        /\ lag \in 0 .. Lag /\ interval \in 0 .. TicksPerDay - 1
    BY <1>1, PowerNumbers DEF TypeOK
  <2>2. Until(clock, plan.at) \in 1 .. TicksPerDay - 1
    <3>1. inTime
      BY <1>3
    <3> QED
      BY <2>1, <3>1, CalendarNumbers DEF inTime
  <2>3. Until(plan.from, plan.at) < TicksPerDay
    <3>1. Until(plan.from, plan.at) \in 0 .. Week - 1
      BY <2>1, LaterAndUntil
    <3> QED
      BY <1>4, <2>1, <3>1, CalendarNumbers
  <2>4. Until(plan.from, clock) + TicksPerDay <= Week
    BY <1>7, <2>1, CalendarNumbers, PowerNumbers DEF Elapsed, Roomy
  <2> QED
    BY <2>1, <2>2, <2>3, <2>4, NotOver DEF Elapsed
<1> QED
  BY <1>1, <1>3, <1>5, <1>6, <1>7, <1>8 DEF TimerInv, ContextInv, OffInv

(* A timer that is set has its whole period to run. *)
LEMMA SetTimerStep ==
  ASSUME Roomy, Inv, SetTimer
  PROVE  Inv'
<1> USE DEF Inv, rtc, fram
<1>1. /\ TypeOK /\ pc = "planned" /\ pc' = "saving" /\ plan.kind = "timer"
      /\ Accepted(interval) /\ interval \in Nat
      /\ UNCHANGED <<clock, alarm, table, interval, pending, lag>>
      /\ emitted' \in Actions
  BY PowerNumbers, SilentSteps DEF SetTimer, TypeOK
<1>2. ctrl' \in Controls /\ ~ctrl'.aie /\ ctrl'.tie
  BY DEF SetTimer, Controls
<1>3. /\ TimerPeriod(interval) \in 1 .. MaxTicks /\ MaxTicks \in Nat
      /\ timer' = [on |-> TRUE, period |-> TimerPeriod(interval),
                   left |-> TimerPeriod(interval)]
  BY <1>1, PeriodOf, PowerNumbers DEF SetTimer, Countdown
<1>4. /\ timer' \in Timers /\ timer'.on /\ timer'.left = timer'.period
      /\ timer'.period = TimerPeriod(interval)
      /\ timer'.left \in 1 .. timer'.period
  <2> DEFINE p == TimerPeriod(interval)
  <2>1. p \in 0 .. MaxTicks /\ p \in 1 .. p /\ p \in Int
    BY <1>3
  <2> HIDE DEF p
  <2>2. timer' = [on |-> TRUE, period |-> p, left |-> p]
    BY <1>3 DEF p
  <2>3. /\ timer' \in Timers /\ timer'.on /\ timer'.left = p /\ timer'.period = p
    BY <2>1, <2>2 DEF Timers
  <2> QED
    BY <2>1, <2>3 DEF p
<1>5. /\ plan' \in Plans /\ plan'.kind = plan.kind /\ plan'.id = plan.id
      /\ plan'.from = plan.from /\ plan'.at = plan.at /\ plan'.saved = plan.saved
  BY DEF SetTimer, TypeOK, Plans
<1>6. TypeOK'
  BY <1>1, <1>2, <1>4, <1>5 DEF TypeOK, Controls, Timers, Plans
<1>7. PlanInv' /\ ArmedInv'
  BY <1>1, <1>5 DEF PlanInv, ArmedInv, Committed
<1>8. Elapsed' = Elapsed /\ Elapsed = lag /\ LagInv'
  BY <1>1, <1>5 DEF LagInv, Busy, Elapsed
<1>9. TimerInv'
  <2>1. lag \in Int /\ timer'.period \in Int
    BY <1>1, <1>3, <1>4, PowerNumbers DEF TypeOK
  <2>2. Elapsed' + timer'.left <= lag' + timer'.period
    BY <1>1, <1>4, <1>8, <2>1
  <2> QED
    BY <1>1, <1>2, <1>4, <1>5, <2>2 DEF TimerInv
<1> QED
  BY <1>1, <1>5, <1>6, <1>7, <1>8, <1>9 DEF AlarmInv, ContextInv, OffInv

(* What is not programmed in full leaves the plan as it is, unarmed. *)
LEMMA UnarmedStep ==
  ASSUME Inv, RejectTimer \/ SetTimerFails \/ SetAlarmFails
  PROVE  Inv'
<1> USE DEF Inv, rtc, fram
<1>1. /\ TypeOK /\ pc = "planned" /\ pc' = "saving" /\ ~plan.armed
      /\ UNCHANGED <<clock, table, interval, pending, plan, lag>>
      /\ emitted' \in Actions
  BY SilentSteps DEF RejectTimer, SetTimerFails, SetAlarmFails, ArmedInv
<1>2. ctrl' \in Controls
  <2>1. ctrl \in Controls /\ Cleared(ctrl) \in Controls
    BY ClearedType DEF TypeOK, Controls
  <2>2. \A b \in BOOLEAN :
          [af |-> FALSE, tf |-> FALSE, aie |-> FALSE, tie |-> b] \in Controls
    BY DEF Controls
  <2>3. CASE RejectTimer \/ SetAlarmFails \/ ctrl' \in {ctrl, Cleared(ctrl)}
    BY <2>1, <2>3 DEF RejectTimer, SetAlarmFails
  <2>4. CASE SetTimerFails /\ ctrl' \notin {ctrl, Cleared(ctrl)}
    <3>1. PICK done \in 1 .. 4 :
            ctrl' = [af |-> FALSE, tf |-> FALSE, aie |-> FALSE, tie |-> done = 4]
      BY <2>4 DEF SetTimerFails
    <3> DEFINE b == done = 4
    <3>2. b \in BOOLEAN
      OBVIOUS
    <3>3. [af |-> FALSE, tf |-> FALSE, aie |-> FALSE, tie |-> b] \in Controls
      BY <2>2, <3>2
    <3> QED
      BY <3>1, <3>3
  <2> QED
    BY <2>3, <2>4
<1>3. timer' \in Timers /\ (timer'.on => timer'.left \in 1 .. timer'.period)
  BY <1>1, StoppedType DEF RejectTimer, SetTimerFails, SetAlarmFails, TypeOK, Timers
<1>4. alarm' \in Minutes \cup {NoAlarm}
  BY <1>1 DEF RejectTimer, SetTimerFails, SetAlarmFails, TypeOK
<1>5. TypeOK'
  BY <1>1, <1>2, <1>3, <1>4 DEF TypeOK, Controls, Timers
<1>6. PlanInv' /\ ArmedInv' /\ LagInv'
  BY <1>1 DEF PlanInv, ArmedInv, LagInv, Elapsed, Committed, Busy
<1> QED
  BY <1>1, <1>5, <1>6 DEF AlarmInv, TimerInv, ContextInv, OffInv

(* What the context becomes. *)
LEMMA UpdatedContext ==
  ASSUME TypeOK, PlanInv, pc \in Committed, NEW context \in Contexts
  PROVE  /\ Updated(context) \in Contexts
         /\ plan.kind = "alarm" =>
              Updated(context) = [reason |-> Scheduled,
                                  action |-> Low4(table[plan.id].action)]
         /\ plan.kind # "alarm" => Updated(context).reason = Telemetry
<1>1. plan.kind = "alarm" => Low4(table[plan.id].action) \in 0 .. 15
  BY PlannedAlarm
<1> QED
  BY <1>1 DEF Updated, Contexts

(* The context is saved for the plan the RTC has, or the plan is not saved. *)
LEMMA SaveContextStep ==
  ASSUME Inv, SaveContext \/ SaveFails
  PROVE  Inv'
<1> USE DEF Inv, rtc, fram
<1>1. /\ TypeOK /\ pc = "saving" /\ pc' = "cutting" /\ ~plan.saved
      /\ UNCHANGED <<clock, alarm, ctrl, timer, table, interval, lag>>
      /\ emitted' \in Actions
  BY SilentSteps DEF SaveContext, SaveFails, ArmedInv
<1> DEFINE blank == [reason |-> Telemetry, action |-> PowerOff]
<1>2. pending \in Contexts /\ blank \in Contexts
  BY <1>1 DEF TypeOK, Contexts, PowerOff
<1>3. \/ \E context \in Contexts :
           pending' = Updated(context) /\ plan' = [plan EXCEPT !.saved = TRUE]
      \/ UNCHANGED <<pending, plan>>
  BY <1>2 DEF SaveContext, SaveFails
<1>4. CASE UNCHANGED <<pending, plan>>
  BY <1>1, <1>4 DEF TypeOK, PlanInv, ArmedInv, LagInv, Elapsed, AlarmInv, TimerInv,
     ContextInv, OffInv, Committed, Busy, Asleep
<1>5. CASE \E context \in Contexts :
             pending' = Updated(context) /\ plan' = [plan EXCEPT !.saved = TRUE]
  <2>1. /\ pending' \in Contexts
        /\ plan.kind = "alarm" =>
             pending' = [reason |-> Scheduled,
                         action |-> Low4(table[plan.id].action)]
        /\ plan.kind # "alarm" => pending'.reason = Telemetry
    BY <1>1, <1>5, UpdatedContext DEF Committed
  <2>2. /\ plan' \in Plans /\ plan'.kind = plan.kind /\ plan'.id = plan.id
        /\ plan'.from = plan.from /\ plan'.at = plan.at /\ plan'.armed = plan.armed
    BY <1>1, <1>5 DEF TypeOK, Plans
  <2>3. TypeOK'
    BY <1>1, <2>1, <2>2 DEF TypeOK, Contexts, Plans
  <2>4. ContextInv'
    BY <1>1, <2>1, <2>2 DEF ContextInv
  <2> QED
    BY <1>1, <2>2, <2>3, <2>4 DEF PlanInv, ArmedInv, LagInv, Elapsed, AlarmInv,
       TimerInv, OffInv, Committed, Busy, Asleep
<1> QED
  BY <1>3, <1>4, <1>5

(* The power stays off only if no alarm rings. *)
LEMMA CutPowerStep ==
  ASSUME Inv, CutPower
  PROVE  Inv'
<1> USE DEF Inv, rtc, fram
<1>1. /\ TypeOK /\ pc = "cutting" /\ pc' \in {"boot", "off"} /\ emitted' \in Actions
      /\ pc' = "off" => ~AlarmInt(ctrl)
      /\ UNCHANGED <<clock, alarm, ctrl, timer, table, interval, pending, plan, lag>>
  BY SilentSteps DEF CutPower
<1>2. TypeOK'
  BY <1>1 DEF TypeOK
<1> QED
  BY <1>1, <1>2 DEF PlanInv, ArmedInv, LagInv, Elapsed, AlarmInv, TimerInv,
     ContextInv, OffInv, AlarmInt, Committed, Busy, Asleep

-----------------------------------------------------------------------------
(* The invariant holds of the specification *)

(* The factory state satisfies the invariant. *)
LEMMA InitInv == Init => Inv
<1> SUFFICES ASSUME Init PROVE Inv
  OBVIOUS
<1>1. NoPlan \in Plans /\ ~NoPlan.armed /\ Stopped \in Timers /\ ~Stopped.on
  BY NoPlanType, StoppedType
<1>2. [id \in Ids |-> Blank] \in [Ids -> Offered \cup {Blank}]
  OBVIOUS
<1>3. TypeOK
  BY <1>1, <1>2, PowerNumbers, SmallActions
     DEF Init, TypeOK, Plans, Timers, NoAlarm, PowerOff
<1> QED
  BY <1>1, <1>3 DEF Init, Inv, PlanInv, ArmedInv, LagInv, AlarmInv, TimerInv,
     ContextInv, OffInv, Committed, Busy, Asleep

(* Every step keeps it. *)
LEMMA NextInv == Roomy /\ Inv /\ [Next]_vars => Inv'
<1> SUFFICES ASSUME Roomy, Inv, [Next]_vars PROVE Inv'
  OBVIOUS
<1>1. CASE Tick
  BY <1>1, TickStep
<1>2. CASE Press \/ Booting \/ Commands
  BY <1>2, AwakeStep
<1>3. CASE Shutdown
  BY <1>3, PlanStep, SetAlarmStep, SetTimerStep, UnarmedStep, SaveContextStep,
     CutPowerStep DEF Shutdown, Arming
<1>4. CASE Failures
  BY <1>4, PlanStep, PlanFailsStep, UnarmedStep, SaveContextStep, AwakeStep
     DEF Failures
<1>5. CASE UNCHANGED vars
  BY <1>5 DEF vars, rtc, fram, Inv, TypeOK, PlanInv, PlanAt, ArmedInv, LagInv, Elapsed,
     AlarmInv, TimerInv, ContextInv, OffInv, AlarmInt
<1> QED
  BY <1>1, <1>2, <1>3, <1>4, <1>5 DEF Next

(* The inductive invariant: how far the clock is from the reading the plan *)
(* was made from, what the alarm or the timer can still be, what the context *)
(* holds at each step of app_power_shutdown.                               *)
THEOREM Invariance ==
  ASSUME Roomy
  PROVE  Spec => []Inv
<1>1. Roomy
  OBVIOUS
<1> QED
  BY <1>1, InitInv, NextInv, PTL DEF Spec

-----------------------------------------------------------------------------
(* What a step of a device that is off can be *)

(* Only the clock and a button act on a device that is off. *)
LEMMA OffSteps ==
  ASSUME TypeOK, [Next]_vars, pc = "off"
  PROVE  /\ clock' # clock => Tick
         /\ pc' = "boot" => Tick \/ Press
<1>1. CASE Tick \/ Press
  BY <1>1 DEF Press, rtc
<1>2. CASE ~(Tick \/ Press)
  BY <1>2 DEF Next, Booting, Dispatch, OpenMenu, ExitMenu, Commands, SyncClock,
     SaveSchedule, ResetContext, EndDownload, Shutdown, Plan, Arming, SetAlarm,
     SetTimer, RejectTimer, SaveContext, CutPower, Failures, PlanFails,
     PlanUncleared, SetAlarmFails, SetTimerFails, SaveFails, Reset, vars, rtc
<1> QED
  BY <1>1, <1>2

(* A plan stays the truth about the moment it was made for. *)
LEMMA PlanIsFirst ==
  ASSUME Roomy, Inv, pc \in Committed, plan.kind # "none"
  PROVE  IsEarliest(table, interval, plan.from)
<1>1. Readable(table) /\ plan.from \in Times /\ interval \in 0 .. TicksPerDay - 1
  BY TableIsReadable, PowerNumbers DEF Inv, TypeOK
<1> QED
  BY <1>1, SearchFindsEarliest DEF Roomy

(* The numbers of a plan. *)
LEMMA PlanNumbers ==
  ASSUME Inv
  PROVE  /\ plan.from \in Times /\ plan.at \in Times /\ clock \in Times
         /\ plan.kind \in {"none", "alarm", "timer"}
         /\ interval \in Int /\ interval >= 0 /\ interval < TicksPerDay
         /\ lag \in Int /\ lag >= 0 /\ lag <= Lag /\ Lag \in Int
         /\ TicksPerDay \in Int /\ TicksPerMinute \in Int /\ Week \in Int
<1>1. interval \in 0 .. TicksPerDay - 1 /\ lag \in 0 .. Lag
  BY PowerNumbers DEF Inv, TypeOK
<1>2. plan.from \in Times /\ plan.at \in Times /\ clock \in Times
      /\ plan.kind \in {"none", "alarm", "timer"}
  BY DEF Inv, TypeOK
<1> QED
  BY <1>1, <1>2, CalendarNumbers, PowerNumbers

(* NeverOversleeps, step by step. *)
LEMMA OversleepStep ==
  ASSUME Roomy, Inv, [Next]_vars,
         pc = "off", plan.armed, clock' # clock, clock' = WakeLimit
  PROVE  pc' = "boot"
<1>1. Tick /\ pc \in Asleep /\ plan.kind # "none" /\ TypeOK /\ PlanInv /\ AlarmInv
  BY OffSteps DEF Inv, Asleep, ArmedInv
<1>2. CASE plan.kind = "alarm"
  <2>1. Rings(clock')
    BY <1>1, <1>2, RingsAtThePlan DEF WakeLimit
  <2>2. ctrl'.af /\ ctrl'.aie
    BY <1>1, <1>2, <2>1, TickKeepsControls DEF AlarmInv
  <2> QED
    BY <1>1, <2>2 DEF Tick, AlarmInt
<1>3. CASE plan.kind = "timer"
  <2> DEFINE p == TimerPeriod(interval)
             e == Until(plan.from, clock')
  <2>1. /\ ctrl.tie /\ timer.on /\ Accepted(interval) /\ timer.period = p
        /\ Elapsed + timer.left <= lag + p
    BY <1>1, <1>3 DEF Inv, TimerInv
  <2>2. p \in Int /\ p >= 1 /\ p < interval + TicksPerMinute
    <3>1. interval \in Nat
      BY PlanNumbers
    <3>2. p \in 1 .. MaxTicks /\ p < interval + TicksPerMinute
      BY <2>1, <3>1, PeriodOf
    <3> QED
      BY <3>2, PowerNumbers
  <2>3. timer.left \in Int /\ timer.left >= 1
    BY <1>1, <2>1, <2>2 DEF TypeOK
  <2> HIDE DEF p
  <2>4. lag + p \in 0 .. Week - 1
    BY <2>2, PlanNumbers DEF Roomy
  <2>5. clock' = Later(plan.from, lag + p)
    BY <1>3 DEF WakeLimit, p
  <2>6. e = lag + p
    <3> DEFINE k == lag + p
    <3>1. plan.from \in Times /\ k \in 0 .. Week - 1 /\ clock' = Later(plan.from, k)
      BY <2>4, <2>5, PlanNumbers
    <3> HIDE DEF k
    <3>2. Until(plan.from, clock') = k
      BY <3>1, LaterAndUntil
    <3> QED
      BY <3>2 DEF k
  <2>7. /\ e = IF Elapsed + 1 < Week THEN Elapsed + 1 ELSE 0
        /\ Elapsed \in 0 .. Week - 1
    BY <1>1, TickGoesOn DEF Elapsed
  <2> HIDE DEF e
  <2>8. timer.left = 1
    BY <2>1, <2>2, <2>3, <2>6, <2>7, PlanNumbers
  <2> QED
    BY <1>1, <2>1, <2>8 DEF Tick, TimerEnds
<1> QED
  BY <1>1, <1>2, <1>3, PlanNumbers

(* NoScheduleSleptThrough, step by step. *)
LEMMA SleptThroughStep ==
  ASSUME Roomy, Inv, Inv', [Next]_vars,
         pc = "off", plan.armed, clock' # clock, SomeOccurs(table, clock'),
         Until(plan.from, clock') \in 1 .. interval
  PROVE  pc' = "boot"
<1>1. Tick /\ pc \in Asleep /\ pc \in Committed /\ plan.kind # "none" /\ TypeOK
  BY OffSteps DEF Inv, Asleep, Committed, ArmedInv
<1>2. IsEarliest(table, interval, plan.from)
  BY <1>1, PlanIsFirst
<1>3. /\ UNCHANGED <<alarm, table, interval, pending, plan>> /\ clock' \in Times
      /\ Elapsed' = Until(plan.from, clock')
  BY <1>1, TickGoesOn DEF Tick, fram, Elapsed
<1>4. /\ Later(plan.from, Elapsed') = clock'
      /\ Elapsed' \in Int /\ Elapsed' >= 1 /\ Elapsed' <= interval
  <2>1. plan.from \in Times /\ interval \in Int
    BY PlanNumbers
  <2>2. Later(plan.from, Until(plan.from, clock')) = clock'
    BY <1>3, <2>1, LaterAndUntil
  <2>3. Elapsed' \in 1 .. interval
    BY <1>3
  <2> QED
    BY <1>3, <2>1, <2>2, <2>3
<1>5. CASE plan.kind = "timer"
  <2>1. ~AlarmFirst(table, interval, plan.from)
    BY <1>1, <1>5 DEF Inv, PlanInv
  <2>2. \A k \in 0 .. interval : ~SomeOccurs(table, Later(plan.from, k))
    BY <1>2, <2>1 DEF IsEarliest
  <2>3. Elapsed' \in 0 .. interval
    BY <1>4, PlanNumbers
  <2> QED
    BY <1>4, <2>2, <2>3
<1>6. CASE plan.kind = "alarm"
  <2> SUFFICES ASSUME pc' # "boot" PROVE FALSE
    OBVIOUS
  <2>1. pc' = "off" /\ ~AlarmInt(ctrl')
    BY <1>1 DEF Tick
  <2>2. ctrl'.aie
    BY <1>1, <1>6, TickKeepsControls DEF Inv, AlarmInv
  <2>3. ~ctrl'.af
    BY <2>1, <2>2 DEF AlarmInt
  <2>4. Elapsed' < Until(plan.from, plan.at)
    BY <1>3, <1>6, <2>1, <2>3 DEF Inv, AlarmInv, Asleep
  <2>5. /\ AlarmFirst(table, interval, plan.from)
        /\ plan.at = AlarmTime(table, plan.from)
    BY <1>1, <1>6 DEF Inv, PlanInv
  <2>6. \A k \in 0 .. Until(plan.from, plan.at) - 1 :
          ~SomeOccurs(table, Later(plan.from, k))
    BY <1>2, <2>5 DEF IsEarliest
  <2>7. Until(plan.from, plan.at) \in Int
    BY UntilCases, PlanNumbers, CalendarNumbers
  <2>8. Elapsed' \in 0 .. Until(plan.from, plan.at) - 1
    BY <1>4, <2>4, <2>7
  <2> QED
    BY <1>4, <2>6, <2>8
<1> QED
  BY <1>1, <1>5, <1>6, PlanNumbers

(* NoStaleAlarm, step by step. *)
LEMMA StaleAlarmStep ==
  ASSUME Roomy, Inv, [Next]_vars,
         pc = "off", plan.armed, pc' = "boot", AlarmInt(ctrl')
  PROVE  plan.kind = "alarm" /\ clock' = plan.at
<1>1. pc \in Asleep /\ pc \in Committed /\ plan.kind # "none" /\ TypeOK /\ PlanInv
      /\ ~AlarmInt(ctrl)
  BY DEF Inv, Asleep, Committed, ArmedInv, OffInv
<1>2. Tick
  <2>1. ~Press
    BY <1>1 DEF Press, rtc
  <2> QED
    BY <1>1, <2>1, OffSteps
<1>3. /\ ctrl'.aie /\ ctrl.aie /\ ~ctrl.af /\ Rings(clock')
      /\ UNCHANGED <<alarm, plan>>
  <2>1. ctrl'.af /\ ctrl'.aie
    BY DEF AlarmInt
  <2>2. ctrl.aie /\ (ctrl.af \/ Rings(clock'))
    BY <1>1, <1>2, <2>1, TickKeepsControls
  <2> QED
    BY <1>1, <1>2, <2>1, <2>2 DEF AlarmInt, Tick
<1>4. plan.kind = "alarm"
  BY <1>1, <1>3, PlanNumbers DEF Inv, TimerInv
<1>5. /\ alarm = table[plan.id].minute /\ Elapsed < Until(plan.from, plan.at)
      /\ MinuteOfDay(plan.at) = table[plan.id].minute /\ plan.at % TicksPerMinute = 0
      /\ Until(plan.from, plan.at) <= interval
  BY <1>1, <1>3, <1>4, PlannedAlarm DEF Inv, AlarmInv
<1>6. /\ clock' \in Times /\ clock' % TicksPerMinute = 0
      /\ MinuteOfDay(clock') = MinuteOfDay(plan.at)
  BY <1>1, <1>2, <1>3, <1>5, TickGoesOn DEF Rings
<1>7. TickOfDay(clock') = TickOfDay(plan.at)
  BY <1>5, <1>6, PlanNumbers, SameMinute
<1> DEFINE u == Until(plan.from, plan.at)
           e == Until(plan.from, clock')
<1>8. /\ e = IF Elapsed + 1 < Week THEN Elapsed + 1 ELSE 0
      /\ Elapsed \in 0 .. Week - 1
  BY <1>1, <1>2, <1>3, TickGoesOn DEF Elapsed
<1>9. u \in Int /\ u < Week
  <2>1. u \in 0 .. Week - 1
    BY PlanNumbers, UntilCases
  <2> QED
    BY <2>1, PlanNumbers
<1>10. Until(clock', plan.at) = u - e
  <2>1. e <= u
    <3> HIDE DEF e, u
    <3> QED
      BY <1>5, <1>8, <1>9, PlanNumbers DEF u
  <2> QED
    BY <1>6, <2>1, PlanNumbers, UntilLeft
<1>11. Until(clock', plan.at) < TicksPerDay
  <2> HIDE DEF e
  <2> QED
    BY <1>5, <1>8, <1>9, <1>10, PlanNumbers
<1> QED
  BY <1>4, <1>6, <1>7, <1>11, PlanNumbers, SameTick

-----------------------------------------------------------------------------
(* The theorems *)

(* Every variable keeps its type: the alarm register holds a minute of the *)
(* day, a running timer has ticks left, the context's action four bits.    *)
THEOREM TypeCorrect ==
  ASSUME Roomy
  PROVE  Spec => []TypeOK
<1>1. Inv => TypeOK
  BY DEF Inv
<1> QED
  BY <1>1, Invariance, PTL

(* What app_power_shutdown programmed before the power went: registers     *)
(* that were all written hold the alarm of one schedule of the table, or   *)
(* the timer, and a context that was saved agrees; one that could not be   *)
(* saved does not change what the RTC was told.                            *)
THEOREM RtcAgrees ==
  ASSUME Roomy
  PROVE  Spec => []RtcAgreesWithContext
<1>1. ASSUME Inv PROVE RtcAgreesWithContext
  <2> SUFFICES ASSUME pc = "off", plan.armed
               PROVE  RtcAgreesWithContext
    BY DEF RtcAgreesWithContext
  <2>1. TypeOK /\ PlanInv /\ AlarmInv /\ TimerInv /\ ContextInv /\ plan.kind # "none"
    BY <1>1 DEF Inv, ArmedInv
  <2>2. CASE plan.kind = "alarm"
    BY <2>1, <2>2, PlannedAlarm
       DEF RtcAgreesWithContext, AlarmInv, ContextInv, Asleep, Committed
  <2>3. CASE plan.kind = "timer"
    BY <2>1, <2>3 DEF RtcAgreesWithContext, TimerInv, ContextInv, Asleep
  <2> QED
    BY <1>1, <2>1, <2>2, <2>3, PlanNumbers
<1> QED
  BY <1>1, Invariance, PTL

(* A device that was programmed in time wakes at the moment of its alarm,  *)
(* or before its timer has run out twice.                                  *)
THEOREM WakesInTime ==
  ASSUME Roomy
  PROVE  Spec => NeverOversleeps
<1>1. ASSUME Inv, [Next]_vars
      PROVE  (pc = "off" /\ plan.armed /\ clock' # clock /\ clock' = WakeLimit)
               => pc' = "boot"
  BY <1>1, OversleepStep
<1>2. Inv /\ [Next]_vars =>
        [pc = "off" /\ plan.armed /\ clock' # clock /\ clock' = WakeLimit
           => pc' = "boot"]_vars
  BY <1>1
<1> QED
  BY <1>2, Invariance, PTL DEF Spec, NeverOversleeps

(* No moment of the interval at which an enabled schedule is due is slept  *)
(* through: the search stops at the first of them, and the alarm rings.    *)
THEOREM SleepsThroughNothing ==
  ASSUME Roomy
  PROVE  Spec => NoScheduleSleptThrough
<1>1. ASSUME Inv, Inv', [Next]_vars
      PROVE  (/\ pc = "off" /\ plan.armed /\ clock' # clock
              /\ SomeOccurs(table, clock')
              /\ Until(plan.from, clock') \in 1 .. interval)
               => pc' = "boot"
  BY <1>1, SleptThroughStep
<1>2. Inv /\ Inv' /\ [Next]_vars =>
        [(/\ pc = "off" /\ plan.armed /\ clock' # clock
          /\ SomeOccurs(table, clock')
          /\ Until(plan.from, clock') \in 1 .. interval)
            => pc' = "boot"]_vars
  BY <1>1
<1> QED
  BY <1>2, Invariance, PTL DEF Spec, NoScheduleSleptThrough

(* Clearing the flags before each arming, and the overwriting of CTRL2 by  *)
(* the timer, leave no alarm of an earlier plan: it is the planned one     *)
(* that wakes the device, at the moment planned.                           *)
THEOREM AlarmIsThePlanned ==
  ASSUME Roomy
  PROVE  Spec => NoStaleAlarm
<1>1. ASSUME Inv, [Next]_vars
      PROVE  (pc = "off" /\ plan.armed /\ pc' = "boot" /\ AlarmInt(ctrl'))
               => plan.kind = "alarm" /\ clock' = plan.at
  BY <1>1, StaleAlarmStep
<1>2. Inv /\ [Next]_vars =>
        [pc = "off" /\ plan.armed /\ pc' = "boot" /\ AlarmInt(ctrl')
           => plan.kind = "alarm" /\ clock' = plan.at]_vars
  BY <1>1
<1> QED
  BY <1>2, Invariance, PTL DEF Spec, NoStaleAlarm
=============================================================================
