----------------------------- MODULE PowerCycle -----------------------------
(***************************************************************************)
(* The life of the device between two wakeups: it boots, executes the IR   *)
(* action its FRAM context asks for, is online for a while, plans its next *)
(* wakeup, programs the RTC and cuts its own power.  Only the RTC's alarm, *)
(* its countdown timer or a button turns it on again.                      *)
(*                                                                         *)
(* A plan is made from one reading of the clock and takes effect in two    *)
(* more steps, the programming of the RTC and the saving of the context;   *)
(* the clock moves on, and the device may be reset, between any two.       *)
(***************************************************************************)
EXTENDS WakeupPlan

CONSTANTS
  TimerCountMax, (* The RTC's countdown register: 255.                       *)
  Intervals,     (* Telemetry intervals a CMD 1 may set, zero and too long   *)
                 (* ones included.                                           *)
  Offered,       (* Schedules a CMD 6 may set.                               *)
  SyncTimes,     (* Clock values a CMD 1 may set.                            *)
  Lag            (* Bound of the model: ticks from the reading of the clock  *)
                 (* to the power cut.                                        *)

Actions   == 0 .. 12 \cup {250}  (* ir_action_slot_t, as CMD 6 sets it. *)
None      == 250                 (* IR_ACTION_NONE      *)
PowerOff  == 0                   (* IR_ACTION_POWER_OFF *)
PowerOn   == 1                   (* IR_ACTION_POWER_ON  *)
FirstTemp == 4                   (* IR_ACTION_SET_TEMP_18 *)
SlotEnd   == 13                  (* IR_ACTION_SLOT_END  *)
Telemetry == 0                   (* WAKEUP_REASON_TELEMETRY *)
Scheduled == 1                   (* WAKEUP_REASON_SCHEDULE  *)

Schedule == [enabled : BOOLEAN, days : SUBSET Weekdays,
             minute : Minutes \cup {BadMinute}, action : Actions]

ASSUME PowerAssumption ==
  /\ TimerCountMax \in Nat \ {0}
  /\ Intervals \subseteq 0 .. TicksPerDay - 1
  /\ 0 \in Intervals
  /\ Offered \subseteq Schedule
  /\ SyncTimes \subseteq Times
  /\ Lag \in Nat

VARIABLES
  clock,    (* RTC: the time.                                                *)
  alarm,    (* RTC: the alarm's minute of the day; NoAlarm before any is set.*)
  ctrl,     (* RTC: the flags and interrupt enables of CTRL2.                *)
  timer,    (* RTC: the countdown timer; it reloads itself.                  *)
  table,    (* FRAM: the schedules.                                          *)
  interval, (* FRAM: the telemetry interval.                                 *)
  pending,  (* FRAM: the wakeup reason and the action of the context.        *)
  pc,       (* Where the device is, "off" when its power is cut.             *)
  plan,     (* RAM, and history while off: the last plan; armed says that    *)
            (* the RTC was programmed, every register of it, before the      *)
            (* planned moment, and saved that the context was.               *)
  lag,      (* History: the ticks since the clock was read for the plan.     *)
  emitted   (* IR output: the last slot that this step has sent, or None.    *)

rtc  == <<clock, alarm, ctrl, timer>>
fram == <<table, interval, pending>>
vars == <<rtc, fram, pc, plan, lag, emitted>>

NoAlarm   == -1
NoPlan    == [kind |-> "none", id |-> -1, from |-> 0, at |-> 0,
              armed |-> FALSE, saved |-> FALSE]
MaxTicks  == TimerCountMax * TicksPerMinute
Stopped   == [on |-> FALSE, period |-> 0, left |-> 0]
Silent    == emitted' = None
Countdown(n) == [on |-> TRUE, period |-> n, left |-> n]

-----------------------------------------------------------------------------
(* The RTC *)

(* Fault: the alarm interrupt is not enabled. *)
Cleared_NoAie(c) == [c EXCEPT !.af = FALSE, !.tf = FALSE]

(* rtc_ht8563_clear_flags: the timer's enable bit stays as it is.          *)
Cleared(c) == [c EXCEPT !.af = FALSE, !.tf = FALSE, !.aie = TRUE]

(* The clock moves to t: the alarm rings at the start of its minute, every *)
(* day; the timer runs out, reloads and pulses.                            *)
Rings(t)   == t % TicksPerMinute = 0 /\ MinuteOfDay(t) = alarm
TimerEnds  == timer.on /\ timer.left = 1

(* INT, which turns the device on: a level for the alarm, a pulse for the  *)
(* timer.                                                                  *)
AlarmInt(c) == c.af /\ c.aie

Tick ==
  /\ pc \in {"planned", "saving", "cutting"} => lag < Lag
  /\ clock' = Later(clock, 1)
  /\ ctrl' = [ctrl EXCEPT !.af = @ \/ Rings(clock'), !.tf = @ \/ TimerEnds]
  /\ timer' = IF ~timer.on THEN timer
              ELSE [timer EXCEPT !.left = IF TimerEnds THEN timer.period
                                                       ELSE @ - 1]
  /\ pc' = IF pc = "off" /\ (AlarmInt(ctrl') \/ (TimerEnds /\ ctrl.tie))
             THEN "boot" ELSE pc
  /\ lag' = IF pc \in {"planned", "saving", "cutting"} THEN lag + 1 ELSE lag
  /\ UNCHANGED <<alarm, fram, plan>>
  /\ Silent

(* A button turns the device on. *)
Press ==
  /\ pc = "off"
  /\ pc' = "boot"
  /\ UNCHANGED <<rtc, fram, plan, lag>>
  /\ Silent

-----------------------------------------------------------------------------
(* Boot *)

(* app_power_analyze_boot without the two buttons held.  Its result is     *)
(* logged; the boot acts on the context alone.                             *)
BootCause ==
  CASE ctrl.tf /\ ctrl.af -> "conflict"
    [] ctrl.tf /\ ~ctrl.af -> "timer"
    [] ~ctrl.tf /\ ctrl.af -> "alarm"
    [] OTHER -> "power on"

(* The slot an action field makes the boot send (after three POWER_ON for  *)
(* a temperature); the comparison with IR_ACTION_NONE always succeeds, a   *)
(* 4-bit field being below 250.                                            *)
SlotFor(action) ==
  IF action \in {PowerOff, PowerOn} \cup FirstTemp .. SlotEnd - 1
    THEN action ELSE None

Dispatch ==
  /\ pc = "boot"
  /\ emitted' = IF pending.reason = Scheduled THEN SlotFor(pending.action)
                                              ELSE None
  /\ pc' = "online"
  /\ plan' = NoPlan
  /\ lag' = 0
  /\ UNCHANGED <<rtc, fram>>

(* Both buttons held: the local menu, which leaves with a download or an   *)
(* upload request in the context.                                          *)
OpenMenu ==
  /\ pc = "boot"
  /\ pc' = "menu"
  /\ Silent
  /\ plan' = NoPlan
  /\ lag' = 0
  /\ UNCHANGED <<rtc, fram>>

(* Fault: the action overwrites the other bits. *)
Low4_Unmasked(action) == action

Low4(action) == action % 16  (* SET_LAST_ACTION_ACTION keeps four bits. *)

ExitMenu ==
  /\ pc = "menu"
  /\ \E a \in {None, PowerOff} :
       pending' = [pending EXCEPT !.action = Low4(a)]
  /\ pc' = "online"
  /\ UNCHANGED <<rtc, table, interval, plan, lag>>
  /\ Silent

-----------------------------------------------------------------------------
(* Online: the commands that change what a plan is made from *)

SyncClock ==  (* CMD 1 *)
  /\ pc = "online"
  /\ clock' \in SyncTimes
  /\ interval' \in Intervals
  /\ UNCHANGED <<alarm, ctrl, timer, table, pending, pc, plan, lag>>
  /\ Silent

SaveSchedule ==  (* CMD 6 *)
  /\ pc = "online"
  /\ \E id \in Ids, s \in Offered : table' = [table EXCEPT ![id] = s]
  /\ UNCHANGED <<rtc, interval, pending, pc, plan, lag>>
  /\ Silent

ResetContext ==  (* CMD 2 for the last slot *)
  /\ pc = "online"
  /\ pending' = [reason |-> Telemetry, action |-> PowerOff]
  /\ UNCHANGED <<rtc, table, interval, pc, plan, lag>>
  /\ Silent

EndDownload ==  (* CMD 8 for the last slot *)
  /\ pc = "online"
  /\ pending' = [pending EXCEPT !.action = Low4(None)]
  /\ UNCHANGED <<rtc, table, interval, pc, plan, lag>>
  /\ Silent

-----------------------------------------------------------------------------
(* app_power_shutdown *)

(* The interval and the table are taken to be readable. *)
PlanAt(now) ==
  IF AlarmFirst(table, interval, now)
    THEN [kind |-> "alarm", id |-> Closest(table, now), from |-> now,
          at |-> AlarmTime(table, now), armed |-> FALSE, saved |-> FALSE]
    ELSE [kind |-> "timer", id |-> -1, from |-> now,
          at |-> Later(now, interval), armed |-> FALSE, saved |-> FALSE]

(* The clock is read, the flags are cleared, the plan is made.             *)
Plan ==
  /\ pc = "online"
  /\ ctrl' = Cleared(ctrl)
  /\ plan' = PlanAt(clock)
  /\ lag' = 0
  /\ pc' = "planned"
  /\ UNCHANGED <<clock, alarm, timer, fram>>
  /\ Silent

(* The flags cannot be cleared, which is not looked at. *)
PlanUncleared ==
  /\ pc = "online"
  /\ plan' = PlanAt(clock)
  /\ lag' = 0
  /\ pc' = "planned"
  /\ UNCHANGED <<rtc, fram>>
  /\ Silent

(* The clock cannot be read: nothing is planned, the power is cut anyway.  *)
PlanFails ==
  /\ pc = "online"
  /\ plan' = NoPlan
  /\ lag' = 0
  /\ pc' = "cutting"
  /\ UNCHANGED <<rtc, fram>>
  /\ Silent

(* rtc_ht8563_set_alarm.  A timer that is running is not stopped.          *)
SetAlarm ==
  /\ pc = "planned"
  /\ plan.kind = "alarm"
  /\ ctrl' = Cleared(ctrl)
  /\ alarm' = table[plan.id].minute
  /\ plan' = [plan EXCEPT !.armed = Until(clock, plan.at) \in 1 .. interval]
  /\ pc' = "saving"
  /\ UNCHANGED <<clock, timer, fram, lag>>
  /\ Silent

(* The flags cannot be cleared, or one of the alarm's registers not be     *)
(* written: it is at some other minute, if not at the earlier one, and the *)
(* caller is told that all is well.                                        *)
SetAlarmFails ==
  /\ pc = "planned"
  /\ plan.kind = "alarm"
  /\ ctrl' \in {ctrl, Cleared(ctrl)}
  /\ alarm' \in Minutes \cup {alarm}
  /\ pc' = "saving"
  /\ UNCHANGED <<clock, timer, fram, plan, lag>>
  /\ Silent

(* Up to TimerCountMax the timer counts ticks, above it minutes, rounded   *)
(* up.                                                                     *)
TimerPeriod(ticks) ==
  IF ticks <= TimerCountMax THEN ticks
  ELSE ((ticks + TicksPerMinute - 1) \div TicksPerMinute) * TicksPerMinute

Accepted(ticks) == ticks \in 1 .. MaxTicks

(* Fault: the alarm interrupt stays enabled. *)
SetTimer_KeepsAie ==
  /\ pc = "planned"
  /\ plan.kind = "timer"
  /\ Accepted(interval)
  /\ ctrl' = [Cleared(ctrl) EXCEPT !.tie = TRUE]
  /\ timer' = Countdown(TimerPeriod(interval))
  /\ plan' = [plan EXCEPT !.armed = TRUE]
  /\ pc' = "saving"
  /\ UNCHANGED <<clock, alarm, fram, lag>>
  /\ Silent

(* Fault: the timer runs with its interrupt disabled. *)
SetTimer_NoTie ==
  /\ pc = "planned"
  /\ plan.kind = "timer"
  /\ Accepted(interval)
  /\ ctrl' = Cleared(ctrl)
  /\ timer' = Countdown(TimerPeriod(interval))
  /\ plan' = [plan EXCEPT !.armed = TRUE]
  /\ pc' = "saving"
  /\ UNCHANGED <<clock, alarm, fram, lag>>
  /\ Silent

(* rtc_ht8563_set_timer: CTRL2 is overwritten, the alarm interrupt goes.   *)
SetTimer ==
  /\ pc = "planned"
  /\ plan.kind = "timer"
  /\ Accepted(interval)
  /\ ctrl' = [af |-> FALSE, tf |-> FALSE, aie |-> FALSE, tie |-> TRUE]
  /\ timer' = Countdown(TimerPeriod(interval))
  /\ plan' = [plan EXCEPT !.armed = TRUE]
  /\ pc' = "saving"
  /\ UNCHANGED <<clock, alarm, fram, lag>>
  /\ Silent

(* An interval the timer cannot count: the RTC keeps what it had.          *)
RejectTimer ==
  /\ pc = "planned"
  /\ plan.kind = "timer"
  /\ ~Accepted(interval)
  /\ ctrl' = Cleared(ctrl)
  /\ pc' = "saving"
  /\ UNCHANGED <<clock, alarm, timer, fram, plan, lag>>
  /\ Silent

(* The flags cannot be cleared, or a register of the timer not be written: *)
(* the writes before it have been done.                                    *)
SetTimerFails ==
  /\ pc = "planned"
  /\ plan.kind = "timer"
  /\ \/ ctrl' \in {ctrl, Cleared(ctrl)} /\ UNCHANGED timer
     \/ /\ Accepted(interval)
        /\ \E done \in 1 .. 4 :
             /\ ctrl' = [af |-> FALSE, tf |-> FALSE, aie |-> FALSE,
                         tie |-> done = 4]
             /\ timer' = IF done < 2 THEN timer ELSE Stopped
  /\ pc' = "saving"
  /\ UNCHANGED <<clock, alarm, fram, plan, lag>>
  /\ Silent

(* The context that an earlier one becomes. *)
Updated(context) ==
  IF plan.kind = "alarm"
    THEN [reason |-> Scheduled, action |-> Low4(table[plan.id].action)]
    ELSE [context EXCEPT !.reason = Telemetry]

(* Fault: the context keeps the action of an earlier wakeup. *)
SaveContext_OldAction ==
  /\ pc = "saving"
  /\ pending' = [pending EXCEPT !.reason = IF plan.kind = "alarm"
                                             THEN Scheduled ELSE Telemetry]
  /\ plan' = [plan EXCEPT !.saved = TRUE]
  /\ pc' = "cutting"
  /\ UNCHANGED <<rtc, table, interval, lag>>
  /\ Silent

(* The context is saved; an error of the RTC changes nothing in it.        *)
SaveContext ==
  /\ pc = "saving"
  /\ pending' = Updated(pending)
  /\ plan' = [plan EXCEPT !.saved = TRUE]
  /\ pc' = "cutting"
  /\ UNCHANGED <<rtc, table, interval, lag>>
  /\ Silent

(* The context cannot be read, and is made from nothing, or it cannot be   *)
(* written; the power is cut all the same.                                 *)
SaveFails ==
  /\ pc = "saving"
  /\ \/ /\ pending' = Updated([reason |-> Telemetry, action |-> PowerOff])
        /\ plan' = [plan EXCEPT !.saved = TRUE]
     \/ UNCHANGED <<pending, plan>>
  /\ pc' = "cutting"
  /\ UNCHANGED <<rtc, table, interval, lag>>
  /\ Silent

(* The power goes; an alarm that rang meanwhile turns it on again.         *)
CutPower ==
  /\ pc = "cutting"
  /\ pc' = IF AlarmInt(ctrl) THEN "boot" ELSE "off"
  /\ Silent
  /\ UNCHANGED <<rtc, fram, plan, lag>>

(* A watchdog or a panic: RAM is lost, FRAM and RTC are not.               *)
Reset ==
  /\ pc \notin {"off", "boot"}
  /\ pc' = "boot"
  /\ plan' = NoPlan
  /\ lag' = 0
  /\ Silent
  /\ UNCHANGED <<rtc, fram>>

-----------------------------------------------------------------------------
(* Specification *)

(* A device out of the factory: an empty table and a zero interval.        *)
Blank == [enabled |-> FALSE, days |-> {}, minute |-> BadMinute,
          action |-> PowerOff]

Init ==
  /\ clock = 0
  /\ alarm = NoAlarm
  /\ ctrl = [af |-> FALSE, tf |-> FALSE, aie |-> FALSE, tie |-> FALSE]
  /\ timer = Stopped
  /\ table = [id \in Ids |-> Blank]
  /\ interval = 0
  /\ pending = [reason |-> Telemetry, action |-> PowerOff]
  /\ pc = "boot"
  /\ plan = NoPlan
  /\ lag = 0
  /\ emitted = None

Booting  == Dispatch \/ OpenMenu \/ ExitMenu
Commands == SyncClock \/ SaveSchedule \/ ResetContext \/ EndDownload
Arming   == SetAlarm \/ SetTimer \/ RejectTimer
Shutdown == Plan \/ Arming \/ SaveContext \/ CutPower
Failures == PlanFails \/ PlanUncleared \/ SetAlarmFails \/ SetTimerFails
              \/ SaveFails \/ Reset

Next == Tick \/ Press \/ Booting \/ Commands \/ Shutdown \/ Failures

Spec == Init /\ [][Next]_vars

(* The RTC's oscillator runs on its own battery, whatever the device does. *)
FairSpec == Spec /\ WF_vars(Tick)

(* A device on which nothing fails and that is never reset.                *)
CalmNext == Tick \/ Press \/ Booting \/ Commands \/ Shutdown

CalmSpec == Init /\ [][CalmNext]_vars /\ WF_vars(Tick)

-----------------------------------------------------------------------------
(* Properties *)

TypeOK ==
  /\ clock \in Times
  /\ alarm \in Minutes \cup {NoAlarm}
  /\ ctrl \in [af : BOOLEAN, tf : BOOLEAN, aie : BOOLEAN, tie : BOOLEAN]
  /\ timer \in [on : BOOLEAN, period : 0 .. MaxTicks, left : 0 .. MaxTicks]
  /\ timer.on => timer.left \in 1 .. timer.period
  /\ table \in [Ids -> Offered \cup {Blank}]
  /\ interval \in Intervals
  /\ pending \in [reason : {Telemetry, Scheduled}, action : 0 .. 15]
  /\ pc \in {"off", "boot", "menu", "online", "planned", "saving", "cutting"}
  /\ plan \in [kind : {"none", "alarm", "timer"}, id : Ids \cup {-1},
               from : Times, at : Times, armed : BOOLEAN, saved : BOOLEAN]
  /\ lag \in 0 .. Lag
  /\ emitted \in Actions

(* What was programmed before the power went: the RTC and the context, two *)
(* devices written one after the other, agree with one schedule of the     *)
(* table and with each other, resets between the writes notwithstanding.   *)
(* If the context could not be saved, the RTC is still as planned, and the *)
(* context is not: the next boot acts on an earlier one.                   *)
RtcAgreesWithContext ==
  pc = "off" /\ plan.armed =>
    IF plan.kind = "alarm"
      THEN /\ plan.saved => pending = [reason |-> Scheduled,
                                       action |-> Low4(table[plan.id].action)]
           /\ alarm = table[plan.id].minute
           /\ alarm = MinuteOfDay(plan.at)
           /\ ctrl.aie
      ELSE /\ plan.saved => pending.reason = Telemetry
           /\ ctrl.tie /\ timer.on /\ ~ctrl.aie

(* An alarm is awaited until the moment planned, a timer for its period,   *)
(* which starts after the clock was read and may reload once before the    *)
(* power goes.                                                             *)
WakeLimit ==
  IF plan.kind = "alarm" THEN plan.at
                         ELSE Later(plan.from, lag + TimerPeriod(interval))

(* A device that was programmed in time never oversleeps. *)
NeverOversleeps ==
  [][pc = "off" /\ plan.armed /\ clock' # clock /\ clock' = WakeLimit
       => pc' = "boot"]_vars

(* No moment at which an enabled schedule is due, in the interval that     *)
(* began when the clock was read, is slept through.                        *)
NoScheduleSleptThrough ==
  [][(/\ pc = "off" /\ plan.armed /\ clock' # clock
      /\ SomeOccurs(table, clock')
      /\ Until(plan.from, clock') \in 1 .. interval)
        => pc' = "boot"]_vars

(* An alarm left over from an earlier plan never wakes the device, and the *)
(* planned one rings at no other moment than the one it was planned for.   *)
NoStaleAlarm ==
  [][pc = "off" /\ plan.armed /\ pc' = "boot" /\ AlarmInt(ctrl')
       => plan.kind = "alarm" /\ clock' = plan.at]_vars

(* A programmed sleep ends. *)
SleepEnds == (pc = "off" /\ plan.armed) ~> (pc = "boot")

(* README, bit 0 of last_action: "Trigger source of the system wakeup",    *)
(* 0 for the telemetry timer.  A timer left running under an alarm wakes   *)
(* the device with the bit at 1, and the schedule's action is sent early.  *)
TriggerBitIsWakeup ==
  [][pc = "off" /\ pc' = "boot" /\ BootCause' = "timer"
       => pending.reason = Telemetry]_vars

=============================================================================
