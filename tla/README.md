# TLA+ model of the ExplorerAir IR blaster firmware

The firmware (`src/main`, `src/components`) runs on an ESP32 that is off most of
the time. An HT8563 real-time clock turns it on, for a schedule or for a
telemetry reading; it sends an infrared command, connects, reports, takes
commands over MQTT, programs the RTC for its next wakeup and cuts its own power.
Everything that must outlive the power cut is in an FRAM.

This directory holds the TLA+ modules of that program, the TLC configurations
that check them, and proofs for the TLA+ proof system (TLAPS).

    tlc -workers 2 -config TelemetryLog.cfg TelemetryLog.tla
    tlapm TelemetryLogProofs.tla

and the same for the other runs of section 3 and the other `...Proofs` modules.

## 1. The system

| Component | State | Operations | What makes it correct | Module |
|---|---|---|---|---|
| Offline telemetry log (`app_storage.c` 132-231, `app_comms.c` 485-556) | FRAM: header (head, tail, count, magic), 100 slots | push, pop, count, flush | a bounded drop-oldest queue; no reading sent twice; a crash loses at most one | `TelemetryLog`, `OfflineQueue` |
| Wakeup planning (`app_power.c` 225-330) | FRAM: schedules, interval, context | search the table, choose alarm or timer | the first due moment is planned | `WakeupPlan` |
| Power cycle and RTC (`app_power.c`, `rtc_ht8563.c`, `main.c` 110-199) | RTC: clock, alarm, timer, flags; FRAM context | boot, dispatch, program RTC, save context, cut power | no due schedule is slept through; RTC and context agree; every sleep ends | `PowerCycle` |
| FSM task, event queue, shutdown timer (`main.c`) | queue of 10 events, one-shot timer, upload tasks | one handler per event; posts without waiting | no session ends without an attempt to report, and every one ends; one upload at a time | `AwakeSession` |
| IR upload (`app_comms.c` 43-150, 357-388) | awaited slot, event bit, attempt, timer | send slot, wait, retry; match CMD 2 | a slot counts as confirmed only if the platform has it; the timer outlasts a slot | `IrUpload` |
| WiFi failover (`board_wifi.c`) | network index, retry counter, station configuration | start, retry, next network, give up | it does not give up early, nor go on for ever; the session is told how it ends | `WifiFailover`, `WifiStation` |
| MQTT wrapper (`board_mqtt.c`) | client | start, publish, post events | the reading is published or stored before the power is cut | in `AwakeSession` |
| Local menu (`app_buttons.c`) | screen, slot being learned, captured signal, receiver | two buttons: learn, test, download, leave | the exit prompt means that every slot is learned or disabled; a slot gets no signal but one of its own screen or of the one before | `LearnMenu`; its exits also in `AwakeSession` |
| IR download (`app_comms.c` 431-470) | DOWNLOAD bit, IR slots in FRAM | CMD 8, CMD 9 | no gaps; a download is over only when all slots are stored | `IrDownload`, `OrderedTransfer` |
| FRAM driver (`fram_mb85rs512t.c`) | write enable latch, transactions | write enable, write, read | a write is not disabled by another task's | latch in `LearnMenu`; map of the records in `Formats` |
| JSON protocol (`json_protocol.c`) | - | encode, decode | the date that CMD 1 sets is the date that is read | date of CMD 1 in `Formats`, slot of CMD 8 in `IrDownload` |
| IR receiver and transmitter | one kept signal | restart, read, send | - | receiver in `LearnMenu` |
| Platform simulator (`test_script/test_all.py`) | none: it answers each message by itself | TRIGGER_MAP | - | its answers to CMD 9 in `IrDownload` |
| I2C lock and OLED, SPI bus, bootloader hook | none that matters here | - | - | not modelled |

How they interact. `app_main` creates the event queue, the shutdown timer and
the FSM task. WiFi, MQTT and timer callbacks, the menu task and the upload task
post events; the FSM task handles them one at a time. The upload task and the
FSM task share the awaited slot and an event bit. The menu task and the FSM task
share the wakeup context in FRAM and the write enable latch of the chip. The
plan made at shutdown is read by the next boot, through FRAM and RTC.

What is hard. (a) Power cuts between any two FRAM or RTC accesses. (b) Two tasks
that read, change and write back the same FRAM record. (c) Events posted with no
timeout to a bounded queue. (d) Confirmations lost, late or duplicated. (e) One
bit field that says why the device wakes, what it does and what the user asked
for, with two different values for "nothing". (f) A menu that keeps a signal, a slot
and a mark across screens, in any order of the two buttons. (g) Minutes, days, weeks, ties and
rounding in the plan. `PROJECT.json` lists the hazards line by line.

## 2. The modules

**`OfflineQueue`** is the abstract promise of the log: a queue of at most
`MaxItems` readings that drops its oldest. **`TelemetryLog`** is the code: one
action per FRAM access (`PushLoad`, `PushSlot`, `PushHeader`, `PopLoad`,
`PopHeader`, `PublishPopped`), the handlers that call them, FRAM errors
(`FramError`: the error is ignored by a push's caller and ends a flush) and power
failures (`PowerFails`) between any two accesses. `SendInitial` publishes a
reading, or hands it to a push, or drops it when `json_encode` fails. `QueueView` is the refinement
mapping: between the two writes of a push into a full ring, the overwritten
record still counts.

**`WakeupPlan`** holds the search of the schedule table as pure operators on a
small week (`TicksPerMinute`, `MinutesPerDay`, `DaysPerWeek`), and `IsEarliest`,
its reference definition. **`PowerCycle`** extends it with the device and the RTC.
`Plan`, `SetAlarm`/`SetTimer`, `SaveContext`, `CutPower` are the steps of
`app_power_shutdown`; the clock may tick between them, at most `Lag` times. Each
of them may fail, and the code goes on whatever fails: the clock cannot be read
(`PlanFails`), the flags not cleared (`PlanUncleared`), a register of the alarm
or the timer not written (`SetAlarmFails`, `SetTimerFails`), the context not
read or not written (`SaveFails`); `Reset` may come between any two. The RTC's
registers keep what the driver wrote to them, in particular a timer that nobody
stopped. Two flags of the plan are history. `armed`: every register was written,
and before the planned moment; if the clock passes it earlier, no alarm can be
in time, and the properties do not ask for it. `saved`: the context was written.
A plan that is armed and not saved is a device that wakes as planned and acts on
an earlier context: `RtcAgreesWithContext` says what holds with and without it.
`MCPowerCycle` gives the small instance.

**`AwakeSession`** is one session from power on to power off. `Post` is
`xQueueSend` with timeout 0, `Take` the head of the FSM's loop. The handlers of
the commands and of the shutdown read the context in one step and write it in
another, as do the menu's exits; `ReadFails` is the exit that cannot read the
context, and then posts nothing. `Report` is a reading that is published or
stored, or an attempt that failed: neither the result of the encoding nor that of
the push is looked at. `Contexts` keeps of the context what the
session decides by. The data of a handler is left to the modules of
its component. `MqttDown` also stands for an attempt to connect that fails. The
upload task is reduced to "a slot is confirmed" (which restarts the timer),
"done" and "failed"; that it ends is what `IrUpload` shows.

**`IrUpload`** is the upload of the learned codes. `Expect`, `ClearBit`,
`Publish`, `Acked`, `WaitTimesOut`, `NextSlot`, `Fail` are the sequence task;
`Receive`, `SetBit`, `SaveContext` the three steps of the FSM's CMD 2 handler;
`Confirm` and `Lose` the platform and the network, which lose, delay, reorder and
duplicate. Messages of an earlier upload are gone when the user starts another
one, which takes minutes in the menu. A message under way to the device dies
with the connection (clean MQTT session). Steps take no time, waits do.

**`OrderedTransfer`** is the abstract promise of both transfers: the slots arrive
one after the other without a gap, and a transfer is taken for complete only if
it is. `IrUpload` implements it with the slots the platform has and the end of
the sequence task, `IrDownload` with the slots in the FRAM and what the platform
takes for complete.

**`IrDownload`** is the other direction. `Receive`, `ClearBit`, `SaveSlot` and
`ConfirmSlot` are the steps of the FSM task's CMD 8 handler, in its order: the
DOWNLOAD bit is cleared before the last slot is stored. `Connect` asks for the
download at every connection that finds the bit set; `StartShutdown`/`CutPower`
and `TakeConfirm`/`SaveContext` are the two other writers of the context, which
save what they have read before. `Answer` is the platform: it remembers nothing
and answers a confirmation with the next slot. Losses, duplicates, FRAM errors,
crashes and a platform that begins by itself are the troubles that `MaxTroubles`
bounds; a liveness property needs that bound.

**`LearnMenu`** is the menu task, one action per screen and button, and the two
writers of the FRAM. A button starts a `job`: the records that are left to be
saved, each with `Enable` and `Write`, and what follows (`Advance`, `Post`,
`AskToLeave`, `EndTask`). `FsmEnable` and `FsmSave` are the FSM task's write
beside it, which only happens once the menu has had it connect (`session`).
The FSM task may write any record, an IR slot (CMD 8, `Remote`) among them.
A signal is named by the screen on which it was heard, a slot, the exit prompt
(`AtPrompt`) or another (`Foreign`), so that a slot tells whose command it holds.
`lost` is a history variable: the records
whose last write had no effect. `MaxBoots` and `MaxSaves` bound the boots and
the FSM task's writes.

**`Formats`** is how the state lies in bytes: the fields of the action word, the
BCD registers of the clock with the bits that are no field's, and the records of
the FRAM with their lengths. `Given` is what the decoder of CMD 1 yields for a
field of the date: any number, as it checks no range. `Wrapped` is what the
registers and their masks make of it. **`Algorithms`** is the specification of a caller
that gives the search and the formats one input after the other (`input`,
`givenTable`, `givenInterval`, `moment`): its invariants are the statements about
these pure operators.

**`WifiStation`** is the abstract station a session waits for: idle, trying, up,
exhausted. **`WifiFailover`** is the retry engine, which implements it: `Seen`
is the refinement mapping, in which a state counts as reached when the event
that tells of it has been posted. `AwakeSession` takes its WiFi steps from the
same module (`Station!Connected`, ...), so that what it assumes of the WiFi is
what the failover gives; that every start is answered, which is part of
`ImplementsStation`, is the fairness it assumes of it. The driver's event handler
(`Disconnected`, `Count`, `Again`, `NextIndex`, `StepIndex`, `GiveUp`, `Choose`,
`ConnectNext`) and the start in the FSM's task (`StartIndex` to `StartDriver`)
take a step for each access of the index, the counter or the configuration that
the other may come between; a value that was written and is needed again may be
the one at hand (`mine`) or the one read back, as the compiler has it. The start
may come at any time, and the driver may refuse its configuration while it
connects. `met` is history: a start and the handler were under way together.
Four networks: the dynamic credential is always set, by the
FRAM or by a default (`app_comms.c` 152-173), plus three static ones.

**`TelemetryLogProofs`**, **`IrUploadProofs`**, **`IrDownloadProofs`**,
**`LearnMenuProofs`**, **`AwakeSessionProofs`**, **`WifiFailoverProofs`**,
**`AlgorithmsProofs`** and **`PowerCycleProofs`** hold the proofs about the module
of the same name; the last one uses the theorem of the one before.

Definitions whose name has an underscore (`Retry_Forever`) are deliberate faults:
bugs of the kind this code could have. They show that a property notices them
and are part of no specification.

## 3. The runs

| Run | What it shows | Bounds |
|---|---|---|
| `telemetry_log` | the ring is `OfflineQueue` under errors and crashes; nothing sent twice; at most the oldest or the reading in hand is lost; a flush returns | ring of 3, 6 readings: the ring wraps twice and is full for several pushes |
| `wakeup_plan` | the search equals `IsEarliest` for every table, interval and moment; a field of the action word is set without touching another; every number CMD 1 may give for the date is read back as what the registers make of it, a calendar's as itself; the records of the FRAM do not overlap | 2 schedules, a week of 3 days of 3 minutes of 2 ticks: ties, wrap of day and week, moments inside and at the start of a minute. The formats have no bound: all words, all records, all numbers of one byte for each field of the date and of two for the year, and for a missing part all that the RTC can hold |
| `power_cycle` | RTC and context agree when off, as far as they could be written; nothing is overslept; no old alarm rings; every programmed sleep ends | 1 schedule offered in two forms, intervals 0, 2 and 3 (refused, in ticks, rounded up to minutes), `Lag` 1: replanning from alarm to timer and back, every register written or not |
| `ir_upload` | confirmed slots are stored; the timer outlasts each slot; uploads end; the platform gets the slots in order | 3 slots, 2 attempts, timer one tick longer than the attempts (the code's 20 s against 3 x 2 s is slacker) |
| `session` | one upload at a time; something will end a session that has handled a reading; no power cut before an attempt to report; a session that connects ends | queue of 2, no overflow, readable context: an event that is handled and two behind it, of any two tasks in any order; a longer queue is the proofs' |
| `wifi_failover` | the failover does not give up before it has made `Nets * MaxRetries` attempts, wherever a start comes between the handler's steps; it leaves no network out unless the two met; a start costs a bounded number of attempts; it is a `WifiStation`, which ends what it starts | 4 networks, 3 attempts (the code's values), 2 starts, 2 losses: the second start at any step of the handler, at any network |
| `ir_download` | every slot before the one under way is stored; the exchange is an `OrderedTransfer`; when the bit is cleared only the last slot is missing; a request is not repeated for ever | 4 slots, 4 troubles: a slot doubled, its confirmation late and the power cut in one behaviour |
| `learn_menu` | the prompt means that all slots are learned; a slot learns only what was heard on its screen or the one before; alone, no write is lost | 5 slots (2 to 4 can be disabled, as in the code), 2 boots, 1 write of the FSM task: learning twice, with a reset between |
| `trigger_bit`, `upload_asked`, `session_queue_full`, `session_download` | each is a statement of the documentation that the code breaks; section 6 | as above |

Deadlock is checked but in `wifi_failover` (a station that has given up does
nothing more, the device is about to be turned off) and `learn_menu` (a device
that is off stays off when `MaxBoots` is used up).

### Fairness

- A FreeRTOS task that is ready runs: weak fairness of a call in progress
  (`TelemetryLog`), of the sequence task and of a handler (`IrUpload`), of the
  FSM's handlers and of a menu exit (`AwakeSession`).
- The RTC's clock ticks and the tick of FreeRTOS counts (`Tick`).
- `AwakeSession`: strong fairness of the posts. The run assumes that the queue
  does not overflow, so a poster finds room again and again, and uses it. WiFi
  and MQTT answer an attempt to connect, well or badly: the ESP-IDF drivers time
  out by themselves. DHCP is a part of this assumption, and no timer of the code
  backs it up (a hazard). `WifiFailover` makes the same assumption of each attempt
  and shows it of the sequence (`ImplementsStation`).
- `IrDownload`: the device is turned on again (`PowerCycle`), connects again and
  again, its handlers run, and the platform answers (strong fairness where a
  power cut may interrupt). A shutdown is only demanded when the exchange has
  stopped: an earlier one is among the troubles.
- Nothing is assumed of users, of power, or of what may get lost; but for
  `IrDownload`, nothing of the platform either.

## 4. What is proved

`TelemetryLogProofs`, for every `MaxItems` in `Nat \ {0}` and every
`MaxReadings` in `Nat` (`LogAssumption`):

- `TypeCorrect`: `Spec => []TypeOK`.
- `LogInvariant`: `Spec => []LogInv`. `LogInv` says that head is tail plus count,
  that the records between them are distinct readings nobody has sent, and what
  each control point knows about the copy of the header in RAM. That much is
  needed because a pop or a push writes the header from a copy read two steps
  before, and because the slot a push overwrites is in the ring when it is full.
- `NoReadingSentTwice`: `Spec => NeverSentTwice`, from `LogInv`: the reading that
  is about to be published is not among those delivered.
- `OnlyOldestLost`: `Spec => OnlyOldestOrInFlightIsLost`. `EntriesSurvive` follows
  one entry through a step: it keeps a place in the ring, or is the reading the
  pop hands out, or the oldest one of a full ring.
- `LogImplementsQueue`: `Spec => ImplementsQueue`, the refinement. The entries of
  the queue are followed through each step by the lemmas on positions modulo
  `MaxItems` (`PositionCycles`, `PositionInjective`, `PushedRing`, `PoppedRing`).
- `CallsAreBounded`: `Spec => CallAdvances`, and `Work` is in
  `0 .. 3 * MaxItems + 5`. Every access of a call lowers `Work`, failed ones
  included, so a call makes no more than that many. It is what the termination of
  a flush rests on: a publication that fails pushes its entry back, but leaves
  the loop. `LogInv` is needed for the header that is formatted on the way.

`IrUploadProofs`, for every number of slots and attempts and all timeouts above
zero (`UploadAssumption`):

- `TypeCorrect`: `Spec => []TypeOK`.
- `ConfirmedSlotsAreStored`: `Spec => []ConfirmedIsStored`, if `PromptHandler`.
  `HandshakeInv` says that every CMD 2 under way is for a slot the platform has,
  that from the announcement of a slot on the awaited slot is the current one,
  and that, once the bit is cleared, a handler about to set it has matched that
  slot. The invariant alone is not inductive: that the bit stands for the current
  slot follows only from what the other task has decided and not yet done. The
  assumption is the one the source leaves to scheduling: a handler that has
  compared the slot (`app_comms.c` 365) sets the bit (367) before the sequence
  task has read and encoded the next slot and cleared the bit (87).
- `ImplementsOrderedTransfer`: `Spec => ImplementsTransfer`, under the same
  assumption. `OrderInv` says that a CMD 3 under way has all slots before it
  stored, be it of this upload or of an earlier one, and so has the slot the
  sequence task is at.
- `LateHandlerLeavesLoneGaps`: `Spec => []GapsAreAlone`, without `PromptHandler`.
  `LateInv` says that a late match is of the slot just before the one that is
  awaited and that the bit it sets is cleared with the next slot that counts as
  confirmed; `GapInv`, that the slots sent so far leave no two gaps together.
- `UploadsAreBounded`: `Spec => UploadAdvances`, and `Work` is in
  `0 .. (LastSlot + 1) * SlotWork`: an upload is over after so many steps of its
  task and ticks of its waits, also with a late handler.
- `TimerOutlastsEverySlot`: `Spec => []TimerOutlastsTransfer`, if
  `ShutdownAfter > MaxTries * AckTimeout`. `TimerInv` bounds the timer from below
  by what the attempts at the current slot can still take. In the source the
  timer is 20 s (`main.c` 26) and the attempts take 3 * 2 s (`app_comms.c` 15-16).

`IrDownloadProofs`, for every number of slots and of troubles
(`DownloadAssumption`):

- `TypeCorrect`, and `ChainStored`: `Spec => []ChainIsStored`, which is inductive:
  it follows a slot from the platform's answer through the steps of the handler
  to the confirmation, and says of each that the slots before it are stored.
- `BitClearedAtTheEnd` (`ClearedAtTheEnd`) and `ImplementsOrderedTransfer`
  (`ImplementsTransfer`) follow from it.

`LearnMenuProofs`, for every number of slots above 4, of boots and of the FSM
task's writes (`MenuAssumption`):

- `Invariance`: the invariant says for each job what is left to save, what is
  saved already and which slot is shown, of which slot the captured signal and
  the receiver's can be, and that an enabled write finds the latch set unless
  the FSM task is at work. `PromptMeansComplete` alone does not survive the steps
  between SELECT and the next slot.
- `TypeCorrect`, `PromptComplete`, `CommandsInPlace` (`RightCommand`) and
  `NothingLostAlone` (`AloneNothingIsLost`).

`AwakeSessionProofs`, for every capacity of the queue (`SessionAssumption`):

- `SessionInvariance`: a second upload would take a second "mqtt up" that is
  handled. Between two connections lies a disconnection, whose event ends the
  session, so that the second "mqtt up" is behind an ending in the queue. The
  invariant therefore counts the live ones, which no ending precedes: at most
  one, and none once an upload was started.
- `TypeCorrect` and `ReportBeforeCut` (`NeverCutUntried`) hold also when a full
  queue drops events and when the context cannot be read. That the attempt to
  report succeeded is not claimed.
- `UploadsAreAlone` (`OneUploadAtATime`), if no event is dropped (`~Overflows`):
  a dropped disconnection is no ending before the second "mqtt up", and TLC finds
  the two uploads.
- `SomethingAlwaysEnds` (`SomethingEndsIt`), if no event is dropped and the
  context can be read (`~FramFails`). `session_queue_full` shows what the first
  assumption hides: the code has a full queue drop the event.

`WifiFailoverProofs`, for every number of networks, attempts, starts and losses
(`FailoverAssumption`):

- `FailoverInvariance`. `CountInv` says what the counter is worth in attempts
  at each step of the handler; `BudgetInv`, what the sequence may still spend
  (`Left`, and `Owed` by a start that is under way) within what the starts so far
  allow (`Most`): no step raises the sum, only another start raises the
  allowance. `TriedInv`: if no start met the handler, all networks before the one
  the driver is configured for have had their attempts. It speaks of the driver's
  configuration and not of the index: a start sets the index to 0, and the driver
  may refuse the configuration.
- `TypeCorrect`, `NotGivenUpEarly` (`NeverGivesUpEarly`), `AttemptsBounded`
  (`AttemptsAreBounded`): for every interleaving. `ExhaustedMeansTried`
  (`ExhaustedTriedAll`): if the two tasks do not meet; when they do, a network can
  be left out (section 6).
- `FailoverIsStation`: `Spec => Station!Spec`, the safety part of the refinement
  `ImplementsStation`. A start is a start of the station or a stutter, a further
  attempt stutters, a lost connection is lost or given up. `ToldInv` says that the last event posted is
  that of the state the station is in; without it the mapping is not a station's.

`AlgorithmsProofs`, for every calendar (`CalendarAssumption`):

- `SearchFindsEarliest`: `IsEarliest(table, interval, now)` for every readable
  table, every interval shorter than a day and every moment, if a week has more
  than one day. In a week of one day the assumption is needed: the search looks
  at each weekday once, and today's time, when it is over, is due again less than
  a day ahead on a day that has been looked at. The proof takes a moment apart
  into day, minute and tick (`DayAndTick`, `MomentOf`), shows that the
  candidates of the search are the moments at which the schedule is due
  (`CandidateIsMoment`, `MomentIsCandidate`), and that the first day with one has
  the least (`FirstDueIsLeast`).
- `SearchStaysRight` (`SearchIsRight`), if a week has more than one day, from
  `GivenStays`: what the search has been given is always a table, an interval
  below a day and a moment.
- `WordFieldsStayApart` (`WordFieldsApart`): by arithmetic on the three fields of
  the word (`FieldsOfWord`, `WordOfFields`, `PutChangesOne`).
- `SyncAlwaysReadsBack` (`SyncReadsBack`): for every number the decoder yields,
  and whatever the RTC holds, the BCD register and the mask of the read wrap the
  number to the field's bits (`DigitsWrap`, `UnitWraps`, `FieldReadsBack`); the
  numbers of a calendar are less than that (`CalendarFits`) and come back as they
  were. An hour of 99 does not: it is read back as 19.
- `RecordsStayApart` (`RecordsApart`), from the addresses and lengths of the
  regions (`SlotPlace`, `RegionsApart`).

`PowerCycleProofs`, for every calendar, table, set of intervals and timer
(`PowerAssumption`), if `Roomy`: a week has more than one day, and `Lag`, a day and a
minute fit into it, so that "the ticks since the plan" is not taken for a week
less. In the source a week is 604800 s and a shutdown takes less than a second.

- `Invariance`: `Inv` follows the time since the clock was read (`Elapsed`): it
  is `lag` until the power is cut; an alarm that has not rung is still ahead; what
  the timer has left is no more than its period and the shutdown allow; the
  context is that of the plan once it is saved. It is needed because alarm and timer are set by a
  plan made some ticks before, and because a plan is armed only if its moment has
  not passed by then.
- `TypeCorrect`, `RtcAgrees` (`RtcAgreesWithContext`), `WakesInTime`
  (`NeverOversleeps`),
  `SleepsThroughNothing` (`NoScheduleSleptThrough`), `AlarmIsThePlanned`
  (`NoStaleAlarm`).

Every invariant and every action property that a passing run checks is proved.
Only model-checked are the liveness properties (`FlushReturns`, `SleepEnds`,
`UploadEnds`, `SessionEnds`, `DownloadEnds`, and `Answers` in
`ImplementsStation`), as ENABLED and fairness are outside TLAPS' reach with the
installed backends. What holds of them without fairness is proved for some:
`CallAdvances` for `FlushReturns`, `UploadAdvances` for `UploadEnds`,
`AttemptsAreBounded` for `Answers`, `NeverOversleeps` for `SleepEnds`.

`CallAdvances`, `UploadAdvances` and `GapsAreAlone` are stated where they are
proved and are no run's.

## 5. What could come next

Log, wakeup and power cycle, upload, download, menu, session and WiFi are done.
Left:

1. An abstract upload that `IrUpload` implements and from which `AwakeSession`
   takes its upload steps, as both do with `WifiStation`.
2. FRAM errors and the two-transaction write at every writer, not only at the
   menu.
3. The capture buffer between the interrupt of the receiver and `decode`.

## 6. Where code and documentation disagree

Shown by a run:

- `trigger_bit`: an alarm is programmed while an old timer still runs; the timer
  fires first and the boot sends the schedule's action early.
- `upload_asked`: a cleared context reads as POWER_OFF, and every later
  connection uploads all slots again.
- `session_queue_full`: the shutdown request is dropped by a full queue; nothing
  repeats it.
- `session_download`: a download request saved by the menu task is overwritten by
  a context the FSM task read before.

Seen while modelling, without a run of their own:

- `IR_ACTION_NONE` is 250; its low four bits are slot 10, a temperature, which
  the next boot sends.
- An interval of 0 (erased FRAM, or 65536 s of CMD 1 in 16 bits) or above 15300 s
  is refused by the timer; the power is cut with no wakeup programmed.
- `json_decode_sync` checks no range: a number of CMD 1 that is of no calendar is
  cast, masked and read back as another (`SyncReadsBack` says as which).
- The planner ignores whether the flags, the alarm's registers or the context
  could be written (`app_power.c` 233, 300, 328, `rtc_ht8563.c` 140-143): the
  power is cut with whatever came of it, and the next boot acts on the earlier
  context (`RtcAgreesWithContext` without `saved`).
- An alarm whose minute begins between the reading of the clock and the arming
  rings a day later at the earliest (`armed`).
- A reading that cannot be encoded is neither published nor stored, and one that
  the FRAM does not take is gone; the session ends all the same (`app_comms.c`
  539-555, `main.c` 236 and 313).
- A start of the WiFi sequence that meets the handler of a disconnection
  (`board_wifi.c` 36-71 and 105-124, two tasks, no lock): the configuration of
  network 0 may be tried under index 1, so that network 1 is left out (`met`); a
  counter reset between increment and comparison is lost; an index reset between
  lines 57 and 60 reads the table at 255 (`Outside`). The failover still makes
  its attempts, ends, and tells so.
- A log entry whose publication fails goes behind younger ones.
- A context that cannot be read at MQTT_CONNECTED leaves the shutdown timer
  unstarted (`FramFails`); one that cannot be read at the menu's exit
  (`app_buttons.c` 85) ends the menu task without an event (`ReadFails`).
- A CMD 2 that matches just before the next slot is announced can confirm that
  slot (`PromptHandler`).
- A signal heard while a captured one awaits the user's decision is given to the
  next slot (`app_buttons.c` 196, 336), and one heard on the exit prompt to slot
  0 after "continuar" (326-330), which does not restart the receiver.
  `RightCommand` allows these two.
- The result of saving a learned slot is ignored (`app_buttons.c` 233); so is a
  write that another task's write has disabled (`lost`).
- The last slot of a download is not stored when the power is cut, or the FRAM
  fails, after the DOWNLOAD bit was cleared (`app_comms.c` 441): nothing asks for
  it again.
- README's "reset upon every valid CMD 2" holds only for the awaited one; the
  WiFi retry counter survives a connection; `BOARD_WIFI_EVENT_DISCONNECTED` is
  never posted.

## 7. What is not modelled

- The vendored IR library (`src/components/jorgecis__irremoteidf`) is third-party
  code: some 75 thousand of the repository's 79 thousand lines, protocol decoders
  and air conditioner classes, of which the application uses the raw capture
  buffer and `sendRaw`. The modules are about the 3.8 thousand lines of the
  application.
- Contents of messages, JSON text, the OLED, pulses, RSSI and battery: they
  decide nothing here. Topics and payload memory of MQTT, and heap exhaustion
  other than a slot that cannot be sent.
- The I2C lock: ESP-IDF's driver serialises the transfers by itself. The SPI bus
  is one call, the bootloader hook only holds the power pin.
- The header of the log is one write (`fram_write`, one SPI transaction); a power
  cut within it is not modelled, nor is one within any other record.
- In the plan, the interval and the schedules are taken to be readable
  (`app_power.c` 236, 252); in `session` the queue does not overflow and the
  context can be read, as the properties are false otherwise (section 6).
- The time that a publication and the delays of 100 and 200 ms of the upload take
  is none in `IrUpload`; the code's timer of 20 s against waits of 6 s covers it.
- `WordFieldsApart` asks the slots to come back, not `IR_ACTION_NONE`, which does
  not (section 6).
- FRAM read errors are in the log, the session, the download and the context of
  the plan; bus errors of the menu's writes are not in `LearnMenu`, as the menu
  does not look at them.
- The inactivity timeout of the menu is commented out in the source
  (`app_buttons.c` 19): a device left in its menu stays on, and no property could
  say otherwise.
