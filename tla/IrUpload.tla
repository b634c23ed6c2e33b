------------------------------ MODULE IrUpload ------------------------------
(***************************************************************************)
(* The upload of the learned IR commands: the sequence task publishes one  *)
(* slot after the other (CMD 3), the platform confirms each (CMD 2), the   *)
(* FSM task compares a confirmation with the slot that is awaited and sets *)
(* the bit the sequence task waits for.  Publications and confirmations    *)
(* are lost, late and duplicated.  The shutdown timer, restarted by every  *)
(* confirmed slot, cuts the power when it runs out.                        *)
(*                                                                         *)
(* A step of a task takes no time; only waits do.                          *)
(***************************************************************************)
EXTENDS Naturals

CONSTANTS
  LastSlot,      (* IR_SLOT_COUNT - 1: the slots are 0 .. LastSlot.          *)
  MaxTries,      (* MAX_IR_TX_RETRIES                                        *)
  AckTimeout,    (* CMD2_TIMEOUT_MS, in ticks                                *)
  ShutdownAfter, (* MQTT_CONNECTED_TIMEOUT, in ticks                         *)
  PromptHandler  (* Whether the FSM task, once it has found that a CMD 2 is  *)
                 (* the awaited one, sets the bit before the sequence task   *)
                 (* has read and encoded the next slot.                      *)

ASSUME UploadAssumption ==
  /\ LastSlot \in Nat
  /\ MaxTries \in Nat \ {0}
  /\ AckTimeout \in Nat \ {0}
  /\ ShutdownAfter \in Nat \ {0}
  /\ PromptHandler \in BOOLEAN

Slots == 0 .. LastSlot

VARIABLES
  pending,   (* FRAM: whether the context's action is POWER_OFF, which asks  *)
             (* for an upload, and its RAW_SEND bit.                         *)
  online,    (* Whether the device is powered and MQTT is connected.         *)
  timer,     (* The ticks left of the shutdown timer.                        *)
  seq,       (* The sequence task's next step.                               *)
  slot,      (* The slot it is at.                                           *)
  try,       (* The number of its current attempt.                           *)
  left,      (* The ticks left of its wait.                                  *)
  expected,  (* s_current_expected_action                                    *)
  ackBit,    (* CMD2_ACK_BIT                                                 *)
  rx,        (* The CMD 2 the FSM task is handling, and its next step.       *)
  failed,    (* Whether IR_TRANSFER_FAILED is in the event queue.            *)
  up, down,  (* CMD 3 and CMD 2 under way.                                   *)
  stored,    (* The slots the platform has.                                  *)
  confirmed, (* History: the slots the sequence task takes for confirmed.    *)
  asked      (* History: the user has asked for an upload since the last one *)
             (* was completed.                                               *)

task == <<seq, slot, try, left, expected, ackBit>>
net  == <<up, down, stored>>
hist == <<confirmed, asked>>
vars == <<pending, online, timer, task, rx, failed, net, hist>>

Idle == [step |-> "idle", slot |-> 0]

Transferring == {"expect", "clear", "publish", "wait", "pause"}

-----------------------------------------------------------------------------
(* The session *)

(* The user leaves the menu without asking for a download. *)
AskUpload ==
  /\ ~online
  /\ pending' = [upload |-> TRUE, raw |-> TRUE]
  /\ asked' = TRUE
  /\ stored' = {} /\ up' = {} /\ confirmed' = {}
  /\ UNCHANGED <<online, timer, task, rx, failed, down>>

(* MQTT_CONNECTED: an upload is started for the action POWER_OFF.          *)
Connect ==
  /\ ~online
  /\ online' = TRUE
  /\ timer' = ShutdownAfter
  /\ seq' = IF pending.upload THEN "expect" ELSE "none"
  /\ confirmed' = IF pending.upload THEN {} ELSE confirmed
  /\ UNCHANGED <<pending, slot, try, left, expected, ackBit, rx, failed, net,
                 asked>>

(* Everything in RAM is lost, and the CMD 2 under way: the broker keeps no *)
(* session.                                                                *)
GoOff ==
  /\ online' = FALSE
  /\ timer' = 0
  /\ seq' = "none" /\ slot' = 0 /\ try' = 1 /\ left' = 0
  /\ expected' = 0 /\ ackBit' = FALSE
  /\ rx' = Idle
  /\ failed' = FALSE
  /\ down' = {}
  /\ UNCHANGED <<pending, up, stored, hist>>

(* The timer's event, the sequence task's, or a lost connection: the FSM   *)
(* task shuts the device down.                                             *)
ShutDown ==
  /\ online
  /\ rx.step = "idle"
  /\ timer = 0 \/ failed
  /\ GoOff

Disconnect ==
  /\ online
  /\ GoOff

(* Time passes while the sequence task waits or is not running.            *)
Tick ==
  /\ online
  /\ \/ seq \notin Transferring /\ timer > 0
     \/ seq = "wait" /\ left > 0 /\ ~ackBit
  /\ timer' = IF timer > 0 THEN timer - 1 ELSE 0
  /\ left' = IF seq = "wait" THEN left - 1 ELSE left
  /\ UNCHANGED <<pending, online, seq, slot, try, expected, ackBit, rx, failed,
                 net, hist>>

-----------------------------------------------------------------------------
(* app_comms_send_ir_raw_slot_with_retry and app_comms_run_ir_sequence *)

(* The slot is announced; a slot that cannot be read or encoded ends the   *)
(* sequence.                                                               *)
Expect ==
  /\ seq = "expect"
  /\ expected' = slot
  /\ try' = 1
  /\ seq' \in {"clear", "fail"}
  /\ UNCHANGED <<pending, online, timer, slot, left, ackBit, rx, failed, net,
                 hist>>

HandlerKeepsUp == PromptHandler /\ rx.step = "matched" => rx.slot = slot

(* Fault: a bit left from an earlier confirmation stays. *)
ClearBit_Skipped ==
  /\ seq = "clear"
  /\ HandlerKeepsUp
  /\ seq' = "publish"
  /\ UNCHANGED <<pending, online, timer, slot, try, left, expected, ackBit, rx,
                 failed, net, hist>>

ClearBit ==
  /\ seq = "clear"
  /\ HandlerKeepsUp
  /\ ackBit' = FALSE
  /\ seq' = "publish"
  /\ UNCHANGED <<pending, online, timer, slot, try, left, expected, rx, failed,
                 net, hist>>

(* Fault: the number of attempts is not counted. *)
Retry_Forever ==
  /\ try' = try
  /\ seq' = "clear"

(* Fault: a slot that nobody confirms is left out. *)
Retry_SkipsSlot ==
  /\ try' = IF try < MaxTries THEN try + 1 ELSE try
  /\ seq' = IF try < MaxTries THEN "clear" ELSE "pause"

(* Fault: one attempt too many. *)
Retry_OneMore ==
  /\ try' = IF try <= MaxTries THEN try + 1 ELSE try
  /\ seq' = IF try <= MaxTries THEN "clear" ELSE "fail"

Retry ==
  /\ try' = IF try < MaxTries THEN try + 1 ELSE try
  /\ seq' = IF try < MaxTries THEN "clear" ELSE "fail"

Publish ==
  /\ seq = "publish"
  /\ \/ /\ up' = up \cup {slot}
        /\ left' = AckTimeout
        /\ seq' = "wait"
        /\ UNCHANGED try
     \/ /\ Retry
        /\ UNCHANGED <<up, left>>
  /\ UNCHANGED <<pending, online, timer, slot, expected, ackBit, rx, failed,
                 down, stored, hist>>

(* Fault: the confirmation does not restart the shutdown timer. *)
Acked_TimerRunsOn ==
  /\ seq = "wait"
  /\ ackBit
  /\ ackBit' = FALSE
  /\ confirmed' = confirmed \cup {slot}
  /\ seq' = "pause"
  /\ UNCHANGED <<pending, online, timer, slot, try, left, expected, rx, failed,
                 net, asked>>

Acked ==
  /\ seq = "wait"
  /\ ackBit
  /\ ackBit' = FALSE
  /\ timer' = ShutdownAfter
  /\ confirmed' = confirmed \cup {slot}
  /\ seq' = "pause"
  /\ UNCHANGED <<pending, online, slot, try, left, expected, rx, failed, net,
                 asked>>

WaitTimesOut ==
  /\ seq = "wait"
  /\ ~ackBit /\ left = 0
  /\ Retry
  /\ UNCHANGED <<pending, online, timer, slot, left, expected, ackBit, rx,
                 failed, net, hist>>

(* 100 ms later the next slot is sent, or the sequence is complete.        *)
NextSlot ==
  /\ seq = "pause"
  /\ IF slot < LastSlot THEN slot' = slot + 1 /\ seq' = "expect"
                        ELSE slot' = slot /\ seq' = "done"
  /\ asked' = IF slot < LastSlot THEN asked ELSE FALSE
  /\ UNCHANGED <<pending, online, timer, try, left, expected, ackBit, rx,
                 failed, net, confirmed>>

(* The failure is reported; a full event queue drops the report.           *)
Fail ==
  /\ seq = "fail"
  /\ failed' \in {TRUE, FALSE}
  /\ seq' = "ended"
  /\ UNCHANGED <<pending, online, timer, slot, try, left, expected, ackBit, rx,
                 net, hist>>

-----------------------------------------------------------------------------
(* app_comms_process_mqtt_command, CMD 2 *)

(* The slot is compared with the one that is awaited. *)
Receive ==
  /\ online
  /\ rx.step = "idle"
  /\ \E a \in down :
       /\ rx' = [step |-> IF a = expected THEN "matched" ELSE "save",
                 slot |-> a]
       /\ down' \in {down, down \ {a}}
  /\ UNCHANGED <<pending, online, timer, task, failed, up, stored, hist>>

SetBit ==
  /\ rx.step = "matched"
  /\ ackBit' = TRUE
  /\ rx' = [rx EXCEPT !.step = "save"]
  /\ UNCHANGED <<pending, online, timer, seq, slot, try, left, expected, failed,
                 net, hist>>

(* The context notes that a transfer is active; the last slot clears the   *)
(* whole context, and 0 is POWER_OFF.                                      *)
SaveContext ==
  /\ rx.step = "save"
  /\ pending' = IF rx.slot < LastSlot THEN [pending EXCEPT !.raw = TRUE]
                ELSE [upload |-> TRUE, raw |-> FALSE]
  /\ rx' = Idle
  /\ UNCHANGED <<online, timer, task, failed, net, hist>>

-----------------------------------------------------------------------------
(* The platform and the network *)

(* The platform stores what it gets and confirms it. *)
Confirm ==
  /\ \E a \in up :
       /\ stored' = stored \cup {a}
       /\ down' = IF online THEN down \cup {a} ELSE down
       /\ up' \in {up, up \ {a}}
  /\ UNCHANGED <<pending, online, timer, task, rx, failed, hist>>

Lose ==
  /\ \/ \E a \in up : up' = up \ {a} /\ UNCHANGED down
     \/ \E a \in down : down' = down \ {a} /\ UNCHANGED up
  /\ UNCHANGED <<pending, online, timer, task, rx, failed, stored, hist>>

-----------------------------------------------------------------------------
(* Specification *)

Init ==
  /\ pending = [upload |-> FALSE, raw |-> FALSE]
  /\ online = FALSE
  /\ timer = 0
  /\ seq = "none" /\ slot = 0 /\ try = 1 /\ left = 0
  /\ expected = 0 /\ ackBit = FALSE
  /\ rx = Idle
  /\ failed = FALSE
  /\ up = {} /\ down = {} /\ stored = {}
  /\ confirmed = {} /\ asked = FALSE

Sequence == Expect \/ ClearBit \/ Publish \/ Acked \/ WaitTimesOut \/ NextSlot \/ Fail
Handler  == Receive \/ SetBit \/ SaveContext
Session  == AskUpload \/ Connect \/ ShutDown \/ Disconnect \/ Tick
Network  == Confirm \/ Lose

Next == Sequence \/ Handler \/ Session \/ Network

Spec == Init /\ [][Next]_vars

(* FreeRTOS schedules both tasks and counts time.  Of the user, of the     *)
(* platform, of the network and of the shutdown nothing is assumed.        *)
FairSpec ==
  /\ Spec
  /\ WF_vars(Sequence) /\ WF_vars(SetBit \/ SaveContext) /\ WF_vars(Tick)

-----------------------------------------------------------------------------
(* Properties *)

TypeOK ==
  /\ pending \in [upload : BOOLEAN, raw : BOOLEAN]
  /\ online \in BOOLEAN
  /\ timer \in 0 .. ShutdownAfter
  /\ seq \in Transferring \cup {"none", "done", "fail", "ended"}
  /\ slot \in Slots /\ expected \in Slots
  /\ try \in 1 .. MaxTries
  /\ left \in 0 .. AckTimeout
  /\ ackBit \in BOOLEAN /\ failed \in BOOLEAN /\ asked \in BOOLEAN
  /\ rx \in [step : {"idle", "matched", "save"}, slot : Slots]
  /\ up \subseteq Slots /\ down \subseteq Slots
  /\ stored \subseteq Slots /\ confirmed \subseteq Slots

(* A slot that the sequence task takes for confirmed is one the platform   *)
(* has, whichever confirmations were lost, late or duplicated.             *)
ConfirmedIsStored == confirmed \subseteq stored

(* The platform receives the slots as an ordered transfer promises it: no  *)
(* slot before an earlier one, late copies of an earlier upload included,  *)
(* and the sequence is complete only when the platform has them all.       *)
Transfer == INSTANCE OrderedTransfer
              WITH Last <- LastSlot, moved <- stored, complete <- (seq = "done")

ImplementsTransfer == Transfer!Spec

(* The shutdown timer does not run out while a slot is being sent, even    *)
(* when every attempt at it is needed.                                     *)
TimerOutlastsTransfer == seq \in Transferring => timer > 0

(* An upload ends by itself, confirmed or failed, when the power stays on. *)
UploadEnds == seq = "expect" ~> seq \notin Transferring

(* README, bits 1..4 of last_action: 0 is NONE.  The context is cleared to *)
(* 0 when an upload ends, and 0 starts another one at every connection.    *)
UploadsOnlyWhenAsked ==
  [][~online /\ online' /\ seq' = "expect" => asked]_vars

=============================================================================
