------------------------------ MODULE LearnMenu ------------------------------
(***************************************************************************)
(* The local menu: two buttons, polled by the menu task, and an infrared   *)
(* receiver that keeps the first signal it hears until it is read.  The    *)
(* menu task learns one command after the other into the slots of the      *)
(* FRAM.  After the last one it has the FSM task connect and goes on; from *)
(* then on both tasks write to the FRAM, and each write is two SPI         *)
(* transactions: write enable, and the write, which ends the enabling.     *)
(*                                                                         *)
(* A signal is named by what the screen showed when it was heard: a slot,  *)
(* the exit prompt, or neither.                                            *)
(***************************************************************************)
EXTENDS Naturals

CONSTANTS
  LastSlot, (* TOTAL_COMMANDS - 1: the slots are 0 .. LastSlot.              *)
  Nothing,  (* An empty slot or receiver, no captured signal.                *)
  Disabled, (* The dummy command of a slot that is not used.                 *)
  AtPrompt, (* A signal heard on the exit prompt, ...                        *)
  Foreign,  (* ... and one heard on another screen that shows no slot.       *)
  Remote,   (* A command of the server (CMD 8).                              *)
  Context,  (* The wakeup context, the other record that is written.         *)
  MaxBoots, (* Bound: how often the device is turned on ...                  *)
  MaxSaves  (* ... and how often the FSM task writes.                        *)

Slots == 0 .. LastSlot

ASSUME MenuAssumption ==
  /\ LastSlot \in Nat /\ LastSlot >= 4
  /\ \A special \in {Nothing, Disabled, AtPrompt, Foreign, Remote, Context} :
       special \notin Slots
  /\ Nothing \notin {Disabled, AtPrompt, Foreign, Remote}
  /\ Disabled \notin {AtPrompt, Foreign, Remote}
  /\ MaxBoots \in Nat /\ MaxSaves \in Nat

(* IR_ACTION_SET_TEMP_16 .. IR_ACTION_SET_TEMP_18 *)
Temp16 == 2
Temp17 == 3
Temp18 == 4

VARIABLES
  on,       (* Whether the device is powered ...                             *)
  task,     (* ... and the menu task lives.                                  *)
  menu,     (* s_current_menu                                                *)
  minTemp,  (* s_min_temp_option: the lowest temperature is 16 + minTemp.    *)
  index,    (* s_cmd_index                                                   *)
  prompt,   (* s_in_exit_prompt                                              *)
  captured, (* s_captured_cmd, if s_ir_captured.                             *)
  receiver, (* The signal the receiver keeps.                                *)
  job,      (* What the menu task is saving, the records left to save, and   *)
            (* whether it has enabled the write of one of them.              *)
  session,  (* Whether the FSM task has been told to connect.                *)
  fsmWrite, (* Whether the FSM task has enabled a write.                     *)
  wel,      (* FRAM: the write enable latch ...                              *)
  slots,    (* ... and the slots.                                            *)
  boots, saves, (* How often either has happened.                            *)
  lost      (* History: the records whose last write had no effect.          *)

screen == <<menu, minTemp, index, prompt>>
ir     == <<captured, receiver>>
fram   == <<wel, slots, lost>>
others == <<on, session, fsmWrite, boots, saves>>
vars   == <<task, screen, ir, job, fram, others>>

NoJob == [kind |-> "none", left |-> {}, enabled |-> FALSE]

Job(kind, records) == [kind |-> kind, left |-> records, enabled |-> FALSE]

Polling == on /\ task = "alive" /\ job = NoJob

(* The slots below the lowest temperature. *)
Unused(t) == {s \in {Temp16, Temp17} : s < Temp16 + t}

(* Fault: 17 degrees is not skipped. *)
NextIndex_Skips16(i, t) ==
  IF t > 0 /\ i + 1 = Temp16 THEN Temp17 ELSE i + 1

(* The slot learned after slot i.  Past the last one there is none. *)
NextIndex(i, t) ==
  CASE t = 1 /\ i + 1 = Temp16             -> Temp17
    [] t = 2 /\ i + 1 \in {Temp16, Temp17} -> Temp18
    [] OTHER                               -> i + 1

-----------------------------------------------------------------------------
(* The receiver *)

Hear ==
  /\ on
  /\ receiver = Nothing
  /\ receiver' = CASE menu # "learn" -> Foreign
                   [] menu = "learn" /\ prompt -> AtPrompt
                   [] menu = "learn" /\ ~prompt -> index
  /\ UNCHANGED <<task, screen, captured, job, fram, others>>

(* A signal of more pulses than a slot holds is dropped. *)
Capture ==
  /\ Polling
  /\ menu = "learn" /\ ~prompt
  /\ captured = Nothing /\ receiver # Nothing
  /\ captured' \in {receiver, Nothing}
  /\ receiver' = Nothing
  /\ UNCHANGED <<task, screen, job, fram, others>>

-----------------------------------------------------------------------------
(* SELECT and ENTER *)

(* SELECT moves a mark over the entries of a screen, round and round, and  *)
(* ENTER takes the entry that is marked: any of them.                      *)
EnterMain ==
  /\ Polling
  /\ menu = "main"
  /\ \/ menu' = "min temp" /\ UNCHANGED <<index, prompt, captured>>
     \/ menu' = "test" /\ index' = 0 /\ prompt' = FALSE /\ captured' = Nothing
     \/ menu' = "download" /\ UNCHANGED <<index, prompt, captured>>
  /\ UNCHANGED <<task, minTemp, receiver, job, fram, others>>

(* The unused slots are saved as disabled, before the first is learned.    *)
EnterMinTemp ==
  /\ Polling
  /\ menu = "min temp"
  /\ minTemp' \in 0 .. 2
  /\ job' = Job("disable", Unused(minTemp'))
  /\ UNCHANGED <<task, menu, index, prompt, ir, fram, others>>

(* "Sair" goes back to the main menu, "continuar" to the first slot.  The  *)
(* receiver keeps what it has heard.                                       *)
EnterPrompt ==
  /\ Polling
  /\ menu = "learn" /\ prompt
  /\ prompt' = FALSE
  /\ \/ menu' = "main" /\ UNCHANGED <<index, captured>>
     \/ index' = 0 /\ captured' = Nothing /\ UNCHANGED menu
  /\ UNCHANGED <<task, minTemp, receiver, job, fram, others>>

SelectSave ==
  /\ Polling
  /\ menu = "learn" /\ ~prompt
  /\ captured # Nothing
  /\ job' = Job("learn", {index})
  /\ UNCHANGED <<task, screen, ir, fram, others>>

EnterDiscard ==
  /\ Polling
  /\ menu = "learn" /\ ~prompt
  /\ captured # Nothing
  /\ captured' = Nothing
  /\ UNCHANGED <<task, screen, receiver, job, fram, others>>

(* SELECT moves through the slots.  A command that is sent restarts the    *)
(* receiver; an empty or a disabled slot is not sent.                      *)
EnterTest ==
  /\ Polling
  /\ menu = "test"
  /\ \E s \in Slots : slots[s] \notin {Nothing, Disabled}
  /\ receiver' = Nothing
  /\ UNCHANGED <<task, screen, captured, job, fram, others>>

EnterDownload ==
  /\ Polling
  /\ menu = "download"
  /\ job' = Job("download", {Context})
  /\ UNCHANGED <<task, screen, ir, fram, others>>

(* Both buttons for two seconds, on any screen. *)
HoldBoth ==
  /\ Polling
  /\ job' = Job("hold", {Context})
  /\ UNCHANGED <<task, screen, ir, fram, others>>

-----------------------------------------------------------------------------
(* fram_write *)

(* Fault: the latch is set for the first of the records only. *)
Enable_Once ==
  /\ on
  /\ job.left # {} /\ ~job.enabled
  /\ wel' = (job.kind # "disable" \/ Temp16 \in job.left)
  /\ job' = [job EXCEPT !.enabled = TRUE]
  /\ UNCHANGED <<task, screen, ir, slots, lost, others>>

Enable ==
  /\ on
  /\ job.left # {} /\ ~job.enabled
  /\ wel' = TRUE
  /\ job' = [job EXCEPT !.enabled = TRUE]
  /\ UNCHANGED <<task, screen, ir, slots, lost, others>>

(* A write that is not enabled has no effect and reports no error. *)
Write ==
  /\ on
  /\ job.enabled
  /\ wel' = FALSE
  /\ \E r \in job.left :
       /\ r = Temp17 => Temp16 \notin job.left
       /\ slots' = IF wel /\ r # Context
                     THEN [slots EXCEPT ![r] = IF job.kind = "learn" THEN captured
                                                                     ELSE Disabled]
                     ELSE slots
       /\ lost' = IF wel THEN lost \ {r} ELSE lost \cup {r}
       /\ job' = [job EXCEPT !.left = @ \ {r}, !.enabled = FALSE]
  /\ UNCHANGED <<task, screen, ir, others>>

(* The FSM task's: contexts, schedules, its log, or a slot, of CMD 8. *)
FsmEnable ==
  /\ on /\ session
  /\ ~fsmWrite /\ fsmWrite' = TRUE
  /\ saves < MaxSaves /\ saves' = saves + 1
  /\ wel' = TRUE
  /\ UNCHANGED <<task, screen, ir, job, slots, lost, on, session, boots>>

FsmSave ==
  /\ fsmWrite /\ fsmWrite' = FALSE
  /\ wel' = FALSE
  /\ \/ UNCHANGED slots
     \/ wel /\ \E s \in Slots : slots' = [slots EXCEPT ![s] = Remote]
  /\ UNCHANGED <<task, screen, ir, job, lost, on, session, boots, saves>>

-----------------------------------------------------------------------------
(* What follows a save *)

Saved(kind) == on /\ job.kind = kind /\ job.left = {} /\ job' = NoJob

(* Fault: the receiver keeps what it heard on the screens before. *)
StartLearning_KeepsSignal ==
  /\ Saved("disable")
  /\ menu' = "learn" /\ index' = 0 /\ prompt' = FALSE
  /\ captured' = Nothing /\ UNCHANGED receiver
  /\ UNCHANGED <<task, minTemp, fram, others>>

StartLearning ==
  /\ Saved("disable")
  /\ menu' = "learn" /\ index' = 0 /\ prompt' = FALSE
  /\ captured' = Nothing /\ receiver' = Nothing
  /\ UNCHANGED <<task, minTemp, fram, others>>

(* Fault: one slot too many. *)
Advance_PastTheEnd ==
  /\ on
  /\ job.kind = "learn" /\ job.left = {}
  /\ captured' = Nothing
  /\ IF index <= LastSlot
       THEN index' = NextIndex(index, minTemp) /\ job' = NoJob
       ELSE index' = index /\ job' = Job("finish", {Context})
  /\ UNCHANGED <<task, menu, minTemp, prompt, receiver, fram, others>>

Advance ==
  /\ on
  /\ job.kind = "learn" /\ job.left = {}
  /\ captured' = Nothing
  /\ IF NextIndex(index, minTemp) <= LastSlot
       THEN index' = NextIndex(index, minTemp) /\ job' = NoJob
       ELSE index' = index /\ job' = Job("finish", {Context})
  /\ UNCHANGED <<task, menu, minTemp, prompt, receiver, fram, others>>

(* A context that cannot be read is not saved, and nothing is posted.      *)
ContextUnreadable ==
  /\ on
  /\ job.left = {Context} /\ ~job.enabled
  /\ job' = [job EXCEPT !.left = {}, !.kind = IF @ = "finish" THEN "prompt" ELSE "end"]
  /\ UNCHANGED <<task, screen, ir, fram, others>>

(* EXIT_MENU_TRIGGER_TELEMETRY is posted, whether or not the save worked.  *)
Post ==
  /\ on
  /\ job.kind \in {"finish", "hold", "download"} /\ job.left = {}
  /\ session' = TRUE
  /\ job' = [job EXCEPT !.kind = IF @ = "finish" THEN "prompt" ELSE "end"]
  /\ UNCHANGED <<task, screen, ir, fram, on, fsmWrite, boots, saves>>

AskToLeave ==
  /\ Saved("prompt")
  /\ prompt' = TRUE
  /\ UNCHANGED <<task, menu, minTemp, index, ir, fram, others>>

EndTask ==
  /\ Saved("end")
  /\ task' = "ended"
  /\ UNCHANGED <<screen, ir, fram, others>>

-----------------------------------------------------------------------------
(* Power *)

Fresh ==
  /\ task' = "alive"
  /\ menu' = "main" /\ minTemp' = 0
  /\ index' = 0 /\ prompt' = FALSE
  /\ captured' = Nothing /\ receiver' = Nothing
  /\ job' = NoJob
  /\ session' = FALSE /\ fsmWrite' = FALSE /\ wel' = FALSE

(* The FSM task's shutdown, at whatever step the menu task is, or a crash. *)
PowerOff ==
  /\ on /\ on' = FALSE
  /\ Fresh
  /\ UNCHANGED <<slots, lost, boots, saves>>

PowerOn ==
  /\ ~on /\ on' = TRUE
  /\ boots < MaxBoots /\ boots' = boots + 1
  /\ UNCHANGED <<task, screen, ir, job, fram, session, fsmWrite, saves>>

-----------------------------------------------------------------------------
(* Specification *)

Init ==
  /\ on = FALSE /\ task = "alive"
  /\ menu = "main" /\ minTemp = 0
  /\ index = 0 /\ prompt = FALSE
  /\ captured = Nothing /\ receiver = Nothing
  /\ job = NoJob
  /\ session = FALSE /\ fsmWrite = FALSE /\ wel = FALSE
  /\ slots = [s \in Slots |-> Nothing] /\ lost = {}
  /\ boots = 0 /\ saves = 0

Buttons == EnterMain \/ EnterMinTemp \/ EnterPrompt \/ SelectSave \/ EnterDiscard
           \/ EnterTest \/ EnterDownload \/ HoldBoth
Working == Enable \/ Write \/ StartLearning \/ Advance \/ ContextUnreadable
           \/ Post \/ AskToLeave \/ EndTask

Next == \/ Hear \/ Capture \/ Buttons \/ Working
        \/ FsmEnable \/ FsmSave
        \/ PowerOff \/ PowerOn

Spec == Init /\ [][Next]_vars

-----------------------------------------------------------------------------
(* Properties *)

Signals == Slots \cup {AtPrompt, Foreign}

Commands == Signals \cup {Remote}

TypeOK ==
  /\ on \in BOOLEAN /\ task \in {"alive", "ended"}
  /\ menu \in {"main", "min temp", "learn", "test", "download"}
  /\ minTemp \in 0 .. 2
  /\ index \in Slots
  /\ prompt \in BOOLEAN
  /\ captured \in Signals \cup {Nothing} /\ receiver \in Signals \cup {Nothing}
  /\ job \in [kind : {"none", "disable", "learn", "finish", "hold", "download",
                      "prompt", "end"},
              left : SUBSET (Slots \cup {Context}), enabled : BOOLEAN]
  /\ session \in BOOLEAN /\ fsmWrite \in BOOLEAN /\ wel \in BOOLEAN
  /\ slots \in [Slots -> Commands \cup {Nothing, Disabled}]
  /\ lost \subseteq Slots \cup {Context}
  /\ boots \in 0 .. MaxBoots /\ saves \in 0 .. MaxSaves

(* What learning has done when it shows slot i: the unused slots are       *)
(* disabled and those before i hold a command, whatever the order of the   *)
(* screens, unless a write was lost; a command of the server may come over *)
(* either.                                                                 *)
LearnedUpTo(i) ==
  \A s \in Slots \ lost :
    /\ s \in Unused(minTemp) => slots[s] \in {Disabled, Remote}
    /\ s < i /\ s \notin Unused(minTemp) => slots[s] \in Commands

(* The exit prompt is shown only when every slot has its command.          *)
PromptMeansComplete ==
  menu = "learn" => /\ index \notin Unused(minTemp)
                    /\ LearnedUpTo(IF prompt THEN LastSlot + 1 ELSE index)

(* What learning shows right before slot i: a slot, and before the first   *)
(* also the exit prompt, which follows the last.                           *)
ShownBefore(i) ==
  {p \in Slots : \E t \in 0 .. 2 : NextIndex(p, t) = i}
    \cup (IF i = 0 THEN {LastSlot, AtPrompt} ELSE {})

(* What learning writes into a slot was heard on its screen or on the one  *)
(* right before: the receiver goes on listening while a signal waits for   *)
(* the user's decision and on the exit prompt, and the next slot gets what *)
(* it heard by then.  Nothing older, and nothing of another screen, ever   *)
(* comes into a slot.                                                      *)
RightCommand ==
  \A s \in Slots : slots[s] \in {Nothing, Disabled, Remote, s} \cup ShownBefore(s)

(* A record is lost only while the FSM task works beside the menu: alone,  *)
(* the menu's every write is enabled when it comes.  (Errors of the bus    *)
(* are another matter: the menu does not look at them.)                    *)
AloneNothingIsLost == [][~session => lost' \subseteq lost]_vars
=============================================================================
