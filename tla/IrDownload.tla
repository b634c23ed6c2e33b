----------------------------- MODULE IrDownload -----------------------------
(***************************************************************************)
(* The download of IR codes from the platform.  The menu sets the context's *)
(* DOWNLOAD bit; at every connection that finds it set the device asks the  *)
(* platform to begin (CMD 9, 255).  The platform sends a slot (CMD 8), the  *)
(* FSM task stores it and confirms it (CMD 9), and the platform, which      *)
(* remembers nothing, answers that with the next slot.  The last slot       *)
(* clears the bit, before it is stored.  Messages are lost, duplicated and  *)
(* late; the FRAM fails; the power is cut.  The FSM task's other work, the  *)
(* plan at shutdown and CMD 2, saves contexts it has read before.           *)
(***************************************************************************)
EXTENDS Naturals

CONSTANTS
  LastSlot,   (* IR_SLOT_COUNT - 1: the slots are 0 .. LastSlot.             *)
  MaxTroubles (* Bound: how many things go wrong in a behaviour.             *)

ASSUME DownloadAssumption ==
  /\ LastSlot \in Nat
  /\ MaxTroubles \in Nat

Slots == 0 .. LastSlot

(* IR_EVT_DOWNLOAD_IR_RAW, an index that is no slot's. *)
Begin == LastSlot + 1

VARIABLES
  download, (* FRAM: the context's DOWNLOAD bit.                             *)
  stored,   (* FRAM: the slots that hold the platform's code.                *)
  on,       (* Whether the device is powered.                                *)
  session,  (* What the session does once it is connected.                   *)
  menu,     (* The menu task: closed, open, or open after the last slot was  *)
            (* learned, when the FSM task connects beside it.                *)
  fsm,      (* The FSM task's next step, the slot it handles, and the        *)
            (* DOWNLOAD bit of the context it will save.                     *)
  up, down, (* CMD 9 and CMD 8 under way.                                    *)
  told,     (* Whether the platform takes the download for complete.         *)
  troubles  (* What has gone wrong so far.                                   *)

fram   == <<download, stored>>
device == <<on, session, menu, fsm>>
net    == <<up, down, told>>
vars   == <<fram, device, net, troubles>>

Idle == [step |-> "idle", slot |-> 0, bit |-> FALSE]

Calm == UNCHANGED troubles

Trouble == troubles < MaxTroubles /\ troubles' = troubles + 1

Online == session # "none"

(* Whether the exchange goes on by itself. *)
Alive == up \cup down # {} \/ fsm.step # "idle"

-----------------------------------------------------------------------------
(* The menu task *)

(* DOWNLOAD and ENTER: the bit is saved, the connection requested, and the *)
(* menu task ends.                                                         *)
AskDownload ==
  /\ menu # "closed" /\ menu' = "closed"
  /\ download' = TRUE
  /\ UNCHANGED <<stored, on, session, fsm, net, troubles>>

(* The last slot is learned: an upload is requested instead. *)
AskUpload ==
  /\ menu # "closed" /\ menu' = "learned"
  /\ download' = FALSE
  /\ UNCHANGED <<stored, on, session, fsm, net, troubles>>

-----------------------------------------------------------------------------
(* The session *)

PowerOn ==
  /\ ~on /\ on' = TRUE
  /\ menu' \in {"open", "closed"}
  /\ UNCHANGED <<fram, session, fsm, net, troubles>>

(* MQTT_CONNECTED: the platform is asked to begin, or an upload is started *)
(* for the action POWER_OFF.  The context may be unreadable and CMD 9      *)
(* unsendable.                                                             *)
Connect ==
  /\ on /\ menu # "open"
  /\ ~Online
  /\ \/ download /\ session' = "download" /\ up' = up \cup {Begin} /\ Calm
     \/ ~download /\ session' \in {"upload", "idle"} /\ up' = up /\ Calm
     \/ session' = "idle" /\ up' = up /\ Trouble
  /\ UNCHANGED <<fram, on, menu, fsm, down, told>>

(* Whatever ends the session reads the context for the plan: the timer,    *)
(* which CMD 8 does not restart, or a lost connection.                     *)
StartShutdown ==
  /\ Online
  /\ fsm.step = "idle"
  /\ fsm' = [step |-> "plan", slot |-> 0, bit |-> download]
  /\ IF Alive THEN Trouble ELSE Calm
  /\ UNCHANGED <<fram, on, session, menu, net>>

(* Everything in RAM is lost, and the CMD 8 under way: the broker keeps no *)
(* session.                                                                *)
GoOff ==
  /\ on' = FALSE /\ session' = "none"
  /\ menu' = "closed"
  /\ fsm' = Idle
  /\ down' = {}
  /\ UNCHANGED <<stored, up, told>>

(* The planned context is saved, unless the clock could not be read.       *)
CutPower ==
  /\ fsm.step = "plan"
  /\ download' \in {download, fsm.bit}
  /\ Calm
  /\ GoOff

(* A reset or a dead battery. *)
Crash ==
  /\ on
  /\ Trouble
  /\ GoOff
  /\ UNCHANGED download

-----------------------------------------------------------------------------
(* app_comms_process_mqtt_command *)

(* CMD 2 reads the context, and for the last slot resets it ... *)
TakeConfirm ==
  /\ session = "upload"
  /\ fsm.step = "idle"
  /\ fsm' \in [step : {"context"}, slot : {0}, bit : {download, FALSE}]
  /\ UNCHANGED <<fram, on, session, menu, net, troubles>>

(* ... and saves it. *)
SaveContext ==
  /\ fsm.step = "context"
  /\ download' = fsm.bit
  /\ fsm' = Idle
  /\ UNCHANGED <<stored, on, session, menu, net, troubles>>

(* Fault: the bit is cleared by whichever slot. *)
Receive_ClearsEarly ==
  /\ Online
  /\ fsm.step = "idle"
  /\ \E s \in down :
       /\ fsm' = [step |-> "clear", slot |-> s, bit |-> FALSE]
       /\ \/ down' = down \ {s} /\ Calm
          \/ down' = down /\ Trouble
  /\ UNCHANGED <<fram, on, session, menu, up, told>>

(* CMD 8, which may be delivered twice. *)
Receive ==
  /\ Online
  /\ fsm.step = "idle"
  /\ \E s \in down :
       /\ fsm' = [step |-> IF s = LastSlot THEN "clear" ELSE "save",
                  slot |-> s, bit |-> FALSE]
       /\ \/ down' = down \ {s} /\ Calm
          \/ down' = down /\ Trouble
  /\ UNCHANGED <<fram, on, session, menu, up, told>>

(* Fault: the last slot leaves the bit alone. *)
ClearBit_Forgotten ==
  /\ fsm.step = "clear"
  /\ Calm
  /\ fsm' = [fsm EXCEPT !.step = "save"]
  /\ UNCHANGED <<fram, on, session, menu, net>>

(* The bit goes before the slot is stored; an error is not noticed.        *)
ClearBit ==
  /\ fsm.step = "clear"
  /\ \/ download' = FALSE /\ Calm
     \/ download' = download /\ Trouble
  /\ fsm' = [fsm EXCEPT !.step = "save"]
  /\ UNCHANGED <<stored, on, session, menu, net>>

(* Fault: the slot is confirmed although it could not be stored. *)
SaveSlot_ErrorIgnored ==
  /\ fsm.step = "save"
  /\ \/ stored' = stored \cup {fsm.slot} /\ Calm
     \/ stored' = stored /\ Trouble
  /\ fsm' = [fsm EXCEPT !.step = "confirm"]
  /\ UNCHANGED <<download, on, session, menu, net>>

(* A slot that cannot be stored is not confirmed, and the platform waits.  *)
SaveSlot ==
  /\ fsm.step = "save"
  /\ \/ /\ stored' = stored \cup {fsm.slot}
        /\ fsm' = [fsm EXCEPT !.step = "confirm"]
        /\ Calm
     \/ /\ stored' = stored
        /\ fsm' = Idle
        /\ Trouble
  /\ UNCHANGED <<download, on, session, menu, net>>

(* Fault: the slots are counted from 1. *)
ConfirmSlot_FromOne ==
  /\ fsm.step = "confirm"
  /\ \/ up' = up \cup {fsm.slot + 1} /\ Calm
     \/ up' = up /\ Trouble
  /\ fsm' = Idle
  /\ UNCHANGED <<fram, on, session, menu, down, told>>

ConfirmSlot ==
  /\ fsm.step = "confirm"
  /\ \/ up' = up \cup {fsm.slot} /\ Calm
     \/ up' = up /\ Trouble
  /\ fsm' = Idle
  /\ UNCHANGED <<fram, on, session, menu, down, told>>

-----------------------------------------------------------------------------
(* The platform (test_script/test_all.py) and the network *)

(* Fault: 255 is no special case. *)
Following_Always(a) == a + 1

Following(a) == IF a = Begin THEN 0 ELSE a + 1

(* TRIGGER_MAP: the answer depends on the confirmation alone, which may be *)
(* as late as the next session, or be delivered twice.  While the device   *)
(* is away the answer is lost.                                             *)
Answer ==
  /\ \E a \in up :
       /\ told' = (told \/ a = LastSlot)
       /\ down' = IF Online /\ a # LastSlot THEN down \cup {Following(a)}
                                            ELSE down
       /\ \/ up' = up \ {a} /\ Calm
          \/ up' = up /\ Trouble
  /\ UNCHANGED <<fram, device>>

(* The platform begins by itself: for the DOWNLOAD bit in a telemetry      *)
(* record, or because its operator wants to.                               *)
BeginUnasked ==
  /\ Online
  /\ down' = down \cup {0}
  /\ Trouble
  /\ UNCHANGED <<fram, device, up, told>>

(* A CMD 8 that cannot be decoded is as good as lost. *)
Lose ==
  /\ \/ \E a \in up : up' = up \ {a} /\ UNCHANGED down
     \/ \E a \in down : down' = down \ {a} /\ UNCHANGED up
  /\ Trouble
  /\ UNCHANGED <<fram, device, told>>

-----------------------------------------------------------------------------
(* Specification *)

Init ==
  /\ download = FALSE /\ stored = {}
  /\ on = FALSE /\ session = "none"
  /\ menu = "closed"
  /\ fsm = Idle
  /\ up = {} /\ down = {} /\ told = FALSE
  /\ troubles = 0

Handler == ClearBit \/ SaveSlot \/ ConfirmSlot \/ SaveContext \/ CutPower

Next ==
  \/ AskDownload \/ AskUpload
  \/ PowerOn \/ Connect \/ StartShutdown \/ Crash
  \/ TakeConfirm \/ Receive \/ Handler
  \/ Answer \/ BeginUnasked \/ Lose

Spec == Init /\ [][Next]_vars

(* The RTC wakes the device (PowerCycle), a session connects and ends      *)
(* (AwakeSession), FreeRTOS schedules the FSM task and its queue is fair,  *)
(* and the platform answers.  Of the user nothing is assumed.              *)
FairSpec ==
  /\ Spec
  /\ WF_vars(PowerOn) /\ SF_vars(Connect) /\ SF_vars(~Alive /\ StartShutdown)
  /\ WF_vars(Handler) /\ SF_vars(Receive) /\ WF_vars(Answer)

-----------------------------------------------------------------------------
(* Properties *)

TypeOK ==
  /\ download \in BOOLEAN /\ stored \subseteq Slots
  /\ on \in BOOLEAN /\ session \in {"none", "idle", "download", "upload"}
  /\ menu \in {"closed", "open", "learned"}
  /\ fsm \in [step : {"idle", "plan", "context", "clear", "save", "confirm"},
              slot : Slots, bit : BOOLEAN]
  /\ up \subseteq Slots \cup {Begin} /\ down \subseteq Slots
  /\ told \in BOOLEAN
  /\ troubles \in 0 .. MaxTroubles

Before(s) == {t \in Slots : t < s}

(* What a slot under way, being handled or confirmed says of the others:   *)
(* all before it are stored.  Two exchanges may run at once, of two        *)
(* sessions or begun by both ends.                                         *)
ChainIsStored ==
  /\ \A s \in down : Before(s) \subseteq stored
  /\ \A a \in up \ {Begin} : Before(a + 1) \subseteq stored
  /\ fsm.step \in {"clear", "save", "confirm"} => Before(fsm.slot) \subseteq stored
  /\ fsm.step \in {"clear"} => fsm.slot = LastSlot
  /\ fsm.step = "confirm" => fsm.slot \in stored
  /\ told => Slots \subseteq stored

(* The download keeps the promise of an ordered transfer: no gaps, and the *)
(* platform takes it for complete only if every slot is stored.            *)
Transfer == INSTANCE OrderedTransfer
              WITH Last <- LastSlot, moved <- stored, complete <- told

ImplementsTransfer == Transfer!Spec

(* CMD 8 clears the bit before it stores: a cut or an error may then lose  *)
(* the last slot of the download, but no other.                            *)
ClearedAtTheEnd ==
  [][ClearBit => \A s \in Slots : s # LastSlot => s \in stored]_vars

(* A request is not repeated for ever: the bit is cleared in the end, by   *)
(* the session that gets through, unless the user is in the menu.          *)
DownloadEnds == []<>(~download \/ menu # "closed")
=============================================================================
