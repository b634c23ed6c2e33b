---------------------------- MODULE AwakeSession ----------------------------
(***************************************************************************)
(* One session of the device, from power on to power off: the main event   *)
(* queue, the FSM task that handles its events one after the other, and    *)
(* the tasks, callbacks and drivers that post to it without waiting: WiFi, *)
(* MQTT, the shutdown timer, the upload and the local menu.  The FSM task  *)
(* and the menu task both read, change and write back the wakeup context.  *)
(***************************************************************************)
EXTENDS Naturals, Sequences, SequencesExt

CONSTANTS
  QueueCap,   (* APP_MAIN_EVT_QUEUE                                          *)
  MaxUploads, (* How many upload tasks fit into the heap.                    *)
  Overflows,  (* Whether an event may be posted to a full queue.             *)
  FramFails   (* Whether the context may be unreadable.                      *)

ASSUME SessionAssumption ==
  /\ QueueCap \in Nat \ {0}
  /\ MaxUploads \in Nat \ {0}
  /\ Overflows \in BOOLEAN
  /\ FramFails \in BOOLEAN

(* The commands that change the context: CMD 2 for a slot and for the last *)
(* one, CMD 8 for the last slot.                                           *)
Commands == {"confirm", "confirm last", "store last"}

(* The events whose handlers shut the device down. *)
Endings == {"wifi exhausted", "mqtt down", "upload failed", "shutdown"}

Events == {"boot", "boot menu", "exit menu", "wifi up", "mqtt up"}
            \cup Commands \cup Endings

VARIABLES
  context,  (* FRAM: the context's DOWNLOAD bit, and whether its action is   *)
            (* POWER_OFF, which asks for an upload.                          *)
  on,       (* Whether the device is powered.                                *)
  queue,    (* g_app_event_queue                                             *)
  fsm,      (* The FSM task's next step, and the context it will save.       *)
  menu,     (* The menu task's, likewise.                                    *)
  timer,    (* Whether the shutdown timer runs.                              *)
  uploads,  (* The number of upload tasks.                                   *)
  wifi,     (* The state of the WiFi station ...                             *)
  mqtt,     (* ... and of the MQTT client.                                   *)
  report,   (* History: whether a reading of this session has been published *)
            (* or stored, or none has though that was attempted.             *)
  wanted    (* History: the user's request for a download has been saved,    *)
            (* and the platform has not been told.                           *)

link == <<wifi, mqtt>>
hist == <<report, wanted>>
vars == <<context, on, queue, fsm, menu, timer, uploads, link, hist>>

Contexts == [download : BOOLEAN, upload : BOOLEAN]

Task(step, c) == [step |-> step, context |-> c]
Idle          == Task("idle", [download |-> FALSE, upload |-> FALSE])

(* xQueueSend without a timeout: a full queue drops the event. *)
Room    == on /\ (Overflows \/ Len(queue) < QueueCap)

(* Fault: the queue is checked for one event too many. *)
Post_OffByOne(e) == on /\ Len(queue) <= QueueCap /\ queue' = Append(queue, e)

Post(e) == /\ Room
           /\ queue' = IF Len(queue) < QueueCap THEN Append(queue, e) ELSE queue

-----------------------------------------------------------------------------
(* WiFi and MQTT *)

(* What WifiFailover implements. *)
Station == INSTANCE WifiStation WITH station <- wifi

(* esp_wifi_start: a station that has been started is not started again.   *)
StartFailover == Station!Start \/ (wifi # "idle" /\ UNCHANGED wifi)

WifiUp ==
  /\ Station!Connected
  /\ Post("wifi up")
  /\ UNCHANGED <<context, on, fsm, menu, timer, uploads, mqtt, hist>>

(* Also for a lost connection, if it was the last network's last attempt.  *)
WifiExhausted ==
  /\ Station!Exhausted
  /\ Post("wifi exhausted")
  /\ UNCHANGED <<context, on, fsm, menu, timer, uploads, mqtt, hist>>

(* Nothing is posted: the handler connects again. *)
WifiLost ==
  /\ Station!Lost
  /\ UNCHANGED <<context, on, queue, fsm, menu, timer, uploads, mqtt, hist>>

MqttUp ==
  /\ wifi = "up"
  /\ mqtt = "trying" /\ mqtt' = "up"
  /\ Post("mqtt up")
  /\ UNCHANGED <<context, on, fsm, menu, timer, uploads, wifi, hist>>

(* A connection is lost or refused; the client tries again. *)
MqttDown ==
  /\ mqtt \in {"trying", "up"} /\ mqtt' = "trying"
  /\ Post("mqtt down")
  /\ UNCHANGED <<context, on, fsm, menu, timer, uploads, wifi, hist>>

Command ==
  /\ mqtt = "up"
  /\ \E c \in Commands : Post(c)
  /\ UNCHANGED <<context, on, fsm, menu, timer, uploads, link, hist>>

-----------------------------------------------------------------------------
(* The shutdown timer and the upload task *)

TimerFires ==
  /\ timer /\ timer' = FALSE
  /\ Post("shutdown")
  /\ UNCHANGED <<context, on, fsm, menu, uploads, link, hist>>

(* Fault: the timer is stopped and not started again. *)
SlotConfirmed_Stops ==
  /\ uploads > 0
  /\ timer' = FALSE
  /\ UNCHANGED <<context, on, queue, fsm, menu, uploads, link, hist>>

(* app_main_refresh_shutdown_timer starts a timer that does not run, too.  *)
SlotConfirmed ==
  /\ uploads > 0
  /\ timer' = TRUE
  /\ UNCHANGED <<context, on, queue, fsm, menu, uploads, link, hist>>

UploadDone ==
  /\ uploads > 0 /\ uploads' = uploads - 1
  /\ UNCHANGED <<context, on, queue, fsm, menu, timer, link, hist>>

UploadFails ==
  /\ uploads > 0 /\ uploads' = uploads - 1
  /\ Post("upload failed")
  /\ UNCHANGED <<context, on, fsm, menu, timer, link, hist>>

-----------------------------------------------------------------------------
(* The menu task *)

(* handle_exit_with_bitmap reads the context ... *)
ReadForExit ==
  /\ menu.step = "open"
  /\ menu' \in {Task("download", [download |-> TRUE, upload |-> FALSE]),
                Task("learned", [download |-> FALSE, upload |-> TRUE]),
                Task("held", [download |-> FALSE, upload |-> TRUE])}
  /\ UNCHANGED <<context, on, queue, fsm, timer, uploads, link, hist>>

(* ... or cannot read it: nothing is posted, and the menu task ends all    *)
(* the same ...                                                            *)
ReadFails ==
  /\ menu.step = "open"
  /\ menu' = Idle
  /\ UNCHANGED <<context, on, queue, fsm, timer, uploads, link, hist>>

(* ... and writes it, posting the exit even if that fails; after the last  *)
(* slot is learned the menu goes on.                                       *)
Exit ==
  /\ menu.step \in {"download", "learned", "held"}
  /\ \/ context' = menu.context /\ wanted' = (menu.step = "download")
     \/ UNCHANGED <<context, wanted>>
  /\ menu' = IF menu.step = "learned" THEN Task("open", Idle.context) ELSE Idle
  /\ Post("exit menu")
  /\ UNCHANGED <<on, fsm, timer, uploads, link, report>>

-----------------------------------------------------------------------------
(* app_fsm_task *)

Take(e) ==
  /\ fsm.step = "idle"
  /\ queue # <<>>
  /\ Head(queue) = e
  /\ queue' = Tail(queue)

BootMenu ==
  /\ Take("boot menu")
  /\ menu' = Task("open", Idle.context)
  /\ UNCHANGED <<context, on, fsm, timer, uploads, link, hist>>

(* The scheduled action, if any, is sent before. *)
Connect ==
  /\ Take("boot") \/ Take("exit menu")
  /\ StartFailover
  /\ UNCHANGED <<context, on, fsm, menu, timer, uploads, mqtt, hist>>

WifiConnected ==
  /\ Take("wifi up")
  /\ mqtt' = IF mqtt = "stopped" THEN "trying" ELSE mqtt
  /\ UNCHANGED <<context, on, fsm, menu, timer, uploads, wifi, hist>>

(* A reading is taken, and published or stored.  Whether it could be       *)
(* encoded and whether the log took it is not looked at.                   *)
Report == report' = "done" \/ (report # "done" /\ report' = "failed")

(* The platform is asked for a download, or an upload is started.          *)
StartTransfer ==
  /\ wanted' = IF context.download THEN FALSE ELSE wanted
  /\ uploads' = IF ~context.download /\ context.upload /\ uploads < MaxUploads
                  THEN uploads + 1 ELSE uploads

(* Fault: the timer is started for a transfer only. *)
MqttConnected_NoTimer ==
  /\ Take("mqtt up")
  /\ Report
  /\ StartTransfer
  /\ timer' = (timer \/ context.download \/ context.upload)
  /\ UNCHANGED <<context, on, fsm, menu, link>>

MqttConnected ==
  /\ Take("mqtt up")
  /\ Report
  /\ \/ StartTransfer /\ timer' = TRUE
     \/ FramFails /\ UNCHANGED <<uploads, wanted, timer>>
  /\ UNCHANGED <<context, on, fsm, menu, link>>

(* app_comms_process_mqtt_command reads the context ... *)
TakeCommand ==
  /\ \/ /\ Take("confirm")
        /\ fsm' = Task("save", context)
     \/ /\ Take("confirm last")
        /\ fsm' = Task("save", [download |-> FALSE, upload |-> TRUE])
     \/ /\ Take("store last")
        /\ fsm' = Task("save", [download |-> FALSE, upload |-> FALSE])
  /\ UNCHANGED <<context, on, menu, timer, uploads, link, hist>>

(* ... and writes it. *)
SaveContext ==
  /\ fsm.step = "save"
  /\ context' = fsm.context
  /\ fsm' = Idle
  /\ UNCHANGED <<on, queue, menu, timer, uploads, link, hist>>

(* Fault: the device stays on, for the client to connect again. *)
LastReading_StaysOn ==
  /\ Take("wifi exhausted") \/ Take("mqtt down")
  /\ Report
  /\ UNCHANGED <<context, on, fsm, menu, timer, uploads, link, wanted>>

(* Fault: the reading is not stored. *)
LastReading_NotStored ==
  /\ Take("wifi exhausted") \/ Take("mqtt down")
  /\ fsm' = Task("plan", context)
  /\ UNCHANGED <<context, on, menu, timer, uploads, link, hist>>

(* Offline: the reading goes to the log, and the device is shut down.      *)
LastReading ==
  /\ Take("wifi exhausted") \/ Take("mqtt down")
  /\ Report
  /\ fsm' = Task("plan", context)
  /\ UNCHANGED <<context, on, menu, timer, uploads, link, wanted>>

ShutDown ==
  /\ Take("upload failed") \/ Take("shutdown")
  /\ fsm' = Task("plan", context)
  /\ UNCHANGED <<context, on, menu, timer, uploads, link, hist>>

(* RAM, tasks and drivers at power on. *)
Fresh ==
  /\ fsm' = Idle /\ menu' = Idle
  /\ timer' = FALSE /\ uploads' = 0
  /\ wifi' = "idle" /\ mqtt' = "stopped"
  /\ report' = "none"

(* app_power_shutdown: an alarm puts its action into the context, a timer  *)
(* leaves the action alone, an RTC that cannot be read leaves everything;  *)
(* the power goes.                                                         *)
CutPower ==
  /\ fsm.step = "plan"
  /\ context' \in {context} \cup {[fsm.context EXCEPT !.upload = u] :
                                    u \in BOOLEAN}
  /\ on' = FALSE
  /\ queue' = <<>>
  /\ Fresh
  /\ UNCHANGED wanted

(* A reset or a dead battery. *)
Crash ==
  /\ on /\ on' = FALSE
  /\ queue' = <<>>
  /\ Fresh
  /\ UNCHANGED <<context, wanted>>

PowerOn ==
  /\ ~on /\ on' = TRUE
  /\ queue' \in {<<"boot">>, <<"boot menu">>}
  /\ UNCHANGED <<context, fsm, menu, timer, uploads, link, hist>>

-----------------------------------------------------------------------------
(* Specification *)

Init ==
  /\ context = [download |-> FALSE, upload |-> FALSE]
  /\ on = FALSE
  /\ queue = <<>>
  /\ fsm = Idle /\ menu = Idle
  /\ timer = FALSE /\ uploads = 0
  /\ wifi = "idle" /\ mqtt = "stopped"
  /\ report = "none" /\ wanted = FALSE

Fsm == \/ BootMenu \/ Connect \/ WifiConnected \/ MqttConnected \/ TakeCommand
       \/ SaveContext \/ LastReading \/ ShutDown \/ CutPower

Next == \/ Fsm
        \/ WifiUp \/ WifiExhausted \/ WifiLost \/ MqttUp \/ MqttDown \/ Command
        \/ TimerFires \/ SlotConfirmed \/ UploadDone \/ UploadFails
        \/ ReadForExit \/ ReadFails \/ Exit
        \/ Crash \/ PowerOn

Spec == Init /\ [][Next]_vars

(* FreeRTOS schedules the tasks, esp_timer fires, an upload ends (IrUpload *)
(* shows it), and WiFi and MQTT answer an attempt to connect.  What posts  *)
(* to the queue finds room between the events that fill it.                *)
FairSpec ==
  /\ Spec
  /\ WF_vars(Fsm) /\ WF_vars(Exit)
  /\ SF_vars(TimerFires) /\ SF_vars(UploadDone \/ UploadFails)
  /\ SF_vars(wifi = "trying" /\ (WifiUp \/ WifiExhausted))
  /\ SF_vars(mqtt = "trying" /\ (MqttUp \/ MqttDown))

-----------------------------------------------------------------------------
(* Properties *)

TypeOK ==
  /\ context \in Contexts
  /\ on \in BOOLEAN
  /\ queue \in Seq(Events) /\ Len(queue) <= QueueCap
  /\ fsm \in [step : {"idle", "save", "plan"}, context : Contexts]
  /\ menu \in [step : {"idle", "open", "download", "learned", "held"},
               context : Contexts]
  /\ timer \in BOOLEAN
  /\ uploads \in 0 .. MaxUploads
  /\ wifi \in {"idle", "trying", "up", "exhausted"}
  /\ mqtt \in {"stopped", "trying", "up"}
  /\ report \in {"none", "done", "failed"} /\ wanted \in BOOLEAN

(* Two upload tasks never run at once: they would share the slot that is   *)
(* awaited and the bit that confirms it.                                   *)
OneUploadAtATime == uploads <= 1

(* Once a reading has been handled, something will end the session: the    *)
(* timer runs, or an event that shuts the device down is queued or handled. *)
SomethingEndsIt ==
  on /\ report # "none" => \/ timer
                           \/ \E e \in Endings : Contains(queue, e)
                           \/ fsm.step = "plan"

(* No path leads the firmware to cut the power without a reading: one has  *)
(* been published or stored, or the attempt has met an error of the        *)
(* encoding or of the FRAM, which the code does not look at.  No order of  *)
(* connections, losses, commands and timeouts is enough.                   *)
NeverCutUntried == [][CutPower => report # "none"]_vars

(* A session that has started to connect ends, online or not. *)
SessionEnds == wifi = "trying" ~> ~on

(* The shutdown timer's callback: "Tempo limite atingido! Solicitando       *)
(* shutdown...".                                                           *)
TimeoutShutsDown == timer ~> ~on

(* README, bit 5: a "local menu user request to download IR codes" is      *)
(* pending.  It stays so until the platform has been asked.                *)
DownloadStaysPending == wanted => context.download
=============================================================================
