---------------------------- MODULE TelemetryLog ----------------------------
(***************************************************************************)
(* The offline telemetry log: a ring buffer in FRAM (a header and an array *)
(* of slots) and the calls the FSM task makes on it.  A reading that       *)
(* cannot be sent is pushed; after a reading has been sent the log is      *)
(* flushed, entry by entry, and an entry whose publication fails is pushed *)
(* back.  The FRAM survives a power failure, the RAM of the task does not; *)
(* a failure may come between any two FRAM accesses, and any FRAM access   *)
(* may return an error.                                                    *)
(*                                                                         *)
(* Readings are numbered in the order they are taken; what they contain is *)
(* left out.  One fram_write is one atomic step.                           *)
(***************************************************************************)
EXTENDS Integers, Sequences

CONSTANTS
  MaxItems,   (* TELEMETRY_QUEUE_MAX_ITEMS: the slots of the ring.           *)
  MaxReadings (* Bound of the model: the readings taken in a behaviour.      *)

ASSUME LogAssumption ==
  /\ MaxItems \in Nat \ {0}
  /\ MaxReadings \in Nat

VARIABLES
  slots,     (* FRAM: the ring's slots.                                      *)
  header,    (* FRAM: the ring's header; magic says whether it is formatted. *)
  pc,        (* RAM: the next access of the FSM task, "off" when unpowered.  *)
  hdr,       (* RAM: the copy of the header the current call works on.       *)
  item,      (* RAM: the reading the current call carries.                   *)
  after,     (* RAM: where the task goes when a push returns.                *)
  captured,  (* History: the number of readings taken.                       *)
  delivered, (* History: the readings the MQTT client accepted.              *)
  victim     (* History: what the last slot write overwrote.                 *)

fram == <<slots, header>>
ram  == <<pc, hdr, item, after>>
hist == <<captured, delivered, victim>>
vars == <<fram, ram, hist>>

Blank == 0                       (* No reading: an erased slot, an idle task. *)
Index == 0 .. MaxItems - 1
Succ(i) == (i + 1) % MaxItems

Header == [head : Index, tail : Index, count : 0 .. MaxItems, magic : BOOLEAN]
Empty  == [head |-> 0, tail |-> 0, count |-> 0, magic |-> TRUE]

(* The control points of a push and of a flush, in the order of the code.  *)
PushSteps  == {"pushLoad", "pushSlot", "pushHeader"}
FlushSteps == {"flushCount", "popLoad", "popHeader"}

-----------------------------------------------------------------------------
(* FRAM accesses *)

(* get_queue_header: a header without the magic word is formatted first.   *)
Formatted == IF header.magic THEN header ELSE Empty

LoadHeader ==
  /\ header' = Formatted
  /\ hdr' = Formatted

(* Fault: a push into a full ring does not move the tail.                  *)
Pushed_TailStays(h) ==
  [h EXCEPT !.head  = Succ(@),
            !.count = IF h.count < MaxItems THEN @ + 1 ELSE @]

(* Fault: the count has no bound. *)
Pushed_CountPastEnd(h) == [h EXCEPT !.head = Succ(@), !.count = @ + 1]

(* The header after a push: the tail moves only when the ring was full.    *)
Pushed(h) ==
  [h EXCEPT !.head  = Succ(@),
            !.count = IF h.count < MaxItems THEN @ + 1 ELSE @,
            !.tail  = IF h.count < MaxItems THEN @ ELSE Succ(@)]

(* The header after a pop. *)
Popped(h) == [h EXCEPT !.tail = Succ(@), !.count = @ - 1]

-----------------------------------------------------------------------------
(* app_storage_push_telemetry_log *)

(* Fault: the header is saved before the slot is written. *)
PushLoad_HeaderFirst ==
  /\ pc = "pushLoad"
  /\ header' = Pushed(Formatted)
  /\ hdr' = Formatted
  /\ pc' = "pushSlot"
  /\ UNCHANGED <<slots, item, after, hist>>

PushLoad ==
  /\ pc = "pushLoad"
  /\ LoadHeader
  /\ pc' = "pushSlot"
  /\ UNCHANGED <<slots, item, after, hist>>

PushSlot ==
  /\ pc = "pushSlot"
  /\ slots' = [slots EXCEPT ![hdr.head] = item]
  /\ hdr' = Pushed(hdr)
  /\ victim' = slots[hdr.head]
  /\ pc' = "pushHeader"
  /\ UNCHANGED <<header, item, after, captured, delivered>>

PushHeader ==
  /\ pc = "pushHeader"
  /\ header' = hdr
  /\ pc' = after
  /\ item' = Blank
  /\ UNCHANGED <<slots, hdr, after, hist>>

-----------------------------------------------------------------------------
(* The FSM's handlers *)

Capture ==
  /\ pc = "awake"
  /\ captured < MaxReadings
  /\ captured' = captured + 1

(* WIFI_FAILOVER_EXHAUSTED and MQTT_DISCONNECTED: a reading is taken and   *)
(* pushed, then the device shuts down.                                     *)
GoOffline ==
  /\ Capture
  /\ item' = captured + 1
  /\ pc' = "pushLoad"
  /\ after' = "shutdown"
  /\ UNCHANGED <<fram, hdr, delivered, victim>>

(* MQTT_CONNECTED: a reading is taken and published; the log is flushed    *)
(* when the client takes it, and stores it when it does not.  A reading    *)
(* that cannot be encoded is dropped, and the log is left alone.           *)
SendInitial ==
  /\ Capture
  /\ \/ /\ item' = captured + 1
        /\ delivered' = delivered \cup {item'}
        /\ pc' = "flushCount"
     \/ /\ item' = captured + 1
        /\ pc' = "pushLoad"
        /\ UNCHANGED delivered
     \/ UNCHANGED <<item, pc, delivered>>
  /\ after' = "awake"
  /\ UNCHANGED <<fram, hdr, victim>>

(* SHUTDOWN_REQUESTED, TIMER_SET_SUCCESS, IR_TRANSFER_FAILED: no reading.  *)
RequestShutdown ==
  /\ pc = "awake"
  /\ pc' = "shutdown"
  /\ UNCHANGED <<fram, hdr, item, after, hist>>

(* app_comms_flush_offline_telemetries: nothing to do for an empty log.    *)
FlushCount ==
  /\ pc = "flushCount"
  /\ LoadHeader
  /\ pc' = IF Formatted.count = 0 THEN "awake" ELSE "popLoad"
  /\ item' = Blank
  /\ UNCHANGED <<slots, after, hist>>

(* app_storage_pop_telemetry_log: the header is saved before the caller    *)
(* gets the entry.                                                         *)
PopLoad ==
  /\ pc = "popLoad"
  /\ header' = Formatted
  /\ IF Formatted.count = 0
       THEN /\ pc' = "awake"
            /\ hdr' = Formatted
            /\ item' = Blank
       ELSE /\ pc' = "popHeader"
            /\ hdr' = Popped(Formatted)
            /\ item' = slots[Formatted.tail]
  /\ UNCHANGED <<slots, after, hist>>

(* Fault: the entry is handed out before the header is saved. *)
PopHeader_Lazy ==
  /\ pc = "popHeader"
  /\ pc' = "publish"
  /\ UNCHANGED <<fram, hdr, item, after, hist>>

PopHeader ==
  /\ pc = "popHeader"
  /\ header' = hdr
  /\ pc' = "publish"
  /\ UNCHANGED <<slots, hdr, item, after, hist>>

(* Fault: a failed publication pushes the entry back, and the flush goes   *)
(* on.                                                                     *)
PublishPopped_GoesOn ==
  /\ pc = "publish"
  /\ \/ /\ delivered' = delivered \cup {item}
        /\ pc' = "popLoad"
        /\ item' = Blank
        /\ UNCHANGED after
     \/ /\ pc' = "pushLoad"
        /\ after' = "popLoad"
        /\ UNCHANGED <<delivered, item>>
  /\ UNCHANGED <<fram, hdr, captured, victim>>

(* The entry is published; a failed publication pushes it back and ends    *)
(* the flush; an entry that cannot be encoded is skipped.                  *)
PublishPopped ==
  /\ pc = "publish"
  /\ \/ /\ delivered' = delivered \cup {item}
        /\ pc' = "popLoad"
        /\ item' = Blank
     \/ /\ pc' = "pushLoad"
        /\ UNCHANGED <<delivered, item>>
     \/ /\ pc' = "popLoad"
        /\ item' = Blank
        /\ UNCHANGED delivered
  /\ after' = "awake"
  /\ UNCHANGED <<fram, hdr, captured, victim>>

(* A FRAM access fails: a push returns to its caller, which ignores the    *)
(* error; a count or a pop ends the flush.                                 *)
FramError ==
  /\ pc \in PushSteps \cup FlushSteps
  /\ pc' = IF pc \in PushSteps THEN after ELSE "awake"
  /\ item' = Blank
  /\ UNCHANGED <<fram, hdr, after, hist>>

-----------------------------------------------------------------------------
(* Power *)

LoseRam ==
  /\ pc' = "off"
  /\ hdr' = Empty
  /\ item' = Blank
  /\ after' = "awake"
  /\ UNCHANGED <<fram, hist>>

Shutdown   == pc = "shutdown" /\ LoseRam
PowerFails == pc # "off" /\ LoseRam

Boot ==
  /\ pc = "off"
  /\ pc' = "awake"
  /\ UNCHANGED <<fram, hdr, item, after, hist>>

-----------------------------------------------------------------------------
(* Specification *)

(* A factory-fresh FRAM: no magic word, every slot erased.                 *)
Init ==
  /\ slots = [i \in Index |-> Blank]
  /\ header = [Empty EXCEPT !.magic = FALSE]
  /\ pc = "off"
  /\ hdr = Empty
  /\ item = Blank
  /\ after = "awake"
  /\ captured = 0
  /\ delivered = {}
  /\ victim = Blank

Push     == PushLoad \/ PushSlot \/ PushHeader
Flush    == FlushCount \/ PopLoad \/ PopHeader \/ PublishPopped
Handlers == GoOffline \/ SendInitial \/ RequestShutdown
Power    == Shutdown \/ PowerFails \/ Boot

Next == Push \/ Flush \/ Handlers \/ FramError \/ Power

Spec == Init /\ [][Next]_vars

(* A powered task runs on: FreeRTOS schedules it whenever it is ready, so  *)
(* a call in progress makes its next access.  Nothing is assumed of the    *)
(* handlers: events may never come.                                        *)
FairSpec == Spec /\ WF_vars(Push \/ Flush) /\ WF_vars(Shutdown)

-----------------------------------------------------------------------------
(* Properties *)

TypeOK ==
  /\ slots \in [Index -> 0 .. MaxReadings]
  /\ header \in Header /\ hdr \in Header
  /\ pc \in PushSteps \cup FlushSteps
           \cup {"off", "awake", "publish", "shutdown"}
  /\ item \in 0 .. MaxReadings
  /\ after \in {"awake", "shutdown"}
  /\ captured \in 0 .. MaxReadings
  /\ delivered \subseteq 0 .. MaxReadings
  /\ victim \in 0 .. MaxReadings

(* The entries of a ring with header h, oldest first. *)
Position(h, i) == (h.tail + i - 1) % MaxItems
Contents(h) ==
  IF h.magic THEN [i \in 1 .. h.count |-> slots[Position(h, i)]] ELSE << >>

Stored == {Contents(header)[i] : i \in DOMAIN Contents(header)}

(* The readings that still exist somewhere. *)
Kept == Stored \cup delivered \cup ({item} \ {Blank})

(* What every step relies on, and what makes NeverSentTwice hold: the ring *)
(* is the MaxItems-window that its three header fields describe, the copy  *)
(* of the header in RAM is what the next access expects, the entries in    *)
(* the ring are distinct and unsent, and so is the reading in hand.        *)
RingShape(h) ==
  /\ h.head = Position(h, h.count + 1)
  /\ ~h.magic => h.count = 0

Entry(i) == slots[Position(header, i)]

EntriesDistinctAndUnsent ==
  \A i \in 1 .. header.count :
    /\ Entry(i) \in 1 .. captured
    /\ Entry(i) \notin delivered
    /\ \A j \in 1 .. header.count : Entry(i) = Entry(j) => i = j

ItemIsNew ==
  /\ item \in 1 .. captured
  /\ item \notin delivered
  /\ \A i \in 1 .. header.count : Entry(i) # item

CallInv ==
  /\ pc \in {"pushLoad", "publish"} => ItemIsNew
  /\ pc = "pushSlot" => ItemIsNew /\ header.magic /\ hdr = header
  /\ pc = "pushHeader" =>
       /\ header.magic /\ hdr = Pushed(header)
       /\ slots[header.head] = item
       /\ item \in 1 .. captured /\ item \notin delivered
       /\ header.count < MaxItems => ItemIsNew
  /\ pc = "popHeader" =>
       /\ header.magic /\ header.count > 0 /\ hdr = Popped(header)
       /\ item = Entry(1)

LogInv ==
  /\ RingShape(header)
  /\ EntriesDistinctAndUnsent
  /\ delivered \subseteq 1 .. captured
  /\ CallInv

(* The log as the abstract queue sees it.  Between the two writes of a     *)
(* push into a full ring the overwritten entry still counts as stored: the *)
(* push takes effect with the header.                                      *)
HalfPushed == pc = "pushHeader" /\ header.count = MaxItems
QueueView ==
  IF HalfPushed THEN [Contents(header) EXCEPT ![1] = victim]
                ELSE Contents(header)

Log == INSTANCE OfflineQueue WITH
         queue <- QueueView, Readings <- 1 .. MaxReadings

(* The FRAM ring with its two-step updates, retries and power failures is  *)
(* a bounded queue that drops its oldest entry: no step loses, duplicates  *)
(* or reorders entries in any other way than OfflineQueue says.            *)
ImplementsQueue == Log!Spec

(* No reading is handed to the MQTT client twice, whatever fails between a *)
(* pop and its publication: the pop is committed before the publication.   *)
NeverSentTwice == [][pc = "publish" => item \notin delivered]_vars

(* A step loses at most the reading the task holds in RAM, or the oldest   *)
(* entry of a full ring: entries at rest survive crashes and errors.       *)
OnlyOldestOrInFlightIsLost ==
  [][\A r \in Kept \ Kept' :
       \/ r = item
       \/ header.count = MaxItems /\ r = Contents(header)[1]]_vars

(* A flush always comes to an end: it stops at the first publication that  *)
(* fails instead of popping what it has just pushed back.                  *)
FlushReturns == (pc = "flushCount") ~> (pc \in {"awake", "off"})

=============================================================================
