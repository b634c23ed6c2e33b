------------------------------ MODULE Formats ------------------------------
(***************************************************************************)
(* How the firmware lays its state out in bytes: the fields of the action  *)
(* word, the time of day in the registers of the RTC, and the records in   *)
(* the FRAM.  Everything the other modules take for one value goes through *)
(* these.                                                                  *)
(***************************************************************************)
EXTENDS Naturals

Byte == 0 .. 255

-----------------------------------------------------------------------------
(* The action word (LAST_ACTION_..._MASK): where its fields begin, and     *)
(* from where on they have no bits.                                        *)

Field == [reason |-> [low |-> 1,  high |-> 2],  action  |-> [low |-> 2,  high |-> 32],
          download |-> [low |-> 32, high |-> 64], rawSend |-> [low |-> 64, high |-> 128]]

(* Fault: the action takes the DOWNLOAD bit, too. *)
Width_OneMore(f) == IF f = "action" THEN 32 ELSE Field[f].high \div Field[f].low

Width(f) == Field[f].high \div Field[f].low

Get(f, word) == (word \div Field[f].low) % Width(f)

(* A flag is set by any value but 0, a number by its low bits.             *)
Put(f, word, value) ==
  LET bits == IF f \in {"download", "rawSend"} THEN IF value = 0 THEN 0 ELSE 1
                                               ELSE value % Width(f)
  IN  word - Get(f, word) * Field[f].low + bits * Field[f].low

IrSlots == 0 .. 12
Special == {250, 251, 252}

(* Setting a field of the action word changes no other, and every slot is  *)
(* read back as it was set.  (The actions that are no slot, 250 and up,    *)
(* are not: their low bits are the slots 10 to 12.)                        *)
FieldApart(f, word, value) ==
  LET new == Put(f, word, value)
  IN  /\ new \in Byte
      /\ \A g \in DOMAIN Field \ {f} : Get(g, new) = Get(g, word)
      /\ f = "action" /\ value \in IrSlots => Get(f, new) = value

-----------------------------------------------------------------------------
(* The clock *)

(* The numbers that the bits of the RTC can hold for each field ... *)
Bits == [second |-> 128, minute |-> 128, hour |-> 64, weekday |-> 8,
         day |-> 64, month |-> 32, year |-> 256]

(* ... and what json_decode_sync takes for it: any number, cast to the     *)
(* field's width, and 0 for a part of the date that is missing.            *)
Given(f) == IF f = "year" THEN 0 .. 65535 ELSE Byte

(* rtc_dec_to_bcd, masked. *)
Register(f, value) ==
  LET v == IF f = "year" THEN value % 100 ELSE value
  IN  ((v \div 10) * 16 + (v % 10)) % Bits[f]

(* Fault: a bit that is not the field's is read with it. *)
Read_Unmasked(f, register) ==
  LET v == (register \div 16) * 10 + (register % 16)
  IN  IF f = "year" THEN 2000 + v ELSE v

(* rtc_bcd_to_dec, masked. *)
Read(f, register) ==
  LET r == register % Bits[f]
      v == (r \div 16) * 10 + (r % 16)
  IN  IF f = "year" THEN 2000 + v ELSE v

(* CMD 1: a part of the date that is missing is the RTC's, and no year     *)
(* before 2026 is written.                                                 *)
Synced(f, given, current) ==
  LET taken == IF given > 0 THEN given ELSE current
  IN  CASE f = "year"             -> IF taken < 2026 THEN 2026 ELSE taken
        [] f \in {"day", "month"} -> IF taken = 0 THEN 1 ELSE taken
        [] OTHER                  -> given

(* What the RTC gives for a part of the date: any bits, or none at all.    *)
Current(f) == {0} \cup {Read(f, register) : register \in 0 .. Bits[f] - 1}

(* A date and a time of day. *)
Calendar == [second |-> 0 .. 59, minute |-> 0 .. 59, hour |-> 0 .. 23, weekday |-> 0 .. 6,
             day |-> 1 .. 31, month |-> 1 .. 12, year |-> 2026 .. 2099]

(* What becomes of a number, in decimals: the tens are counted as far as   *)
(* the field has bits for them, and then from 0 again.                     *)
Tens == [second |-> 8, minute |-> 8, hour |-> 4, day |-> 4, month |-> 2, year |-> 10]

Wrapped(f, value) ==
  CASE f = "weekday" -> (value % 10) % 8
    [] f = "year"    -> 2000 + (value % 100)
    [] OTHER         -> value % (10 * Tens[f])

(* A field of the platform's date and time, sent with CMD 1, is what the   *)
(* planner will read back, whatever the RTC keeps in the bits that are no  *)
(* field's, and a part of the date that is left out stays as it is.  That  *)
(* is so of the numbers of a calendar; nothing refuses the others, which   *)
(* are read back as other numbers, not always of a calendar either.        *)
ReadsBack(f, given, current) ==
  LET synced == Synced(f, given, current)
  IN  \A k \in 0 .. 255 \div Bits[f] :
        LET read == Read(f, k * Bits[f] + Register(f, synced))
        IN  /\ read = Wrapped(f, synced)
            /\ given \in Calendar[f] => read = given
            /\ given = 0 /\ given \notin Calendar[f] /\ current \in Calendar[f]
                 => read = current

-----------------------------------------------------------------------------
(* The FRAM *)

FramSize == 65536

IrSlotSize == 3072

(* ir_raw_command_t: 700 pulses and their number. *)
IrCommandSize == 2 * 700 + 2

(* telemetry_data_t, as the compiler aligns it. *)
RecordSize == 4 + 4 + 8 + 4 + 4 + 4

(* Fault: a longer queue. *)
QueueSize_Longer == 8 + 200 * RecordSize

QueueSize == 8 + 100 * RecordSize

(* A slot's address is computed in 16 bits. *)
SlotAddress(slot) == (6144 + slot * IrSlotSize) % 65536

(* The records by address and length: configuration, credentials,          *)
(* schedules, wakeup context, queue, and the IR slots.                     *)
Regions ==
  {[from |-> 0,   size |-> 32], [from |-> 32,  size |-> 97],
   [from |-> 256, size |-> 11 * 12], [from |-> 512, size |-> 6],
   [from |-> 768, size |-> QueueSize]}
    \cup {[from |-> SlotAddress(s), size |-> IrCommandSize] : s \in IrSlots}

(* A record is not written over another, and fram_write does not refuse it. *)
Apart(r) ==
  /\ r.from + r.size <= FramSize
  /\ \A q \in Regions : r # q => r.from + r.size <= q.from \/ q.from + q.size <= r.from
=============================================================================
