----------------------------- MODULE Algorithms -----------------------------
(* The pure algorithms, each at every input.  The search of the schedule   *)
(* table: every table that can be read, every moment of the week and every *)
(* interval of less than a day; a run takes a week of three days of three  *)
(* minutes of two ticks and a table of two schedules.  The formats of what *)
(* the plan is made from and saved in: every field of the action word and  *)
(* of the clock, and every record of the FRAM.                             *)
EXTENDS WakeupPlan, Formats

VARIABLES
  input,         (* What is computed: a plan, a field, or a record's place. *)
  givenTable,    (* The schedules, the telemetry interval and the moment    *)
  givenInterval, (* that a plan is made from.                               *)
  moment

TableSchedule == [enabled : BOOLEAN, days : SUBSET Weekdays,
                  minute : Minutes \cup {BadMinute}]

Search == [kind |-> "plan"]
Words  == [kind : {"word"}, field : DOMAIN Field, word : 0 .. 127,
           value : IrSlots \cup Special]
(* The RTC's own date counts where CMD 1 has none. *)
Clocks == UNION {
  [kind : {"clock"}, field : {f}, given : Given(f) \ {0}, current : {0}]
    \cup [kind : {"clock"}, field : {f}, given : {0}, current : Current(f)]
  : f \in DOMAIN Bits}
Inputs == Words \cup Clocks \cup [kind : {"record"}, record : Regions]

AlgorithmsInit ==
  /\ moment = 0
  /\ \/ /\ input = Search
        /\ givenTable \in [Ids -> TableSchedule]
        /\ givenInterval \in 0 .. TicksPerDay - 1
     \/ /\ input \in Inputs
        /\ givenTable = <<>> /\ givenInterval = 0

AlgorithmsNext ==
  /\ moment' = IF input.kind = "plan" THEN Later(moment, 1) ELSE moment
  /\ UNCHANGED <<input, givenTable, givenInterval>>

AlgorithmsSpec ==
  AlgorithmsInit /\ [][AlgorithmsNext]_<<input, givenTable, givenInterval, moment>>

(* The code's search, by id, day and minute, finds what a look at every    *)
(* moment of the interval would find.                                      *)
SearchIsRight ==
  input.kind = "plan" => IsEarliest(givenTable, givenInterval, moment)

(* Setting the reason, the action or a flag of the context's action word   *)
(* leaves the others as they were, and a slot set is the slot read.        *)
WordFieldsApart ==
  input.kind = "word" => FieldApart(input.field, input.word, input.value)

(* The clock of CMD 1 is the clock the next plan is made from, if it is    *)
(* one; whatever else CMD 1 brings, the digits that fit are.               *)
SyncReadsBack ==
  input.kind = "clock" => ReadsBack(input.field, input.given, input.current)

(* The records of the FRAM do not overlap, and end where it ends.          *)
RecordsApart == input.kind = "record" => Apart(input.record)
=============================================================================
