---------------------------- MODULE MCPowerCycle ----------------------------
(* A week of two days of three minutes of two ticks; two schedules, one of *)
(* every day and one of a single day; an interval the timer refuses, one   *)
(* it counts in ticks and one it rounds up to minutes.                     *)
EXTENDS PowerCycle

MCIntervals == {0, 2, 3}
MCSyncTimes == {3}
MCOffered ==
  {[enabled |-> TRUE, days |-> {0, 1}, minute |-> 1, action |-> None],
   [enabled |-> TRUE, days |-> {1},    minute |-> 2, action |-> PowerOff]}
=============================================================================
