---------------------------- MODULE WifiFailover ----------------------------
(***************************************************************************)
(* board_wifi: the networks are tried in turn, the one of the FRAM first,  *)
(* each until MaxRetries attempts at it have failed.  Two tasks share the  *)
(* index, the retry counter and the driver without a lock: the FSM's,      *)
(* which starts the sequence, and the event loop's, which runs the handler *)
(* of the driver's events.  Each access of one that the other can come     *)
(* between is a step.  A count is read, then written, and what is written  *)
(* may be read back or still be at hand: the build decides.                *)
(***************************************************************************)
EXTENDS Naturals

CONSTANTS
  Nets,       (* The number of networks.                                     *)
  Dynamic,    (* g_has_dynamic_cred: the FRAM holds the first of them.       *)
  MaxRetries, (* WIFI_MAX_FAILOVER_RETRIES                                   *)
  MaxStarts,  (* How often the sequence is started.                          *)
  MaxLosses   (* How often a connection is lost.                             *)

ASSUME FailoverAssumption ==
  /\ Nets \in Nat \ {0} /\ MaxRetries \in Nat \ {0} /\ Dynamic \in BOOLEAN
  /\ MaxStarts \in Nat /\ MaxLosses \in Nat

VARIABLES
  index,  (* g_current_net_index                                             *)
  retry,  (* g_retry_count                                                   *)
  target, (* The network the station is configured for.                      *)
  link,   (* The station: not started, starting, connecting, with an         *)
          (* address, down, or given up.                                     *)
  posted, (* The last event posted.                                          *)
  fsm,    (* What the FSM's task does next of a start, if one is under way.  *)
  hdl,    (* What the handler does next of a disconnection.                  *)
  mine,   (* The count the handler has at hand.                              *)
  starts, losses,
  tries, attempts,  (* History: the attempts at each network, and in all.    *)
  met     (* History: a start and the handler of a disconnection were under  *)
          (* way at the same time.                                           *)

shared == <<index, retry, target>>
history == <<tries, attempts>>
vars == <<shared, link, posted, fsm, hdl, mine, starts, losses, history, met>>

Networks == 0 .. Nets - 1

(* What lies behind the table of networks, read as one of them. *)
Outside == Nets

(* esp_wifi_connect *)
Connect(net) ==
  /\ link' = "connecting"
  /\ tries' = [n \in Networks |-> IF n = net THEN tries[n] + 1 ELSE tries[n]]
  /\ attempts' = attempts + 1

-----------------------------------------------------------------------------
(* board_wifi_start_failover_connect, called by the FSM.                   *)
StartIndex ==
  /\ fsm = "off" /\ starts < MaxStarts
  /\ starts' = starts + 1
  /\ index' = 0
  /\ fsm' = "retry"
  /\ UNCHANGED <<retry, target, link, posted, hdl, mine, losses, history>>

StartRetry ==
  /\ fsm = "retry"
  /\ retry' = 0
  /\ fsm' = "config"
  /\ UNCHANGED <<index, target, link, posted, hdl, mine, starts, losses, history>>

(* esp_wifi_set_config: the driver may refuse it while it connects.        *)
StartConfig ==
  /\ fsm = "config"
  /\ target' \in {0} \cup (IF link = "connecting" THEN {target} ELSE {})
  /\ fsm' = "start"
  /\ UNCHANGED <<index, retry, link, posted, hdl, mine, starts, losses, history>>

(* esp_wifi_start: a later call finds the driver started.                  *)
StartDriver ==
  /\ fsm = "start"
  /\ link' = IF link = "stopped" THEN "starting" ELSE link
  /\ fsm' = "off"
  /\ UNCHANGED <<shared, posted, hdl, mine, starts, losses, history>>

Start == StartIndex \/ StartRetry \/ StartConfig \/ StartDriver

-----------------------------------------------------------------------------
(* wifi_event_handler.  STA_START connects. *)
StaStart ==
  /\ link = "starting" /\ hdl = "wait"
  /\ Connect(target)
  /\ UNCHANGED <<shared, posted, fsm, hdl, mine, starts, losses>>

(* GOT_IP: the retry counter stays as it is. *)
GotIp ==
  /\ link = "connecting"
  /\ link' = "up"
  /\ posted' = "connected"
  /\ UNCHANGED <<shared, fsm, hdl, mine, starts, losses, history>>

(* STA_DISCONNECTED, for a failed attempt and for a lost connection, up to *)
(* the handler's reading the counter.                                      *)
Disconnected ==
  /\ link' = "down"
  /\ mine' = retry + 1
  /\ hdl' = "count"
  /\ UNCHANGED <<shared, posted, fsm, starts, history>>

AttemptFails ==
  /\ link = "connecting"
  /\ Disconnected
  /\ UNCHANGED losses

Lost ==
  /\ link = "up"
  /\ losses < MaxLosses
  /\ losses' = losses + 1
  /\ Disconnected

Count ==
  /\ hdl = "count"
  /\ retry' = mine
  /\ hdl' = "judge"
  /\ UNCHANGED <<index, target, link, posted, fsm, mine, starts, losses, history>>

(* Fault: one attempt too many. *)
Again_OneMore ==
  /\ hdl = "judge"
  /\ \E count \in {mine, retry} : count <= MaxRetries
  /\ Connect(target)
  /\ hdl' = "wait"
  /\ UNCHANGED <<shared, posted, fsm, mine, starts, losses>>

(* The same network again, ... *)
Again ==
  /\ hdl = "judge"
  /\ \E count \in {mine, retry} : count < MaxRetries
  /\ Connect(target)
  /\ hdl' = "wait"
  /\ UNCHANGED <<shared, posted, fsm, mine, starts, losses>>

(* Fault: the counter goes on for the next network. *)
NextIndex_KeepsRetry ==
  /\ hdl = "judge"
  /\ \E count \in {mine, retry} : count >= MaxRetries
  /\ retry' = retry
  /\ mine' = index + 1
  /\ hdl' = "step"
  /\ UNCHANGED <<index, target, link, posted, fsm, starts, losses, history>>

(* ... or the next one, ... *)
NextIndex ==
  /\ hdl = "judge"
  /\ \E count \in {mine, retry} : count >= MaxRetries
  /\ retry' = 0
  /\ mine' = index + 1
  /\ hdl' = "step"
  /\ UNCHANGED <<index, target, link, posted, fsm, starts, losses, history>>

(* Fault: after the last network the first follows. *)
StepIndex_Wraps ==
  /\ hdl = "step"
  /\ index' = mine % Nets
  /\ mine' = mine % Nets
  /\ hdl' = "choose"
  /\ UNCHANGED <<retry, target, link, posted, fsm, starts, losses, history>>

StepIndex ==
  /\ hdl = "step"
  /\ index' = mine
  /\ hdl' = "choose"
  /\ UNCHANGED <<retry, target, link, posted, fsm, mine, starts, losses, history>>

(* Fault: nobody is told. *)
GiveUp_Silent ==
  /\ hdl = "choose"
  /\ \E net \in {mine, index} : net >= Nets
  /\ link' = "idle"
  /\ hdl' = "wait"
  /\ UNCHANGED <<shared, posted, fsm, mine, starts, losses, history>>

(* Fault: the last network is not counted. *)
GiveUp_LeavesLast ==
  /\ hdl = "choose"
  /\ \E net \in {mine, index} : net + 1 >= Nets
  /\ link' = "idle"
  /\ posted' = "exhausted"
  /\ hdl' = "wait"
  /\ UNCHANGED <<shared, fsm, mine, starts, losses, history>>

(* ... or none is left. *)
GiveUp ==
  /\ hdl = "choose"
  /\ \E net \in {mine, index} : net >= Nets
  /\ link' = "idle"
  /\ posted' = "exhausted"
  /\ hdl' = "wait"
  /\ UNCHANGED <<shared, fsm, mine, starts, losses, history>>

(* The index is read for the bound, for the question which table it is in, *)
(* and for the place in that table, which is one less with a dynamic       *)
(* network before it.                                                      *)
Choose ==
  /\ hdl = "choose"
  /\ \E net \in {mine, index} : \E table \in {net, index} : \E place \in {table, index} :
       /\ net < Nets
       /\ target' = CASE table = 0 -> 0
                      [] table # 0 /\ place = 0 /\ Dynamic -> Outside
                      [] OTHER -> place
  /\ hdl' = "connect"
  /\ UNCHANGED <<index, retry, link, posted, fsm, mine, starts, losses, history>>

ConnectNext ==
  /\ hdl = "connect"
  /\ Connect(target)
  /\ hdl' = "wait"
  /\ UNCHANGED <<shared, posted, fsm, mine, starts, losses>>

Handle == StaStart \/ Count \/ Again \/ NextIndex \/ StepIndex \/ GiveUp \/ Choose
            \/ ConnectNext

-----------------------------------------------------------------------------
Init ==
  /\ index = 0 /\ retry = 0 /\ target = 0
  /\ link = "stopped" /\ posted = "none"
  /\ fsm = "off" /\ hdl = "wait" /\ mine = 0
  /\ starts = 0 /\ losses = 0
  /\ tries = [n \in Networks |-> 0] /\ attempts = 0
  /\ met = FALSE

Meet == met' = (met \/ (fsm' # "off" /\ hdl' # "wait"))

Next == (Start \/ Handle \/ AttemptFails \/ GotIp \/ Lost) /\ Meet

Spec == Init /\ [][Next]_vars

(* The event loop's task runs, and the driver answers every attempt.       *)
FairSpec ==
  /\ Spec
  /\ WF_vars(Handle /\ Meet)
  /\ WF_vars((AttemptFails \/ GotIp) /\ Meet)

-----------------------------------------------------------------------------
TypeOK ==
  /\ index \in 0 .. Nets
  /\ retry \in 0 .. MaxRetries
  /\ target \in 0 .. Nets
  /\ link \in {"stopped", "starting", "connecting", "up", "down", "idle"}
  /\ posted \in {"none", "connected", "exhausted"}
  /\ fsm \in {"off", "retry", "config", "start"}
  /\ hdl \in {"wait", "count", "judge", "step", "choose", "connect"}
  /\ mine \in Nat
  /\ starts \in 0 .. MaxStarts /\ losses \in 0 .. MaxLosses
  /\ tries \in [Networks -> Nat] /\ attempts \in Nat
  /\ met \in BOOLEAN

(* However a start of the sequence and the handler come between each       *)
(* other's steps, the failover does not give up early: as many attempts    *)
(* have been made as trying every network MaxRetries times takes.          *)
NeverGivesUpEarly ==
  posted = "exhausted" => attempts >= Nets * MaxRetries

(* Those attempts went to every network, MaxRetries to each, if no start   *)
(* met the handler of a disconnection: one that comes while an attempt is  *)
(* under way, or a connection holds, costs no network its turn.            *)
ExhaustedTriedAll ==
  posted = "exhausted" /\ ~met => \A n \in Networks : tries[n] >= MaxRetries

(* What k starts of the sequence can cost: all networks once for the       *)
(* first, and for each further one all of them again and the attempts at   *)
(* one, because it clears the index and the counter in two steps and the   *)
(* handler may go on between them.                                         *)
Most(k) ==
  IF k = 0 THEN 0
           ELSE Nets * MaxRetries + (k - 1) * (Nets * MaxRetries + MaxRetries)

(* No start makes the failover go on for ever, wherever it meets the       *)
(* handler.                                                                *)
AttemptsAreBounded == attempts <= Most(starts)

(* The session sees this much of it, and is told when the station is up    *)
(* and when it has given up.                                               *)
Seen ==
  CASE link = "stopped" -> "idle"
    [] link \in {"starting", "connecting", "down"} -> "trying"
    [] link = "up" /\ posted = "connected" -> "up"
    [] link = "idle" /\ posted = "exhausted" -> "exhausted"
    [] OTHER -> "silent"

Station == INSTANCE WifiStation WITH station <- Seen

(* The failover is the station an AwakeSession waits for, however often it *)
(* is started again and wherever the index stands: it gives up only after  *)
(* trying, stays so, tells what it has come to, and every start comes to a *)
(* connection or to the end.                                               *)
ImplementsStation == Station!FairSpec

=============================================================================
