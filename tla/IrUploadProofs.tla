--------------------------- MODULE IrUploadProofs ---------------------------
(***************************************************************************)
(* Proofs about IrUpload: types; that a slot taken for confirmed is stored *)
(* by the platform and that the slots are transferred in order, when the   *)
(* handler keeps up; what is left of both when it does not; and that the   *)
(* shutdown timer outlasts every slot, when it is longer than all attempts *)
(* at one.                                                                 *)
(***************************************************************************)
EXTENDS IrUpload, TLAPS

-----------------------------------------------------------------------------
(* Types *)

LEMMA IdleType == Idle \in [step : {"idle", "matched", "save"}, slot : Slots]
BY UploadAssumption DEF Idle, Slots

LEMMA TypeNext == TypeOK /\ [Next]_vars => TypeOK'
<1> SUFFICES ASSUME TypeOK, [Next]_vars
             PROVE  TypeOK'
  OBVIOUS
<1> USE UploadAssumption
    DEF TypeOK, Transferring, Slots, task, net, hist
<1>1. CASE AskUpload
  BY <1>1 DEF AskUpload
<1>2. CASE Connect
  <2>1. timer' \in 0 .. ShutdownAfter
    BY <1>2 DEF Connect
  <2>2. seq' \in {"expect", "none"} /\ confirmed' \subseteq 0 .. LastSlot
    BY <1>2 DEF Connect
  <2> QED
    BY <1>2, <2>1, <2>2 DEF Connect
<1>3. CASE ShutDown \/ Disconnect
  <2>1. GoOff
    BY <1>3 DEF ShutDown, Disconnect
  <2>2. /\ timer' \in 0 .. ShutdownAfter /\ left' \in 0 .. AckTimeout
        /\ slot' \in 0 .. LastSlot /\ expected' \in 0 .. LastSlot
        /\ try' \in 1 .. MaxTries
    BY <2>1 DEF GoOff
  <2>3. rx' \in [step : {"idle", "matched", "save"}, slot : 0 .. LastSlot]
    BY <2>1, IdleType DEF GoOff
  <2> QED
    BY <2>1, <2>2, <2>3 DEF GoOff
<1>4. CASE Tick
  <2>1. timer' \in 0 .. ShutdownAfter
    BY <1>4 DEF Tick
  <2>2. left' \in 0 .. AckTimeout
    BY <1>4 DEF Tick
  <2> QED
    BY <1>4, <2>1, <2>2 DEF Tick
<1>5. CASE Expect
  BY <1>5 DEF Expect
<1>6. CASE ClearBit
  BY <1>6 DEF ClearBit
<1>7. CASE Publish
  <2>1. try' \in 1 .. MaxTries /\ left' \in 0 .. AckTimeout
    BY <1>7 DEF Publish, Retry
  <2>2. seq' \in {"wait", "clear", "fail"} /\ up' \subseteq Slots
    BY <1>7 DEF Publish, Retry
  <2> QED
    BY <1>7, <2>1, <2>2 DEF Publish
<1>8. CASE Acked
  <2>1. timer' \in 0 .. ShutdownAfter
    BY <1>8 DEF Acked
  <2>2. confirmed' \subseteq 0 .. LastSlot
    BY <1>8 DEF Acked
  <2> QED
    BY <1>8, <2>1, <2>2 DEF Acked
<1>9. CASE WaitTimesOut
  BY <1>9 DEF WaitTimesOut, Retry
<1>10. CASE NextSlot
  <2>1. slot' \in 0 .. LastSlot /\ seq' \in {"expect", "done"}
    BY <1>10 DEF NextSlot
  <2>2. asked' \in BOOLEAN
    BY <1>10 DEF NextSlot
  <2> QED
    BY <1>10, <2>1, <2>2 DEF NextSlot
<1>11. CASE Fail
  BY <1>11 DEF Fail
<1>12. CASE Receive
  <2>1. PICK a \in down :
           /\ rx' = [step |-> IF a = expected THEN "matched" ELSE "save",
                     slot |-> a]
           /\ down' \in {down, down \ {a}}
    BY <1>12 DEF Receive
  <2>2. rx' \in [step : {"idle", "matched", "save"}, slot : Slots]
    BY <2>1
  <2>3. down' \subseteq Slots
    BY <2>1
  <2> QED
    BY <1>12, <2>2, <2>3 DEF Receive
<1>13. CASE SetBit
  BY <1>13 DEF SetBit
<1>14. CASE SaveContext
  <2>1. pending' \in [upload : BOOLEAN, raw : BOOLEAN]
    BY <1>14 DEF SaveContext
  <2> QED
    BY <1>14, <2>1, IdleType DEF SaveContext
<1>15. CASE Confirm
  BY <1>15 DEF Confirm
<1>16. CASE Lose
  BY <1>16 DEF Lose
<1>17. CASE UNCHANGED vars
  BY <1>17 DEF vars
<1> QED
  BY <1>1, <1>2, <1>3, <1>4, <1>5, <1>6, <1>7, <1>8, <1>9, <1>10, <1>11,
     <1>12, <1>13, <1>14, <1>15, <1>16, <1>17
     DEF Next, Sequence, Handler, Session, Network

(* Every variable keeps its type: the attempts never pass MaxTries, the    *)
(* slots never the last one, and no counter of time goes below zero.       *)
THEOREM TypeCorrect == Spec => []TypeOK
<1>1. ASSUME Init
      PROVE  TypeOK
  <2>1. 0 \in Slots /\ 1 \in 1 .. MaxTries
    BY UploadAssumption DEF Slots
  <2>2. 0 \in 0 .. ShutdownAfter /\ 0 \in 0 .. AckTimeout
    BY UploadAssumption
  <2> QED
    BY <1>1, <2>1, <2>2, IdleType DEF Init, TypeOK
<1> QED
  BY <1>1, TypeNext, PTL DEF Spec

-----------------------------------------------------------------------------
(* The handshake *)

(* From the announcement of a slot to its confirmation. *)
Sending == {"clear", "publish", "wait"}

(* What a confirmation relies on: nothing is under way to a device that is *)
(* off, every CMD 2 is for a slot the platform has, and once the bit has   *)
(* been cleared, whoever sets it has matched the slot being sent.          *)
HandshakeInv ==
  /\ ~online => seq = "none" /\ rx.step = "idle" /\ down = {}
  /\ down \subseteq stored
  /\ rx.step = "matched" => rx.slot \in stored
  /\ seq \in Sending => expected = slot
  /\ seq \in {"publish", "wait"} =>
       /\ rx.step = "matched" => rx.slot = slot
       /\ ackBit => slot \in stored
  /\ ConfirmedIsStored

LEMMA HandshakeNext ==
  ASSUME PromptHandler, TypeOK, HandshakeInv, [Next]_vars
  PROVE  HandshakeInv'
<1> USE DEF HandshakeInv, ConfirmedIsStored, Sending, task, net, hist
<1>1. CASE AskUpload
  BY <1>1 DEF AskUpload
<1>2. CASE Connect
  BY <1>2 DEF Connect
<1>3. CASE ShutDown \/ Disconnect
  <2>1. GoOff
    BY <1>3 DEF ShutDown, Disconnect
  <2> QED
    BY <2>1 DEF GoOff, Idle
<1>4. CASE Tick
  BY <1>4 DEF Tick
<1>5. CASE Expect
  BY <1>5 DEF Expect
<1>6. CASE ClearBit
  BY <1>6 DEF ClearBit, HandlerKeepsUp
<1>7. CASE Publish
  <2>1. seq' \in {"wait", "clear", "fail"}
    BY <1>7 DEF Publish, Retry
  <2> QED
    BY <1>7, <2>1 DEF Publish
<1>8. CASE Acked
  BY <1>8 DEF Acked
<1>9. CASE WaitTimesOut
  <2>1. seq' \in {"clear", "fail"}
    BY <1>9 DEF WaitTimesOut, Retry
  <2> QED
    BY <1>9, <2>1 DEF WaitTimesOut
<1>10. CASE NextSlot
  <2>1. seq' \in {"expect", "done"}
    BY <1>10 DEF NextSlot
  <2> QED
    BY <1>10, <2>1 DEF NextSlot
<1>11. CASE Fail
  BY <1>11 DEF Fail
<1>12. CASE Receive
  <2>1. PICK a \in down :
           /\ rx' = [step |-> IF a = expected THEN "matched" ELSE "save",
                     slot |-> a]
           /\ down' \in {down, down \ {a}}
    BY <1>12 DEF Receive
  <2>2. rx'.slot = a /\ (rx'.step = "matched" => a = expected)
    BY <2>1
  <2> QED
    BY <1>12, <2>1, <2>2 DEF Receive
<1>13. CASE SetBit
  <2>1. rx' = [rx EXCEPT !.step = "save"] /\ rx'.step = "save"
    BY <1>13 DEF SetBit, TypeOK
  <2> QED
    BY <1>13, <2>1 DEF SetBit
<1>14. CASE SaveContext
  BY <1>14 DEF SaveContext, Idle
<1>15. CASE Confirm
  BY <1>15 DEF Confirm
<1>16. CASE Lose
  BY <1>16 DEF Lose
<1>17. CASE UNCHANGED vars
  BY <1>17 DEF vars
<1> QED
  BY <1>1, <1>2, <1>3, <1>4, <1>5, <1>6, <1>7, <1>8, <1>9, <1>10, <1>11,
     <1>12, <1>13, <1>14, <1>15, <1>16, <1>17
     DEF Next, Sequence, Handler, Session, Network

(* Whatever CMD 3 and CMD 2 are lost, late or duplicated, a slot counts as *)
(* confirmed only when the platform has it, provided that the FSM task     *)
(* sets a bit it has decided to set before the next slot is read.          *)
THEOREM ConfirmedSlotsAreStored ==
  ASSUME PromptHandler PROVE Spec => []ConfirmedIsStored
<1>1. Init => HandshakeInv
  BY DEF Init, HandshakeInv, ConfirmedIsStored, Sending, Idle
<1>2. TypeOK /\ HandshakeInv /\ [Next]_vars => HandshakeInv'
  BY HandshakeNext
<1>3. HandshakeInv => ConfirmedIsStored
  BY DEF HandshakeInv
<1> QED
  BY <1>1, <1>2, <1>3, TypeCorrect, PTL DEF Spec

-----------------------------------------------------------------------------
(* The shutdown timer *)

(* What the attempts at a slot after the current one can take. *)
Owed == (MaxTries - try) * AckTimeout

(* The timer is fresh where no time can have passed since its restart, and *)
(* longer than what the current slot can still take elsewhere.             *)
TimerInv ==
  /\ seq \in {"expect", "pause"} => timer = ShutdownAfter
  /\ seq \in {"clear", "publish"} => timer > Owed + AckTimeout
  /\ seq = "wait" => timer > Owed + left

LEMMA OwedNext ==
  ASSUME NEW n \in Nat
  PROVE  n * AckTimeout \in Nat /\ (n + 1) * AckTimeout = n * AckTimeout + AckTimeout
BY UploadAssumption

LEMMA OwedType == TypeOK => Owed \in Nat
<1> SUFFICES ASSUME TypeOK PROVE Owed \in Nat
  OBVIOUS
<1>1. MaxTries - try \in Nat
  BY UploadAssumption DEF TypeOK
<1> QED
  BY <1>1, OwedNext DEF Owed

(* An attempt that has failed leaves what the others can take. *)
LEMMA RetryOwes ==
  ASSUME TypeOK, Retry, seq' = "clear"
  PROVE  Owed' \in Nat /\ Owed = Owed' + AckTimeout
<1>1. try < MaxTries /\ try' = try + 1
  BY UploadAssumption DEF TypeOK, Retry
<1>2. MaxTries - try' \in Nat /\ MaxTries - try = (MaxTries - try') + 1
  BY <1>1, UploadAssumption DEF TypeOK
<1>3. /\ (MaxTries - try') * AckTimeout \in Nat
      /\ (MaxTries - try) * AckTimeout
           = (MaxTries - try') * AckTimeout + AckTimeout
  BY <1>2, OwedNext
<1> QED
  BY <1>3 DEF Owed

(* One attempt less is owed. *)
LEMMA LessLeft ==
  ASSUME NEW t \in Nat, NEW o \in Nat, NEW a \in Nat, t > (o + a) + a
  PROVE  t > o + a
OBVIOUS

LEMMA TimerNext ==
  ASSUME ShutdownAfter > MaxTries * AckTimeout, TypeOK, TimerInv, [Next]_vars
  PROVE  TimerInv'
<1> USE UploadAssumption DEF TimerInv, task, net, hist
<1>0. Owed \in Nat /\ timer \in Nat /\ left \in Nat
  BY OwedType DEF TypeOK
<1>1. CASE AskUpload
  BY <1>1 DEF AskUpload, Owed
<1>2. CASE Connect
  BY <1>2 DEF Connect
<1>3. CASE ShutDown \/ Disconnect
  BY <1>3 DEF ShutDown, Disconnect, GoOff
<1>4. CASE Tick
  <2>1. Owed' = Owed /\ seq' = seq
    BY <1>4 DEF Tick, Owed
  <2>2. CASE seq = "wait"
    BY <1>4, <1>0, <2>1, <2>2 DEF Tick, Transferring
  <2>3. CASE seq # "wait"
    BY <1>4, <2>1, <2>3 DEF Tick, Transferring
  <2> QED
    BY <2>2, <2>3
<1>5. CASE Expect
  <2>1. Owed' = (MaxTries - 1) * AckTimeout
    BY <1>5 DEF Expect, Owed
  <2>2. MaxTries - 1 \in Nat /\ MaxTries = (MaxTries - 1) + 1
    OBVIOUS
  <2>3. MaxTries * AckTimeout = Owed' + AckTimeout
    BY <2>1, <2>2, OwedNext
  <2> QED
    BY <1>5, <2>3 DEF Expect
<1>6. CASE ClearBit
  BY <1>6 DEF ClearBit, Owed
<1>7. CASE Publish
  <2>1. CASE Retry
    <3>1. seq' \in {"clear", "fail"} /\ timer' = timer
      BY <1>7, <2>1 DEF Publish, Retry
    <3>2. CASE seq' = "clear"
      <4>1. Owed' \in Nat /\ Owed = Owed' + AckTimeout
        BY <2>1, <3>2, RetryOwes
      <4>2. timer > Owed + AckTimeout
        BY <1>7 DEF Publish
      <4>3. timer' > Owed' + AckTimeout
        BY <1>0, <3>1, <4>1, <4>2, LessLeft
      <4> QED
        BY <3>2, <4>3
    <3> QED
      BY <3>1, <3>2
  <2>2. CASE ~Retry
    <3>1. seq' = "wait" /\ left' = AckTimeout /\ timer' = timer /\ Owed' = Owed
      BY <1>7, <2>2 DEF Publish, Owed
    <3>2. timer > Owed + AckTimeout
      BY <1>7 DEF Publish
    <3> QED
      BY <3>1, <3>2
  <2> QED
    BY <2>1, <2>2
<1>8. CASE Acked
  BY <1>8 DEF Acked
<1>9. CASE WaitTimesOut
  <2>1. Retry /\ timer' = timer /\ seq' \in {"clear", "fail"}
    BY <1>9 DEF WaitTimesOut, Retry
  <2>2. timer > Owed
    BY <1>0, <1>9 DEF WaitTimesOut
  <2>3. seq' = "clear" => Owed' \in Nat /\ Owed = Owed' + AckTimeout
    BY <2>1, RetryOwes
  <2> QED
    BY <2>1, <2>2, <2>3
<1>10. CASE NextSlot
  BY <1>10 DEF NextSlot
<1>11. CASE Fail
  BY <1>11 DEF Fail
<1>12. CASE Receive \/ SetBit \/ SaveContext \/ Confirm \/ Lose
  <2>1. UNCHANGED <<timer, seq, try, left>>
    BY <1>12 DEF Receive, SetBit, SaveContext, Confirm, Lose
  <2> QED
    BY <2>1 DEF Owed
<1>13. CASE UNCHANGED vars
  BY <1>13 DEF vars, Owed
<1> QED
  BY <1>1, <1>2, <1>3, <1>4, <1>5, <1>6, <1>7, <1>8, <1>9, <1>10, <1>11,
     <1>12, <1>13
     DEF Next, Sequence, Handler, Session, Network

(* A shutdown timer that is longer than all attempts at one slot, and that *)
(* a confirmation restarts, never runs out while a slot is being sent.     *)
THEOREM TimerOutlastsEverySlot ==
  ASSUME ShutdownAfter > MaxTries * AckTimeout
  PROVE  Spec => []TimerOutlastsTransfer
<1>1. Init => TimerInv
  BY DEF Init, TimerInv
<1>2. TypeOK /\ TimerInv /\ [Next]_vars => TimerInv'
  BY TimerNext
<1>3. TypeOK /\ TimerInv => TimerOutlastsTransfer
  <2> SUFFICES ASSUME TypeOK, TimerInv, seq \in Transferring
               PROVE  timer > 0
    BY DEF TimerOutlastsTransfer
  <2>1. Owed \in Nat /\ left \in Nat /\ timer \in Nat
    BY OwedType DEF TypeOK
  <2> QED
    BY <2>1, UploadAssumption DEF TimerInv, Transferring
<1> QED
  BY <1>1, <1>2, <1>3, TypeCorrect, PTL DEF Spec

-----------------------------------------------------------------------------
(* The ordered transfer *)

Before(s) == {t \in Slots : t < s}

(* A CMD 3 under way, of this upload or an earlier one, has all slots      *)
(* before it stored, and so has the slot the sequence task is at: every    *)
(* sequence begins at 0, and goes on only from a confirmed slot.           *)
OrderInv ==
  /\ ~online => slot = 0
  /\ \A a \in up : Before(a) \subseteq stored
  /\ seq \in Transferring => Before(slot) \subseteq stored
  /\ seq = "pause" => slot \in stored
  /\ seq = "done" => Slots \subseteq stored

LEMMA BeforeFirst == Before(0) = {}
BY DEF Before, Slots

(* What a confirmed slot adds. *)
LEMMA BeforeNext ==
  ASSUME NEW s \in Slots, NEW S, Before(s) \subseteq S, s \in S
  PROVE  /\ Before(s + 1) \subseteq S
         /\ s >= LastSlot => Slots \subseteq S
BY UploadAssumption DEF Before, Slots

LEMMA OrderNext ==
  ASSUME PromptHandler, TypeOK, HandshakeInv, OrderInv, [Next]_vars
  PROVE  OrderInv'
<1> USE DEF OrderInv, Transferring, task, net, hist
<1>1. CASE AskUpload
  BY <1>1 DEF AskUpload, HandshakeInv
<1>2. CASE Connect
  BY <1>2, BeforeFirst DEF Connect
<1>3. CASE ShutDown \/ Disconnect
  <2>1. GoOff
    BY <1>3 DEF ShutDown, Disconnect
  <2> QED
    BY <2>1 DEF GoOff
<1>4. CASE Tick
  BY <1>4 DEF Tick
<1>5. CASE Expect
  BY <1>5 DEF Expect
<1>6. CASE ClearBit
  BY <1>6 DEF ClearBit
<1>7. CASE Publish
  <2>1. /\ seq' \in {"wait", "clear", "fail"}
        /\ up' \subseteq up \cup {slot}
        /\ UNCHANGED <<online, slot, stored>>
    BY <1>7 DEF Publish, Retry
  <2> QED
    BY <1>7, <2>1 DEF Publish
<1>8. CASE Acked
  BY <1>8 DEF Acked, HandshakeInv
<1>9. CASE WaitTimesOut
  <2>1. seq' \in {"clear", "fail"} /\ UNCHANGED <<online, slot, up, stored>>
    BY <1>9 DEF WaitTimesOut, Retry
  <2> QED
    BY <1>9, <2>1 DEF WaitTimesOut
<1>10. CASE NextSlot
  <2>1. slot \in Slots /\ Before(slot) \subseteq stored /\ slot \in stored
    BY <1>10 DEF NextSlot, TypeOK
  <2>2. /\ Before(slot + 1) \subseteq stored
        /\ slot >= LastSlot => Slots \subseteq stored
    BY <2>1, BeforeNext
  <2>3. slot < LastSlot \/ slot >= LastSlot
    BY <2>1, UploadAssumption DEF Slots
  <2>4. UNCHANGED <<online, up, stored>> /\ online
    BY <1>10 DEF NextSlot, HandshakeInv
  <2>5. CASE slot < LastSlot
    BY <1>10, <2>2, <2>4, <2>5 DEF NextSlot
  <2>6. CASE ~(slot < LastSlot)
    BY <1>10, <2>2, <2>3, <2>4, <2>6 DEF NextSlot
  <2> QED
    BY <2>5, <2>6
<1>11. CASE Fail
  BY <1>11 DEF Fail
<1>12. CASE Receive \/ SetBit \/ SaveContext
  BY <1>12 DEF Receive, SetBit, SaveContext
<1>13. CASE Confirm
  <2>1. up' \subseteq up /\ stored \subseteq stored' /\ UNCHANGED <<online, slot, seq>>
    BY <1>13 DEF Confirm
  <2> QED
    BY <2>1
<1>14. CASE Lose
  <2>1. up' \subseteq up /\ UNCHANGED <<online, slot, seq, stored>>
    BY <1>14 DEF Lose
  <2> QED
    BY <2>1
<1>15. CASE UNCHANGED vars
  BY <1>15 DEF vars
<1> QED
  BY <1>1, <1>2, <1>3, <1>4, <1>5, <1>6, <1>7, <1>8, <1>9, <1>10, <1>11,
     <1>12, <1>13, <1>14, <1>15
     DEF Next, Sequence, Handler, Session, Network

LEMMA StepImplementsTransfer ==
  ASSUME TypeOK, OrderInv, OrderInv', HandshakeInv, [Next]_vars
  PROVE  [Transfer!Next]_<<stored, seq = "done">>
<1> USE DEF task, net, hist
<1>1. CASE AskUpload
  <2>1. stored' = {} /\ seq' = seq /\ seq = "none"
    BY <1>1 DEF AskUpload, HandshakeInv
  <2> QED
    BY <2>1 DEF Transfer!Next, Transfer!Restart
<1>2. CASE Connect
  <2>1. seq = "none" /\ seq' \in {"expect", "none"} /\ stored' = stored
    BY <1>2 DEF Connect, HandshakeInv
  <2> QED
    BY <2>1
<1>3. CASE ShutDown \/ Disconnect
  <2>1. seq' = "none" /\ stored' = stored
    BY <1>3 DEF ShutDown, Disconnect, GoOff
  <2> QED
    BY <2>1 DEF Transfer!Next, Transfer!Forget
<1>4. CASE Sequence
  <2>1. stored' = stored /\ seq # "done"
    BY <1>4 DEF Sequence, Expect, ClearBit, Publish, Acked, WaitTimesOut,
                NextSlot, Fail
  <2>2. CASE seq' = "done"
    <3>1. Slots \subseteq stored
      BY <2>1, <2>2 DEF OrderInv
    <3> QED
      BY <2>1, <2>2, <3>1 DEF Transfer!Next, Transfer!Complete, Slots
  <2>3. CASE seq' # "done"
    BY <2>1, <2>3
  <2> QED
    BY <2>2, <2>3
<1>5. CASE Confirm
  <2>1. PICK a \in up : stored' = stored \cup {a}
    BY <1>5 DEF Confirm
  <2>2. a \in Slots /\ Before(a) \subseteq stored /\ seq' = seq
    BY <1>5, <2>1 DEF Confirm, OrderInv, TypeOK
  <2>3. \A below \in 0 .. LastSlot : below < a => below \in stored
    BY <2>2 DEF Before, Slots
  <2> QED
    BY <2>1, <2>2, <2>3 DEF Transfer!Next, Transfer!Move, Slots
<1>6. CASE Tick \/ Handler \/ Lose
  <2>1. stored' = stored /\ seq' = seq
    BY <1>6 DEF Tick, Handler, Receive, SetBit, SaveContext, Lose
  <2> QED
    BY <2>1
<1>7. CASE UNCHANGED vars
  BY <1>7 DEF vars
<1> QED
  BY <1>1, <1>2, <1>3, <1>4, <1>5, <1>6, <1>7 DEF Next, Session, Network

(* The upload is an ordered transfer, for every number of slots: late      *)
(* copies of an earlier upload and attempts given up leave no gap behind,  *)
(* when the FSM task keeps up.                                             *)
THEOREM ImplementsOrderedTransfer ==
  ASSUME PromptHandler PROVE Spec => ImplementsTransfer
<1>1. Init => HandshakeInv /\ OrderInv
  BY DEF Init, HandshakeInv, ConfirmedIsStored, Sending, Idle, OrderInv,
         Transferring
<1>2. TypeOK /\ HandshakeInv /\ OrderInv /\ [Next]_vars
        => HandshakeInv' /\ OrderInv'
  BY HandshakeNext, OrderNext
<1>3. Init => Transfer!Init
  BY DEF Init, Transfer!Init
<1>4. TypeOK /\ HandshakeInv /\ OrderInv /\ OrderInv' /\ [Next]_vars
        => [Transfer!Next]_<<stored, seq = "done">>
  BY StepImplementsTransfer
<1> QED
  BY <1>1, <1>2, <1>3, <1>4, TypeCorrect, PTL
     DEF Spec, ImplementsTransfer, Transfer!Spec

-----------------------------------------------------------------------------
(* A handler that may be late *)

(* The platform has the slot, or the one before it. *)
Covered(k) == k \in stored \/ (k > 0 /\ k - 1 \in stored)

CoveredBefore(s) == \A k \in Slots : k < s => Covered(k)

(* What is left of the promise when the FSM task may be preempted between  *)
(* the comparison of a CMD 2 and the setting of the bit: a slot that is    *)
(* missing, of those taken for confirmed or of those before one that is    *)
(* stored, is never the first and never follows one that is missing.       *)
GapsAreAlone ==
  /\ \A k \in confirmed : Covered(k)
  /\ \A a \in stored : CoveredBefore(a)
  /\ seq = "done" => CoveredBefore(LastSlot + 1)

(* A late match is one of the slot before, and the bit it sets is cleared  *)
(* with the next confirmed slot: it stands for one slot only.              *)
LateInv ==
  /\ ~online => /\ seq = "none" /\ slot = 0 /\ expected = 0
                /\ rx.step = "idle" /\ down = {}
  /\ down \subseteq stored
  /\ rx.step = "matched" => rx.slot \in stored
  /\ seq \in Sending \cup {"pause"} => expected = slot
  /\ seq = "expect" => expected = slot \/ expected + 1 = slot
  /\ rx.step = "matched" /\ seq \in {"expect", "pause"} => rx.slot = expected
  /\ rx.step = "matched" /\ seq \in Sending => rx.slot = slot \/ rx.slot + 1 = slot
  /\ seq \in {"publish", "wait"} /\ ackBit =>
       /\ rx.step = "matched" => rx.slot = slot
       /\ Covered(slot)

(* The slots sent so far leave no two gaps together. *)
GapInv ==
  /\ \A k \in confirmed : Covered(k)
  /\ \A a \in up \cup stored : CoveredBefore(a)
  /\ seq \in Transferring => CoveredBefore(slot)
  /\ seq = "pause" => Covered(slot)
  /\ seq = "done" => CoveredBefore(LastSlot + 1)

(* What the platform has, it keeps during an upload. *)
LEMMA CoveredStays ==
  ASSUME stored \subseteq stored'
  PROVE  /\ \A k : Covered(k) => Covered(k)'
         /\ \A s : CoveredBefore(s) => CoveredBefore(s)'
BY DEF Covered, CoveredBefore

LEMMA LateNext ==
  ASSUME TypeOK, LateInv, [Next]_vars
  PROVE  LateInv'
<1> USE DEF LateInv, Sending, task, net, hist
<1>0. /\ slot \in Nat /\ expected \in Nat /\ rx.slot \in Nat
      /\ \A a \in down : a \in Nat
  BY UploadAssumption DEF TypeOK, Slots
<1>1. CASE AskUpload
  BY <1>1 DEF AskUpload
<1>2. CASE Connect
  BY <1>2 DEF Connect
<1>3. CASE ShutDown \/ Disconnect
  <2>1. GoOff
    BY <1>3 DEF ShutDown, Disconnect
  <2> QED
    BY <2>1 DEF GoOff, Idle
<1>4. CASE Tick
  <2>1. UNCHANGED <<online, seq, slot, expected, ackBit, rx, down, stored>>
    BY <1>4 DEF Tick
  <2> QED
    BY <2>1, CoveredStays
<1>5. CASE Expect
  BY <1>0, <1>5 DEF Expect
<1>6. CASE ClearBit
  BY <1>6 DEF ClearBit
<1>7. CASE Publish
  <2>1. /\ seq' \in {"wait", "clear", "fail"}
        /\ UNCHANGED <<online, slot, expected, ackBit, rx, down, stored>>
    BY <1>7 DEF Publish, Retry
  <2>2. Covered(slot) => Covered(slot)'
    BY <2>1 DEF Covered
  <2> QED
    BY <1>7, <2>1, <2>2 DEF Publish
<1>8. CASE Acked
  BY <1>8 DEF Acked
<1>9. CASE WaitTimesOut
  <2>1. /\ seq' \in {"clear", "fail"}
        /\ UNCHANGED <<online, slot, expected, rx, down, stored>>
    BY <1>9 DEF WaitTimesOut, Retry
  <2> QED
    BY <1>9, <2>1 DEF WaitTimesOut
<1>10. CASE NextSlot
  <2>1. /\ \/ slot' = slot + 1 /\ seq' = "expect"
           \/ slot' = slot /\ seq' = "done"
        /\ UNCHANGED <<online, expected, rx, down, stored>>
    BY <1>10 DEF NextSlot
  <2> QED
    BY <1>0, <1>10, <2>1 DEF NextSlot
<1>11. CASE Fail
  BY <1>11 DEF Fail
<1>12. CASE Receive
  <2>1. PICK a \in down :
           /\ rx' = [step |-> IF a = expected THEN "matched" ELSE "save",
                     slot |-> a]
           /\ down' \in {down, down \ {a}}
    BY <1>12 DEF Receive
  <2>2. rx'.slot = a /\ (rx'.step = "matched" => a = expected) /\ a \in stored
    BY <2>1
  <2>3. online /\ UNCHANGED <<online, seq, slot, expected, ackBit, stored>>
    BY <1>12 DEF Receive
  <2>4. down' \subseteq stored'
    BY <2>1, <2>3
  <2>5. Covered(slot) => Covered(slot)'
    BY <2>3 DEF Covered
  <2> QED
    BY <1>0, <2>2, <2>3, <2>4, <2>5
<1>13. CASE SetBit
  <2>1. rx.step = "matched" /\ rx'.step = "save"
        /\ UNCHANGED <<online, seq, slot, expected, down, stored>>
    BY <1>13 DEF SetBit, TypeOK
  <2>2. seq \in {"publish", "wait"} => Covered(slot)'
    BY <1>0, <2>1 DEF Covered
  <2> QED
    BY <2>1, <2>2
<1>14. CASE SaveContext
  <2>1. rx'.step = "idle"
        /\ UNCHANGED <<online, seq, slot, expected, ackBit, down, stored>>
    BY <1>14 DEF SaveContext, Idle
  <2>2. Covered(slot) => Covered(slot)'
    BY <2>1 DEF Covered
  <2> QED
    BY <2>1, <2>2
<1>15. CASE Confirm
  <2>1. stored \subseteq stored' /\ down' \subseteq stored'
        /\ (~online => down' = down)
        /\ UNCHANGED <<online, seq, slot, expected, ackBit, rx>>
    BY <1>15 DEF Confirm
  <2>2. Covered(slot) => Covered(slot)'
    BY <2>1 DEF Covered
  <2> QED
    BY <2>1, <2>2
<1>16. CASE Lose
  <2>1. down' \subseteq down
        /\ UNCHANGED <<online, seq, slot, expected, ackBit, rx, stored>>
    BY <1>16 DEF Lose
  <2>2. Covered(slot) => Covered(slot)'
    BY <2>1 DEF Covered
  <2> QED
    BY <2>1, <2>2
<1>17. CASE UNCHANGED vars
  <2>1. UNCHANGED <<online, seq, slot, expected, ackBit, rx, down, stored>>
    BY <1>17 DEF vars
  <2>2. Covered(slot) => Covered(slot)'
    BY <2>1 DEF Covered
  <2> QED
    BY <2>1, <2>2
<1> QED
  BY <1>1, <1>2, <1>3, <1>4, <1>5, <1>6, <1>7, <1>8, <1>9, <1>10, <1>11,
     <1>12, <1>13, <1>14, <1>15, <1>16, <1>17
     DEF Next, Sequence, Handler, Session, Network

(* Nothing comes before the first slot, and a covered slot lets the next   *)
(* one begin; the last one covers them all.                                *)
LEMMA CoveredNext ==
  /\ CoveredBefore(0)
  /\ \A s \in Slots : CoveredBefore(s) /\ Covered(s) => CoveredBefore(s + 1)
  /\ \A s \in Slots : s >= LastSlot => s = LastSlot
BY UploadAssumption DEF CoveredBefore, Slots

LEMMA GapNext ==
  ASSUME TypeOK, LateInv, GapInv, [Next]_vars
  PROVE  GapInv'
<1> USE DEF GapInv, Transferring, task, net, hist
<1> DEFINE Stays == /\ \A k : Covered(k) => Covered(k)'
                    /\ \A s : CoveredBefore(s) => CoveredBefore(s)'
<1>0. stored \subseteq stored' => Stays
  BY CoveredStays
<1> HIDE DEF Stays
<1>s. Stays => /\ \A k : Covered(k) => Covered(k)'
               /\ \A s : CoveredBefore(s) => CoveredBefore(s)'
  BY DEF Stays
<1>1. CASE AskUpload
  BY <1>1 DEF AskUpload, LateInv
<1>2. CASE Connect
  <2>1. /\ UNCHANGED <<slot, up, stored>> /\ slot = 0
        /\ confirmed' \subseteq confirmed
        /\ seq' \in {"expect", "none"}
    BY <1>2 DEF Connect, LateInv
  <2>2. Stays /\ CoveredBefore(slot)'
    BY <1>0, <1>s, <2>1, CoveredNext
  <2> QED
    BY <1>s, <2>1, <2>2
<1>3. CASE ShutDown \/ Disconnect
  <2>1. GoOff
    BY <1>3 DEF ShutDown, Disconnect
  <2>2. seq' = "none" /\ UNCHANGED <<up, stored, confirmed>>
    BY <2>1 DEF GoOff
  <2> QED
    BY <1>0, <1>s, <2>2
<1>4. CASE Expect \/ ClearBit \/ Publish \/ WaitTimesOut
  <2>1. /\ seq \in Transferring /\ UNCHANGED <<slot, stored, confirmed>>
        /\ seq' \in {"clear", "publish", "wait", "fail"}
        /\ up' \subseteq up \cup {slot}
    BY <1>4 DEF Expect, ClearBit, Publish, WaitTimesOut, Retry
  <2>2. Stays
    BY <1>0, <2>1
  <2> QED
    BY <1>s, <2>1, <2>2
<1>5. CASE Acked
  <2>1. /\ seq = "wait" /\ ackBit /\ seq' = "pause"
        /\ confirmed' = confirmed \cup {slot}
        /\ UNCHANGED <<slot, up, stored>>
    BY <1>5 DEF Acked
  <2>2. Covered(slot) /\ Stays
    BY <1>0, <2>1 DEF LateInv
  <2> QED
    BY <1>s, <2>1, <2>2
<1>6. CASE NextSlot
  <2>1. /\ seq = "pause" /\ slot \in Slots /\ UNCHANGED <<up, stored, confirmed>>
        /\ \/ slot < LastSlot /\ slot' = slot + 1 /\ seq' = "expect"
           \/ ~(slot < LastSlot) /\ slot' = slot /\ seq' = "done"
    BY <1>6 DEF NextSlot, TypeOK
  <2>2. CoveredBefore(slot + 1) /\ Stays
    BY <1>0, <2>1, CoveredNext
  <2>3. ~(slot < LastSlot) => slot = LastSlot
    BY <2>1, CoveredNext, UploadAssumption DEF Slots
  <2>4. seq' = "expect" => CoveredBefore(slot)'
    BY <2>1, <2>2 DEF CoveredBefore, Covered
  <2>5. seq' = "done" => CoveredBefore(LastSlot + 1)'
    BY <2>1, <2>2, <2>3 DEF CoveredBefore, Covered
  <2> QED
    BY <1>s, <2>1, <2>2, <2>4, <2>5
<1>7. CASE Fail
  <2>1. seq' = "ended" /\ UNCHANGED <<up, stored, confirmed>>
    BY <1>7 DEF Fail
  <2> QED
    BY <1>0, <1>s, <2>1
<1>8. CASE Confirm
  <2>1. PICK a \in up : stored' = stored \cup {a}
    BY <1>8 DEF Confirm
  <2>2. up' \subseteq up /\ UNCHANGED <<slot, seq, confirmed>>
    BY <1>8 DEF Confirm
  <2>3. Stays
    BY <1>0, <2>1
  <2> QED
    BY <1>s, <2>1, <2>2, <2>3
<1>9. CASE Tick \/ Handler \/ Lose \/ UNCHANGED vars
  <2>1. up' \subseteq up /\ UNCHANGED <<slot, seq, stored, confirmed>>
    BY <1>9 DEF Tick, Handler, Receive, SetBit, SaveContext, Lose, vars
  <2>2. Stays
    BY <1>0, <2>1
  <2> QED
    BY <1>s, <2>1, <2>2
<1> QED
  BY <1>1, <1>2, <1>3, <1>4, <1>5, <1>6, <1>7, <1>8, <1>9
     DEF Next, Sequence, Session, Network

(* The upload as the code has it, with an FSM task that may set the bit of *)
(* the slot before after the next one was announced: for every number of   *)
(* slots and attempts, the sequence goes on, and is complete, with slots   *)
(* missing on the platform only where the slot before is there.            *)
THEOREM LateHandlerLeavesLoneGaps == Spec => []GapsAreAlone
<1>1. Init => LateInv /\ GapInv
  BY CoveredNext DEF Init, LateInv, GapInv, Sending, Transferring, Idle
<1>2. TypeOK /\ LateInv /\ GapInv /\ [Next]_vars => LateInv' /\ GapInv'
  BY LateNext, GapNext
<1>3. GapInv => GapsAreAlone
  BY DEF GapInv, GapsAreAlone
<1> QED
  BY <1>1, <1>2, <1>3, TypeCorrect, PTL DEF Spec

-----------------------------------------------------------------------------
(* An upload comes to its end *)

(* What the upload has still to do at most: the attempts at this slot, and *)
(* all of them at each later one.  An attempt clears the bit, publishes,   *)
(* waits and ends.                                                         *)
AttemptWork == AckTimeout + 3
SlotWork    == MaxTries * AttemptWork + 2
SlotLeft ==
  CASE seq = "expect"  -> SlotWork
    [] seq = "clear"   -> (MaxTries - try) * AttemptWork + AckTimeout + 4
    [] seq = "publish" -> (MaxTries - try) * AttemptWork + AckTimeout + 3
    [] seq = "wait"    -> (MaxTries - try) * AttemptWork + left + 2
    [] seq = "pause"   -> 1
    [] OTHER           -> 0
Work == IF seq \in Transferring THEN (LastSlot - slot) * SlotWork + SlotLeft ELSE 0

(* Every step of the sequence task and every tick it waits brings the      *)
(* upload nearer to its end, whatever the FSM task, the platform and the   *)
(* network do in between: it takes at most (LastSlot + 1) * SlotWork.      *)
UploadAdvances ==
  [][(seq \in Transferring) =>
       Work' < Work \/ UNCHANGED <<timer, seq, slot, try, left>>]_vars

(* What is left to do at the slot in each step, ... *)
LEMMA SlotLeftAt ==
  /\ seq = "expect" => SlotLeft = SlotWork
  /\ seq = "clear" => SlotLeft = (MaxTries - try) * AttemptWork + AckTimeout + 4
  /\ seq = "publish" => SlotLeft = (MaxTries - try) * AttemptWork + AckTimeout + 3
  /\ seq = "wait" => SlotLeft = (MaxTries - try) * AttemptWork + left + 2
  /\ seq = "pause" => SlotLeft = 1
BY DEF SlotLeft

(* ... and in the next one. *)
LEMMA SlotLeftAtNext ==
  /\ seq' = "expect" => SlotLeft' = SlotWork
  /\ seq' = "clear" => SlotLeft' = (MaxTries - try') * AttemptWork + AckTimeout + 4
  /\ seq' = "publish" => SlotLeft' = (MaxTries - try') * AttemptWork + AckTimeout + 3
  /\ seq' = "wait" => SlotLeft' = (MaxTries - try') * AttemptWork + left' + 2
  /\ seq' = "pause" => SlotLeft' = 1
BY DEF SlotLeft

(* Multiples of a number, as far as the work is counted with them. *)
LEMMA Multiples ==
  ASSUME NEW n \in Nat, NEW m \in Nat, NEW k \in Nat, k <= n
  PROVE  /\ n * m \in Nat /\ k * m \in Nat /\ k * m <= n * m
         /\ (n + 1) * m = n * m + m
<1>1. n * m \in Nat /\ k * m \in Nat /\ (n - k) * m \in Nat
  OBVIOUS
<1>2. n * m = k * m + (n - k) * m /\ (n + 1) * m = n * m + m
  OBVIOUS
<1> QED
  BY <1>1, <1>2

(* The work at one slot is a number, that of a fresh slot at most; a slot  *)
(* that is being sent has some left.                                       *)
LEMMA SlotLeftIsNumber ==
  ASSUME TypeOK, seq \in Transferring
  PROVE  /\ SlotWork \in Nat /\ AttemptWork \in Nat
         /\ SlotLeft \in 1 .. SlotWork
<1>1. /\ MaxTries \in Nat /\ MaxTries >= 1 /\ AckTimeout \in Nat
      /\ try \in Nat /\ 1 <= try /\ try <= MaxTries /\ left \in Nat /\ left <= AckTimeout
  BY UploadAssumption DEF TypeOK
<1>2. AttemptWork \in Nat /\ AttemptWork = AckTimeout + 3
  BY <1>1 DEF AttemptWork
<1> DEFINE all  == (MaxTries - 1) * AttemptWork
           rest == (MaxTries - try) * AttemptWork
<1>3. /\ all \in Nat /\ rest \in Nat /\ rest <= all
      /\ MaxTries * AttemptWork = all + AttemptWork
  <2>1. /\ MaxTries - 1 \in Nat /\ MaxTries - try \in Nat
        /\ MaxTries - try <= MaxTries - 1 /\ (MaxTries - 1) + 1 = MaxTries
    BY <1>1
  <2> QED
    BY <1>2, <2>1, Multiples
<1>4. SlotWork = all + AttemptWork + 2
  BY <1>2, <1>3 DEF SlotWork
<1>5. /\ seq = "expect" => SlotLeft = SlotWork
      /\ seq = "clear" => SlotLeft = rest + AckTimeout + 4
      /\ seq = "publish" => SlotLeft = rest + AckTimeout + 3
      /\ seq = "wait" => SlotLeft = rest + left + 2
      /\ seq = "pause" => SlotLeft = 1
  BY SlotLeftAt
<1> HIDE DEF all, rest
<1> QED
  BY <1>1, <1>2, <1>3, <1>4, <1>5 DEF Transferring

(* So is the work of the upload. *)
LEMMA WorkIsNumber ==
  ASSUME TypeOK
  PROVE  /\ Work \in 0 .. (LastSlot + 1) * SlotWork
         /\ seq \in Transferring => Work > 0
<1>1. CASE seq \notin Transferring
  <2>1. Work = 0
    BY <1>1 DEF Work
  <2>2. SlotWork \in Nat
    <3>1. AttemptWork \in Nat /\ MaxTries \in Nat
      BY UploadAssumption DEF AttemptWork
    <3>2. MaxTries * AttemptWork \in Nat
      BY <3>1, Multiples
    <3> QED
      BY <3>2 DEF SlotWork
  <2>3. (LastSlot + 1) * SlotWork \in Nat
    BY <2>2, UploadAssumption, Multiples
  <2> QED
    BY <1>1, <2>1, <2>3
<1>2. CASE seq \in Transferring
  <2>1. SlotWork \in Nat /\ SlotLeft \in 1 .. SlotWork
    BY <1>2, SlotLeftIsNumber
  <2>2. LastSlot \in Nat /\ LastSlot - slot \in Nat /\ LastSlot - slot <= LastSlot
    BY UploadAssumption DEF TypeOK, Slots
  <2> DEFINE later == (LastSlot - slot) * SlotWork
             last  == LastSlot * SlotWork
  <2>3. /\ later \in Nat /\ last \in Nat /\ later <= last
        /\ (LastSlot + 1) * SlotWork = last + SlotWork
    BY <2>1, <2>2, Multiples
  <2>4. Work = later + SlotLeft
    BY <1>2 DEF Work
  <2> HIDE DEF later, last
  <2> QED
    BY <2>1, <2>3, <2>4
<1> QED
  BY <1>1, <1>2

(* A smaller number makes a smaller sum. *)
LEMMA LessSum ==
  ASSUME NEW n \in Nat, NEW k \in Nat, NEW m \in Nat, k < m
  PROVE  n + k < n + m
OBVIOUS

(* A step that stays at its slot lowers the work if it lowers that of the  *)
(* slot.                                                                   *)
LEMMA SameSlot ==
  ASSUME TypeOK, TypeOK', seq \in Transferring, seq' \in Transferring,
         slot' = slot, SlotLeft' \in Nat, SlotLeft' < SlotLeft
  PROVE  Work' < Work
<1>1. SlotWork \in Nat /\ SlotLeft \in Nat
  BY SlotLeftIsNumber
<1> DEFINE later == (LastSlot - slot) * SlotWork
<1>2. later \in Nat
  <2>1. LastSlot - slot \in Nat
    BY UploadAssumption DEF TypeOK, Slots
  <2> QED
    BY <1>1, <2>1, Multiples
<1>3. Work = later + SlotLeft /\ Work' = later + SlotLeft'
  BY DEF Work
<1> HIDE DEF later
<1>4. later + SlotLeft' < later + SlotLeft
  BY <1>1, <1>2, LessSum
<1> QED
  BY <1>3, <1>4

(* A step that ends the upload lowers the work. *)
LEMMA LastStep ==
  ASSUME TypeOK, seq \in Transferring, seq' \notin Transferring
  PROVE  Work' < Work
<1>1. Work' = 0
  BY DEF Work
<1>2. Work > 0
  BY WorkIsNumber
<1> QED
  BY <1>1, <1>2

(* An attempt that fails leaves fewer. *)
LEMMA RetryLowers ==
  ASSUME TypeOK, TypeOK', Retry, slot' = slot,
         \/ seq = "publish"
         \/ seq = "wait"
  PROVE  Work' < Work
<1>0. seq \in Transferring /\ MaxTries \in Nat /\ try \in Nat /\ left \in Nat
      /\ AckTimeout \in Nat /\ AttemptWork \in Nat /\ AttemptWork = AckTimeout + 3
  BY UploadAssumption DEF TypeOK, Transferring, AttemptWork
<1>1. CASE try < MaxTries
  <2>1. try' = try + 1 /\ seq' = "clear"
    BY <1>1 DEF Retry
  <2> DEFINE rest == (MaxTries - try') * AttemptWork
  <2>2. rest \in Nat /\ (MaxTries - try) * AttemptWork = rest + AttemptWork
    <3>1. MaxTries - try' \in Nat /\ MaxTries - try = (MaxTries - try') + 1
      BY <1>0, <1>1, <2>1
    <3> QED
      BY <1>0, <3>1, Multiples
  <2>3. SlotLeft' = rest + AckTimeout + 4
    BY <2>1, SlotLeftAtNext
  <2>4. \/ SlotLeft = (rest + AttemptWork) + AckTimeout + 3
        \/ SlotLeft = (rest + AttemptWork) + left + 2
    BY <2>2, SlotLeftAt
  <2> HIDE DEF rest
  <2>5. SlotLeft' \in Nat /\ SlotLeft' < SlotLeft
    BY <1>0, <2>2, <2>3, <2>4
  <2> QED
    BY <1>0, <2>1, <2>5, SameSlot DEF Transferring
<1>2. CASE ~ (try < MaxTries)
  BY <1>0, <1>2, LastStep DEF Retry, Transferring
<1> QED
  BY <1>1, <1>2

(* No upload runs on a device that is off. *)
OfflineIsIdle == ~online => seq = "none"

(* Every step of the sequence task, and every tick of its wait, lowers the *)
(* work; the other steps leave its state alone.                            *)
LEMMA StepsLowerWork ==
  ASSUME TypeOK, TypeOK', seq \in Transferring, [Next]_vars, OfflineIsIdle
  PROVE  Work' < Work \/ UNCHANGED <<timer, seq, slot, try, left>>
<1> USE DEF task, net, hist
<1>0. /\ MaxTries \in Nat /\ try \in Nat /\ try <= MaxTries /\ MaxTries >= 1
      /\ left \in Nat /\ AckTimeout \in Nat
      /\ AttemptWork \in Nat /\ AttemptWork = AckTimeout + 3
      /\ slot \in Nat /\ LastSlot \in Nat /\ slot <= LastSlot
  BY UploadAssumption DEF TypeOK, AttemptWork, Slots
<1> DEFINE rest == (MaxTries - try) * AttemptWork
<1>r. /\ rest \in Nat
      /\ seq = "clear" => SlotLeft = rest + AckTimeout + 4
      /\ seq = "publish" => SlotLeft = rest + AckTimeout + 3
      /\ seq = "wait" => SlotLeft = rest + left + 2
  <2>1. MaxTries - try \in Nat
    BY <1>0
  <2> QED
    BY <1>0, <2>1, Multiples, SlotLeftAt
<1>1. CASE ShutDown \/ Disconnect
  <2>1. seq' = "none"
    BY <1>1 DEF ShutDown, Disconnect, GoOff
  <2> QED
    BY <2>1, LastStep DEF Transferring
<1>2. CASE Tick
  <2>1. /\ seq = "wait" /\ left > 0 /\ left' = left - 1 /\ left' \in Nat
        /\ seq' = seq /\ try' = try /\ slot' = slot
    BY <1>0, <1>2 DEF Tick
  <2>2. SlotLeft' = rest + left' + 2
    BY <2>1, SlotLeftAtNext
  <2>3. SlotLeft' \in Nat /\ SlotLeft' < SlotLeft
    <3> HIDE DEF rest
    <3> QED
      BY <1>0, <1>r, <2>1, <2>2
  <2> QED
    BY <2>1, <2>3, SameSlot
<1>3. CASE Expect
  <2>1. seq = "expect" /\ seq' \in {"clear", "fail"} /\ try' = 1 /\ slot' = slot
    BY <1>3 DEF Expect
  <2>2. CASE seq' = "clear"
    <3> DEFINE all == (MaxTries - 1) * AttemptWork
    <3>1. all \in Nat /\ MaxTries * AttemptWork = all + AttemptWork
      <4>1. MaxTries - 1 \in Nat /\ MaxTries = (MaxTries - 1) + 1
        BY <1>0
      <4> QED
        BY <1>0, <4>1, Multiples
    <3>2. SlotLeft = MaxTries * AttemptWork + 2
      BY <2>1, SlotLeftAt DEF SlotWork
    <3>3. SlotLeft' = all + AckTimeout + 4
      BY <2>1, <2>2, SlotLeftAtNext
    <3> HIDE DEF all
    <3>4. SlotLeft' \in Nat /\ SlotLeft' < SlotLeft
      BY <1>0, <3>1, <3>2, <3>3
    <3> QED
      BY <2>1, <2>2, <3>4, SameSlot DEF Transferring
  <2>3. CASE seq' = "fail"
    BY <2>3, LastStep DEF Transferring
  <2> QED
    BY <2>1, <2>2, <2>3
<1>4. CASE ClearBit
  <2>1. seq = "clear" /\ seq' = "publish" /\ try' = try /\ slot' = slot
    BY <1>4 DEF ClearBit
  <2>2. SlotLeft' = rest + AckTimeout + 3
    BY <2>1, SlotLeftAtNext
  <2>3. SlotLeft' \in Nat /\ SlotLeft' < SlotLeft
    <3> HIDE DEF rest
    <3> QED
      BY <1>0, <1>r, <2>1, <2>2
  <2> QED
    BY <2>1, <2>3, SameSlot DEF Transferring
<1>5. CASE Publish
  <2>1. seq = "publish" /\ slot' = slot
    BY <1>5 DEF Publish
  <2>2. CASE Retry
    BY <2>1, <2>2, RetryLowers
  <2>3. CASE left' = AckTimeout /\ seq' = "wait" /\ try' = try
    <3>1. SlotLeft' = rest + AckTimeout + 2
      BY <2>3, SlotLeftAtNext
    <3>2. SlotLeft' \in Nat /\ SlotLeft' < SlotLeft
      <4> HIDE DEF rest
      <4> QED
        BY <1>0, <1>r, <2>1, <3>1
    <3> QED
      BY <2>1, <2>3, <3>2, SameSlot DEF Transferring
  <2> QED
    BY <1>5, <2>2, <2>3 DEF Publish
<1>6. CASE Acked
  <2>1. seq = "wait" /\ seq' = "pause" /\ slot' = slot
    BY <1>6 DEF Acked
  <2>2. SlotLeft' = 1
    BY <2>1, SlotLeftAtNext
  <2>3. SlotLeft' \in Nat /\ SlotLeft' < SlotLeft
    <3> HIDE DEF rest
    <3> QED
      BY <1>0, <1>r, <2>1, <2>2
  <2> QED
    BY <2>1, <2>3, SameSlot DEF Transferring
<1>7. CASE WaitTimesOut
  BY <1>7, RetryLowers DEF WaitTimesOut
<1>8. CASE NextSlot
  <2>1. CASE slot < LastSlot
    <3>1. seq = "pause" /\ slot' = slot + 1 /\ seq' = "expect"
      BY <1>8, <2>1 DEF NextSlot
    <3> DEFINE later == (LastSlot - slot') * SlotWork
    <3>2. SlotWork \in Nat
      BY SlotLeftIsNumber
    <3>3. later \in Nat /\ (LastSlot - slot) * SlotWork = later + SlotWork
      <4>1. LastSlot - slot' \in Nat /\ LastSlot - slot = (LastSlot - slot') + 1
        BY <1>0, <2>1, <3>1
      <4> QED
        BY <3>2, <4>1, Multiples
    <3>4. Work = (later + SlotWork) + 1
      BY <3>1, <3>3, SlotLeftAt DEF Work, Transferring
    <3>5. Work' = later + SlotWork
      BY <3>1, SlotLeftAtNext DEF Work, Transferring
    <3> HIDE DEF later
    <3> QED
      BY <3>2, <3>3, <3>4, <3>5
  <2>2. CASE ~ (slot < LastSlot)
    <3>1. seq' = "done"
      BY <1>8, <2>2 DEF NextSlot
    <3> QED
      BY <3>1, LastStep DEF Transferring
  <2> QED
    BY <2>1, <2>2
<1>9. CASE Handler \/ Network \/ UNCHANGED vars
  BY <1>9 DEF Handler, Receive, SetBit, SaveContext, Network, Confirm, Lose, vars
<1>10. ~ (AskUpload \/ Connect \/ Fail)
  BY DEF AskUpload, Connect, Fail, OfflineIsIdle, Transferring
<1> QED
  BY <1>1, <1>2, <1>3, <1>4, <1>5, <1>6, <1>7, <1>8, <1>9, <1>10
     DEF Next, Sequence, Session

(* For every number of slots and attempts and every timeout, an upload is  *)
(* over after (LastSlot + 1) * SlotWork steps of the sequence task and     *)
(* ticks of its waits: each lowers Work, a number so bounded, whatever the *)
(* network loses and however the handler is delayed.                       *)
THEOREM UploadsAreBounded ==
  Spec => UploadAdvances /\ [](Work \in 0 .. (LastSlot + 1) * SlotWork)
<1>1. Init => OfflineIsIdle
  BY DEF Init, OfflineIsIdle
<1>2. OfflineIsIdle /\ [Next]_vars => OfflineIsIdle'
  BY DEF OfflineIsIdle, Next, Sequence, Handler, Session, Network, AskUpload, Connect,
         ShutDown, Disconnect, GoOff, Tick, Expect, ClearBit, Publish, Retry, Acked,
         WaitTimesOut, NextSlot, Fail, Receive, SetBit, SaveContext, Confirm, Lose,
         vars, task, net, hist
<1>3. TypeOK /\ TypeOK' /\ OfflineIsIdle /\ [Next]_vars
        => [(seq \in Transferring) =>
              Work' < Work \/ UNCHANGED <<timer, seq, slot, try, left>>]_vars
  BY StepsLowerWork
<1>4. TypeOK => Work \in 0 .. (LastSlot + 1) * SlotWork
  BY WorkIsNumber
<1> QED
  BY <1>1, <1>2, <1>3, <1>4, TypeCorrect, PTL DEF Spec, UploadAdvances
=============================================================================
