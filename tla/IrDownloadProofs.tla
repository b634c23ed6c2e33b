-------------------------- MODULE IrDownloadProofs --------------------------
(***************************************************************************)
(* Proofs about the IR download, for any number of slots and of troubles.  *)
(* The inductive invariant is TypeOK /\ ChainIsStored: a message under way *)
(* carries what is stored, so that neither losing, repeating nor delaying  *)
(* it can leave a gap.                                                     *)
(***************************************************************************)
EXTENDS IrDownload, TLAPS

Inv == TypeOK /\ ChainIsStored

(* Begin, the index that stands for none, is no slot: it is confirmed by   *)
(* nothing.                                                                *)
LEMMA BeginIsNoSlot == Begin \in Nat /\ Begin \notin Slots /\ LastSlot \in Slots /\ 0 \in Slots
BY DownloadAssumption DEF Begin, Slots

(* The slots up to the last one are all there are. *)
LEMMA BeforeTheEnd == Before(LastSlot + 1) = Slots
BY DownloadAssumption DEF Before, Slots

(* The slots before the next one are those before this one, and this one.  *)
LEMMA BeforeNext ==
  ASSUME NEW s \in Slots
  PROVE  Before(s + 1) = Before(s) \cup {s}
BY DownloadAssumption DEF Before, Slots

(* No slot is before the first. *)
LEMMA BeforeFirst == Before(0) = {}
BY DownloadAssumption DEF Before, Slots

(* Every variable keeps its type: the model of the download is well        *)
(* formed, for any number of slots.                                        *)
THEOREM TypeCorrect == Spec => []TypeOK
<1>1. Init => TypeOK
  <2>1. 0 \in 0 .. MaxTroubles BY DownloadAssumption
  <2>2. Idle \in [step : {"idle", "plan", "context", "clear", "save", "confirm"},
                  slot : Slots, bit : BOOLEAN]
    BY BeginIsNoSlot DEF Idle
  <2> QED BY <2>1, <2>2 DEF Init, TypeOK
<1>2. TypeOK /\ [Next]_vars => TypeOK'
  <2> SUFFICES ASSUME TypeOK, [Next]_vars PROVE TypeOK'
    OBVIOUS
  <2> USE DEF TypeOK
  <2>t. ASSUME Trouble \/ Calm PROVE troubles' \in 0 .. MaxTroubles
    BY <2>t, DownloadAssumption DEF Trouble, Calm
  <2>i. Idle \in [step : {"idle", "plan", "context", "clear", "save", "confirm"},
                  slot : Slots, bit : BOOLEAN]
    BY BeginIsNoSlot DEF Idle
  <2>1. CASE AskDownload BY <2>1 DEF AskDownload, net
  <2>2. CASE AskUpload BY <2>2 DEF AskUpload, net
  <2>3. CASE PowerOn BY <2>3 DEF PowerOn, fram, net
  <2>4. CASE Connect
    <3>1. troubles' \in 0 .. MaxTroubles BY <2>4, <2>t DEF Connect
    <3>2. up' \subseteq Slots \cup {Begin} BY <2>4 DEF Connect
    <3>3. session' \in {"none", "idle", "download", "upload"} BY <2>4 DEF Connect
    <3> QED BY <2>4, <3>1, <3>2, <3>3 DEF Connect, fram
  <2>5. CASE StartShutdown
    <3>1. troubles' \in 0 .. MaxTroubles BY <2>5, <2>t DEF StartShutdown
    <3>2. fsm' \in [step : {"idle", "plan", "context", "clear", "save", "confirm"},
                    slot : Slots, bit : BOOLEAN]
      BY <2>5, BeginIsNoSlot DEF StartShutdown
    <3> QED BY <2>5, <3>1, <3>2 DEF StartShutdown, fram, net
  <2>6. CASE Crash
    BY <2>6, <2>t, <2>i DEF Crash, GoOff
  <2>7. CASE TakeConfirm
    <3>1. fsm' \in [step : {"idle", "plan", "context", "clear", "save", "confirm"},
                    slot : Slots, bit : BOOLEAN]
      BY <2>7, BeginIsNoSlot DEF TakeConfirm
    <3> QED BY <2>7, <3>1 DEF TakeConfirm, fram, net
  <2>8. CASE Receive
    <3> PICK s \in down :
          /\ fsm' = [step |-> IF s = LastSlot THEN "clear" ELSE "save",
                     slot |-> s, bit |-> FALSE]
          /\ \/ down' = down \ {s} /\ Calm
             \/ down' = down /\ Trouble
      BY <2>8 DEF Receive
    <3>1. troubles' \in 0 .. MaxTroubles BY <2>t
    <3> QED BY <2>8, <3>1 DEF Receive, fram
  <2>9. CASE Handler
    <3>1. CASE ClearBit BY <2>t, <3>1 DEF ClearBit, net
    <3>2. CASE SaveSlot
      <4>1. troubles' \in 0 .. MaxTroubles BY <3>2, <2>t DEF SaveSlot
      <4>2. stored' \subseteq Slots BY <3>2 DEF SaveSlot
      <4>3. fsm' \in [step : {"idle", "plan", "context", "clear", "save", "confirm"},
                      slot : Slots, bit : BOOLEAN]
        BY <3>2, <2>i DEF SaveSlot
      <4> QED BY <3>2, <4>1, <4>2, <4>3 DEF SaveSlot, net
    <3>3. CASE ConfirmSlot BY <2>t, <2>i, <3>3 DEF ConfirmSlot, fram
    <3>4. CASE SaveContext BY <2>i, <3>4 DEF SaveContext, net
    <3>5. CASE CutPower BY <2>t, <2>i, <3>5 DEF CutPower, GoOff
    <3> QED BY <2>9, <3>1, <3>2, <3>3, <3>4, <3>5 DEF Handler
  <2>10. CASE Answer
    <3> PICK a \in up :
          /\ told' = (told \/ a = LastSlot)
          /\ down' = IF Online /\ a # LastSlot THEN down \cup {Following(a)}
                                               ELSE down
          /\ \/ up' = up \ {a} /\ Calm
             \/ up' = up /\ Trouble
      BY <2>10 DEF Answer
    <3>1. troubles' \in 0 .. MaxTroubles BY <2>t
    <3>2. a # LastSlot => Following(a) \in Slots
      BY DownloadAssumption DEF Following, Begin, Slots
    <3> QED BY <2>10, <3>1, <3>2 DEF Answer, fram, device
  <2>11. CASE BeginUnasked
    BY <2>11, <2>t, BeginIsNoSlot DEF BeginUnasked, fram, device
  <2>12. CASE Lose
    BY <2>12, <2>t DEF Lose, fram, device
  <2>13. CASE UNCHANGED vars
    BY <2>13 DEF vars, fram, device, net
  <2> QED
    BY <2>1, <2>2, <2>3, <2>4, <2>5, <2>6, <2>7, <2>8, <2>9, <2>10, <2>11, <2>12,
       <2>13 DEF Next
<1> QED
  BY <1>1, <1>2, PTL DEF Spec

-----------------------------------------------------------------------------

(* Every message under way, and the FSM task's own, carries what is        *)
(* stored: no step of the device, the platform or the network disturbs it. *)
LEMMA ChainStep ==
  ASSUME TypeOK, ChainIsStored, Next
  PROVE  ChainIsStored'
<1> USE DEF ChainIsStored
<1>1. CASE AskDownload BY <1>1 DEF AskDownload, net
<1>2. CASE AskUpload BY <1>2 DEF AskUpload, net
<1>3. CASE PowerOn BY <1>3 DEF PowerOn, fram, net
<1>4. CASE Connect
  <2>1. up' \ {Begin} \subseteq up BY <1>4 DEF Connect
  <2> QED BY <1>4, <2>1 DEF Connect, fram
<1>5. CASE StartShutdown
  BY <1>5 DEF StartShutdown, fram, net
<1>6. CASE Crash
  BY <1>6 DEF Crash, GoOff, Idle
<1>7. CASE TakeConfirm
  BY <1>7 DEF TakeConfirm, fram, net
<1>8. CASE Receive
  <2> PICK s \in down :
        /\ fsm' = [step |-> IF s = LastSlot THEN "clear" ELSE "save",
                   slot |-> s, bit |-> FALSE]
        /\ \/ down' = down \ {s} /\ Calm
           \/ down' = down /\ Trouble
    BY <1>8 DEF Receive
  <2>1. fsm'.slot = s /\ fsm'.step # "confirm" OBVIOUS
  <2>2. fsm'.step = "clear" => s = LastSlot OBVIOUS
  <2>3. Before(s) \subseteq stored OBVIOUS
  <2> QED BY <1>8, <2>1, <2>2, <2>3 DEF Receive, fram
<1>9. CASE ClearBit
  <2>1. fsm'.slot = fsm.slot /\ fsm'.step = "save" BY <1>9 DEF ClearBit, TypeOK
  <2> QED BY <1>9, <2>1 DEF ClearBit, net
<1>10. CASE SaveSlot
  <2>1. stored \subseteq stored' BY <1>10 DEF SaveSlot
  <2>2. CASE fsm' = Idle BY <1>10, <2>1, <2>2 DEF SaveSlot, Idle, net
  <2>3. CASE stored' = stored \cup {fsm.slot} /\ fsm' = [fsm EXCEPT !.step = "confirm"]
    <3>1. fsm'.slot = fsm.slot /\ fsm'.step = "confirm" BY <2>3 DEF TypeOK
    <3>2. fsm.slot \in stored' /\ Before(fsm.slot) \subseteq stored'
      BY <1>10, <2>3 DEF SaveSlot
    <3> QED BY <1>10, <2>1, <3>1, <3>2 DEF SaveSlot, net
  <2> QED BY <1>10, <2>2, <2>3 DEF SaveSlot
<1>11. CASE ConfirmSlot
  <2>1. fsm.slot \in Slots BY DEF TypeOK
  <2>2. Before(fsm.slot + 1) \subseteq stored
    BY <1>11, <2>1, BeforeNext DEF ConfirmSlot
  <2>3. up' \subseteq up \cup {fsm.slot} BY <1>11 DEF ConfirmSlot
  <2> QED BY <1>11, <2>2, <2>3 DEF ConfirmSlot, fram, Idle
<1>12. CASE SaveContext BY <1>12 DEF SaveContext, net, Idle
<1>13. CASE CutPower BY <1>13 DEF CutPower, GoOff, Idle
<1>14. CASE Answer
  <2> PICK a \in up :
        /\ told' = (told \/ a = LastSlot)
        /\ down' = IF Online /\ a # LastSlot THEN down \cup {Following(a)}
                                             ELSE down
        /\ \/ up' = up \ {a} /\ Calm
           \/ up' = up /\ Trouble
    BY <1>14 DEF Answer
  <2>1. UNCHANGED <<stored, fsm>> BY <1>14 DEF Answer, fram, device
  <2>2. told' => Slots \subseteq stored
    BY BeginIsNoSlot, BeforeTheEnd
  <2>3. a # LastSlot => Before(Following(a)) \subseteq stored
    <3>1. CASE a = Begin BY <3>1, BeforeFirst DEF Following
    <3>2. CASE a # Begin BY <3>2 DEF Following
    <3> QED BY <3>1, <3>2
  <2>4. \A s \in down' : Before(s) \subseteq stored BY <2>3
  <2>5. up' \subseteq up OBVIOUS
  <2>6. Before(LastSlot)' = Before(LastSlot) OBVIOUS
  <2> QED BY <2>1, <2>2, <2>4, <2>5
<1>15. CASE BeginUnasked
  BY <1>15, BeforeFirst DEF BeginUnasked, fram, device
<1>16. CASE Lose
  <2>1. up' \subseteq up /\ down' \subseteq down BY <1>16 DEF Lose
  <2> QED BY <1>16, <2>1 DEF Lose, fram, device
<1> QED
  BY <1>1, <1>2, <1>3, <1>4, <1>5, <1>6, <1>7, <1>8, <1>9, <1>10, <1>11, <1>12,
     <1>13, <1>14, <1>15, <1>16 DEF Next, Handler

(* Every slot before one that is under way, handled or confirmed is        *)
(* stored, for any number of slots, losses, repetitions and power cuts.    *)
THEOREM ChainStored == Spec => []ChainIsStored
<1>1. Init => ChainIsStored
  BY DEF Init, ChainIsStored, Idle
<1>2. TypeOK /\ ChainIsStored /\ [Next]_vars => ChainIsStored'
  <2>1. CASE Next BY <2>1, ChainStep
  <2>2. CASE UNCHANGED vars
    BY <2>2 DEF vars, fram, device, net, ChainIsStored
  <2> QED BY <2>1, <2>2
<1> QED
  BY <1>1, <1>2, TypeCorrect, PTL DEF Spec

(* When CMD 8 clears the DOWNLOAD bit, every slot but the last is stored:  *)
(* what a cut or an error just then costs is one slot.                     *)
THEOREM BitClearedAtTheEnd == Spec => ClearedAtTheEnd
<1>1. TypeOK /\ ChainIsStored /\ [Next]_vars
        => [ClearBit => \A s \in Slots : s # LastSlot => s \in stored]_vars
  <2> SUFFICES ASSUME TypeOK, ChainIsStored, ClearBit, NEW s \in Slots, s # LastSlot
               PROVE  s \in stored
    OBVIOUS
  <2>1. s \in Before(LastSlot) BY DownloadAssumption DEF Before, Slots
  <2>2. Before(LastSlot) \subseteq stored BY DEF ClearBit, ChainIsStored
  <2> QED BY <2>1, <2>2
<1> QED
  BY <1>1, TypeCorrect, ChainStored, PTL DEF Spec, ClearedAtTheEnd

(* The download implements the ordered transfer: a slot is stored only     *)
(* when all before it are, and the platform takes the download for         *)
(* complete only when all are.                                             *)
THEOREM ImplementsOrderedTransfer == Spec => ImplementsTransfer
<1>1. Init => Transfer!Init
  BY DEF Init, Transfer!Init
<1>2. TypeOK /\ ChainIsStored /\ [Next]_vars => [Transfer!Next]_<<stored, told>>
  <2> SUFFICES ASSUME TypeOK, ChainIsStored, [Next]_vars
               PROVE  [Transfer!Next]_<<stored, told>>
    OBVIOUS
  <2>1. CASE SaveSlot
    <3>1. CASE stored' = stored BY <2>1, <3>1 DEF SaveSlot, net
    <3>2. CASE stored' = stored \cup {fsm.slot}
      <4>1. fsm.slot \in 0 .. LastSlot BY DEF TypeOK, Slots
      <4>2. \A b \in 0 .. LastSlot : b < fsm.slot => b \in stored
        BY <2>1 DEF SaveSlot, ChainIsStored, Before, Slots
      <4>3. told' = told BY <2>1 DEF SaveSlot, net
      <4>4. Transfer!Move BY <3>2, <4>1, <4>2, <4>3 DEF Transfer!Move
      <4> QED BY <4>4 DEF Transfer!Next
    <3> QED BY <2>1, <3>1, <3>2 DEF SaveSlot
  <2>2. CASE Answer
    <3>1. stored' = stored BY <2>2 DEF Answer, fram
    <3>2. CASE told' = told BY <3>1, <3>2
    <3>3. CASE told' # told
      <4>1. PICK a \in up : told' = (told \/ a = LastSlot) BY <2>2 DEF Answer
      <4>2. a = LastSlot /\ told' = TRUE BY <3>3, <4>1 DEF TypeOK
      <4>3. Slots \subseteq stored
        BY <4>2, BeginIsNoSlot, BeforeTheEnd DEF ChainIsStored
      <4>4. Transfer!Complete
        BY <3>1, <4>2, <4>3 DEF Transfer!Complete, Slots
      <4> QED BY <4>4 DEF Transfer!Next
    <3> QED BY <3>2, <3>3
  <2>3. CASE UNCHANGED <<stored, told>> BY <2>3
  <2>4. ASSUME ~SaveSlot, ~Answer PROVE UNCHANGED <<stored, told>>
    BY <2>4 DEF Next, Handler, AskDownload, AskUpload, PowerOn, Connect,
      StartShutdown, Crash, GoOff, TakeConfirm, Receive, ClearBit, ConfirmSlot,
      SaveContext, CutPower, BeginUnasked, Lose, vars, fram, net, device
  <2> QED BY <2>1, <2>2, <2>3, <2>4
<1> QED
  BY <1>1, <1>2, TypeCorrect, ChainStored, PTL
    DEF Spec, ImplementsTransfer, Transfer!Spec
=============================================================================
