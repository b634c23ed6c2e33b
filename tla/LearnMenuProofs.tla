--------------------------- MODULE LearnMenuProofs ---------------------------
(***************************************************************************)
(* Proofs about the local menu, for any number of slots, and of starts and *)
(* writes.  The inductive invariant adds to the type invariant what the    *)
(* menu task is saving (JobOK), where the signals come from (SignalsOK),   *)
(* what has been learned while a job is under way (LearnedOK), and that a  *)
(* write the menu has enabled stays enabled when it is alone (LatchOK).    *)
(***************************************************************************)
EXTENDS LearnMenu, TLAPS

Finishing == job.kind \in {"finish", "prompt"}

JobOK ==
  /\ job.kind = "none" => job.left = {}
  /\ job.kind = "disable" => menu = "min temp" /\ job.left \subseteq Unused(minTemp)
  /\ job.kind = "learn" => /\ menu = "learn" /\ ~prompt /\ captured # Nothing
                           /\ job.left \subseteq {index}
  /\ Finishing => menu = "learn" /\ ~prompt /\ index = LastSlot /\ captured = Nothing
  /\ job.kind \in {"finish", "hold", "download"} => job.left \subseteq {Context}
  /\ job.kind \in {"prompt", "end"} => job.left = {}
  /\ job.enabled => job.left # {}

SignalsOK ==
  /\ captured # Nothing => menu = "learn" /\ captured \in {index} \cup ShownBefore(index)
  /\ menu = "learn" /\ ~prompt => receiver \in {Nothing, index} \cup ShownBefore(index)
  /\ captured # Nothing \/ Finishing => receiver \in {Nothing, index} \/ menu # "learn"
  /\ prompt => receiver \in {Nothing, index, AtPrompt} \/ menu # "learn"
  /\ prompt /\ menu = "learn" => captured = Nothing /\ index = LastSlot

LearnedOK ==
  /\ job.kind = "disable" =>
       \A s \in Unused(minTemp) \ lost : s \in job.left \/ slots[s] \in {Disabled, Remote}
  /\ job.kind = "learn" =>
       index \in job.left \/ index \in lost \/ slots[index] \in Commands
  /\ Finishing => LearnedUpTo(LastSlot + 1)

LatchOK ==
  /\ job.enabled => wel \/ session
  /\ fsmWrite => session

Inv == /\ TypeOK /\ JobOK /\ SignalsOK /\ LearnedOK /\ LatchOK
       /\ RightCommand /\ PromptMeansComplete

-----------------------------------------------------------------------------
(* The order of the slots *)

(* The next slot is later, is used, and skips only slots that are not.     *)
LEMMA NextIndexIsNext ==
  ASSUME NEW i \in Slots, NEW t \in 0 .. 2
  PROVE  /\ NextIndex(i, t) \in Nat
         /\ NextIndex(i, t) > i
         /\ NextIndex(i, t) \notin Unused(t)
         /\ \A s \in Slots : i < s /\ s < NextIndex(i, t) => s \in Unused(t)
         /\ NextIndex(i, t) > LastSlot => i = LastSlot
<1>1. i \in Nat /\ i <= LastSlot BY MenuAssumption DEF Slots
<1>2. CASE t = 1 /\ i + 1 = Temp16
  <2>1. NextIndex(i, t) = Temp17 BY <1>2 DEF NextIndex
  <2> QED BY <1>1, <1>2, <2>1, MenuAssumption DEF Temp16, Temp17, Temp18, Unused, Slots
<1>3. CASE t = 2 /\ i + 1 \in {Temp16, Temp17}
  <2>1. NextIndex(i, t) = Temp18 BY <1>3 DEF NextIndex, Temp16, Temp17
  <2> QED BY <1>1, <1>3, <2>1, MenuAssumption DEF Temp16, Temp17, Temp18, Unused, Slots
<1>4. CASE ~(t = 1 /\ i + 1 = Temp16) /\ ~(t = 2 /\ i + 1 \in {Temp16, Temp17})
  <2>1. NextIndex(i, t) = i + 1 BY <1>4 DEF NextIndex
  <2> QED BY <1>1, <1>4, <2>1, MenuAssumption DEF Temp16, Temp17, Temp18, Unused, Slots
<1> QED BY <1>2, <1>3, <1>4

(* The slot that is shown is the one before the next, and the last one is  *)
(* the one before the first.                                               *)
LEMMA ShownInTurn ==
  /\ \A i \in Slots, t \in 0 .. 2 : i \in ShownBefore(NextIndex(i, t))
  /\ LastSlot \in ShownBefore(0) /\ AtPrompt \in ShownBefore(0)
BY MenuAssumption DEF ShownBefore, Slots

(* The slots that may be unused are slots, and the first is used.          *)
LEMMA UnusedAreSlots ==
  ASSUME NEW t \in 0 .. 2
  PROVE  /\ Unused(t) \subseteq Slots /\ 0 \notin Unused(t)
         /\ 0 \in Slots /\ LastSlot \in Slots
BY MenuAssumption DEF Unused, Slots, Temp16, Temp17

Kinds == {"none", "disable", "learn", "finish", "hold", "download", "prompt", "end"}

Jobs == [kind : Kinds, left : SUBSET (Slots \cup {Context}), enabled : BOOLEAN]

(* A job that has just been given is one. *)
LEMMA JobIsJob ==
  ASSUME NEW k \in Kinds, NEW r \in SUBSET (Slots \cup {Context})
  PROVE  /\ Job(k, r) \in Jobs
         /\ Job(k, r).kind = k /\ Job(k, r).left = r /\ ~Job(k, r).enabled
BY DEF Job, Jobs

(* No job is one, too. *)
LEMMA NoJobIsJob ==
  NoJob \in Jobs /\ NoJob.kind = "none" /\ NoJob.left = {} /\ ~NoJob.enabled
BY DEF NoJob, Jobs, Kinds

(* The parts of a job that a step changes. *)
LEMMA JobChanges ==
  ASSUME job \in Jobs
  PROVE  /\ LET j == [job EXCEPT !.enabled = TRUE]
            IN  j \in Jobs /\ j.kind = job.kind /\ j.left = job.left /\ j.enabled
         /\ \A r : LET j == [job EXCEPT !.left = @ \ {r}, !.enabled = FALSE]
                  IN  j \in Jobs /\ j.kind = job.kind /\ j.left = job.left \ {r}
                      /\ ~j.enabled
         /\ LET j == [job EXCEPT !.kind = IF @ = "finish" THEN "prompt" ELSE "end"]
            IN  /\ j \in Jobs /\ j.left = job.left /\ j.enabled = job.enabled
                /\ j.kind = IF job.kind = "finish" THEN "prompt" ELSE "end"
         /\ LET j == [job EXCEPT !.left = {}, !.kind = IF @ = "finish" THEN "prompt" ELSE "end"]
            IN  /\ j \in Jobs /\ j.left = {} /\ j.enabled = job.enabled
                /\ j.kind = IF job.kind = "finish" THEN "prompt" ELSE "end"
BY DEF Jobs, Kinds

-----------------------------------------------------------------------------
(* One step *)

(* No step of the menu, of the FSM task or of the power breaks the         *)
(* invariant.                                                              *)
LEMMA MenuStep ==
  ASSUME Inv, Next
  PROVE  Inv'
<1>j. job \in Jobs BY DEF Inv, TypeOK, Jobs, Kinds
<1> USE DEF Inv
<1>1. CASE Hear
  <2>1. TypeOK'
    <3>1. receiver' \in Signals \cup {Nothing} BY <1>1 DEF Hear, TypeOK, Signals
    <3>2. /\ UNCHANGED <<on, task, menu, minTemp, index, prompt, captured>>
          /\ UNCHANGED <<job, session, fsmWrite, wel, slots, lost, boots, saves>>
      BY <1>1 DEF Hear, screen, fram, others
    <3>4. /\ on' \in BOOLEAN /\ task' \in {"alive", "ended"}
          /\ menu' \in {"main", "min temp", "learn", "test", "download"}
          /\ minTemp' \in 0 .. 2 /\ index' \in Slots /\ prompt' \in BOOLEAN
          /\ captured' \in Signals \cup {Nothing} /\ receiver' \in Signals \cup {Nothing}
          /\ session' \in BOOLEAN /\ fsmWrite' \in BOOLEAN /\ wel' \in BOOLEAN
      BY <3>1, <3>2 DEF TypeOK
    <3>5. /\ slots' \in [Slots -> Commands \cup {Nothing, Disabled}]
          /\ lost' \subseteq Slots \cup {Context} /\ job' \in Jobs
      BY <3>1, <3>2, <1>j DEF TypeOK
    <3>6. boots' \in 0 .. MaxBoots /\ saves' \in 0 .. MaxSaves BY <3>1, <3>2 DEF TypeOK
    <3> QED BY <3>4, <3>5, <3>6 DEF TypeOK, Jobs, Kinds
  <2>2. SignalsOK'
    <3>1. /\ menu = "learn" /\ ~prompt => receiver' = index
          /\ menu = "learn" /\ prompt => receiver' = AtPrompt
          /\ UNCHANGED <<menu, prompt, index, captured, job>>
      BY <1>1 DEF Hear, TypeOK, screen
    <3>2. \A i : ShownBefore(i)' = ShownBefore(i)
      BY DEF ShownBefore
    <3>3. prompt \in BOOLEAN BY DEF TypeOK
    <3>4. Finishing => ~prompt BY DEF JobOK
    <3>5. captured # Nothing => ~prompt \/ menu # "learn" BY DEF SignalsOK
    <3> QED BY <3>1, <3>2, <3>3, <3>4, <3>5 DEF SignalsOK, Finishing
  <2>3. JobOK' /\ LearnedOK' /\ LatchOK' /\ RightCommand' /\ PromptMeansComplete'
    BY <1>1 DEF Hear, JobOK, LearnedOK, LatchOK, RightCommand, PromptMeansComplete, Finishing, LearnedUpTo, screen, ir, fram, others
  <2> QED BY <2>1, <2>2, <2>3
<1>2. CASE Capture
  <2>p. job = NoJob BY <1>2 DEF Capture, Polling
  <2>1. TypeOK'
    BY <1>j, <1>2, <2>p, NoJobIsJob DEF Capture, TypeOK, Jobs, Kinds, Signals, Commands, screen, ir, fram, others
  <2>2. JobOK'
    BY <1>j, <1>2, <2>p, NoJobIsJob DEF Capture, JobOK, Finishing, screen, ir, fram, others
  <2>3. SignalsOK'
    BY <1>j, <1>2, <2>p, NoJobIsJob DEF Capture, SignalsOK, Finishing, screen, ir, fram, others
  <2>4. LearnedOK' /\ LatchOK' /\ RightCommand' /\ PromptMeansComplete'
    BY <1>2 DEF Capture, LearnedOK, LatchOK, RightCommand, PromptMeansComplete, Finishing, LearnedUpTo, screen, ir, fram, others
  <2> QED BY <2>1, <2>2, <2>3, <2>4
<1>3. CASE EnterMain
  <2>p. job = NoJob BY <1>3 DEF EnterMain, Polling
  <2>1. TypeOK'
    <3>1. /\ menu' \in {"min temp", "test", "download"}
          /\ index' \in Slots /\ prompt' \in BOOLEAN /\ captured' \in Signals \cup {Nothing}
      BY <1>3, UnusedAreSlots DEF EnterMain, TypeOK
    <3>2. UNCHANGED <<task, minTemp, receiver, job, fram, others>> BY <1>3 DEF EnterMain
    <3> QED BY <3>1, <3>2 DEF TypeOK, fram, others
  <2>2. JobOK'
    BY <1>j, <1>3, <2>p, NoJobIsJob DEF EnterMain, JobOK, Finishing, screen, ir, fram, others
  <2>3. SignalsOK'
    BY <1>j, <1>3, <2>p, NoJobIsJob DEF EnterMain, SignalsOK, Finishing, screen, ir, fram, others
  <2>4. LearnedOK'
    BY <1>j, <1>3, <2>p, NoJobIsJob DEF EnterMain, LearnedOK, LearnedUpTo, Finishing, screen, ir, fram, others
  <2>5. PromptMeansComplete'
    BY <1>j, <1>3, <2>p, NoJobIsJob DEF EnterMain, PromptMeansComplete, LearnedUpTo, screen, ir, fram, others
  <2>6. LatchOK' /\ RightCommand'
    BY <1>3 DEF EnterMain, LatchOK, RightCommand, Finishing, LearnedUpTo, screen, ir, fram, others
  <2> QED BY <2>1, <2>2, <2>3, <2>4, <2>5, <2>6
<1>4. CASE EnterMinTemp
  <2>p. job = NoJob BY <1>4 DEF EnterMinTemp, Polling
  <2>u. minTemp' \in 0 .. 2 /\ Unused(minTemp') \in SUBSET (Slots \cup {Context})
    <3>1. minTemp' \in 0 .. 2 BY <1>4 DEF EnterMinTemp
    <3>2. Unused(minTemp') \subseteq Slots BY <3>1, UnusedAreSlots
    <3> QED BY <3>1, <3>2
  <2>j. job'.kind = "disable" /\ job'.left = Unused(minTemp') /\ ~job'.enabled /\ job' \in Jobs
    <3>1. job' = Job("disable", Unused(minTemp')) /\ "disable" \in Kinds
      BY <1>4 DEF EnterMinTemp, Kinds
    <3> QED BY <2>u, <3>1, JobIsJob
  <2>1. TypeOK'
    BY <1>j, <1>4, <2>p, <2>u, <2>j, NoJobIsJob DEF EnterMinTemp, TypeOK, Jobs, Kinds, Signals, Commands, screen, ir, fram, others
  <2>2. JobOK'
    BY <1>j, <1>4, <2>p, <2>u, <2>j, NoJobIsJob DEF EnterMinTemp, JobOK, Finishing, screen, ir, fram, others
  <2>3. SignalsOK'
    BY <1>j, <1>4, <2>p, <2>u, <2>j, NoJobIsJob DEF EnterMinTemp, SignalsOK, Finishing, screen, ir, fram, others
  <2>4. LearnedOK'
    BY <1>j, <1>4, <2>p, <2>u, <2>j, NoJobIsJob DEF EnterMinTemp, LearnedOK, LearnedUpTo, Finishing, screen, ir, fram, others
  <2>5. LatchOK'
    BY <1>j, <1>4, <2>p, <2>u, <2>j, NoJobIsJob DEF EnterMinTemp, LatchOK, screen, ir, fram, others
  <2>6. PromptMeansComplete'
    BY <1>j, <1>4, <2>p, <2>u, <2>j, NoJobIsJob DEF EnterMinTemp, PromptMeansComplete, LearnedUpTo, screen, ir, fram, others
  <2>7. RightCommand'
    BY <1>4 DEF EnterMinTemp, RightCommand, Finishing, LearnedUpTo, screen, ir, fram, others
  <2> QED BY <2>1, <2>2, <2>3, <2>4, <2>5, <2>6, <2>7
<1>5. CASE EnterPrompt
  <2>p. job = NoJob BY <1>5 DEF EnterPrompt, Polling
  <2>k. /\ UNCHANGED <<task, minTemp, receiver, job, fram, others>> /\ prompt' = FALSE
        /\ menu = "learn" /\ prompt /\ captured = Nothing /\ captured' = Nothing
        /\ index = LastSlot
        /\ \/ menu' = "main" /\ index' = index
           \/ menu' = "learn" /\ index' = 0
    BY <1>5 DEF EnterPrompt, SignalsOK
  <2>1. TypeOK'
    <3>1. index' \in Slots /\ menu' \in {"main", "learn"} BY <2>k, UnusedAreSlots DEF TypeOK
    <3> QED BY <2>k, <3>1 DEF TypeOK, fram, others
  <2>2. JobOK'
    BY <1>j, <1>5, <2>p, <2>k, NoJobIsJob DEF EnterPrompt, JobOK, Finishing, screen, ir, fram, others
  <2>3. SignalsOK'
    <3>1. receiver \in {Nothing, LastSlot, AtPrompt} BY <2>k DEF SignalsOK
    <3>2. menu' = "learn" => receiver' \in {Nothing, index'} \cup ShownBefore(index')
      BY <2>k, <3>1, ShownInTurn
    <3>3. ShownBefore(index)' = ShownBefore(index') BY DEF ShownBefore
    <3> QED BY <2>k, <2>p, <3>2, <3>3, NoJobIsJob DEF SignalsOK, Finishing
  <2>4. LearnedOK'
    BY <1>j, <1>5, <2>p, <2>k, NoJobIsJob DEF EnterPrompt, LearnedOK, LearnedUpTo, Finishing, screen, ir, fram, others
  <2>5. PromptMeansComplete'
    <3>1. LearnedUpTo(LastSlot + 1) BY <2>k DEF PromptMeansComplete
    <3>2. \A s \in Slots : ~(s < 0) BY MenuAssumption DEF Slots
    <3>3. 0 \notin Unused(minTemp) BY UnusedAreSlots DEF TypeOK
    <3> QED BY <2>k, <3>1, <3>2, <3>3 DEF PromptMeansComplete, LearnedUpTo, fram
  <2>6. LatchOK' /\ RightCommand'
    BY <1>5 DEF EnterPrompt, LatchOK, RightCommand, Finishing, LearnedUpTo, screen, ir, fram, others
  <2> QED BY <2>1, <2>2, <2>3, <2>4, <2>5, <2>6
<1>6. CASE SelectSave
  <2>p. job = NoJob BY <1>6 DEF SelectSave, Polling
  <2>j. job'.kind = "learn" /\ job'.left = {index} /\ ~job'.enabled /\ job' \in Jobs
    BY <1>j, <1>6, <2>p, JobIsJob DEF Kinds, SelectSave, TypeOK
  <2>1. TypeOK'
    BY <1>j, <1>6, <2>p, <2>j, NoJobIsJob DEF SelectSave, TypeOK, Jobs, Kinds, Signals, Commands, screen, ir, fram, others
  <2>2. JobOK'
    BY <1>j, <1>6, <2>p, <2>j, NoJobIsJob DEF SelectSave, JobOK, Finishing, screen, ir, fram, others
  <2>3. SignalsOK'
    BY <1>j, <1>6, <2>p, <2>j, NoJobIsJob DEF SelectSave, SignalsOK, Finishing, screen, ir, fram, others
  <2>4. LearnedOK'
    BY <1>j, <1>6, <2>p, <2>j, NoJobIsJob DEF SelectSave, LearnedOK, LearnedUpTo, Finishing, screen, ir, fram, others
  <2>5. LatchOK'
    BY <1>j, <1>6, <2>p, <2>j, NoJobIsJob DEF SelectSave, LatchOK, screen, ir, fram, others
  <2>6. RightCommand' /\ PromptMeansComplete'
    BY <1>6 DEF SelectSave, RightCommand, PromptMeansComplete, Finishing, LearnedUpTo, screen, ir, fram, others
  <2> QED BY <2>1, <2>2, <2>3, <2>4, <2>5, <2>6
<1>7. CASE EnterDiscard
  <2>p. job = NoJob BY <1>7 DEF EnterDiscard, Polling
  <2>1. TypeOK'
    BY <1>j, <1>7, <2>p, NoJobIsJob DEF EnterDiscard, TypeOK, Jobs, Kinds, Signals, Commands, screen, ir, fram, others
  <2>2. JobOK'
    BY <1>j, <1>7, <2>p, NoJobIsJob DEF EnterDiscard, JobOK, Finishing, screen, ir, fram, others
  <2>3. SignalsOK'
    BY <1>j, <1>7, <2>p, NoJobIsJob DEF EnterDiscard, SignalsOK, Finishing, screen, ir, fram, others
  <2>4. LearnedOK' /\ LatchOK' /\ RightCommand' /\ PromptMeansComplete'
    BY <1>7 DEF EnterDiscard, LearnedOK, LatchOK, RightCommand, PromptMeansComplete, Finishing, LearnedUpTo, screen, ir, fram, others
  <2> QED BY <2>1, <2>2, <2>3, <2>4
<1>8. CASE EnterTest
  <2>p. job = NoJob BY <1>8 DEF EnterTest, Polling
  <2>1. TypeOK'
    BY <1>j, <1>8, <2>p, NoJobIsJob DEF EnterTest, TypeOK, Jobs, Kinds, Signals, Commands, screen, ir, fram, others
  <2>2. SignalsOK'
    BY <1>j, <1>8, <2>p, NoJobIsJob DEF EnterTest, SignalsOK, Finishing, screen, ir, fram, others
  <2>3. JobOK' /\ LearnedOK' /\ LatchOK' /\ RightCommand' /\ PromptMeansComplete'
    BY <1>8 DEF EnterTest, JobOK, LearnedOK, LatchOK, RightCommand, PromptMeansComplete, Finishing, LearnedUpTo, screen, ir, fram, others
  <2> QED BY <2>1, <2>2, <2>3
<1>9. CASE EnterDownload
  <2>p. job = NoJob BY <1>9 DEF EnterDownload, Polling
  <2>j. job'.kind = "download" /\ job'.left = {Context} /\ ~job'.enabled /\ job' \in Jobs
    BY <1>j, <1>9, <2>p, JobIsJob DEF Kinds, EnterDownload
  <2>1. TypeOK'
    BY <1>j, <1>9, <2>p, <2>j, NoJobIsJob DEF EnterDownload, TypeOK, Jobs, Kinds, Signals, Commands, screen, ir, fram, others
  <2>2. JobOK'
    BY <1>j, <1>9, <2>p, <2>j, NoJobIsJob DEF EnterDownload, JobOK, Finishing, screen, ir, fram, others
  <2>3. SignalsOK'
    BY <1>j, <1>9, <2>p, <2>j, NoJobIsJob DEF EnterDownload, SignalsOK, Finishing, screen, ir, fram, others
  <2>4. LearnedOK'
    BY <1>j, <1>9, <2>p, <2>j, NoJobIsJob DEF EnterDownload, LearnedOK, LearnedUpTo, Finishing, screen, ir, fram, others
  <2>5. LatchOK'
    BY <1>j, <1>9, <2>p, <2>j, NoJobIsJob DEF EnterDownload, LatchOK, screen, ir, fram, others
  <2>6. RightCommand' /\ PromptMeansComplete'
    BY <1>9 DEF EnterDownload, RightCommand, PromptMeansComplete, Finishing, LearnedUpTo, screen, ir, fram, others
  <2> QED BY <2>1, <2>2, <2>3, <2>4, <2>5, <2>6
<1>10. CASE HoldBoth
  <2>p. job = NoJob BY <1>10 DEF HoldBoth, Polling
  <2>j. job'.kind = "hold" /\ job'.left = {Context} /\ ~job'.enabled /\ job' \in Jobs
    BY <1>j, <1>10, <2>p, JobIsJob DEF Kinds, HoldBoth
  <2>1. TypeOK'
    BY <1>j, <1>10, <2>p, <2>j, NoJobIsJob DEF HoldBoth, TypeOK, Jobs, Kinds, Signals, Commands, screen, ir, fram, others
  <2>2. JobOK'
    BY <1>j, <1>10, <2>p, <2>j, NoJobIsJob DEF HoldBoth, JobOK, Finishing, screen, ir, fram, others
  <2>3. SignalsOK'
    BY <1>j, <1>10, <2>p, <2>j, NoJobIsJob DEF HoldBoth, SignalsOK, Finishing, screen, ir, fram, others
  <2>4. LearnedOK'
    BY <1>j, <1>10, <2>p, <2>j, NoJobIsJob DEF HoldBoth, LearnedOK, LearnedUpTo, Finishing, screen, ir, fram, others
  <2>5. LatchOK'
    BY <1>j, <1>10, <2>p, <2>j, NoJobIsJob DEF HoldBoth, LatchOK, screen, ir, fram, others
  <2>6. RightCommand' /\ PromptMeansComplete'
    BY <1>10 DEF HoldBoth, RightCommand, PromptMeansComplete, Finishing, LearnedUpTo, screen, ir, fram, others
  <2> QED BY <2>1, <2>2, <2>3, <2>4, <2>5, <2>6
<1>11. CASE Enable
  <2>j. job'.kind = job.kind /\ job'.left = job.left /\ job'.left # {} /\ job'.enabled /\ job' \in Jobs
    BY <1>j, <1>11, JobChanges DEF Enable
  <2>1. TypeOK'
    BY <1>j, <1>11, <2>j, NoJobIsJob DEF Enable, TypeOK, Jobs, Kinds, Signals, Commands, screen, ir, fram, others
  <2>2. JobOK'
    BY <1>j, <1>11, <2>j, NoJobIsJob DEF Enable, JobOK, Finishing, screen, ir, fram, others
  <2>3. SignalsOK'
    BY <1>j, <1>11, <2>j, NoJobIsJob DEF Enable, SignalsOK, Finishing, screen, ir, fram, others
  <2>4. LearnedOK'
    BY <1>j, <1>11, <2>j, NoJobIsJob DEF Enable, LearnedOK, LearnedUpTo, Finishing, screen, ir, fram, others
  <2>5. LatchOK'
    BY <1>j, <1>11, <2>j, NoJobIsJob DEF Enable, LatchOK, screen, ir, fram, others
  <2>6. RightCommand' /\ PromptMeansComplete'
    BY <1>11 DEF Enable, RightCommand, PromptMeansComplete, Finishing, LearnedUpTo, screen, ir, fram, others
  <2> QED BY <2>1, <2>2, <2>3, <2>4, <2>5, <2>6
<1>12. CASE Write
  <2>r. PICK r \in job.left :
          /\ slots' = IF wel /\ r # Context
                        THEN [slots EXCEPT ![r] = IF job.kind = "learn" THEN captured ELSE Disabled]
                        ELSE slots
          /\ lost' = IF wel THEN lost \ {r} ELSE lost \cup {r}
          /\ job' = [job EXCEPT !.left = @ \ {r}, !.enabled = FALSE]
    BY <1>12 DEF Write
  <2>j. job'.kind = job.kind /\ job'.left = job.left \ {r} /\ ~job'.enabled /\ job' \in Jobs
    BY <1>j, <2>r, JobChanges
  <2>k. /\ r \in Slots \cup {Context} /\ Context \notin Slots
        /\ job.kind # "none" /\ job.kind \in Kinds
        /\ job.kind = "disable" => r \in Unused(minTemp) /\ r \in Slots
        /\ job.kind = "learn" => r = index /\ r \in Slots
        /\ job.kind \notin {"disable", "learn"} => r = Context
    BY <1>j, MenuAssumption, UnusedAreSlots DEF Jobs, Kinds, JobOK, TypeOK, Finishing
  <2>v. /\ DOMAIN slots = Slots
        /\ r = Context => slots' = slots
        /\ r # Context /\ ~wel => slots' = slots
        /\ r # Context /\ wel => \A s \in Slots : slots'[s] = IF s # r THEN slots[s] ELSE
                IF job.kind = "learn" THEN captured ELSE Disabled
    BY <2>r, <2>k DEF TypeOK
  <2>u. UNCHANGED <<task, screen, ir, others>> /\ wel' = FALSE
    BY <1>12 DEF Write
  <2>1. TypeOK'
    <3>1. job.kind = "learn" => captured \in Signals BY DEF JobOK, TypeOK, Signals
    <3>2. slots' \in [Slots -> Commands \cup {Nothing, Disabled}]
      BY <2>r, <2>k, <3>1 DEF TypeOK, Commands
    <3>3. lost' \subseteq Slots \cup {Context} BY <2>r, <2>k DEF TypeOK
    <3> QED BY <2>u, <2>j, <3>2, <3>3 DEF TypeOK, Jobs, Kinds, screen, ir, others
  <2>2. JobOK'
    BY <2>u, <2>j, <2>k DEF JobOK, Finishing, screen, ir, others
  <2>3. SignalsOK'
    BY <2>u, <2>j DEF SignalsOK, Finishing, screen, ir, others
  <2>4. LearnedOK'
    <3>1. CASE job.kind = "disable"
      <4>1. r \in Unused(minTemp) /\ r \in Slots /\ r # Context BY <3>1, <2>k
      <4>2. ASSUME NEW s \in Unused(minTemp) \ lost'
            PROVE  s \in job.left \ {r} \/ slots'[s] \in {Disabled, Remote}
        <5>1. s \in Slots BY UnusedAreSlots DEF TypeOK
        <5>2. CASE s = r BY <3>1, <4>1, <5>1, <5>2, <2>r, <2>v
        <5>3. CASE s # r
          <6>1. s \in Unused(minTemp) \ lost BY <5>3, <2>r
          <6>2. slots'[s] = slots[s] BY <4>1, <5>1, <5>3, <2>v
          <6> QED BY <3>1, <5>3, <6>1, <6>2 DEF LearnedOK
        <5> QED BY <5>2, <5>3
      <4> QED BY <3>1, <4>2, <2>u, <2>j DEF LearnedOK, Finishing, screen
    <3>2. CASE job.kind = "learn"
      <4>1. captured \in Commands BY <3>2 DEF JobOK, TypeOK, Commands
      <4> QED BY <3>2, <4>1, <2>u, <2>j, <2>k, <2>v, <2>r DEF LearnedOK, Finishing, screen, TypeOK
    <3>3. CASE job.kind \notin {"disable", "learn"}
      <4>1. slots' = slots /\ \A s \in Slots : s \in lost' <=> s \in lost
        BY <3>3, <2>k, <2>v, <2>r
      <4> QED BY <3>3, <4>1, <2>u, <2>j DEF LearnedOK, LearnedUpTo, Finishing, screen
    <3> QED BY <3>1, <3>2, <3>3
  <2>5. LatchOK'
    BY <2>u, <2>j DEF LatchOK, others
  <2>6. RightCommand'
    <3>1. job.kind = "learn" => captured \in {index} \cup ShownBefore(index)
      BY DEF JobOK, SignalsOK
    <3>2. ASSUME NEW s \in Slots
          PROVE  slots'[s] \in {Nothing, Disabled, Remote, s} \cup ShownBefore(s)
      BY <3>1, <2>k, <2>v DEF RightCommand
    <3> QED BY <3>2, <2>u DEF RightCommand, ShownBefore
  <2>7. PromptMeansComplete'
    <3> SUFFICES ASSUME menu = "learn"
                 PROVE  PromptMeansComplete'
      BY <2>u DEF PromptMeansComplete, screen
    <3>1. index \in Nat /\ index \notin Unused(minTemp) /\ job.kind # "disable"
      BY DEF JobOK, PromptMeansComplete, TypeOK, Slots
    <3>2. CASE job.kind = "learn"
      <4>1. ~prompt /\ r = index BY <3>2, <2>k DEF JobOK
      <4>2. ASSUME NEW s \in Slots \ lost'
            PROVE  /\ s \in Unused(minTemp) => slots'[s] \in {Disabled, Remote}
                   /\ s < index /\ s \notin Unused(minTemp) => slots'[s] \in Commands
        <5>1. CASE s = index BY <5>1, <3>1
        <5>2. CASE s # index
          <6>1. s \in Slots \ lost /\ slots'[s] = slots[s] BY <5>2, <4>1, <2>k, <2>v, <2>r
          <6> QED BY <6>1, <4>1 DEF PromptMeansComplete, LearnedUpTo
        <5> QED BY <5>1, <5>2
      <4> QED BY <4>1, <4>2, <3>1, <2>u DEF PromptMeansComplete, LearnedUpTo, screen
    <3>3. CASE job.kind # "learn"
      <4>1. slots' = slots /\ \A s \in Slots : s \in lost' <=> s \in lost
        BY <3>1, <3>3, <2>k, <2>v, <2>r
      <4> QED BY <4>1, <2>u DEF PromptMeansComplete, LearnedUpTo, screen
    <3> QED BY <3>2, <3>3
  <2> QED BY <2>1, <2>2, <2>3, <2>4, <2>5, <2>6, <2>7
<1>13. CASE StartLearning
  <2>j. job' = NoJob /\ job.kind = "disable" /\ job.left = {}
    BY <1>j, <1>13 DEF StartLearning, Saved
  <2>k. /\ menu' = "learn" /\ index' = 0 /\ prompt' = FALSE
        /\ captured' = Nothing /\ receiver' = Nothing
        /\ UNCHANGED <<task, minTemp, fram, others>>
    BY <1>13 DEF StartLearning
  <2>1. TypeOK'
    BY <2>j, <2>k, NoJobIsJob, UnusedAreSlots DEF TypeOK, Jobs, Kinds, fram, others
  <2>2. JobOK'
    BY <1>j, <1>13, <2>j, NoJobIsJob DEF StartLearning, JobOK, Finishing, screen, ir, fram, others
  <2>3. SignalsOK'
    BY <1>j, <1>13, <2>j, NoJobIsJob DEF StartLearning, SignalsOK, Finishing, screen, ir, fram, others
  <2>4. LearnedOK'
    BY <1>j, <1>13, <2>j, NoJobIsJob DEF StartLearning, LearnedOK, LearnedUpTo, Finishing, screen, ir, fram, others
  <2>5. LatchOK'
    BY <1>j, <1>13, <2>j, NoJobIsJob DEF StartLearning, LatchOK, screen, ir, fram, others
  <2>6. PromptMeansComplete'
    <3>1. \A s \in Slots : ~(s < 0) BY MenuAssumption DEF Slots
    <3>2. \A s \in Unused(minTemp) \ lost : slots[s] \in {Disabled, Remote} BY <2>j DEF LearnedOK
    <3>3. 0 \notin Unused(minTemp) BY UnusedAreSlots DEF TypeOK
    <3> QED BY <2>k, <3>1, <3>2, <3>3 DEF PromptMeansComplete, LearnedUpTo, fram
  <2>7. RightCommand'
    BY <1>13 DEF StartLearning, RightCommand, Finishing, LearnedUpTo, screen, ir, fram, others
  <2> QED BY <2>1, <2>2, <2>3, <2>4, <2>5, <2>6, <2>7
<1>14. CASE Advance
  <2>k. /\ job.kind = "learn" /\ job.left = {} /\ captured' = Nothing
        /\ menu = "learn" /\ ~prompt /\ captured # Nothing
        /\ UNCHANGED <<task, menu, minTemp, prompt, receiver, fram, others>>
    BY <1>14 DEF Advance, JobOK
  <2>n. /\ index \in Nat /\ index <= LastSlot /\ LastSlot \in Nat
        /\ NextIndex(index, minTemp) \in Nat
        /\ NextIndex(index, minTemp) > index
        /\ NextIndex(index, minTemp) \notin Unused(minTemp)
        /\ \A s \in Slots : index < s /\ s < NextIndex(index, minTemp) => s \in Unused(minTemp)
        /\ NextIndex(index, minTemp) > LastSlot => index = LastSlot
        /\ index \in ShownBefore(NextIndex(index, minTemp))
    <3>1. index \in Slots /\ minTemp \in 0 .. 2 BY DEF TypeOK
    <3>2. index \in ShownBefore(NextIndex(index, minTemp)) BY <3>1, ShownInTurn
    <3>3. index \in Nat /\ index <= LastSlot /\ LastSlot \in Nat
      BY <3>1, MenuAssumption DEF Slots
    <3> QED BY <3>1, <3>2, <3>3, NextIndexIsNext
  <2>s. LearnedUpTo(NextIndex(index, minTemp))
    <3>1. ASSUME NEW s \in Slots \ lost
          PROVE  /\ s \in Unused(minTemp) => slots[s] \in {Disabled, Remote}
                 /\ s < NextIndex(index, minTemp) /\ s \notin Unused(minTemp) => slots[s] \in Commands
      <4>1. s \in Nat BY MenuAssumption DEF Slots
      <4>2. s = index => slots[s] \in Commands BY <2>k DEF LearnedOK
      <4>3. s < index \/ s = index \/ index < s BY <4>1, <2>n
      <4> QED BY <4>1, <4>2, <4>3, <2>k, <2>n DEF PromptMeansComplete, LearnedUpTo
    <3> QED BY <3>1 DEF LearnedUpTo
  <2>i. \/ index' = NextIndex(index, minTemp) /\ index' \in Slots /\ job' = NoJob
        \/ index' = index /\ index = LastSlot /\ NextIndex(index, minTemp) >= LastSlot + 1
           /\ job' = Job("finish", {Context})
    BY <1>14, <2>n DEF Advance, Slots
  <2>j. /\ job' \in Jobs /\ ~job'.enabled
        /\ job' = NoJob => job'.kind = "none" /\ job'.left = {}
        /\ job' = Job("finish", {Context}) => job'.kind = "finish" /\ job'.left = {Context}
    BY <2>i, NoJobIsJob, JobIsJob DEF Kinds
  <2>1. TypeOK'
    BY <2>i, <2>j, <2>k DEF TypeOK, Jobs, Kinds, fram, others
  <2>2. JobOK'
    BY <2>i, <2>j, <2>k DEF JobOK, Finishing
  <2>3. SignalsOK'
    <3>1. receiver \in {Nothing, index} BY <2>k DEF SignalsOK
    <3>2. CASE job' = NoJob
      <4>1. index \in ShownBefore(index') BY <2>i, <2>j, <2>n, <3>2, JobIsJob, NoJobIsJob DEF Kinds
      <4>2. ShownBefore(index)' = ShownBefore(index') BY DEF ShownBefore
      <4> QED BY <3>1, <3>2, <4>1, <4>2, <2>j, <2>k DEF SignalsOK, Finishing
    <3>3. CASE job' # NoJob
      BY <3>1, <3>3, <2>i, <2>k DEF SignalsOK, Finishing
    <3> QED BY <3>2, <3>3
  <2>4. LearnedOK'
    <3>1. CASE job' = NoJob BY <3>1, <2>j DEF LearnedOK, Finishing
    <3>2. CASE job' # NoJob
      <4>1. job'.kind = "finish" BY <3>2, <2>i, <2>j
      <4>2. LearnedUpTo(LastSlot + 1)
        <5>1. NextIndex(index, minTemp) >= LastSlot + 1 BY <3>2, <2>i
        <5>2. \A s \in Slots : s < NextIndex(index, minTemp)
          BY <5>1, <2>n, MenuAssumption DEF Slots
        <5> QED BY <2>s, <5>2 DEF LearnedUpTo
      <4> QED BY <4>1, <4>2, <2>k DEF LearnedOK, LearnedUpTo, fram
    <3> QED BY <3>1, <3>2
  <2>5. LatchOK'
    BY <2>j, <2>k DEF LatchOK, fram, others
  <2>6. PromptMeansComplete'
    <3>1. CASE job' = NoJob
      <4>1. index' = NextIndex(index, minTemp)
        BY <3>1, <2>i, <2>j, JobIsJob, NoJobIsJob DEF Kinds
      <4> QED BY <4>1, <2>k, <2>n, <2>s DEF PromptMeansComplete, LearnedUpTo, fram
    <3>2. CASE job' # NoJob
      BY <3>2, <2>i, <2>k DEF PromptMeansComplete, LearnedUpTo, fram
    <3> QED BY <3>1, <3>2
  <2>7. RightCommand'
    BY <1>14 DEF Advance, RightCommand, Finishing, LearnedUpTo, screen, ir, fram, others
  <2> QED BY <2>1, <2>2, <2>3, <2>4, <2>5, <2>6, <2>7
<1>15. CASE ContextUnreadable
  <2>j. job'.left = {} /\ job'.enabled = job.enabled /\ ~job.enabled /\ job' \in Jobs /\ job'.kind = (IF job.kind = "finish" THEN "prompt" ELSE "end")
    BY <1>j, <1>15, JobChanges DEF ContextUnreadable
  <2>1. TypeOK'
    BY <1>j, <1>15, <2>j, NoJobIsJob DEF ContextUnreadable, TypeOK, Jobs, Kinds, Signals, Commands, screen, ir, fram, others
  <2>2. JobOK'
    <3>1. job'.kind \in {"prompt", "end"} /\ (job'.kind = "prompt" => job.kind = "finish")
      BY <2>j
    <3>2. ~job'.enabled BY <2>j DEF JobOK
    <3>3. UNCHANGED <<screen, ir>> BY <1>15 DEF ContextUnreadable
    <3> QED BY <3>1, <3>2, <3>3, <2>j DEF JobOK, Finishing, screen, ir
  <2>3. SignalsOK'
    BY <1>j, <1>15, <2>j, NoJobIsJob DEF ContextUnreadable, SignalsOK, Finishing, screen, ir, fram, others
  <2>4. LearnedOK'
    BY <1>j, <1>15, <2>j, NoJobIsJob DEF ContextUnreadable, LearnedOK, LearnedUpTo, Finishing, screen, ir, fram, others
  <2>5. LatchOK'
    BY <1>j, <1>15, <2>j, NoJobIsJob DEF ContextUnreadable, LatchOK, screen, ir, fram, others
  <2>6. RightCommand' /\ PromptMeansComplete'
    BY <1>15 DEF ContextUnreadable, RightCommand, PromptMeansComplete, Finishing, LearnedUpTo, screen, ir, fram, others
  <2> QED BY <2>1, <2>2, <2>3, <2>4, <2>5, <2>6
<1>16. CASE Post
  <2>j. job'.left = {} /\ job.left = {} /\ job'.enabled = job.enabled /\ job' \in Jobs /\ job'.kind = (IF job.kind = "finish" THEN "prompt" ELSE "end")
    BY <1>j, <1>16, JobChanges DEF Post
  <2>1. TypeOK'
    BY <1>j, <1>16, <2>j, NoJobIsJob DEF Post, TypeOK, Jobs, Kinds, Signals, Commands, screen, ir, fram, others
  <2>2. JobOK'
    <3>1. job'.kind \in {"prompt", "end"} /\ (job'.kind = "prompt" => job.kind = "finish")
      BY <2>j
    <3>2. ~job'.enabled BY <2>j DEF JobOK
    <3>3. UNCHANGED <<screen, ir>> BY <1>16 DEF Post
    <3> QED BY <3>1, <3>2, <3>3, <2>j DEF JobOK, Finishing, screen, ir
  <2>3. SignalsOK'
    BY <1>j, <1>16, <2>j, NoJobIsJob DEF Post, SignalsOK, Finishing, screen, ir, fram, others
  <2>4. LearnedOK'
    BY <1>j, <1>16, <2>j, NoJobIsJob DEF Post, LearnedOK, LearnedUpTo, Finishing, screen, ir, fram, others
  <2>5. LatchOK'
    BY <1>j, <1>16, <2>j, NoJobIsJob DEF Post, LatchOK, screen, ir, fram, others
  <2>6. RightCommand' /\ PromptMeansComplete'
    BY <1>16 DEF Post, RightCommand, PromptMeansComplete, Finishing, LearnedUpTo, screen, ir, fram, others
  <2> QED BY <2>1, <2>2, <2>3, <2>4, <2>5, <2>6
<1>17. CASE AskToLeave
  <2>j. job' = NoJob /\ job.kind = "prompt"
    BY <1>j, <1>17 DEF AskToLeave, Saved
  <2>k. /\ prompt' = TRUE
        /\ UNCHANGED <<task, menu, minTemp, index, ir, fram, others>>
        /\ menu = "learn" /\ ~prompt /\ index = LastSlot /\ captured = Nothing
    BY <1>17, <2>j DEF AskToLeave, JobOK, Finishing
  <2>1. TypeOK'
    BY <1>j, <1>17, <2>j, NoJobIsJob DEF AskToLeave, TypeOK, Jobs, Kinds, Signals, Commands, screen, ir, fram, others
  <2>2. JobOK'
    BY <1>j, <1>17, <2>j, NoJobIsJob DEF AskToLeave, JobOK, Finishing, screen, ir, fram, others
  <2>3. SignalsOK'
    BY <2>j, <2>k, NoJobIsJob DEF SignalsOK, Finishing, ir
  <2>4. LearnedOK'
    BY <1>j, <1>17, <2>j, NoJobIsJob DEF AskToLeave, LearnedOK, LearnedUpTo, Finishing, screen, ir, fram, others
  <2>5. LatchOK'
    BY <1>j, <1>17, <2>j, NoJobIsJob DEF AskToLeave, LatchOK, screen, ir, fram, others
  <2>6. PromptMeansComplete'
    <3>1. LearnedUpTo(LastSlot + 1) BY <2>j DEF LearnedOK, Finishing
    <3> QED BY <3>1, <2>k DEF PromptMeansComplete, LearnedUpTo, fram
  <2>7. RightCommand'
    BY <1>17 DEF AskToLeave, RightCommand, Finishing, LearnedUpTo, screen, ir, fram, others
  <2> QED BY <2>1, <2>2, <2>3, <2>4, <2>5, <2>6, <2>7
<1>18. CASE EndTask
  <2>j. job' = NoJob /\ job.kind = "end"
    BY <1>j, <1>18 DEF EndTask, Saved
  <2>1. TypeOK'
    BY <1>j, <1>18, <2>j, NoJobIsJob DEF EndTask, TypeOK, Jobs, Kinds, Signals, Commands, screen, ir, fram, others
  <2>2. JobOK'
    BY <1>j, <1>18, <2>j, NoJobIsJob DEF EndTask, JobOK, Finishing, screen, ir, fram, others
  <2>3. SignalsOK'
    BY <1>j, <1>18, <2>j, NoJobIsJob DEF EndTask, SignalsOK, Finishing, screen, ir, fram, others
  <2>4. LearnedOK'
    BY <1>j, <1>18, <2>j, NoJobIsJob DEF EndTask, LearnedOK, LearnedUpTo, Finishing, screen, ir, fram, others
  <2>5. LatchOK'
    BY <1>j, <1>18, <2>j, NoJobIsJob DEF EndTask, LatchOK, screen, ir, fram, others
  <2>6. RightCommand' /\ PromptMeansComplete'
    BY <1>18 DEF EndTask, RightCommand, PromptMeansComplete, Finishing, LearnedUpTo, screen, ir, fram, others
  <2> QED BY <2>1, <2>2, <2>3, <2>4, <2>5, <2>6
<1>19. CASE FsmEnable
  <2>1. TypeOK'
    <3>1. saves \in 0 .. MaxSaves /\ saves' = saves + 1 /\ saves < MaxSaves /\ MaxSaves \in Nat
      BY <1>19, MenuAssumption DEF FsmEnable, TypeOK
    <3>2. saves' \in 0 .. MaxSaves BY <3>1
    <3>3. /\ UNCHANGED <<task, menu, minTemp, index, prompt, captured, receiver>>
          /\ UNCHANGED <<job, slots, lost, on, session, boots>>
          /\ fsmWrite' = TRUE /\ wel' = TRUE
      BY <1>19 DEF FsmEnable, others, screen, ir, fram
    <3> QED BY <3>2, <3>3 DEF TypeOK
  <2>2. LatchOK'
    BY <1>j, <1>19, NoJobIsJob DEF FsmEnable, LatchOK, screen, ir, fram, others
  <2>3. JobOK' /\ SignalsOK' /\ LearnedOK' /\ RightCommand' /\ PromptMeansComplete'
    BY <1>19 DEF FsmEnable, JobOK, SignalsOK, LearnedOK, RightCommand, PromptMeansComplete, Finishing, LearnedUpTo, screen, ir, fram, others
  <2> QED BY <2>1, <2>2, <2>3
<1>20. CASE FsmSave
  <2>k. /\ fsmWrite' = FALSE /\ wel' = FALSE
        /\ UNCHANGED <<task, screen, ir, job, lost, on, session, boots, saves>>
    BY <1>20 DEF FsmSave
  <2>s. /\ slots' \in [Slots -> Commands \cup {Nothing, Disabled}]
        /\ \A s \in Slots : slots'[s] \in {slots[s], Remote}
    <3>1. slots \in [Slots -> Commands \cup {Nothing, Disabled}] /\ Remote \in Commands
      BY DEF TypeOK, Commands
    <3>2. CASE UNCHANGED slots BY <3>1, <3>2
    <3>3. CASE \E s \in Slots : slots' = [slots EXCEPT ![s] = Remote] BY <3>1, <3>3
    <3> QED BY <3>2, <3>3, <1>20 DEF FsmSave
  <2>1. TypeOK'
    BY <2>k, <2>s DEF TypeOK, screen, ir
  <2>2. LatchOK'
    BY <1>j, <1>20, NoJobIsJob DEF FsmSave, LatchOK, screen, ir, fram, others
  <2>3. JobOK' /\ SignalsOK'
    BY <2>k DEF JobOK, SignalsOK, Finishing, ShownBefore, screen, ir
  <2>4. \A i : LearnedUpTo(i) => LearnedUpTo(i)'
    BY <2>k, <2>s DEF LearnedUpTo, Commands, screen
  <2>5. LearnedOK'
    <3>1. \A s \in Unused(minTemp) : s \in Slots BY UnusedAreSlots DEF TypeOK
    <3>2. index \in Slots BY DEF TypeOK
    <3>3. job.kind = "disable" =>
            \A s \in Unused(minTemp) \ lost : s \in job.left \/ slots'[s] \in {Disabled, Remote}
      BY <2>s, <3>1 DEF LearnedOK
    <3>4. job.kind = "learn" =>
            index \in job.left \/ index \in lost \/ slots'[index] \in Commands
      BY <2>s, <3>2 DEF LearnedOK, Commands
    <3>5. Finishing => LearnedUpTo(LastSlot + 1)'
      BY <2>4 DEF LearnedOK
    <3> QED BY <2>k, <3>3, <3>4, <3>5 DEF LearnedOK, Finishing, LearnedUpTo, screen
  <2>6. RightCommand'
    BY <2>s DEF RightCommand, ShownBefore
  <2>7. PromptMeansComplete'
    <3>0. UNCHANGED <<menu, index, minTemp, prompt>> BY <2>k DEF screen
    <3>1. \A i : menu = "learn" /\ i = (IF prompt THEN LastSlot + 1 ELSE index)
                  => index \notin Unused(minTemp) /\ LearnedUpTo(i)'
      BY <2>4 DEF PromptMeansComplete
    <3> QED BY <3>0, <3>1 DEF PromptMeansComplete, LearnedUpTo, Unused
  <2> QED BY <2>1, <2>2, <2>3, <2>5, <2>6, <2>7
<1>21. CASE PowerOff
  <2>k. /\ on' = FALSE /\ task' = "alive" /\ menu' = "main" /\ minTemp' = 0
        /\ index' = 0 /\ prompt' = FALSE /\ captured' = Nothing /\ receiver' = Nothing
        /\ session' = FALSE /\ fsmWrite' = FALSE /\ wel' = FALSE
        /\ UNCHANGED <<slots, lost, boots, saves>>
        /\ job' \in Jobs /\ job'.kind = "none" /\ job'.left = {} /\ ~job'.enabled
    BY <1>21, NoJobIsJob DEF PowerOff, Fresh
  <2>1. TypeOK'
    <3>1. index' \in Slots BY <2>k, UnusedAreSlots
    <3>2. minTemp' \in 0 .. 2 BY <2>k
    <3>3. job' \in [kind : Kinds, left : SUBSET (Slots \cup {Context}), enabled : BOOLEAN]
      BY <2>k DEF Jobs
    <3>4. captured' \in Signals \cup {Nothing} /\ receiver' \in Signals \cup {Nothing} BY <2>k
    <3> QED BY <2>k, <3>1, <3>2, <3>3, <3>4 DEF TypeOK, Kinds
  <2>2. JobOK'
    BY <2>k DEF JobOK, Finishing
  <2>3. SignalsOK'
    BY <2>k DEF SignalsOK, Finishing
  <2>4. LearnedOK'
    BY <2>k DEF LearnedOK, Finishing
  <2>5. LatchOK'
    BY <2>k DEF LatchOK
  <2>6. RightCommand'
    BY <2>k DEF RightCommand, ShownBefore
  <2>7. PromptMeansComplete'
    BY <2>k DEF PromptMeansComplete
  <2> QED BY <2>1, <2>2, <2>3, <2>4, <2>5, <2>6, <2>7
<1>22. CASE PowerOn
  <2>1. TypeOK'
    <3>1. boots \in 0 .. MaxBoots /\ boots' = boots + 1 /\ boots < MaxBoots /\ MaxBoots \in Nat
      BY <1>22, MenuAssumption DEF PowerOn, TypeOK
    <3>2. boots' \in 0 .. MaxBoots BY <3>1
    <3>3. /\ UNCHANGED <<task, menu, minTemp, index, prompt, captured, receiver>>
          /\ UNCHANGED <<job, slots, lost, wel, session, fsmWrite, saves>>
          /\ on' = TRUE
      BY <1>22 DEF PowerOn, others, screen, ir, fram
    <3>4. /\ on' \in BOOLEAN /\ task' \in {"alive", "ended"}
          /\ menu' \in {"main", "min temp", "learn", "test", "download"}
          /\ minTemp' \in 0 .. 2 /\ index' \in Slots /\ prompt' \in BOOLEAN
          /\ captured' \in Signals \cup {Nothing} /\ receiver' \in Signals \cup {Nothing}
          /\ session' \in BOOLEAN /\ fsmWrite' \in BOOLEAN /\ wel' \in BOOLEAN
      BY <3>2, <3>3 DEF TypeOK
    <3>5. /\ slots' \in [Slots -> Commands \cup {Nothing, Disabled}]
          /\ lost' \subseteq Slots \cup {Context} /\ job' \in Jobs
      BY <3>2, <3>3, <1>j DEF TypeOK
    <3>6. boots' \in 0 .. MaxBoots /\ saves' \in 0 .. MaxSaves BY <3>2, <3>3 DEF TypeOK
    <3> QED BY <3>4, <3>5, <3>6 DEF TypeOK, Jobs, Kinds
  <2>2. JobOK' /\ SignalsOK' /\ LearnedOK' /\ LatchOK' /\ RightCommand' /\ PromptMeansComplete'
    BY <1>22 DEF PowerOn, JobOK, SignalsOK, LearnedOK, LatchOK, RightCommand, PromptMeansComplete, Finishing, LearnedUpTo, screen, ir, fram, others
  <2> QED BY <2>1, <2>2
<1> QED
  BY <1>1, <1>2, <1>3, <1>4, <1>5, <1>6, <1>7, <1>8, <1>9, <1>10, <1>11, <1>12, <1>13, <1>14, <1>15, <1>16, <1>17, <1>18, <1>19, <1>20, <1>21, <1>22
    DEF Next, Buttons, Working

(* The device is off, with nothing learned: the invariant holds.           *)
LEMMA MenuInit ==
  ASSUME Init
  PROVE  Inv
<1>1. TypeOK
  <2>1. job \in [kind : Kinds, left : SUBSET (Slots \cup {Context}), enabled : BOOLEAN]
    BY NoJobIsJob DEF Init, Jobs
  <2>2. 0 \in Slots /\ 0 \in 0 .. 2 /\ 0 \in 0 .. MaxBoots /\ 0 \in 0 .. MaxSaves
    BY UnusedAreSlots, MenuAssumption
  <2>3. slots \in [Slots -> Commands \cup {Nothing, Disabled}] BY DEF Init
  <2> QED BY <2>1, <2>2, <2>3 DEF Init, TypeOK, Kinds
<1>2. JobOK /\ SignalsOK /\ LearnedOK /\ LatchOK
  BY NoJobIsJob DEF Init, JobOK, SignalsOK, LearnedOK, LatchOK, Finishing
<1>3. RightCommand /\ PromptMeansComplete
  BY DEF Init, RightCommand, PromptMeansComplete
<1> QED BY <1>1, <1>2, <1>3 DEF Inv

(* A step that changes nothing changes no part of the invariant.           *)
LEMMA MenuStutter ==
  ASSUME Inv, UNCHANGED vars
  PROVE  Inv'
<1>1. TypeOK'
  <2>1. /\ UNCHANGED <<on, task, menu, minTemp, index, prompt, captured, receiver>>
        /\ UNCHANGED <<job, session, fsmWrite, wel, slots, lost, boots, saves>>
    BY DEF vars, screen, ir, fram, others
  <2>2. TypeOK /\ job' \in Jobs BY <2>1 DEF Inv, TypeOK, Jobs, Kinds
  <2>3. boots' \in 0 .. MaxBoots /\ saves' \in 0 .. MaxSaves BY <2>1, <2>2 DEF TypeOK
  <2> QED BY <2>1, <2>2, <2>3 DEF TypeOK, Jobs, Kinds
<1>2. JobOK' /\ SignalsOK' /\ LearnedOK' /\ LatchOK'
  BY DEF Inv, JobOK, SignalsOK, LearnedOK, LatchOK, Finishing, LearnedUpTo, ShownBefore,
         vars, screen, ir, fram, others
<1>3. RightCommand' /\ PromptMeansComplete'
  BY DEF Inv, RightCommand, PromptMeansComplete, LearnedUpTo, ShownBefore,
         vars, screen, ir, fram, others
<1> QED BY <1>1, <1>2, <1>3 DEF Inv

-----------------------------------------------------------------------------
(* The theorems *)

(* The invariant holds in every state of the menu. *)
THEOREM Invariance == Spec => []Inv
<1>1. Init => Inv BY MenuInit
<1>2. Inv /\ [Next]_vars => Inv' BY MenuStep, MenuStutter
<1> QED BY <1>1, <1>2, PTL DEF Spec

(* Every variable stays in its type: the slot shown is one of the slots.   *)
THEOREM TypeCorrect == Spec => []TypeOK
<1>1. Inv => TypeOK BY DEF Inv
<1> QED BY <1>1, Invariance, PTL

(* The exit prompt is shown only when every used slot has its command, and *)
(* every unused one the dummy, but for the writes that were lost.          *)
THEOREM PromptComplete == Spec => []PromptMeansComplete
<1>1. Inv => PromptMeansComplete BY DEF Inv
<1> QED BY <1>1, Invariance, PTL

(* No slot is given a signal heard elsewhere than at itself or at the slot *)
(* that was shown before it.                                               *)
THEOREM CommandsInPlace == Spec => []RightCommand
<1>1. Inv => RightCommand BY DEF Inv
<1> QED BY <1>1, Invariance, PTL

(* Alone, the menu task loses no write.                                    *)
THEOREM NothingLostAlone == Spec => AloneNothingIsLost
<1>1. Inv /\ [Next]_vars => [~session => lost' \subseteq lost]_vars
  <2> SUFFICES ASSUME Inv, Next, ~session
               PROVE  lost' \subseteq lost
    BY DEF vars
  <2>1. CASE Write
    <3>1. wel BY <2>1 DEF Write, Inv, LatchOK
    <3> QED BY <2>1, <3>1 DEF Write
  <2>2. CASE FsmEnable BY <2>2 DEF FsmEnable
  <2>3. CASE FsmSave BY <2>3 DEF FsmSave
  <2>4. CASE PowerOff \/ PowerOn BY <2>4 DEF PowerOff, PowerOn, fram
  <2>5. CASE Hear \/ Capture BY <2>5 DEF Hear, Capture, fram
  <2>6. CASE Buttons
    BY <2>6 DEF Buttons, EnterMain, EnterMinTemp, EnterPrompt, SelectSave, EnterDiscard,
                EnterTest, EnterDownload, HoldBoth, fram
  <2>7. CASE Working /\ ~Write
    BY <2>7 DEF Working, Enable, StartLearning, Advance, ContextUnreadable, Post,
                AskToLeave, EndTask, fram
  <2> QED BY <2>1, <2>2, <2>3, <2>4, <2>5, <2>6, <2>7 DEF Next, Working
<1> QED BY <1>1, Invariance, PTL DEF Spec, AloneNothingIsLost

=============================================================================
