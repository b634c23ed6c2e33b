------------------------- MODULE WifiFailoverProofs -------------------------
(***************************************************************************)
(* Proofs about the failover, for every number of networks, of attempts,   *)
(* of starts of the sequence and of lost connections, and for every way    *)
(* the steps of a start and of the handler come between each other.        *)
(*                                                                         *)
(* The index times MaxRetries and the failures counted at it never exceed  *)
(* the attempts made: a start only takes from either, also when the        *)
(* handler writes back a count it read before.  What the sequence may      *)
(* still spend is the rest of that sum, and only a start adds to it.       *)
(***************************************************************************)
EXTENDS WifiFailover, Integers, TLAPS

Active == link \in {"connecting", "up"}

Waiting == link \in {"stopped", "starting"}

(* The attempts that k networks take. *)
Turns(k) == k * MaxRetries

(* What the handler has counted has been tried, at each of its steps. *)
CountInv ==
  /\ link = "down" <=> hdl # "wait"
  /\ Waiting => index = 0 /\ retry = 0 /\ target = 0 /\ attempts = 0 /\ posted = "none"
  /\ Active => index < Nets /\ retry < MaxRetries /\ Turns(index) + retry + 1 <= attempts
  /\ hdl \in {"count", "judge"} =>
       index < Nets /\ mine \in 1 .. MaxRetries /\ Turns(index) + mine <= attempts
  /\ hdl = "judge" => retry \in {mine, 0}
  /\ hdl \in {"step", "choose"} => mine \in 1 .. Nets /\ Turns(mine) <= attempts /\ retry = 0
  /\ hdl = "choose" => index \in {mine, 0}
  /\ hdl = "connect" => index < Nets /\ Turns(index) <= attempts /\ retry = 0

(* What the sequence may still spend, as it stands, ... *)
Left ==
  IF link = "idle" THEN 0
  ELSE IF Waiting THEN Turns(Nets)
  ELSE IF hdl = "wait" THEN Turns(Nets) - Turns(index) - retry - 1
  ELSE IF hdl = "count" THEN Turns(Nets) - Turns(index) - mine
  ELSE IF hdl = "step" THEN Turns(Nets) - Turns(mine)
  ELSE Turns(Nets) - Turns(index) - retry

(* ... and what a start may add that has not cleared the counter yet. *)
Owed == IF fsm = "retry" /\ link # "stopped" THEN MaxRetries ELSE 0

BudgetInv ==
  /\ link = "stopped" => starts = IF fsm = "off" THEN 0 ELSE 1
  /\ link # "stopped" => starts > 0
  /\ starts > 0 => attempts + Left + Owed <= Most(starts)

(* Without a meeting the networks before the station's have been tried out, *)
(* its own as often as is counted, and the index is at it or cleared.       *)
Reached(failed) ==
  /\ target \in Networks
  /\ \A n \in Networks : n < target => tries[n] >= MaxRetries
  /\ tries[target] >= failed
  /\ index \in {target, 0}

TriedOut(net) == \A n \in Networks : n < net => tries[n] >= MaxRetries

TriedInv ==
  ~met =>
    /\ hdl # "wait" => fsm = "off"
    /\ fsm \in {"retry", "config"} => index = 0
    /\ fsm = "config" => retry = 0
    /\ Active => Reached(retry + 1)
    /\ hdl \in {"count", "judge"} => Reached(mine)
    /\ hdl = "judge" => retry = mine
    /\ hdl = "step" => mine = index + 1 /\ TriedOut(mine)
    /\ hdl = "choose" => index = mine /\ TriedOut(index)
    /\ hdl = "connect" => target = index /\ TriedOut(index)

Inv == /\ TypeOK /\ CountInv /\ BudgetInv /\ TriedInv
       /\ NeverGivesUpEarly /\ ExhaustedTriedAll

-----------------------------------------------------------------------------
(* What the invariants need of the product. *)
LEMMA TurnsGrow ==
  /\ Turns(0) = 0
  /\ \A k \in 0 .. Nets : Turns(k) \in Nat /\ Turns(k) <= Turns(Nets)
  /\ \A k \in 0 .. Nets : k < Nets =>
       Turns(k + 1) = Turns(k) + MaxRetries /\ Turns(k) + MaxRetries <= Turns(Nets)
<1> DEFINE t(k) == k * MaxRetries
<1>1. MaxRetries \in Nat /\ Nets \in Nat
  BY FailoverAssumption
<1>2. ASSUME NEW k \in Nat
      PROVE  t(k) \in Nat /\ t(k + 1) = t(k) + MaxRetries
  BY <1>1
<1>3. ASSUME NEW k \in Nat, NEW d \in Nat
      PROVE  t(k + d) = t(k) + t(d)
  BY <1>1
<1>4. \A k \in 0 .. Nets : t(k) <= t(Nets)
  <2> TAKE k \in 0 .. Nets
  <2>1. k \in Nat /\ Nets - k \in Nat /\ k + (Nets - k) = Nets
    BY <1>1
  <2>2. t(Nets) = t(k) + t(Nets - k)
    BY <1>3, <2>1
  <2>3. t(k) \in Nat /\ t(Nets - k) \in Nat
    BY <1>2, <2>1
  <2> HIDE DEF t
  <2> QED BY <2>2, <2>3
<1>5. t(0) = 0 BY <1>1
<1> HIDE DEF t
<1>6. ASSUME NEW k \in 0 .. Nets, k < Nets
      PROVE  t(k + 1) = t(k) + MaxRetries /\ t(k) + MaxRetries <= t(Nets)
  <2>1. k \in Nat /\ k + 1 \in 0 .. Nets BY <1>1, <1>6
  <2> QED BY <2>1, <1>2, <1>4
<1>7. \A k \in 0 .. Nets : t(k) \in Nat /\ t(k) <= t(Nets)
  BY <1>1, <1>2, <1>4
<1> QED BY <1>5, <1>6, <1>7 DEF t, Turns

(* Each start but the first adds the same. *)
LEMMA MostNext ==
  /\ Most(0) = 0 /\ Most(1) = Turns(Nets)
  /\ \A k \in Nat : Most(k) \in Nat
  /\ \A k \in Nat : k > 0 => Most(k + 1) = Most(k) + (Turns(Nets) + MaxRetries)
<1> DEFINE m == Turns(Nets) + MaxRetries
<1>1. m \in Nat /\ Turns(Nets) \in Nat
  BY FailoverAssumption, TurnsGrow
<1>2. \A k \in Nat : Most(k) = IF k = 0 THEN 0 ELSE Turns(Nets) + (k - 1) * m
  BY DEF Most, Turns
<1> HIDE DEF m
<1>3. ASSUME NEW k \in Nat, k > 0
      PROVE  /\ (k - 1) * m \in Nat /\ k * m = (k - 1) * m + m
             /\ k + 1 # 0 /\ (k + 1) - 1 = k
  BY <1>1, <1>3
<1>4. Most(1) = Turns(Nets)
  <2>1. (1 - 1) * m = 0
    BY <1>1
  <2> QED
    BY <1>1, <1>2, <2>1
<1>5. \A k \in Nat : Most(k) \in Nat
  BY <1>1, <1>2, <1>3
<1>6. ASSUME NEW k \in Nat, k > 0
      PROVE  Most(k + 1) = Most(k) + m
  <2>1. Most(k + 1) = Turns(Nets) + k * m /\ Most(k) = Turns(Nets) + (k - 1) * m
    BY <1>2, <1>3, <1>6
  <2> DEFINE p == k * m
             q == (k - 1) * m
  <2>2. p = q + m /\ q \in Nat
    BY <1>3, <1>6
  <2>3. Most(k + 1) = Turns(Nets) + p /\ Most(k) = Turns(Nets) + q
    BY <2>1
  <2> HIDE DEF p, q
  <2> QED
    BY <1>1, <2>2, <2>3
<1> QED
  BY <1>2, <1>4, <1>5, <1>6 DEF m

(* The constants and the variables are numbers, and so is what is left. *)
LEMMA Numbers ==
  ASSUME TypeOK, CountInv
  PROVE  /\ Nets \in Nat /\ Nets > 0 /\ MaxRetries \in Nat /\ MaxRetries > 0
         /\ MaxStarts \in Nat /\ MaxLosses \in Nat
         /\ index \in 0 .. Nets /\ retry \in 0 .. MaxRetries /\ mine \in Nat
         /\ attempts \in Nat /\ starts \in Nat /\ losses \in 0 .. MaxLosses
         /\ Turns(index) \in Nat /\ Turns(Nets) \in Nat /\ Turns(0) = 0
         /\ Turns(index) <= Turns(Nets)
         /\ index < Nets => /\ Turns(index + 1) = Turns(index) + MaxRetries
                             /\ Turns(index) + MaxRetries <= Turns(Nets)
         /\ hdl \in {"step", "choose"} => Turns(mine) \in Nat /\ Turns(mine) <= Turns(Nets)
         /\ Left \in Nat /\ Left <= Turns(Nets)
         /\ Most(starts) \in Nat
<1>1. /\ Nets \in Nat /\ Nets > 0 /\ MaxRetries \in Nat /\ MaxRetries > 0
      /\ MaxStarts \in Nat /\ MaxLosses \in Nat
      /\ index \in 0 .. Nets /\ retry \in 0 .. MaxRetries /\ mine \in Nat
      /\ attempts \in Nat /\ starts \in Nat /\ losses \in 0 .. MaxLosses
  BY FailoverAssumption DEF TypeOK
<1>2. /\ Turns(index) \in Nat /\ Turns(Nets) \in Nat /\ Turns(0) = 0
      /\ Turns(index) <= Turns(Nets)
      /\ index < Nets => /\ Turns(index + 1) = Turns(index) + MaxRetries
                          /\ Turns(index) + MaxRetries <= Turns(Nets)
  BY <1>1, TurnsGrow
<1>3. hdl \in {"step", "choose"} =>
        mine \in 0 .. Nets /\ Turns(mine) \in Nat /\ Turns(mine) <= Turns(Nets)
  BY <1>1, TurnsGrow DEF CountInv
<1>4. Left \in Nat /\ Left <= Turns(Nets)
  BY <1>1, <1>2, <1>3 DEF Left, CountInv, TypeOK, Waiting, Active
<1>5. Most(starts) \in Nat
  BY <1>1, MostNext
<1> QED BY <1>1, <1>2, <1>3, <1>4, <1>5

(* Clearing the index keeps the invariant. *)
LEMMA StartIndexKeeps ==
  ASSUME Inv, Meet, StartIndex
  PROVE  Inv'
<1> USE DEF Inv
<1>n. /\ Nets \in Nat /\ Nets > 0 /\ MaxRetries \in Nat /\ MaxRetries > 0
      /\ MaxStarts \in Nat /\ MaxLosses \in Nat
      /\ index \in 0 .. Nets /\ retry \in 0 .. MaxRetries /\ mine \in Nat
      /\ attempts \in Nat /\ starts \in Nat /\ losses \in 0 .. MaxLosses
      /\ Turns(index) \in Nat /\ Turns(Nets) \in Nat /\ Turns(0) = 0
      /\ Turns(index) <= Turns(Nets)
      /\ index < Nets => /\ Turns(index + 1) = Turns(index) + MaxRetries
                          /\ Turns(index) + MaxRetries <= Turns(Nets)
      /\ hdl \in {"step", "choose"} => Turns(mine) \in Nat /\ Turns(mine) <= Turns(Nets)
      /\ Left \in Nat /\ Left <= Turns(Nets)
      /\ Most(starts) \in Nat
  BY Numbers
<1>1. TypeOK'
  BY <1>n DEF StartIndex, TypeOK, CountInv, Meet, shared, history, Active, Waiting, Networks, Outside
<1>2. CountInv'
  BY <1>n DEF StartIndex, TypeOK, CountInv, shared, history, Active, Waiting
<1>3. BudgetInv'
  <2>0. /\ starts' = starts + 1 /\ fsm = "off" /\ fsm' = "retry" /\ link' = link
        /\ attempts' = attempts /\ index' = 0 /\ retry' = retry /\ hdl' = hdl /\ mine' = mine
    BY DEF StartIndex, history
  <2>1. CASE link = "stopped"
    <3>1. starts = 0 /\ starts' = 1 /\ attempts' = 0 /\ Owed' = 0 /\ Left' = Turns(Nets)
      BY <2>0, <2>1, <1>n DEF BudgetInv, CountInv, Waiting, Owed, Left
    <3>2. Most(starts') = Turns(Nets)
      BY <3>1, MostNext
    <3> QED BY <2>0, <2>1, <3>1, <3>2, <1>n DEF BudgetInv
  <2>2. CASE link # "stopped"
    <3>1. starts > 0 /\ attempts + Left + Owed <= Most(starts) /\ Owed = 0
      BY <2>0, <2>2 DEF BudgetInv, Owed
    <3>2. Most(starts') = Most(starts) + (Turns(Nets) + MaxRetries)
      BY <2>0, <3>1, <1>n, MostNext
    <3>3. Owed' = MaxRetries
      BY <2>0, <2>2 DEF Owed
    <3>4. Left' <= Turns(Nets) /\ Left' \in Int
      BY <2>0, <1>n DEF Left, CountInv, Active, Waiting, TypeOK
    <3>5. attempts' + Left' + Owed' <= Most(starts')
      BY <2>0, <3>1, <3>2, <3>3, <3>4, <1>n
    <3> QED BY <2>0, <2>2, <3>1, <3>5, <1>n DEF BudgetInv
  <2> QED BY <2>1, <2>2
<1>4. TriedInv'
  BY <1>n DEF StartIndex, TypeOK, CountInv, TriedInv, Reached, TriedOut, Meet, shared, history,
              Active, Waiting, Networks
<1>5. NeverGivesUpEarly' /\ ExhaustedTriedAll'
  BY <1>n DEF StartIndex, TypeOK, NeverGivesUpEarly, ExhaustedTriedAll, Meet, shared, history,
              Active, Waiting, Networks
<1> QED BY <1>1, <1>2, <1>3, <1>4, <1>5
(* Clearing the counter keeps the invariant. *)
LEMMA StartRetryKeeps ==
  ASSUME Inv, Meet, StartRetry
  PROVE  Inv'
<1> USE DEF Inv
<1>n. /\ Nets \in Nat /\ Nets > 0 /\ MaxRetries \in Nat /\ MaxRetries > 0
      /\ MaxStarts \in Nat /\ MaxLosses \in Nat
      /\ index \in 0 .. Nets /\ retry \in 0 .. MaxRetries /\ mine \in Nat
      /\ attempts \in Nat /\ starts \in Nat /\ losses \in 0 .. MaxLosses
      /\ Turns(index) \in Nat /\ Turns(Nets) \in Nat /\ Turns(0) = 0
      /\ Turns(index) <= Turns(Nets)
      /\ index < Nets => /\ Turns(index + 1) = Turns(index) + MaxRetries
                          /\ Turns(index) + MaxRetries <= Turns(Nets)
      /\ hdl \in {"step", "choose"} => Turns(mine) \in Nat /\ Turns(mine) <= Turns(Nets)
      /\ Left \in Nat /\ Left <= Turns(Nets)
      /\ Most(starts) \in Nat
  BY Numbers
<1>1. TypeOK'
  BY <1>n DEF StartRetry, TypeOK, CountInv, Meet, shared, history, Active, Waiting, Networks, Outside
<1>2. CountInv'
  BY <1>n DEF StartRetry, TypeOK, CountInv, shared, history, Active, Waiting
<1>3. BudgetInv'
  BY <1>n DEF StartRetry, TypeOK, CountInv, BudgetInv, Left, Owed, shared, history, Active, Waiting
<1>4. TriedInv'
  BY <1>n DEF StartRetry, TypeOK, CountInv, TriedInv, Reached, TriedOut, Meet, shared, history,
              Active, Waiting, Networks
<1>5. NeverGivesUpEarly' /\ ExhaustedTriedAll'
  BY <1>n DEF StartRetry, TypeOK, NeverGivesUpEarly, ExhaustedTriedAll, Meet, shared, history,
              Active, Waiting, Networks
<1> QED BY <1>1, <1>2, <1>3, <1>4, <1>5
(* Configuring the first network keeps the invariant. *)
LEMMA StartConfigKeeps ==
  ASSUME Inv, Meet, StartConfig
  PROVE  Inv'
<1> USE DEF Inv
<1>n. /\ Nets \in Nat /\ Nets > 0 /\ MaxRetries \in Nat /\ MaxRetries > 0
      /\ MaxStarts \in Nat /\ MaxLosses \in Nat
      /\ index \in 0 .. Nets /\ retry \in 0 .. MaxRetries /\ mine \in Nat
      /\ attempts \in Nat /\ starts \in Nat /\ losses \in 0 .. MaxLosses
      /\ Turns(index) \in Nat /\ Turns(Nets) \in Nat /\ Turns(0) = 0
      /\ Turns(index) <= Turns(Nets)
      /\ index < Nets => /\ Turns(index + 1) = Turns(index) + MaxRetries
                          /\ Turns(index) + MaxRetries <= Turns(Nets)
      /\ hdl \in {"step", "choose"} => Turns(mine) \in Nat /\ Turns(mine) <= Turns(Nets)
      /\ Left \in Nat /\ Left <= Turns(Nets)
      /\ Most(starts) \in Nat
  BY Numbers
<1>1. TypeOK'
  BY <1>n DEF StartConfig, TypeOK, CountInv, Meet, shared, history, Active, Waiting, Networks, Outside
<1>2. CountInv'
  BY <1>n DEF StartConfig, TypeOK, CountInv, shared, history, Active, Waiting
<1>3. BudgetInv'
  BY <1>n DEF StartConfig, TypeOK, CountInv, BudgetInv, Left, Owed, shared, history, Active, Waiting
<1>4. TriedInv'
  <2>0. /\ target' \in {0, target} /\ fsm = "config" /\ fsm' = "start"
        /\ UNCHANGED <<index, retry, link, hdl, mine, tries>>
    BY DEF StartConfig, history
  <2>1. SUFFICES ASSUME ~met' PROVE TriedInv'
    BY DEF TriedInv
  <2>2. ~met /\ hdl = "wait" /\ index = 0 /\ retry = 0
    BY <2>0, <2>1 DEF Meet, TriedInv, TypeOK
  <2>3. Active => tries[0] >= 1 /\ 0 \in Networks
    <3>1. SUFFICES ASSUME Active PROVE tries[0] >= 1 /\ 0 \in Networks
      OBVIOUS
    <3>2. Reached(1) /\ 0 \in Networks
      BY <2>2, <3>1, <1>n DEF TriedInv, Networks
    <3>3. tries[0] \in Nat /\ target \in Nat
      BY <3>2 DEF TypeOK
    <3>4. CASE target = 0 BY <3>2, <3>4 DEF Reached
    <3>5. CASE target # 0
      <4>1. 0 < target BY <3>3, <3>5
      <4>2. tries[0] >= MaxRetries BY <3>2, <4>1 DEF Reached
      <4> QED BY <3>2, <3>3, <4>2, <1>n
    <3> QED BY <3>2, <3>4, <3>5
  <2>4. Active' => Reached(retry + 1)'
    <3>1. SUFFICES ASSUME Active PROVE Reached(retry + 1)'
      BY <2>0 DEF Active
    <3>2. CASE target' = target
      BY <2>0, <2>2, <3>1, <3>2 DEF TriedInv, Reached, Networks
    <3>3. CASE target' = 0
      BY <2>0, <2>2, <2>3, <3>1, <3>3, <1>n DEF Reached, Networks
    <3> QED BY <2>0, <3>2, <3>3
  <2> QED BY <2>0, <2>2, <2>4 DEF TriedInv
<1>5. NeverGivesUpEarly' /\ ExhaustedTriedAll'
  BY <1>n DEF StartConfig, TypeOK, NeverGivesUpEarly, ExhaustedTriedAll, Meet, shared, history,
              Active, Waiting, Networks
<1> QED BY <1>1, <1>2, <1>3, <1>4, <1>5
(* Starting the driver keeps the invariant. *)
LEMMA StartDriverKeeps ==
  ASSUME Inv, Meet, StartDriver
  PROVE  Inv'
<1> USE DEF Inv
<1>n. /\ Nets \in Nat /\ Nets > 0 /\ MaxRetries \in Nat /\ MaxRetries > 0
      /\ MaxStarts \in Nat /\ MaxLosses \in Nat
      /\ index \in 0 .. Nets /\ retry \in 0 .. MaxRetries /\ mine \in Nat
      /\ attempts \in Nat /\ starts \in Nat /\ losses \in 0 .. MaxLosses
      /\ Turns(index) \in Nat /\ Turns(Nets) \in Nat /\ Turns(0) = 0
      /\ Turns(index) <= Turns(Nets)
      /\ index < Nets => /\ Turns(index + 1) = Turns(index) + MaxRetries
                          /\ Turns(index) + MaxRetries <= Turns(Nets)
      /\ hdl \in {"step", "choose"} => Turns(mine) \in Nat /\ Turns(mine) <= Turns(Nets)
      /\ Left \in Nat /\ Left <= Turns(Nets)
      /\ Most(starts) \in Nat
  BY Numbers
<1>1. TypeOK'
  BY <1>n DEF StartDriver, TypeOK, CountInv, Meet, shared, history, Active, Waiting, Networks, Outside
<1>2. CountInv'
  BY <1>n DEF StartDriver, TypeOK, CountInv, shared, history, Active, Waiting
<1>3. BudgetInv'
  BY <1>n DEF StartDriver, TypeOK, CountInv, BudgetInv, Left, Owed, shared, history, Active, Waiting
<1>4. TriedInv'
  BY <1>n DEF StartDriver, TypeOK, CountInv, TriedInv, Reached, TriedOut, Meet, shared, history,
              Active, Waiting, Networks
<1>5. NeverGivesUpEarly' /\ ExhaustedTriedAll'
  BY <1>n DEF StartDriver, TypeOK, NeverGivesUpEarly, ExhaustedTriedAll, Meet, shared, history,
              Active, Waiting, Networks
<1> QED BY <1>1, <1>2, <1>3, <1>4, <1>5
(* The first attempt keeps the invariant. *)
LEMMA StaStartKeeps ==
  ASSUME Inv, Meet, StaStart
  PROVE  Inv'
<1> USE DEF Inv
<1>n. /\ Nets \in Nat /\ Nets > 0 /\ MaxRetries \in Nat /\ MaxRetries > 0
      /\ MaxStarts \in Nat /\ MaxLosses \in Nat
      /\ index \in 0 .. Nets /\ retry \in 0 .. MaxRetries /\ mine \in Nat
      /\ attempts \in Nat /\ starts \in Nat /\ losses \in 0 .. MaxLosses
      /\ Turns(index) \in Nat /\ Turns(Nets) \in Nat /\ Turns(0) = 0
      /\ Turns(index) <= Turns(Nets)
      /\ index < Nets => /\ Turns(index + 1) = Turns(index) + MaxRetries
                          /\ Turns(index) + MaxRetries <= Turns(Nets)
      /\ hdl \in {"step", "choose"} => Turns(mine) \in Nat /\ Turns(mine) <= Turns(Nets)
      /\ Left \in Nat /\ Left <= Turns(Nets)
      /\ Most(starts) \in Nat
  BY Numbers
<1>1. TypeOK'
  BY <1>n DEF StaStart, Connect, TypeOK, CountInv, Meet, shared, history, Active, Waiting, Networks, Outside
<1>2. CountInv'
  BY <1>n DEF StaStart, Connect, TypeOK, CountInv, shared, history, Active, Waiting
<1>3. BudgetInv'
  BY <1>n DEF StaStart, Connect, TypeOK, CountInv, BudgetInv, Left, Owed, shared, history, Active, Waiting
<1>4. TriedInv'
  BY <1>n DEF StaStart, Connect, TypeOK, CountInv, TriedInv, Reached, TriedOut, Meet, shared, history,
              Active, Waiting, Networks
<1>5. NeverGivesUpEarly' /\ ExhaustedTriedAll'
  BY <1>n DEF StaStart, Connect, TypeOK, NeverGivesUpEarly, ExhaustedTriedAll, Meet, shared, history,
              Active, Waiting, Networks
<1> QED BY <1>1, <1>2, <1>3, <1>4, <1>5
(* An address keeps the invariant. *)
LEMMA GotIpKeeps ==
  ASSUME Inv, Meet, GotIp
  PROVE  Inv'
<1> USE DEF Inv
<1>n. /\ Nets \in Nat /\ Nets > 0 /\ MaxRetries \in Nat /\ MaxRetries > 0
      /\ MaxStarts \in Nat /\ MaxLosses \in Nat
      /\ index \in 0 .. Nets /\ retry \in 0 .. MaxRetries /\ mine \in Nat
      /\ attempts \in Nat /\ starts \in Nat /\ losses \in 0 .. MaxLosses
      /\ Turns(index) \in Nat /\ Turns(Nets) \in Nat /\ Turns(0) = 0
      /\ Turns(index) <= Turns(Nets)
      /\ index < Nets => /\ Turns(index + 1) = Turns(index) + MaxRetries
                          /\ Turns(index) + MaxRetries <= Turns(Nets)
      /\ hdl \in {"step", "choose"} => Turns(mine) \in Nat /\ Turns(mine) <= Turns(Nets)
      /\ Left \in Nat /\ Left <= Turns(Nets)
      /\ Most(starts) \in Nat
  BY Numbers
<1>1. TypeOK'
  BY <1>n DEF GotIp, TypeOK, CountInv, Meet, shared, history, Active, Waiting, Networks, Outside
<1>2. CountInv'
  BY <1>n DEF GotIp, TypeOK, CountInv, shared, history, Active, Waiting
<1>3. BudgetInv'
  BY <1>n DEF GotIp, TypeOK, CountInv, BudgetInv, Left, Owed, shared, history, Active, Waiting
<1>4. TriedInv'
  BY <1>n DEF GotIp, TypeOK, CountInv, TriedInv, Reached, TriedOut, Meet, shared, history,
              Active, Waiting, Networks
<1>5. NeverGivesUpEarly' /\ ExhaustedTriedAll'
  BY <1>n DEF GotIp, TypeOK, NeverGivesUpEarly, ExhaustedTriedAll, Meet, shared, history,
              Active, Waiting, Networks
<1> QED BY <1>1, <1>2, <1>3, <1>4, <1>5
(* A disconnection keeps the invariant. *)
LEMMA DisconnectedKeeps ==
  ASSUME Inv, Meet, Disconnected, Active, losses' \in 0 .. MaxLosses
  PROVE  Inv'
<1> USE DEF Inv
<1>n. /\ Nets \in Nat /\ Nets > 0 /\ MaxRetries \in Nat /\ MaxRetries > 0
      /\ MaxStarts \in Nat /\ MaxLosses \in Nat
      /\ index \in 0 .. Nets /\ retry \in 0 .. MaxRetries /\ mine \in Nat
      /\ attempts \in Nat /\ starts \in Nat /\ losses \in 0 .. MaxLosses
      /\ Turns(index) \in Nat /\ Turns(Nets) \in Nat /\ Turns(0) = 0
      /\ Turns(index) <= Turns(Nets)
      /\ index < Nets => /\ Turns(index + 1) = Turns(index) + MaxRetries
                          /\ Turns(index) + MaxRetries <= Turns(Nets)
      /\ hdl \in {"step", "choose"} => Turns(mine) \in Nat /\ Turns(mine) <= Turns(Nets)
      /\ Left \in Nat /\ Left <= Turns(Nets)
      /\ Most(starts) \in Nat
  BY Numbers
<1>1. TypeOK'
  BY <1>n DEF Disconnected, TypeOK, CountInv, Meet, shared, history, Active, Waiting, Networks, Outside
<1>2. CountInv'
  BY <1>n DEF Disconnected, TypeOK, CountInv, shared, history, Active, Waiting
<1>3. BudgetInv'
  BY <1>n DEF Disconnected, TypeOK, CountInv, BudgetInv, Left, Owed, shared, history, Active, Waiting
<1>4. TriedInv'
  BY <1>n DEF Disconnected, TypeOK, CountInv, TriedInv, Reached, TriedOut, Meet, shared, history,
              Active, Waiting, Networks
<1>5. NeverGivesUpEarly' /\ ExhaustedTriedAll'
  BY <1>n DEF Disconnected, TypeOK, NeverGivesUpEarly, ExhaustedTriedAll, Meet, shared, history,
              Active, Waiting, Networks
<1> QED BY <1>1, <1>2, <1>3, <1>4, <1>5
(* Counting it keeps the invariant. *)
LEMMA CountKeeps ==
  ASSUME Inv, Meet, Count
  PROVE  Inv'
<1> USE DEF Inv
<1>n. /\ Nets \in Nat /\ Nets > 0 /\ MaxRetries \in Nat /\ MaxRetries > 0
      /\ MaxStarts \in Nat /\ MaxLosses \in Nat
      /\ index \in 0 .. Nets /\ retry \in 0 .. MaxRetries /\ mine \in Nat
      /\ attempts \in Nat /\ starts \in Nat /\ losses \in 0 .. MaxLosses
      /\ Turns(index) \in Nat /\ Turns(Nets) \in Nat /\ Turns(0) = 0
      /\ Turns(index) <= Turns(Nets)
      /\ index < Nets => /\ Turns(index + 1) = Turns(index) + MaxRetries
                          /\ Turns(index) + MaxRetries <= Turns(Nets)
      /\ hdl \in {"step", "choose"} => Turns(mine) \in Nat /\ Turns(mine) <= Turns(Nets)
      /\ Left \in Nat /\ Left <= Turns(Nets)
      /\ Most(starts) \in Nat
  BY Numbers
<1>1. TypeOK'
  BY <1>n DEF Count, TypeOK, CountInv, Meet, shared, history, Active, Waiting, Networks, Outside
<1>2. CountInv'
  BY <1>n DEF Count, TypeOK, CountInv, shared, history, Active, Waiting
<1>3. BudgetInv'
  BY <1>n DEF Count, TypeOK, CountInv, BudgetInv, Left, Owed, shared, history, Active, Waiting
<1>4. TriedInv'
  BY <1>n DEF Count, TypeOK, CountInv, TriedInv, Reached, TriedOut, Meet, shared, history,
              Active, Waiting, Networks
<1>5. NeverGivesUpEarly' /\ ExhaustedTriedAll'
  BY <1>n DEF Count, TypeOK, NeverGivesUpEarly, ExhaustedTriedAll, Meet, shared, history,
              Active, Waiting, Networks
<1> QED BY <1>1, <1>2, <1>3, <1>4, <1>5
(* The next attempt at the same network keeps the invariant. *)
LEMMA AgainKeeps ==
  ASSUME Inv, Meet, Again
  PROVE  Inv'
<1> USE DEF Inv
<1>n. /\ Nets \in Nat /\ Nets > 0 /\ MaxRetries \in Nat /\ MaxRetries > 0
      /\ MaxStarts \in Nat /\ MaxLosses \in Nat
      /\ index \in 0 .. Nets /\ retry \in 0 .. MaxRetries /\ mine \in Nat
      /\ attempts \in Nat /\ starts \in Nat /\ losses \in 0 .. MaxLosses
      /\ Turns(index) \in Nat /\ Turns(Nets) \in Nat /\ Turns(0) = 0
      /\ Turns(index) <= Turns(Nets)
      /\ index < Nets => /\ Turns(index + 1) = Turns(index) + MaxRetries
                          /\ Turns(index) + MaxRetries <= Turns(Nets)
      /\ hdl \in {"step", "choose"} => Turns(mine) \in Nat /\ Turns(mine) <= Turns(Nets)
      /\ Left \in Nat /\ Left <= Turns(Nets)
      /\ Most(starts) \in Nat
  BY Numbers
<1>1. TypeOK'
  BY <1>n DEF Again, Connect, TypeOK, CountInv, Meet, shared, history, Active, Waiting, Networks, Outside
<1>2. CountInv'
  BY <1>n DEF Again, Connect, TypeOK, CountInv, shared, history, Active, Waiting
<1>3. BudgetInv'
  BY <1>n DEF Again, Connect, TypeOK, CountInv, BudgetInv, Left, Owed, shared, history, Active, Waiting
<1>4. TriedInv'
  BY <1>n DEF Again, Connect, TypeOK, CountInv, TriedInv, Reached, TriedOut, Meet, shared, history,
              Active, Waiting, Networks
<1>5. NeverGivesUpEarly' /\ ExhaustedTriedAll'
  BY <1>n DEF Again, Connect, TypeOK, NeverGivesUpEarly, ExhaustedTriedAll, Meet, shared, history,
              Active, Waiting, Networks
<1> QED BY <1>1, <1>2, <1>3, <1>4, <1>5
(* Turning from a network keeps the invariant. *)
LEMMA NextIndexKeeps ==
  ASSUME Inv, Meet, NextIndex
  PROVE  Inv'
<1> USE DEF Inv
<1>n. /\ Nets \in Nat /\ Nets > 0 /\ MaxRetries \in Nat /\ MaxRetries > 0
      /\ MaxStarts \in Nat /\ MaxLosses \in Nat
      /\ index \in 0 .. Nets /\ retry \in 0 .. MaxRetries /\ mine \in Nat
      /\ attempts \in Nat /\ starts \in Nat /\ losses \in 0 .. MaxLosses
      /\ Turns(index) \in Nat /\ Turns(Nets) \in Nat /\ Turns(0) = 0
      /\ Turns(index) <= Turns(Nets)
      /\ index < Nets => /\ Turns(index + 1) = Turns(index) + MaxRetries
                          /\ Turns(index) + MaxRetries <= Turns(Nets)
      /\ hdl \in {"step", "choose"} => Turns(mine) \in Nat /\ Turns(mine) <= Turns(Nets)
      /\ Left \in Nat /\ Left <= Turns(Nets)
      /\ Most(starts) \in Nat
  BY Numbers
<1>1. TypeOK'
  BY <1>n DEF NextIndex, TypeOK, CountInv, Meet, shared, history, Active, Waiting, Networks, Outside
<1>2. CountInv'
  BY <1>n DEF NextIndex, TypeOK, CountInv, shared, history, Active, Waiting
<1>3. BudgetInv'
  BY <1>n DEF NextIndex, TypeOK, CountInv, BudgetInv, Left, Owed, shared, history, Active, Waiting
<1>4. TriedInv'
  BY <1>n DEF NextIndex, TypeOK, CountInv, TriedInv, Reached, TriedOut, Meet, shared, history,
              Active, Waiting, Networks
<1>5. NeverGivesUpEarly' /\ ExhaustedTriedAll'
  BY <1>n DEF NextIndex, TypeOK, NeverGivesUpEarly, ExhaustedTriedAll, Meet, shared, history,
              Active, Waiting, Networks
<1> QED BY <1>1, <1>2, <1>3, <1>4, <1>5
(* Counting the networks keeps the invariant. *)
LEMMA StepIndexKeeps ==
  ASSUME Inv, Meet, StepIndex
  PROVE  Inv'
<1> USE DEF Inv
<1>n. /\ Nets \in Nat /\ Nets > 0 /\ MaxRetries \in Nat /\ MaxRetries > 0
      /\ MaxStarts \in Nat /\ MaxLosses \in Nat
      /\ index \in 0 .. Nets /\ retry \in 0 .. MaxRetries /\ mine \in Nat
      /\ attempts \in Nat /\ starts \in Nat /\ losses \in 0 .. MaxLosses
      /\ Turns(index) \in Nat /\ Turns(Nets) \in Nat /\ Turns(0) = 0
      /\ Turns(index) <= Turns(Nets)
      /\ index < Nets => /\ Turns(index + 1) = Turns(index) + MaxRetries
                          /\ Turns(index) + MaxRetries <= Turns(Nets)
      /\ hdl \in {"step", "choose"} => Turns(mine) \in Nat /\ Turns(mine) <= Turns(Nets)
      /\ Left \in Nat /\ Left <= Turns(Nets)
      /\ Most(starts) \in Nat
  BY Numbers
<1>1. TypeOK'
  BY <1>n DEF StepIndex, TypeOK, CountInv, Meet, shared, history, Active, Waiting, Networks, Outside
<1>2. CountInv'
  BY <1>n DEF StepIndex, TypeOK, CountInv, shared, history, Active, Waiting
<1>3. BudgetInv'
  BY <1>n DEF StepIndex, TypeOK, CountInv, BudgetInv, Left, Owed, shared, history, Active, Waiting
<1>4. TriedInv'
  BY <1>n DEF StepIndex, TypeOK, CountInv, TriedInv, Reached, TriedOut, Meet, shared, history,
              Active, Waiting, Networks
<1>5. NeverGivesUpEarly' /\ ExhaustedTriedAll'
  BY <1>n DEF StepIndex, TypeOK, NeverGivesUpEarly, ExhaustedTriedAll, Meet, shared, history,
              Active, Waiting, Networks
<1> QED BY <1>1, <1>2, <1>3, <1>4, <1>5
(* Giving up keeps the invariant. *)
LEMMA GiveUpKeeps ==
  ASSUME Inv, Meet, GiveUp
  PROVE  Inv'
<1> USE DEF Inv
<1>n. /\ Nets \in Nat /\ Nets > 0 /\ MaxRetries \in Nat /\ MaxRetries > 0
      /\ MaxStarts \in Nat /\ MaxLosses \in Nat
      /\ index \in 0 .. Nets /\ retry \in 0 .. MaxRetries /\ mine \in Nat
      /\ attempts \in Nat /\ starts \in Nat /\ losses \in 0 .. MaxLosses
      /\ Turns(index) \in Nat /\ Turns(Nets) \in Nat /\ Turns(0) = 0
      /\ Turns(index) <= Turns(Nets)
      /\ index < Nets => /\ Turns(index + 1) = Turns(index) + MaxRetries
                          /\ Turns(index) + MaxRetries <= Turns(Nets)
      /\ hdl \in {"step", "choose"} => Turns(mine) \in Nat /\ Turns(mine) <= Turns(Nets)
      /\ Left \in Nat /\ Left <= Turns(Nets)
      /\ Most(starts) \in Nat
  BY Numbers
<1>1. TypeOK'
  BY <1>n DEF GiveUp, TypeOK, CountInv, Meet, shared, history, Active, Waiting, Networks, Outside
<1>2. CountInv'
  BY <1>n DEF GiveUp, TypeOK, CountInv, shared, history, Active, Waiting
<1>3. BudgetInv'
  BY <1>n DEF GiveUp, TypeOK, CountInv, BudgetInv, Left, Owed, shared, history, Active, Waiting
<1>4. TriedInv'
  BY <1>n DEF GiveUp, TypeOK, CountInv, TriedInv, Reached, TriedOut, Meet, shared, history,
              Active, Waiting, Networks
<1>5. NeverGivesUpEarly' /\ ExhaustedTriedAll'
  <2>0. /\ hdl = "choose" /\ tries' = tries /\ attempts' = attempts
        /\ mine >= Nets \/ index >= Nets
    BY <1>n DEF GiveUp, history
  <2>1. mine = Nets /\ Turns(Nets) <= attempts
    BY <2>0, <1>n DEF CountInv
  <2>2. NeverGivesUpEarly'
    BY <2>0, <2>1 DEF NeverGivesUpEarly, Turns
  <2>3. ~met => \A n \in Networks : tries[n] >= MaxRetries
    BY <2>0, <2>1, <1>n DEF TriedInv, TriedOut, Networks
  <2>4. ~met' => ~met
    BY DEF Meet, TypeOK
  <2> QED BY <2>0, <2>2, <2>3, <2>4 DEF ExhaustedTriedAll, Networks
<1> QED BY <1>1, <1>2, <1>3, <1>4, <1>5
(* Choosing the next network keeps the invariant. *)
LEMMA ChooseKeeps ==
  ASSUME Inv, Meet, Choose
  PROVE  Inv'
<1> USE DEF Inv
<1>n. /\ Nets \in Nat /\ Nets > 0 /\ MaxRetries \in Nat /\ MaxRetries > 0
      /\ MaxStarts \in Nat /\ MaxLosses \in Nat
      /\ index \in 0 .. Nets /\ retry \in 0 .. MaxRetries /\ mine \in Nat
      /\ attempts \in Nat /\ starts \in Nat /\ losses \in 0 .. MaxLosses
      /\ Turns(index) \in Nat /\ Turns(Nets) \in Nat /\ Turns(0) = 0
      /\ Turns(index) <= Turns(Nets)
      /\ index < Nets => /\ Turns(index + 1) = Turns(index) + MaxRetries
                          /\ Turns(index) + MaxRetries <= Turns(Nets)
      /\ hdl \in {"step", "choose"} => Turns(mine) \in Nat /\ Turns(mine) <= Turns(Nets)
      /\ Left \in Nat /\ Left <= Turns(Nets)
      /\ Most(starts) \in Nat
  BY Numbers
<1>1. TypeOK'
  BY <1>n DEF Choose, TypeOK, CountInv, Meet, shared, history, Active, Waiting, Networks, Outside
<1>2. CountInv'
  BY <1>n DEF Choose, TypeOK, CountInv, shared, history, Active, Waiting
<1>3. BudgetInv'
  BY <1>n DEF Choose, TypeOK, CountInv, BudgetInv, Left, Owed, shared, history, Active, Waiting
<1>4. TriedInv'
  BY <1>n DEF Choose, TypeOK, CountInv, TriedInv, Reached, TriedOut, Meet, shared, history,
              Active, Waiting, Networks
<1>5. NeverGivesUpEarly' /\ ExhaustedTriedAll'
  BY <1>n DEF Choose, TypeOK, NeverGivesUpEarly, ExhaustedTriedAll, Meet, shared, history,
              Active, Waiting, Networks
<1> QED BY <1>1, <1>2, <1>3, <1>4, <1>5
(* The first attempt at it keeps the invariant. *)
LEMMA ConnectNextKeeps ==
  ASSUME Inv, Meet, ConnectNext
  PROVE  Inv'
<1> USE DEF Inv
<1>n. /\ Nets \in Nat /\ Nets > 0 /\ MaxRetries \in Nat /\ MaxRetries > 0
      /\ MaxStarts \in Nat /\ MaxLosses \in Nat
      /\ index \in 0 .. Nets /\ retry \in 0 .. MaxRetries /\ mine \in Nat
      /\ attempts \in Nat /\ starts \in Nat /\ losses \in 0 .. MaxLosses
      /\ Turns(index) \in Nat /\ Turns(Nets) \in Nat /\ Turns(0) = 0
      /\ Turns(index) <= Turns(Nets)
      /\ index < Nets => /\ Turns(index + 1) = Turns(index) + MaxRetries
                          /\ Turns(index) + MaxRetries <= Turns(Nets)
      /\ hdl \in {"step", "choose"} => Turns(mine) \in Nat /\ Turns(mine) <= Turns(Nets)
      /\ Left \in Nat /\ Left <= Turns(Nets)
      /\ Most(starts) \in Nat
  BY Numbers
<1>1. TypeOK'
  BY <1>n DEF ConnectNext, Connect, TypeOK, CountInv, Meet, shared, history, Active, Waiting, Networks, Outside
<1>2. CountInv'
  BY <1>n DEF ConnectNext, Connect, TypeOK, CountInv, shared, history, Active, Waiting
<1>3. BudgetInv'
  BY <1>n DEF ConnectNext, Connect, TypeOK, CountInv, BudgetInv, Left, Owed, shared, history, Active, Waiting
<1>4. TriedInv'
  BY <1>n DEF ConnectNext, Connect, TypeOK, CountInv, TriedInv, Reached, TriedOut, Meet, shared, history,
              Active, Waiting, Networks
<1>5. NeverGivesUpEarly' /\ ExhaustedTriedAll'
  BY <1>n DEF ConnectNext, Connect, TypeOK, NeverGivesUpEarly, ExhaustedTriedAll, Meet, shared, history,
              Active, Waiting, Networks
<1> QED BY <1>1, <1>2, <1>3, <1>4, <1>5
-----------------------------------------------------------------------------
(* The invariant holds from power on. *)
THEOREM FailoverInvariance == Spec => []Inv
<1>1. Init => Inv
  <2> SUFFICES ASSUME Init PROVE Inv
    OBVIOUS
  <2>1. TypeOK
    <3>1. /\ index = 0 /\ retry = 0 /\ target = 0 /\ mine = 0 /\ starts = 0 /\ losses = 0
          /\ attempts = 0 /\ tries \in [Networks -> Nat] /\ met = FALSE
          /\ link = "stopped" /\ posted = "none" /\ fsm = "off" /\ hdl = "wait"
      BY DEF Init
    <3>2. 0 \in 0 .. Nets /\ 0 \in 0 .. MaxRetries /\ 0 \in 0 .. MaxStarts /\ 0 \in 0 .. MaxLosses
      BY FailoverAssumption
    <3>3. met \in BOOLEAN
      BY <3>1
    <3> QED BY <3>1, <3>2, <3>3 DEF TypeOK
  <2>2. CountInv /\ TriedInv /\ NeverGivesUpEarly /\ ExhaustedTriedAll
    BY DEF Init, CountInv, TriedInv, Active, Waiting, NeverGivesUpEarly, ExhaustedTriedAll
  <2>3. BudgetInv
    BY DEF Init, BudgetInv
  <2> QED BY <2>1, <2>2, <2>3 DEF Inv
<1>2. Inv /\ [Next]_vars => Inv'
  <2> SUFFICES ASSUME Inv, [Next]_vars PROVE Inv'
    OBVIOUS
  <2>1. CASE Start /\ Meet
    BY <2>1, StartIndexKeeps, StartRetryKeeps, StartConfigKeeps, StartDriverKeeps DEF Start
  <2>2. CASE Handle /\ Meet
    BY <2>2, StaStartKeeps, CountKeeps, AgainKeeps, NextIndexKeeps, StepIndexKeeps,
       GiveUpKeeps, ChooseKeeps, ConnectNextKeeps DEF Handle
  <2>3. CASE (AttemptFails \/ Lost) /\ Meet
    <3>1. Active /\ Disconnected
      BY <2>3 DEF AttemptFails, Lost, Active
    <3>2. losses' \in 0 .. MaxLosses
      BY <2>3, FailoverAssumption DEF AttemptFails, Lost, Inv, TypeOK
    <3> QED BY <2>3, <3>1, <3>2, DisconnectedKeeps
  <2>4. CASE GotIp /\ Meet
    BY <2>4, GotIpKeeps
  <2>5. CASE UNCHANGED vars
    BY <2>5 DEF vars, shared, history, Inv, TypeOK, CountInv, BudgetInv, TriedInv, Left, Owed,
                Reached, TriedOut, Active, Waiting, NeverGivesUpEarly, ExhaustedTriedAll
  <2> QED BY <2>1, <2>2, <2>3, <2>4, <2>5 DEF Next
<1> QED BY <1>1, <1>2, PTL DEF Spec

(* The index stays within the networks, the counter within the attempts.   *)
THEOREM TypeCorrect == Spec => []TypeOK
<1>1. Inv => TypeOK BY DEF Inv
<1> QED BY <1>1, FailoverInvariance, PTL

(* However a start and the handler come between each other's steps, the    *)
(* failover is exhausted only after as many attempts as trying every       *)
(* network MaxRetries times takes.                                         *)
THEOREM NotGivenUpEarly == Spec => []NeverGivesUpEarly
<1>1. Inv => NeverGivesUpEarly BY DEF Inv
<1> QED BY <1>1, FailoverInvariance, PTL

(* Without a start that meets the handler of a disconnection, it is        *)
(* exhausted only when every network has been tried as often as it is to   *)
(* be, wherever starts while an attempt is under way have left the index.  *)
THEOREM ExhaustedMeansTried == Spec => []ExhaustedTriedAll
<1>1. Inv => ExhaustedTriedAll BY DEF Inv
<1> QED BY <1>1, FailoverInvariance, PTL

(* Each start costs a bounded number of attempts, wherever its steps come  *)
(* between the handler's, and however often connections are lost.          *)
THEOREM AttemptsBounded == Spec => []AttemptsAreBounded
<1>1. Inv => AttemptsAreBounded
  <2> SUFFICES ASSUME Inv PROVE AttemptsAreBounded
    OBVIOUS
  <2>1. CASE starts = 0
    BY <2>1, MostNext DEF Inv, BudgetInv, CountInv, Waiting, AttemptsAreBounded
  <2>2. CASE starts > 0
    <3>1. attempts + Left + Owed <= Most(starts)
      BY <2>2 DEF Inv, BudgetInv
    <3>2. attempts \in Nat /\ Left \in Nat /\ Owed \in Nat /\ Most(starts) \in Nat
      BY Numbers DEF Inv, Owed
    <3> QED BY <3>1, <3>2 DEF AttemptsAreBounded
  <2> QED BY <2>1, <2>2, Numbers DEF Inv
<1> QED BY <1>1, FailoverInvariance, PTL

-----------------------------------------------------------------------------
(* The station has told what it has come to, and the handler of a          *)
(* disconnection runs only while the station is down.                      *)
ToldInv ==
  /\ link = "up" => posted = "connected"
  /\ link = "idle" => posted = "exhausted"
  /\ hdl # "wait" => link = "down"

(* Every step of the failover tells, ... *)
LEMMA ToldKeeps == TypeOK /\ ToldInv /\ [Next]_vars => ToldInv'
BY DEF TypeOK, ToldInv, Next, vars, shared, history, Start, StartIndex, StartRetry, StartConfig,
       StartDriver, Handle, StaStart, Connect, AttemptFails, GotIp, Lost, Disconnected,
       Count, Again, NextIndex, StepIndex, GiveUp, Choose, ConnectNext

(* ... and is a step of the station, or none. *)
LEMMA StepsOfStation ==
  ASSUME TypeOK, ToldInv, TypeOK', ToldInv', [Next]_vars
  PROVE  [Station!Next]_Seen
<1> USE DEF Station!Next
<1>1. CASE StartDriver
  <2>1. CASE link = "stopped"
    <3>1. link' = "starting"
      BY <1>1, <2>1 DEF StartDriver
    <3>2. Seen = "idle" /\ Seen' = "trying"
      BY <2>1, <3>1 DEF Seen
    <3> QED BY <3>2 DEF Station!Start
  <2>2. CASE link # "stopped"
    <3>1. link' = link /\ posted' = posted
      BY <1>1, <2>2 DEF StartDriver
    <3> QED BY <3>1 DEF Seen
  <2> QED BY <2>1, <2>2
<1>2. CASE StaStart \/ Again \/ ConnectNext \/ AttemptFails
  <2>1. /\ link \in {"starting", "down", "connecting"}
        /\ link' \in {"connecting", "down"}
    BY <1>2 DEF StaStart, Again, ConnectNext, AttemptFails, Disconnected, Connect, ToldInv
  <2>2. Seen = "trying" /\ Seen' = "trying"
    BY <2>1 DEF Seen
  <2> QED BY <2>2
<1>3. CASE GotIp
  <2>1. link = "connecting" /\ link' = "up" /\ posted' = "connected"
    BY <1>3 DEF GotIp
  <2>2. Seen = "trying" /\ Seen' = "up"
    BY <2>1 DEF Seen
  <2> QED BY <2>2 DEF Station!Connected
<1>4. CASE Lost
  <2>1. link = "up" /\ link' = "down" /\ posted = "connected"
    BY <1>4 DEF Lost, Disconnected, ToldInv
  <2>2. Seen = "up" /\ Seen' = "trying"
    BY <2>1 DEF Seen
  <2> QED BY <2>2 DEF Station!Lost
<1>5. CASE GiveUp
  <2>1. link = "down" /\ link' = "idle" /\ posted' = "exhausted"
    BY <1>5 DEF GiveUp, ToldInv
  <2>2. Seen = "trying" /\ Seen' = "exhausted"
    BY <2>1 DEF Seen
  <2> QED BY <2>2 DEF Station!Exhausted
<1>6. CASE \/ StartIndex \/ StartRetry \/ StartConfig
           \/ Count \/ NextIndex \/ StepIndex \/ Choose
  <2>1. link' = link /\ posted' = posted
    BY <1>6 DEF StartIndex, StartRetry, StartConfig, Count, NextIndex, StepIndex, Choose
  <2> QED BY <2>1 DEF Seen
<1>7. CASE UNCHANGED vars
  BY <1>7 DEF vars, Seen
<1> QED BY <1>1, <1>2, <1>3, <1>4, <1>5, <1>6, <1>7 DEF Next, Start, Handle

(* The failover is the station an AwakeSession waits for: it is up or has  *)
(* given up only after trying, a lost connection is tried again or given   *)
(* up, nothing restarts a station that has given up, and whatever it comes *)
(* to it has posted.                                                       *)
THEOREM FailoverIsStation == Spec => Station!Spec
<1>1. Init => ToldInv /\ Station!Init
  BY DEF Init, ToldInv, Seen, Station!Init
<1>2. TypeOK /\ TypeOK' /\ ToldInv /\ [Next]_vars => ToldInv' /\ [Station!Next]_Seen
  BY ToldKeeps, StepsOfStation
<1> QED BY <1>1, <1>2, TypeCorrect, PTL DEF Spec, Station!Spec
=============================================================================
