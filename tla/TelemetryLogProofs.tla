------------------------- MODULE TelemetryLogProofs -------------------------
(***************************************************************************)
(* Proofs about TelemetryLog: type correctness, the shape of the ring, that*)
(* no reading is published twice, what can be lost, and the refinement.    *)
(***************************************************************************)
EXTENDS TelemetryLog, TLAPS

-----------------------------------------------------------------------------
(* Arithmetic of the ring's indices *)

(* Stepping an index of the ring stays in the ring and wraps at its end.   *)
LEMMA SuccWraps ==
  ASSUME NEW i \in Index
  PROVE  Succ(i) \in Index /\ Succ(i) = IF i = MaxItems - 1 THEN 0 ELSE i + 1
  BY LogAssumption DEF Succ, Index

(* The i-th entry of a ring lies in the ring; it is counted from the tail, *)
(* wrapping once at most.                                                  *)
LEMMA PositionWraps ==
  ASSUME NEW h \in Header, NEW i \in 1 .. MaxItems + 1
  PROVE  /\ Position(h, i) \in Index
         /\ Position(h, i) = IF h.tail + i - 1 < MaxItems THEN h.tail + i - 1
                             ELSE h.tail + i - 1 - MaxItems
<1>1. h.tail \in 0 .. MaxItems - 1
  BY DEF Header, Index
<1>2. ASSUME NEW a \in 0 .. MaxItems - 1, NEW b \in 0 .. MaxItems
      PROVE  (a + b) % MaxItems
               = IF a + b < MaxItems THEN a + b ELSE a + b - MaxItems
  BY LogAssumption
<1>3. h.tail + (i - 1) = h.tail + i - 1 /\ i - 1 \in 0 .. MaxItems
  BY <1>1, LogAssumption
<1>4. Position(h, i) = (h.tail + (i - 1)) % MaxItems
  BY <1>3 DEF Position
<1>5. Position(h, i) = IF h.tail + (i - 1) < MaxItems THEN h.tail + (i - 1)
                       ELSE h.tail + (i - 1) - MaxItems
  BY <1>1, <1>2, <1>3, <1>4
<1> QED
  BY <1>1, <1>3, <1>5, LogAssumption DEF Index

(* Different entries of a ring have different slots. *)
LEMMA PositionInjective ==
  ASSUME NEW h \in Header, NEW i \in 1 .. MaxItems, NEW j \in 1 .. MaxItems,
         Position(h, i) = Position(h, j)
  PROVE  i = j
  BY PositionWraps, LogAssumption DEF Header, Index

(* When the tail moves up, every entry moves down by one. *)
LEMMA PositionShift ==
  ASSUME NEW h \in Header, NEW g \in Header, g.tail = Succ(h.tail),
         NEW i \in 1 .. MaxItems
  PROVE  Position(g, i) = Position(h, i + 1)
<1>1. h.tail \in Index
  BY DEF Header
<1>2. g.tail = IF h.tail = MaxItems - 1 THEN 0 ELSE h.tail + 1
  BY <1>1, SuccWraps
<1>3. i + 1 \in 1 .. MaxItems + 1 /\ i \in 1 .. MaxItems + 1
  BY LogAssumption
<1>4. Position(g, i) = IF g.tail + i - 1 < MaxItems THEN g.tail + i - 1
                       ELSE g.tail + i - 1 - MaxItems
  BY <1>3, PositionWraps
<1>5. Position(h, i + 1) = IF h.tail + i < MaxItems THEN h.tail + i
                           ELSE h.tail + i - MaxItems
  BY <1>1, <1>3, PositionWraps, LogAssumption DEF Index
<1> QED
  BY <1>1, <1>2, <1>4, <1>5, LogAssumption DEF Index

(* The next entry's slot is the successor of this one's. *)
LEMMA PositionStep ==
  ASSUME NEW h \in Header, NEW i \in 1 .. MaxItems
  PROVE  Position(h, i + 1) = Succ(Position(h, i))
<1>1. h.tail \in Index /\ i + 1 \in 1 .. MaxItems + 1 /\ i \in 1 .. MaxItems + 1
  BY LogAssumption DEF Header
<1>2. Position(h, i) = IF h.tail + i - 1 < MaxItems THEN h.tail + i - 1
                       ELSE h.tail + i - 1 - MaxItems
  BY <1>1, PositionWraps
<1>3. Position(h, i + 1) = IF h.tail + i < MaxItems THEN h.tail + i
                           ELSE h.tail + i - MaxItems
  BY <1>1, PositionWraps, LogAssumption DEF Index
<1>4. Position(h, i) \in Index
  BY <1>1, PositionWraps
<1>5. Succ(Position(h, i)) = IF Position(h, i) = MaxItems - 1 THEN 0
                             ELSE Position(h, i) + 1
  BY <1>4, SuccWraps
<1>6. h.tail \in 0 .. MaxItems - 1 /\ MaxItems \in Nat \ {0}
  BY <1>1, LogAssumption DEF Index
<1>7. CASE h.tail + i < MaxItems
  BY <1>2, <1>3, <1>5, <1>6, <1>7
<1>8. CASE h.tail + i = MaxItems
  BY <1>2, <1>3, <1>5, <1>6, <1>8
<1>9. CASE h.tail + i > MaxItems
  BY <1>2, <1>3, <1>5, <1>6, <1>9
<1> QED
  BY <1>6, <1>7, <1>8, <1>9

(* One past the last slot is the first slot again. *)
LEMMA PositionCycles ==
  ASSUME NEW h \in Header
  PROVE  /\ Position(h, 1) = h.tail
         /\ Position(h, MaxItems + 1) = h.tail
<1>1. h.tail \in Index /\ 1 \in 1 .. MaxItems + 1
        /\ MaxItems + 1 \in 1 .. MaxItems + 1
  BY LogAssumption DEF Header
<1>2. Position(h, 1) = IF h.tail + 1 - 1 < MaxItems THEN h.tail + 1 - 1
                       ELSE h.tail + 1 - 1 - MaxItems
  BY <1>1, PositionWraps
<1>3. Position(h, MaxItems + 1)
        = IF h.tail + (MaxItems + 1) - 1 < MaxItems
          THEN h.tail + (MaxItems + 1) - 1
          ELSE h.tail + (MaxItems + 1) - 1 - MaxItems
  BY <1>1, PositionWraps
<1> QED
  BY <1>1, <1>2, <1>3, LogAssumption DEF Index

-----------------------------------------------------------------------------
(* Headers *)

(* The header operations stay within the type of headers. *)
LEMMA EmptyType == Empty \in Header
  BY LogAssumption DEF Empty, Header, Index

LEMMA FormattedType ==
  ASSUME header \in Header
  PROVE  Formatted \in Header /\ Formatted.magic
  BY EmptyType DEF Formatted, Header, Empty

LEMMA PushedType ==
  ASSUME NEW h \in Header
  PROVE  Pushed(h) \in Header
<1>1. h.head \in Index /\ h.tail \in Index /\ h.count \in 0 .. MaxItems
  BY DEF Header
<1>2. Succ(h.head) \in Index /\ Succ(h.tail) \in Index
  BY <1>1, SuccWraps
<1>3. h.count < MaxItems => h.count + 1 \in 0 .. MaxItems
  BY <1>1, LogAssumption
<1> QED
  BY <1>1, <1>2, <1>3 DEF Pushed, Header

LEMMA PoppedType ==
  ASSUME NEW h \in Header, h.count # 0
  PROVE  Popped(h) \in Header
<1>1. h.tail \in Index /\ h.count \in 0 .. MaxItems
  BY DEF Header
<1>2. Succ(h.tail) \in Index /\ h.count - 1 \in 0 .. MaxItems
  BY <1>1, SuccWraps, LogAssumption
<1> QED
  BY <1>1, <1>2 DEF Popped, Header

-----------------------------------------------------------------------------
(* Type correctness *)

(* Every variable keeps its type: indices stay in the ring, the count      *)
(* never passes the capacity.                                              *)
THEOREM TypeCorrect == Spec => []TypeOK
<1>1. Init => TypeOK
  <2> SUFFICES ASSUME Init PROVE TypeOK
    OBVIOUS
  <2>1. header \in Header
    BY EmptyType DEF Init, Header, Empty
  <2>2. slots \in [Index -> 0 .. MaxReadings]
    BY LogAssumption DEF Init, Blank
  <2>3. hdr \in Header
    BY EmptyType DEF Init
  <2> QED
    BY <2>1, <2>2, <2>3, LogAssumption DEF Init, TypeOK, Blank
<1>2. TypeOK /\ [Next]_vars => TypeOK'
  <2> SUFFICES ASSUME TypeOK, [Next]_vars
               PROVE  TypeOK'
    OBVIOUS
  <2> USE DEF TypeOK, PushSteps, FlushSteps
  <2>1. CASE PushLoad
    BY <2>1, FormattedType DEF PushLoad, LoadHeader, hist
  <2>2. CASE PushSlot
    BY <2>2, PushedType DEF PushSlot, Header
  <2>3. CASE PushHeader
    BY <2>3, LogAssumption DEF PushHeader, hist, Blank
  <2>4. CASE FlushCount
    BY <2>4, FormattedType, LogAssumption
       DEF FlushCount, LoadHeader, hist, Blank
  <2>5. CASE PopLoad
    <3>1. Formatted \in Header
      BY FormattedType
    <3>2. slots[Formatted.tail] \in 0 .. MaxReadings
      BY <3>1 DEF Header
    <3>3. CASE Formatted.count = 0
      BY <2>5, <3>1, <3>3, LogAssumption DEF PopLoad, hist, Blank
    <3>4. CASE Formatted.count # 0
      BY <2>5, <3>1, <3>2, <3>4, PoppedType DEF PopLoad, hist
    <3> QED BY <3>3, <3>4
  <2>6. CASE PopHeader
    BY <2>6 DEF PopHeader, hist
  <2>7. CASE PublishPopped
    <3>1. item' \in 0 .. MaxReadings
      BY <2>7, LogAssumption DEF PublishPopped, Blank
    <3>2. delivered' \subseteq delivered \cup {item}
      BY <2>7 DEF PublishPopped
    <3>3. pc' \in {"popLoad", "pushLoad"} /\ after' = "awake"
      BY <2>7 DEF PublishPopped
    <3> QED
      BY <2>7, <3>1, <3>2, <3>3 DEF PublishPopped, fram
  <2>8. CASE GoOffline
    BY <2>8, LogAssumption DEF GoOffline, Capture, fram
  <2>9. CASE SendInitial
    <3>1. item' \in 0 .. MaxReadings /\ captured' \in 0 .. MaxReadings
      BY <2>9, LogAssumption DEF SendInitial, Capture
    <3>2. delivered' \subseteq delivered \cup {item'}
      BY <2>9 DEF SendInitial
    <3>3. pc' \in {"flushCount", "pushLoad", "awake"} /\ after' = "awake"
      BY <2>9 DEF SendInitial, Capture
    <3> QED
      BY <2>9, <3>1, <3>2, <3>3 DEF SendInitial, fram
  <2>10. CASE RequestShutdown
    BY <2>10 DEF RequestShutdown, fram, hist
  <2>11. CASE FramError
    BY <2>11, LogAssumption DEF FramError, fram, hist, Blank
  <2>12. CASE Shutdown \/ PowerFails
    <3>1. LoseRam
      BY <2>12 DEF Shutdown, PowerFails
    <3> QED
      BY <3>1, EmptyType, LogAssumption DEF LoseRam, fram, hist, Blank
  <2>13. CASE Boot
    BY <2>13 DEF Boot, fram, hist
  <2>14. CASE UNCHANGED vars
    BY <2>14 DEF vars, fram, ram, hist
  <2> QED
    BY <2>1, <2>2, <2>3, <2>4, <2>5, <2>6, <2>7, <2>8, <2>9, <2>10, <2>11,
       <2>12, <2>13, <2>14
       DEF Next, Push, Flush, Handlers, Power
<1> QED
  BY <1>1, <1>2, PTL DEF Spec

-----------------------------------------------------------------------------
(* The ring under the operations *)

(* Reading the header, and formatting it if need be, changes no entry.     *)
LEMMA FormattingKeepsEntries ==
  ASSUME TypeOK, LogInv, header' = Formatted, slots' = slots
  PROVE  /\ RingShape(header)' /\ header'.magic
         /\ header'.count = header.count
         /\ \A i \in 1 .. header.count : Entry(i)' = Entry(i)
<1>1. CASE header.magic
  BY <1>1 DEF Formatted, LogInv, RingShape, Entry, Position
<1>2. CASE ~header.magic
  <2>1. header' = Empty /\ header.count = 0
    BY <1>2 DEF Formatted, LogInv, RingShape
  <2>2. Position(Empty, 1) = 0
    BY EmptyType, PositionCycles DEF Empty
  <2> QED
    BY <2>1, <2>2 DEF RingShape, Empty
<1> QED
  BY <1>1, <1>2

(* Entries stay distinct and unsent when the ring keeps them and only      *)
(* other readings are sent.                                                *)
LEMMA EntriesCarryOver ==
  ASSUME TypeOK, EntriesDistinctAndUnsent,
         header'.count = header.count,
         \A i \in 1 .. header.count : Entry(i)' = Entry(i),
         captured' \in Nat, captured <= captured',
         NEW r, delivered' \subseteq delivered \cup {r},
         \A i \in 1 .. header.count : Entry(i) # r
  PROVE  EntriesDistinctAndUnsent'
<1> SUFFICES ASSUME NEW i \in 1 .. header.count
             PROVE  /\ Entry(i)' \in 1 .. captured'
                    /\ Entry(i)' \notin delivered'
                    /\ \A j \in 1 .. header.count :
                         Entry(i)' = Entry(j)' => i = j
  BY DEF EntriesDistinctAndUnsent
<1>1. Entry(i)' = Entry(i) /\ Entry(i) \in 1 .. captured
        /\ Entry(i) \notin delivered
  BY DEF EntriesDistinctAndUnsent
<1>2. Entry(i) \in 1 .. captured'
  BY <1>1 DEF TypeOK
<1>3. \A j \in 1 .. header.count : Entry(i) = Entry(j) => i = j
  BY DEF EntriesDistinctAndUnsent
<1> QED
  BY <1>1, <1>2, <1>3

(* The second write of a push: the entries of the ring are then the old    *)
(* ones without the displaced one, and the item.                           *)
LEMMA PushedRing ==
  ASSUME TypeOK, LogInv, pc = "pushHeader", header' = Pushed(header),
         slots' = slots, captured' = captured, delivered' = delivered
  PROVE  /\ RingShape(header)' /\ EntriesDistinctAndUnsent' /\ header'.magic
         /\ header.count < MaxItems =>
              /\ header'.count = header.count + 1
              /\ \A i \in 1 .. header.count : Entry(i)' = Entry(i)
              /\ \A i : i = header.count + 1 => Entry(i)' = item
         /\ header.count = MaxItems =>
              /\ header'.count = MaxItems
              /\ \A i \in 1 .. MaxItems - 1 : Entry(i)' = Entry(i + 1)
              /\ Entry(MaxItems)' = item
<1>1. header \in Header /\ header' \in Header /\ header.magic
  BY PushedType DEF TypeOK, LogInv, CallInv
<1>2. header.head = Position(header, header.count + 1)
  BY DEF LogInv, RingShape
<1>3. header'.head = Succ(header.head) /\ header'.magic
  BY <1>1 DEF Pushed, Header
<1>4. header.count \in 0 .. MaxItems
  BY <1>1 DEF Header
<1>5. slots[header.head] = item /\ item \in 1 .. captured
        /\ item \notin delivered
  BY DEF LogInv, CallInv
<1>6. CASE header.count < MaxItems
  <2>1. header'.tail = header.tail /\ header'.count = header.count + 1
    BY <1>1, <1>6 DEF Pushed, Header
  <2>2. \A i : Position(header', i) = Position(header, i)
    BY <2>1 DEF Position
  <2>3. header.count + 1 \in 1 .. MaxItems
    BY <1>4, <1>6, LogAssumption
  <2>4. RingShape(header)'
    <3>1. Position(header, (header.count + 1) + 1)
            = Succ(Position(header, header.count + 1))
      BY <1>1, <2>3, PositionStep
    <3> QED
      BY <1>2, <1>3, <2>1, <2>2, <3>1 DEF RingShape
  <2>5. \A i \in 1 .. header.count : Entry(i)' = Entry(i) /\ Entry(i) # item
    BY <1>6, <2>2 DEF LogInv, CallInv, ItemIsNew, Entry
  <2>6. \A i : i = header.count + 1 => Entry(i)' = item
    BY <1>2, <1>5, <2>2 DEF Entry
  <2>7. \A i \in 1 .. header'.count :
          i \in 1 .. header.count \/ i = header.count + 1
    BY <1>4, <2>1
  <2>8. EntriesDistinctAndUnsent'
    BY <1>5, <2>5, <2>6, <2>7 DEF LogInv, EntriesDistinctAndUnsent
  <2> QED
    BY <1>3, <1>6, <2>1, <2>4, <2>5, <2>6, <2>8, LogAssumption
<1>7. CASE header.count = MaxItems
  <2>1. header'.tail = Succ(header.tail) /\ header'.count = MaxItems
    BY <1>1, <1>4, <1>7 DEF Pushed, Header
  <2>2. \A i \in 1 .. MaxItems : Position(header', i) = Position(header, i + 1)
    BY <1>1, <2>1, PositionShift
  <2>3. header.head = header.tail /\ Position(header', MaxItems + 1) = header'.tail
    BY <1>1, <1>2, <1>7, PositionCycles
  <2>4. RingShape(header)'
    BY <1>3, <2>1, <2>3 DEF RingShape
  <2>5. \A i \in 1 .. MaxItems - 1 : Entry(i)' = Entry(i + 1)
    BY <2>2, LogAssumption DEF Entry
  <2>6. Entry(MaxItems)' = Entry(1)
    <3>1. Position(header', MaxItems) = Position(header, 1)
      BY <1>1, <2>2, PositionCycles, LogAssumption
    <3> QED
      BY <3>1 DEF Entry
  <2> DEFINE old(i) == IF i = MaxItems THEN 1 ELSE i + 1
  <2>7. \A i \in 1 .. MaxItems :
          old(i) \in 1 .. MaxItems /\ Entry(i)' = Entry(old(i))
    BY <2>5, <2>6, LogAssumption
  <2>8. \A i, j \in 1 .. MaxItems : old(i) = old(j) => i = j
    BY LogAssumption
  <2>9. \A i \in 1 .. MaxItems :
          /\ Entry(i) \in 1 .. captured /\ Entry(i) \notin delivered
          /\ \A j \in 1 .. MaxItems : Entry(i) = Entry(j) => i = j
    BY <1>7 DEF LogInv, EntriesDistinctAndUnsent
  <2> HIDE DEF old
  <2>10. EntriesDistinctAndUnsent'
    BY <2>1, <2>7, <2>8, <2>9 DEF EntriesDistinctAndUnsent
  <2>11. Entry(1) = item
    BY <1>1, <1>5, <2>3, PositionCycles DEF Entry
  <2> QED
    BY <1>3, <1>7, <2>1, <2>4, <2>5, <2>6, <2>10, <2>11, LogAssumption
<1> QED
  BY <1>4, <1>6, <1>7, LogAssumption

(* The header write of a pop: the entries move down by one, the first one  *)
(* is in the task's hands only.                                            *)
LEMMA PoppedRing ==
  ASSUME TypeOK, LogInv, pc = "popHeader", header' = Popped(header),
         slots' = slots, captured' = captured, delivered' = delivered,
         item' = item
  PROVE  /\ RingShape(header)' /\ EntriesDistinctAndUnsent' /\ ItemIsNew'
         /\ header'.magic /\ header'.count = header.count - 1
         /\ \A i \in 1 .. header'.count : Entry(i)' = Entry(i + 1)
<1>1. header \in Header /\ header.magic /\ header.count \in 1 .. MaxItems
        /\ item = Entry(1)
  BY DEF TypeOK, LogInv, CallInv, Header
<1>2. header' \in Header
  BY <1>1, PoppedType
<1>3. header'.tail = Succ(header.tail) /\ header'.count = header.count - 1
        /\ header'.head = header.head /\ header'.magic
  BY <1>1 DEF Popped, Header
<1>4. \A i \in 1 .. MaxItems : Position(header', i) = Position(header, i + 1)
  BY <1>1, <1>2, <1>3, PositionShift
<1>5. RingShape(header)'
  <2>1. header.head = Position(header, header.count + 1)
    BY DEF LogInv, RingShape
  <2>2. header'.count + 1 = header.count
    BY <1>1, <1>3
  <2> QED
    BY <1>1, <1>3, <1>4, <2>1, <2>2 DEF RingShape
<1>6. \A i \in 1 .. header'.count :
        /\ i + 1 \in 1 .. header.count /\ i + 1 # 1
        /\ Entry(i)' = Entry(i + 1)
  <2>1. \A i \in 1 .. header'.count :
          i \in 1 .. MaxItems /\ i + 1 \in 1 .. header.count /\ i + 1 # 1
    BY <1>1, <1>3, LogAssumption
  <2> QED
    BY <1>4, <2>1 DEF Entry
<1>7. \A i \in 1 .. header.count :
        /\ Entry(i) \in 1 .. captured /\ Entry(i) \notin delivered
        /\ \A j \in 1 .. header.count : Entry(i) = Entry(j) => i = j
  BY DEF LogInv, EntriesDistinctAndUnsent
<1>8. EntriesDistinctAndUnsent'
  <2>1. \A i, j \in 1 .. header'.count : i + 1 = j + 1 => i = j
    BY <1>1, <1>3
  <2> QED
    BY <1>6, <1>7, <2>1 DEF EntriesDistinctAndUnsent
<1>9. ItemIsNew'
  <2>1. 1 \in 1 .. header.count
    BY <1>1
  <2> QED
    BY <1>1, <1>6, <1>7, <2>1 DEF ItemIsNew
<1> QED
  BY <1>3, <1>5, <1>6, <1>8, <1>9

(* The slot write of a push: next to the entries, or onto the oldest one.  *)
LEMMA PushedSlot ==
  ASSUME TypeOK, LogInv, pc = "pushSlot", header' = header,
         slots' = [slots EXCEPT ![header.head] = item],
         captured' = captured, delivered' = delivered, item' = item
  PROVE  /\ EntriesDistinctAndUnsent'
         /\ slots'[header.head] = item
         /\ header.count < MaxItems =>
              ItemIsNew' /\ \A i \in 1 .. header.count : Entry(i)' = Entry(i)
         /\ header.count = MaxItems =>
              /\ slots[header.head] = Entry(1)
              /\ \A i \in 1 .. header.count :
                   Entry(i)' = IF i = 1 THEN item ELSE Entry(i)
<1>1. header \in Header /\ header.head \in Index
        /\ header.count \in 0 .. MaxItems
  BY DEF TypeOK, Header
<1>2. ItemIsNew /\ header.head = Position(header, header.count + 1)
  BY DEF LogInv, CallInv, RingShape
<1>3. slots'[header.head] = item
  BY <1>1 DEF TypeOK
<1>4. \A i \in 1 .. header.count : Position(header, i) \in Index
  BY <1>1, PositionWraps, LogAssumption
<1>5. \A i \in 1 .. header.count :
        Entry(i)' = IF Position(header, i) = header.head THEN item ELSE Entry(i)
  BY <1>1, <1>4 DEF TypeOK, Entry, Position
<1>6. CASE header.count < MaxItems
  <2>1. \A i \in 1 .. header.count : Position(header, i) # header.head
    <3>1. header.count + 1 \in 1 .. MaxItems
            /\ \A i \in 1 .. header.count : i \in 1 .. MaxItems /\ i # header.count + 1
      BY <1>1, <1>6, LogAssumption
    <3> QED
      BY <1>1, <1>2, <3>1, PositionInjective
  <2>2. \A i \in 1 .. header.count : Entry(i)' = Entry(i)
    BY <1>5, <2>1
  <2>3. EntriesDistinctAndUnsent' /\ ItemIsNew'
    BY <1>2, <2>2 DEF LogInv, EntriesDistinctAndUnsent, ItemIsNew
  <2> QED
    BY <1>3, <1>6, <2>2, <2>3, LogAssumption
<1>7. CASE header.count = MaxItems
  <2>1. header.head = Position(header, 1)
    BY <1>1, <1>2, <1>7, PositionCycles
  <2>2. \A i \in 1 .. header.count : Position(header, i) = header.head => i = 1
    BY <1>1, <1>7, <2>1, PositionInjective, LogAssumption
  <2>3. \A i \in 1 .. header.count : Entry(i)' = IF i = 1 THEN item ELSE Entry(i)
    BY <1>5, <2>1, <2>2
  <2>4. EntriesDistinctAndUnsent'
    BY <1>2, <2>3 DEF LogInv, EntriesDistinctAndUnsent, ItemIsNew
  <2>5. slots[header.head] = Entry(1)
    BY <2>1 DEF Entry
  <2> QED
    BY <1>3, <1>7, <2>3, <2>4, <2>5, LogAssumption
<1> QED
  BY <1>1, <1>6, <1>7, LogAssumption

-----------------------------------------------------------------------------
(* The invariant *)

LEMMA LogInvInit == Init => LogInv
<1> SUFFICES ASSUME Init PROVE LogInv
  OBVIOUS
<1>1. header \in Header /\ header.head = 0 /\ header.tail = 0 /\ header.count = 0
  BY EmptyType DEF Init, Empty, Header
<1>2. Position(header, 1) = 0
  BY <1>1, PositionCycles
<1> QED
  BY <1>1, <1>2
     DEF Init, LogInv, RingShape, EntriesDistinctAndUnsent, CallInv

LEMMA LogInvNext == TypeOK /\ LogInv /\ [Next]_vars => LogInv'
<1> SUFFICES ASSUME TypeOK, LogInv, [Next]_vars
             PROVE  LogInv'
  OBVIOUS
<1>a. header \in Header /\ header.count \in 0 .. MaxItems
        /\ captured \in 0 .. MaxReadings
  BY DEF TypeOK, Header
(* Steps that only read the header. *)
<1>b. ASSUME header' = Formatted, slots' = slots, captured' = captured,
             delivered' = delivered
      PROVE  /\ RingShape(header)' /\ EntriesDistinctAndUnsent'
             /\ delivered' \subseteq 1 .. captured' /\ header'.magic
             /\ item' = item /\ ItemIsNew => ItemIsNew'
  <2>1. /\ RingShape(header)' /\ header'.magic /\ header'.count = header.count
        /\ \A i \in 1 .. header.count : Entry(i)' = Entry(i)
    BY <1>b, FormattingKeepsEntries
  <2> QED
    BY <1>b, <2>1 DEF LogInv, EntriesDistinctAndUnsent, ItemIsNew
(* Steps that leave the FRAM and the history alone. *)
<1>c. ASSUME UNCHANGED <<fram, captured, delivered>>
      PROVE  /\ RingShape(header)' /\ EntriesDistinctAndUnsent'
             /\ delivered' \subseteq 1 .. captured'
             /\ item' = item /\ ItemIsNew => ItemIsNew'
  BY <1>c DEF fram, LogInv, RingShape, EntriesDistinctAndUnsent, ItemIsNew,
              Entry, Position
<1>1. CASE PushLoad
  <2>1. ItemIsNew /\ item' = item
    BY <1>1 DEF PushLoad, LogInv, CallInv
  <2>2. hdr' = header' /\ header' = Formatted /\ pc' = "pushSlot"
    BY <1>1 DEF PushLoad, LoadHeader
  <2> QED
    BY <1>1, <1>b, <2>1, <2>2 DEF PushLoad, hist, LogInv, CallInv
<1>2. CASE PushSlot
  <2>1. header.magic /\ hdr = header /\ ItemIsNew
    BY <1>2 DEF PushSlot, LogInv, CallInv
  <2>2. /\ EntriesDistinctAndUnsent' /\ slots'[header.head] = item
        /\ header.count < MaxItems => ItemIsNew'
    BY <1>2, <2>1, PushedSlot DEF PushSlot
  <2>3. RingShape(header)'
    BY <1>2 DEF PushSlot, LogInv, RingShape, Position
  <2> QED
    BY <1>2, <2>1, <2>2, <2>3 DEF PushSlot, LogInv, CallInv, ItemIsNew
<1>3. CASE PushHeader
  <2>1. pc' \in {"awake", "shutdown"} /\ hdr = Pushed(header)
    BY <1>3 DEF PushHeader, TypeOK, LogInv, CallInv
  <2>2. RingShape(header)' /\ EntriesDistinctAndUnsent'
    BY <1>3, <2>1, PushedRing DEF PushHeader, hist
  <2> QED
    BY <1>3, <2>1, <2>2 DEF PushHeader, hist, LogInv, CallInv
<1>4. CASE FlushCount
  BY <1>4, <1>b DEF FlushCount, LoadHeader, hist, LogInv, CallInv
<1>5. CASE PopLoad
  <2>1. CASE Formatted.count = 0
    BY <1>5, <1>b, <2>1 DEF PopLoad, hist, LogInv, CallInv
  <2>2. CASE Formatted.count # 0
    <3>1. header' = Formatted /\ hdr' = Popped(header') /\ pc' = "popHeader"
            /\ item' = slots[header'.tail] /\ slots' = slots
      BY <1>5, <2>2 DEF PopLoad
    <3>2. header' \in Header
      BY <3>1, FormattedType DEF TypeOK
    <3>3. Position(header', 1) = header'.tail
      BY <3>2, PositionCycles
    <3>4. item' = Entry(1)'
      BY <3>1, <3>3 DEF Entry
    <3>5. header'.count > 0
      BY <2>2, <3>1, <3>2 DEF Header
    <3> QED
      BY <1>5, <1>b, <3>1, <3>4, <3>5 DEF PopLoad, hist, LogInv, CallInv
  <2> QED BY <2>1, <2>2
<1>6. CASE PopHeader
  <2>1. hdr = Popped(header)
    BY <1>6 DEF PopHeader, LogInv, CallInv
  <2>2. RingShape(header)' /\ EntriesDistinctAndUnsent' /\ ItemIsNew'
    BY <1>6, <2>1, PoppedRing DEF PopHeader, hist
  <2> QED
    BY <1>6, <2>2 DEF PopHeader, hist, LogInv, CallInv
<1>7. CASE PublishPopped
  <2>1. ItemIsNew /\ UNCHANGED <<fram, captured>>
    BY <1>7 DEF PublishPopped, LogInv, CallInv
  <2>2. delivered' \subseteq delivered \cup {item}
    BY <1>7 DEF PublishPopped
  <2>3. /\ header' = header
        /\ \A i \in 1 .. header.count : Entry(i)' = Entry(i)
    BY <2>1 DEF fram, Entry, Position
  <2>4. EntriesDistinctAndUnsent'
    BY <2>1, <2>2, <2>3, <1>a, EntriesCarryOver DEF LogInv, ItemIsNew
  <2>5. delivered' \subseteq 1 .. captured'
    BY <2>1, <2>2 DEF LogInv, ItemIsNew
  <2>6. RingShape(header)'
    BY <2>3 DEF LogInv, RingShape, Position
  <2>7. CallInv'
    <3>1. CASE pc' = "pushLoad"
      <4>1. item' = item /\ delivered' = delivered
        BY <1>7, <3>1 DEF PublishPopped
      <4> QED
        BY <1>c, <2>1, <3>1, <4>1 DEF CallInv
    <3>2. CASE pc' = "popLoad"
      BY <3>2 DEF CallInv
    <3> QED
      BY <1>7, <3>1, <3>2 DEF PublishPopped
  <2> QED
    BY <2>4, <2>5, <2>6, <2>7 DEF LogInv
<1>8. CASE (GoOffline \/ SendInitial) /\ pc' # "awake"
  <2>1. /\ item' = captured + 1 /\ captured' = captured + 1 /\ UNCHANGED fram
        /\ delivered' \subseteq delivered \cup {item'}
    BY <1>8 DEF GoOffline, SendInitial, Capture
  <2>2. \A i \in 1 .. header.count : Entry(i)' = Entry(i) /\ Entry(i) # item'
    <3>1. \A i \in 1 .. header.count : Entry(i) \in 1 .. captured
      BY DEF LogInv, EntriesDistinctAndUnsent
    <3> QED
      BY <1>a, <2>1, <3>1 DEF fram, Entry, Position
  <2>3. header' = header /\ captured' \in Nat /\ captured <= captured'
    BY <1>a, <2>1, LogAssumption DEF fram
  <2>4. EntriesDistinctAndUnsent'
    BY <2>1, <2>2, <2>3, EntriesCarryOver DEF LogInv
  <2>5. delivered' \subseteq 1 .. captured'
    BY <1>a, <2>1, LogAssumption DEF LogInv
  <2>6. RingShape(header)'
    BY <2>3 DEF LogInv, RingShape, Position
  <2>7. CallInv'
    <3>1. CASE pc' = "pushLoad"
      <4>1. delivered' = delivered
        BY <1>8, <3>1 DEF GoOffline, SendInitial
      <4>2. item' \in 1 .. captured' /\ item' \notin delivered'
        BY <1>a, <2>1, <4>1, LogAssumption DEF LogInv
      <4>3. ItemIsNew'
        BY <2>2, <2>3, <4>2 DEF ItemIsNew
      <4> QED
        BY <3>1, <4>3 DEF CallInv
    <3>2. CASE pc' = "flushCount"
      BY <3>2 DEF CallInv
    <3>3. pc' = "pushLoad" \/ pc' = "flushCount"
      <4>1. CASE GoOffline
        BY <4>1 DEF GoOffline
      <4>2. CASE SendInitial
        BY <1>8, <4>2 DEF SendInitial, Capture
      <4> QED
        BY <1>8, <4>1, <4>2
    <3> QED
      BY <3>1, <3>2, <3>3
  <2> QED
    BY <2>4, <2>5, <2>6, <2>7 DEF LogInv
<1>11. CASE SendInitial /\ pc' = "awake"
  <2>1. UNCHANGED <<fram, item, delivered>> /\ captured' = captured + 1
    BY <1>11 DEF SendInitial, Capture
  <2>2. \A i \in 1 .. header.count : Entry(i)' = Entry(i)
    BY <2>1 DEF fram, Entry, Position
  <2>3. header' = header /\ captured' \in Nat /\ captured <= captured'
    BY <1>a, <2>1, LogAssumption DEF fram
  <2>4. EntriesDistinctAndUnsent'
    <3>1. \A i \in 1 .. header.count : Entry(i) \in 1 .. captured'
      BY <1>a, <2>3 DEF LogInv, EntriesDistinctAndUnsent
    <3> QED
      BY <2>1, <2>2, <2>3, <3>1 DEF LogInv, EntriesDistinctAndUnsent
  <2>5. delivered' \subseteq 1 .. captured'
    BY <1>a, <2>1, <2>3 DEF LogInv
  <2>6. RingShape(header)'
    BY <2>3 DEF LogInv, RingShape, Position
  <2>7. CallInv'
    BY <1>11 DEF CallInv
  <2> QED
    BY <2>4, <2>5, <2>6, <2>7 DEF LogInv
<1>9. CASE RequestShutdown \/ FramError \/ Shutdown \/ PowerFails \/ Boot
  <2>1. UNCHANGED <<fram, captured, delivered>>
    BY <1>9 DEF RequestShutdown, FramError, Shutdown, PowerFails, LoseRam,
                Boot, hist
  <2>2. pc' \in {"awake", "shutdown", "off"}
    BY <1>9 DEF RequestShutdown, FramError, Shutdown, PowerFails, LoseRam,
                Boot, TypeOK
  <2> QED
    BY <1>c, <2>1, <2>2 DEF LogInv, CallInv
<1>10. CASE UNCHANGED vars
  BY <1>c, <1>10
     DEF vars, fram, ram, hist, LogInv, CallInv, Entry, Position
<1> QED
  BY <1>1, <1>2, <1>3, <1>4, <1>5, <1>6, <1>7, <1>8, <1>9, <1>10, <1>11
     DEF Next, Push, Flush, Handlers, Power, GoOffline

(* In every reachable state the ring is well formed, its entries are       *)
(* distinct and unsent, and so is the reading in the task's hands.         *)
THEOREM LogInvariant == Spec => []LogInv
<1>1. TypeOK /\ LogInv /\ [Next]_vars => LogInv'
  BY LogInvNext
<1> QED
  BY <1>1, LogInvInit, TypeCorrect, PTL DEF Spec

(* A reading the MQTT client has accepted is never published again,        *)
(* whatever crashes, errors and failed publications a behaviour contains.  *)
THEOREM NoReadingSentTwice == Spec => NeverSentTwice
<1>1. LogInv => (pc = "publish" => item \notin delivered)
  BY DEF LogInv, CallInv, ItemIsNew
<1>2. LogInv /\ [Next]_vars => [pc = "publish" => item \notin delivered]_vars
  BY <1>1
<1> QED
  BY <1>2, LogInvariant, PTL DEF Spec, NeverSentTwice

-----------------------------------------------------------------------------
(* What is lost *)

(* The readings in the ring are its entries. *)
LEMMA StoredByEntries ==
  TypeOK /\ LogInv =>
    /\ Stored = {Entry(i) : i \in 1 .. header.count}
    /\ header.count = MaxItems => Contents(header)[1] = Entry(1)
<1> SUFFICES ASSUME TypeOK, LogInv
             PROVE  /\ Stored = {Entry(i) : i \in 1 .. header.count}
                    /\ header.count = MaxItems => Contents(header)[1] = Entry(1)
  OBVIOUS
<1>1. header.count \in 0 .. MaxItems /\ MaxItems \in Nat \ {0}
  BY LogAssumption DEF TypeOK, Header
<1>2. Contents(header) = [i \in 1 .. header.count |-> Entry(i)]
  <2>1. CASE header.magic
    BY <2>1 DEF Contents, Entry
  <2>2. CASE ~header.magic
    <3>1. header.count = 0
      BY <2>2 DEF LogInv, RingShape
    <3> QED
      BY <2>2, <3>1 DEF Contents
  <2> QED BY <2>1, <2>2
<1> QED
  BY <1>1, <1>2 DEF Stored

(* The same of the next state. *)
LEMMA StoredByEntriesNext ==
  TypeOK' /\ LogInv' => Stored' = {Entry(i)' : i \in 1 .. header'.count}
<1> DEFINE Agree == Stored = {Entry(i) : i \in 1 .. header.count}
<1>1. TypeOK /\ LogInv => Agree
  BY StoredByEntries
<1> HIDE DEF Agree
<1>2. TypeOK' /\ LogInv' => Agree'
  BY <1>1, PTL
<1> QED
  BY <1>2 DEF Agree

(* Of the entries, a step removes the one it carries or the oldest of a    *)
(* full ring.                                                              *)
LEMMA EntriesSurvive ==
  ASSUME TypeOK, LogInv, [Next]_vars, NEW i \in 1 .. header.count
  PROVE  \/ \E j \in 1 .. header'.count : Entry(j)' = Entry(i)
         \/ Entry(i) = item
         \/ header.count = MaxItems /\ i = 1
<1>a. header.count \in 0 .. MaxItems /\ MaxItems \in Nat \ {0}
  BY LogAssumption DEF TypeOK, Header
<1>1. CASE PushSlot
  <2>1. /\ header' = header /\ header.magic /\ pc = "pushSlot"
        /\ slots' = [slots EXCEPT ![header.head] = item]
        /\ UNCHANGED <<captured, delivered, item>>
    BY <1>1 DEF PushSlot, LogInv, CallInv
  <2>2. CASE header.count < MaxItems
    BY <2>1, <2>2, PushedSlot
  <2>3. CASE header.count = MaxItems
    <3>1. Entry(i)' = IF i = 1 THEN item ELSE Entry(i)
      BY <2>1, <2>3, PushedSlot
    <3> QED
      BY <2>1, <2>3, <3>1
  <2> QED
    BY <1>a, <2>2, <2>3
<1>2. CASE PushHeader
  <2>1. /\ header' = Pushed(header) /\ pc = "pushHeader"
        /\ UNCHANGED <<slots, captured, delivered>>
    BY <1>2 DEF PushHeader, hist, LogInv, CallInv
  <2>2. CASE header.count < MaxItems
    <3>1. header'.count = header.count + 1 /\ Entry(i)' = Entry(i)
      BY <2>1, <2>2, PushedRing
    <3>2. i \in 1 .. header'.count
      BY <1>a, <3>1
    <3> QED
      BY <3>1, <3>2
  <2>3. CASE header.count = MaxItems
    <3>1. /\ header'.count = MaxItems
          /\ \A j \in 1 .. MaxItems - 1 : Entry(j)' = Entry(j + 1)
      BY <2>1, <2>3, PushedRing
    <3>2. i # 1 => i - 1 \in 1 .. MaxItems - 1 /\ (i - 1) + 1 = i
      BY <1>a, <2>3
    <3>3. i # 1 => i - 1 \in 1 .. MaxItems
      BY <1>a, <3>2
    <3>4. i # 1 => Entry(i - 1)' = Entry(i)
      BY <3>1, <3>2
    <3> QED
      BY <2>3, <3>1, <3>3, <3>4
  <2> QED
    BY <1>a, <2>2, <2>3
<1>3. CASE PopHeader
  <2>1. /\ header' = Popped(header) /\ pc = "popHeader" /\ header.count > 0
        /\ UNCHANGED <<slots, captured, delivered, item>> /\ item = Entry(1)
    BY <1>3 DEF PopHeader, hist, LogInv, CallInv
  <2>2. /\ header'.count = header.count - 1
        /\ \A j \in 1 .. header'.count : Entry(j)' = Entry(j + 1)
    BY <2>1, PoppedRing
  <2>3. i # 1 => i - 1 \in 1 .. header'.count /\ (i - 1) + 1 = i
    BY <1>a, <2>2
  <2>4. i # 1 => Entry(i - 1)' = Entry(i)
    BY <2>2, <2>3
  <2> QED
    BY <2>1, <2>3, <2>4
<1>4. CASE PushLoad \/ FlushCount \/ PopLoad
  <2>1. header' = Formatted /\ slots' = slots
    BY <1>4 DEF PushLoad, FlushCount, PopLoad, LoadHeader
  <2> QED
    BY <2>1, FormattingKeepsEntries
<1>5. CASE \/ PublishPopped \/ Handlers \/ FramError \/ Power \/ UNCHANGED vars
  <2>1. UNCHANGED fram
    BY <1>5 DEF PublishPopped, Handlers, GoOffline, SendInitial, RequestShutdown,
                FramError, Power, Shutdown, PowerFails, Boot, LoseRam, vars
  <2> QED
    BY <2>1 DEF fram, Entry, Position
<1> QED
  BY <1>1, <1>2, <1>3, <1>4, <1>5 DEF Next, Push, Flush

(* What the MQTT client has accepted stays accepted. *)
LEMMA DeliveredStays ==
  ASSUME [Next]_vars
  PROVE  delivered \subseteq delivered'
BY DEF Next, Push, PushLoad, PushSlot, PushHeader, Flush, FlushCount, PopLoad,
       PopHeader, PublishPopped, Handlers, GoOffline, SendInitial, RequestShutdown,
       FramError, Power, Shutdown, PowerFails, Boot, LoseRam, vars, hist

(* Whatever fails, and wherever the power is cut, the readings at rest in  *)
(* the FRAM survive: a step of app_storage.c loses the reading the task    *)
(* carries, or the oldest one of a full ring, and no other.                *)
THEOREM OnlyOldestLost == Spec => OnlyOldestOrInFlightIsLost
<1>1. ASSUME TypeOK, LogInv, TypeOK', LogInv', [Next]_vars,
             NEW r \in Kept \ Kept'
      PROVE  r = item \/ (header.count = MaxItems /\ r = Contents(header)[1])
  <2>1. r \in Stored \/ r = item
    BY <1>1, DeliveredStays DEF Kept
  <2>2. CASE r \in Stored
    <3>1. PICK i \in 1 .. header.count : r = Entry(i)
      BY <1>1, <2>2, StoredByEntries
    <3>2. ~ \E j \in 1 .. header'.count : Entry(j)' = r
      BY <1>1, StoredByEntriesNext DEF Kept
    <3>3. Entry(i) = item \/ (header.count = MaxItems /\ i = 1)
      BY <1>1, <3>1, <3>2, EntriesSurvive
    <3> QED
      BY <1>1, <3>1, <3>3, StoredByEntries
  <2> QED
    BY <2>1, <2>2
<1>2. TypeOK /\ LogInv /\ TypeOK' /\ LogInv' /\ [Next]_vars =>
        [\A r \in Kept \ Kept' :
           \/ r = item
           \/ header.count = MaxItems /\ r = Contents(header)[1]]_vars
  BY <1>1
<1> QED
  BY <1>2, TypeCorrect, LogInvariant, PTL DEF Spec, OnlyOldestOrInFlightIsLost

-----------------------------------------------------------------------------
(* Refinement *)

(* Functions on 1 .. n as sequences. *)
LEMMA TailOfFunction ==
  ASSUME NEW n \in Nat \ {0}, NEW s, s = [i \in 1 .. n |-> s[i]]
  PROVE  Len(s) = n /\ s # << >> /\ Tail(s) = [i \in 1 .. n - 1 |-> s[i + 1]]
  OBVIOUS

LEMMA AppendToFunction ==
  ASSUME NEW n \in Nat, NEW s, s = [i \in 1 .. n |-> s[i]], NEW x
  PROVE  Len(s) = n /\ Append(s, x)
           = [i \in 1 .. n + 1 |-> IF i = n + 1 THEN x ELSE s[i]]
  OBVIOUS

(* The abstract queue, entry by entry. *)
EntryView == [i \in 1 .. header.count |->
                IF HalfPushed /\ i = 1 THEN victim ELSE Entry(i)]

LEMMA ViewByEntries == TypeOK /\ LogInv => QueueView = EntryView
<1> SUFFICES ASSUME TypeOK, LogInv PROVE QueueView = EntryView
  OBVIOUS
<1>1. header.count \in 0 .. MaxItems
  BY DEF TypeOK, Header
<1>2. Contents(header) = [i \in 1 .. header.count |-> Entry(i)]
  <2>1. CASE header.magic
    BY <2>1 DEF Contents, Entry
  <2>2. CASE ~header.magic
    <3>1. header.count = 0
      BY <2>2 DEF LogInv, RingShape
    <3> QED
      BY <2>2, <3>1 DEF Contents
  <2> QED BY <2>1, <2>2
<1> QED
  BY <1>1, <1>2, LogAssumption DEF QueueView, EntryView, HalfPushed

LEMMA ViewByEntriesNext == TypeOK' /\ LogInv' => QueueView' = EntryView'
<1> DEFINE Agree == QueueView = EntryView
<1>1. TypeOK /\ LogInv => Agree
  BY ViewByEntries
<1> HIDE DEF Agree
<1>2. TypeOK' /\ LogInv' => Agree'
  BY <1>1, PTL
<1> QED
  BY <1>2 DEF Agree

(* The initial log is the empty queue. *)
LEMMA InitRefines == Init => Log!Init
  BY DEF Init, Log!Init, QueueView, HalfPushed, Contents, Empty

(* Every step of the log is a step of the queue, or none. *)
LEMMA NextRefines ==
  TypeOK /\ LogInv /\ TypeOK' /\ LogInv' /\ [Next]_vars => [Log!Next]_QueueView
<1> SUFFICES ASSUME TypeOK, LogInv, TypeOK', LogInv', [Next]_vars
             PROVE  [Log!Next]_QueueView
  OBVIOUS
<1>a. QueueView = EntryView
  BY ViewByEntries
<1>b. QueueView' = EntryView'
  BY ViewByEntriesNext
<1>c. header.count \in 0 .. MaxItems /\ MaxItems \in Nat \ {0}
  BY LogAssumption DEF TypeOK, Header
(* A step outside a half-done push that keeps the entries is a stutter.    *)
<1>d. ASSUME ~HalfPushed, ~HalfPushed', header'.count = header.count,
             \A i \in 1 .. header.count : Entry(i)' = Entry(i)
      PROVE  QueueView' = QueueView
  BY <1>a, <1>b, <1>d DEF EntryView
<1>1. CASE pc = "pushSlot" /\ PushSlot
  <2>1. /\ header' = header /\ header.magic /\ pc' = "pushHeader"
        /\ victim' = slots[header.head]
        /\ slots' = [slots EXCEPT ![header.head] = item]
        /\ UNCHANGED <<captured, delivered, item>>
    BY <1>1 DEF PushSlot, LogInv, CallInv
  <2>2. CASE header.count < MaxItems
    <3>1. \A i \in 1 .. header.count : Entry(i)' = Entry(i)
      BY <1>1, <2>1, <2>2, PushedSlot
    <3> QED
      BY <1>1, <1>d, <2>1, <2>2, <3>1, LogAssumption DEF HalfPushed
  <2>3. CASE header.count = MaxItems
    <3>1. slots[header.head] = Entry(1)
            /\ \A i \in 1 .. header.count :
                 Entry(i)' = IF i = 1 THEN item ELSE Entry(i)
      BY <1>1, <2>1, <2>3, PushedSlot
    <3>2. ~HalfPushed /\ HalfPushed'
      BY <1>1, <2>1, <2>3 DEF HalfPushed
    <3>3. EntryView' = EntryView
      BY <2>1, <3>1, <3>2 DEF EntryView
    <3> QED
      BY <1>a, <1>b, <3>3
  <2> QED
    BY <1>c, <2>2, <2>3
<1>2. CASE pc = "pushHeader" /\ PushHeader
  <2>1. /\ header' = Pushed(header) /\ pc' \in {"awake", "shutdown"}
        /\ UNCHANGED <<slots, captured, delivered>>
        /\ item \in 1 .. captured
    BY <1>2 DEF PushHeader, hist, TypeOK, LogInv, CallInv
  <2>2. ~HalfPushed' /\ item \in 1 .. MaxReadings
    BY <2>1, LogAssumption DEF HalfPushed, TypeOK
  <2>3. Log!Enqueue(item)
    <3>1. CASE header.count < MaxItems
      <4>1. /\ header'.count = header.count + 1
            /\ \A i \in 1 .. header.count : Entry(i)' = Entry(i)
            /\ \A i : i = header.count + 1 => Entry(i)' = item
        BY <1>2, <2>1, <3>1, PushedRing
      <4>2. QueueView = [i \in 1 .. header.count |-> QueueView[i]]
              /\ \A i \in 1 .. header.count : QueueView[i] = Entry(i)
        BY <1>a, <3>1, LogAssumption DEF EntryView, HalfPushed
      <4>3. /\ Len(QueueView) = header.count
            /\ Append(QueueView, item) = [i \in 1 .. header.count + 1 |->
                 IF i = header.count + 1 THEN item ELSE QueueView[i]]
        BY <1>c, <4>2, AppendToFunction
      <4>4. QueueView' = Append(QueueView, item)
        <5>1. \A i \in 1 .. header.count + 1 :
                i = header.count + 1 \/ i \in 1 .. header.count
          BY <1>c
        <5>2. QueueView' = [i \in 1 .. header.count + 1 |-> Entry(i)']
          BY <1>b, <2>2, <4>1 DEF EntryView
        <5>3. \A i \in 1 .. header.count :
                Entry(i)' = QueueView[i] /\ i # header.count + 1
          BY <1>c, <4>1, <4>2
        <5> QED
          BY <4>1, <4>3, <5>1, <5>2, <5>3
      <4> QED
        BY <1>c, <3>1, <4>3, <4>4 DEF Log!Enqueue, Log!Full
    <3>2. CASE header.count = MaxItems
      <4>1. /\ header'.count = MaxItems
            /\ \A i \in 1 .. MaxItems - 1 : Entry(i)' = Entry(i + 1)
            /\ Entry(MaxItems)' = item
        BY <1>2, <2>1, <3>2, PushedRing
      <4>2. QueueView = [i \in 1 .. MaxItems |-> QueueView[i]]
              /\ \A i \in 1 .. MaxItems - 1 : QueueView[i + 1] = Entry(i + 1)
        BY <1>a, <1>c, <3>2 DEF EntryView
      <4>3. /\ Len(QueueView) = MaxItems
            /\ Tail(QueueView) = [i \in 1 .. MaxItems - 1 |-> QueueView[i + 1]]
        BY <1>c, <4>2, TailOfFunction
      <4> DEFINE rest == Tail(QueueView)
      <4>4. rest = [i \in 1 .. MaxItems - 1 |-> rest[i]]
        BY <4>3
      <4>5. Append(rest, item) = [i \in 1 .. (MaxItems - 1) + 1 |->
                 IF i = (MaxItems - 1) + 1 THEN item ELSE rest[i]]
        <5> HIDE DEF rest
        <5> QED
          BY <1>c, <4>4, AppendToFunction
      <4>6. QueueView' = [i \in 1 .. MaxItems |-> Entry(i)']
        BY <1>b, <2>2, <4>1 DEF EntryView
      <4>7. QueueView' = Append(rest, item)
        <5>1. (MaxItems - 1) + 1 = MaxItems
          BY <1>c
        <5>2. \A i \in 1 .. MaxItems : i = MaxItems \/ i \in 1 .. MaxItems - 1
          BY <1>c
        <5>3. \A i \in 1 .. MaxItems - 1 : i # MaxItems
          BY <1>c
        <5>4. \A i \in 1 .. MaxItems - 1 : rest[i] = QueueView[i + 1]
          BY <4>3
        <5>5. \A i \in 1 .. MaxItems - 1 : Entry(i)' = rest[i]
          BY <4>1, <4>2, <5>4
        <5> HIDE DEF rest
        <5> QED
          BY <4>1, <4>5, <4>6, <5>1, <5>2, <5>3, <5>5
      <4> QED
        BY <4>3, <4>7 DEF Log!Enqueue, Log!Full
    <3> QED
      BY <1>c, <3>1, <3>2
  <2> QED
    BY <2>2, <2>3 DEF Log!Next
<1>3. CASE pc = "popHeader" /\ PopHeader
  <2>1. /\ header' = Popped(header) /\ pc' = "publish" /\ header.count > 0
        /\ UNCHANGED <<slots, captured, delivered, item>>
    BY <1>3 DEF PopHeader, hist, LogInv, CallInv
  <2>2. /\ header'.count = header.count - 1
        /\ \A i \in 1 .. header'.count : Entry(i)' = Entry(i + 1)
    BY <1>3, <2>1, PoppedRing
  <2>3. ~HalfPushed /\ ~HalfPushed'
    BY <1>3, <2>1 DEF HalfPushed
  <2>4. QueueView = [i \in 1 .. header.count |-> QueueView[i]]
          /\ \A i \in 1 .. header.count : QueueView[i] = Entry(i)
    BY <1>a, <2>3 DEF EntryView
  <2>5. /\ QueueView # << >>
        /\ Tail(QueueView) = [i \in 1 .. header.count - 1 |-> QueueView[i + 1]]
    BY <1>c, <2>1, <2>4, TailOfFunction
  <2>6. QueueView' = Tail(QueueView)
    <3>1. \A i \in 1 .. header.count - 1 : i + 1 \in 1 .. header.count
      BY <1>c
    <3> QED
      BY <1>b, <2>2, <2>3, <2>4, <2>5, <3>1 DEF EntryView
  <2> QED
    BY <2>5, <2>6 DEF Log!Next, Log!Dequeue
<1>4. CASE pc = "pushHeader" /\ (FramError \/ PowerFails \/ UNCHANGED vars)
  <2>1. UNCHANGED <<slots, header, victim>>
    BY <1>4 DEF FramError, PowerFails, LoseRam, vars, fram, hist
  <2>2. \A i \in 1 .. header.count : Entry(i)' = Entry(i)
    BY <2>1 DEF Entry, Position
  <2>3. CASE HalfPushed /\ ~HalfPushed'
    <3>1. Entry(1) = item /\ item \in 1 .. MaxReadings
      <4>1. header \in Header /\ header.head = Position(header, MaxItems + 1)
        BY <2>3 DEF TypeOK, LogInv, RingShape, HalfPushed
      <4>2. slots[header.head] = item /\ item \in 1 .. captured
        BY <1>4 DEF LogInv, CallInv
      <4> QED
        BY <4>1, <4>2, PositionCycles, LogAssumption DEF Entry, TypeOK
    <3>2. header.count = MaxItems
      BY <2>3 DEF HalfPushed
    <3>3. QueueView = [i \in 1 .. MaxItems |-> QueueView[i]]
            /\ \A i \in 1 .. MaxItems : QueueView[i]
                 = IF i = 1 THEN victim ELSE Entry(i)
      BY <1>a, <2>3, <3>2 DEF EntryView
    <3>4. QueueView' = [i \in 1 .. MaxItems |-> Entry(i)]
      BY <1>b, <2>1, <2>2, <2>3, <3>2 DEF EntryView
    <3>5. QueueView' = [QueueView EXCEPT ![1] = item]
      BY <1>c, <3>1, <3>3, <3>4
    <3>6. Len(QueueView) = MaxItems
      BY <1>c, <3>3, AppendToFunction
    <3> QED
      BY <3>1, <3>5, <3>6 DEF Log!Next, Log!DisplaceOldest, Log!Full
  <2>4. CASE HalfPushed = HalfPushed'
    BY <1>a, <1>b, <2>1, <2>2, <2>4 DEF EntryView
  <2>5. CASE ~HalfPushed /\ HalfPushed'
    BY <1>4, <2>1, <2>5 DEF HalfPushed
  <2> QED
    BY <2>3, <2>4, <2>5 DEF HalfPushed
(* Every other step starts and ends outside a half-done push. *)
<1>5. CASE PushLoad \/ FlushCount \/ PopLoad
  <2>1. header' = Formatted /\ slots' = slots
    BY <1>5 DEF PushLoad, FlushCount, PopLoad, LoadHeader
  <2>2. pc # "pushHeader" /\ pc' # "pushHeader"
    BY <1>5 DEF PushLoad, FlushCount, PopLoad
  <2>3. header'.count = header.count
          /\ \A i \in 1 .. header.count : Entry(i)' = Entry(i)
    BY <2>1, FormattingKeepsEntries
  <2> QED
    BY <1>d, <2>2, <2>3 DEF HalfPushed
<1>6. CASE \/ PublishPopped \/ GoOffline \/ SendInitial \/ RequestShutdown
           \/ Shutdown \/ Boot
           \/ pc # "pushHeader" /\ (FramError \/ PowerFails \/ UNCHANGED vars)
  <2>1. UNCHANGED fram
    BY <1>6 DEF PublishPopped, GoOffline, SendInitial, RequestShutdown,
                Shutdown, Boot, FramError, PowerFails, LoseRam, vars
  <2>2. pc # "pushHeader" /\ pc' # "pushHeader"
    BY <1>6 DEF PublishPopped, GoOffline, SendInitial, RequestShutdown,
                Shutdown, Boot, FramError, PowerFails, LoseRam, Capture,
                vars, ram, TypeOK
  <2> QED
    BY <1>d, <2>1, <2>2 DEF fram, HalfPushed, Entry, Position
<1> QED
  BY <1>1, <1>2, <1>3, <1>4, <1>5, <1>6
     DEF Next, Push, Flush, Handlers, Power, PushSlot, PushHeader, PopHeader

(* The FRAM log, with its two writes per push and its power failures,      *)
(* implements the bounded drop-oldest queue.                               *)
THEOREM LogImplementsQueue == Spec => ImplementsQueue
<1>1. TypeOK /\ LogInv /\ TypeOK' /\ LogInv' /\ [Next]_vars
        => [Log!Next]_QueueView
  BY NextRefines
<1> QED
  BY <1>1, InitRefines, TypeCorrect, LogInvariant, PTL
     DEF Spec, ImplementsQueue, Log!Spec

-----------------------------------------------------------------------------
(* A call comes to its end *)

(* What a call of the log has still to do at most: three accesses for each *)
(* entry it may pop, and the push that ends a flush.                       *)
Work ==
  CASE pc \in {"flushCount", "publish"} -> 3 * header.count + 5
    [] pc = "popLoad"    -> 3 * header.count + 4
    [] pc = "popHeader"  -> 3 * header.count + 3
    [] pc = "pushLoad"   -> 3
    [] pc = "pushSlot"   -> 2
    [] pc = "pushHeader" -> 1
    [] OTHER             -> 0

(* Every access of a call, failed ones included, brings its end nearer, so *)
(* that a flush makes at most Work of them, although a failed publication  *)
(* puts back what has been popped.                                         *)
CallAdvances ==
  [][pc \notin {"off", "awake", "shutdown"} => Work' < Work]_vars

(* What is left to do at each control point, ... *)
LEMMA WorkAt ==
  /\ pc \in {"flushCount", "publish"} => Work = 3 * header.count + 5
  /\ pc = "popLoad" => Work = 3 * header.count + 4
  /\ pc = "popHeader" => Work = 3 * header.count + 3
  /\ pc = "pushLoad" => Work = 3
  /\ pc = "pushSlot" => Work = 2
  /\ pc = "pushHeader" => Work = 1
  /\ pc \in {"off", "awake", "shutdown"} => Work = 0
BY DEF Work

(* ... and at the next one. *)
LEMMA WorkAtNext ==
  /\ pc' \in {"flushCount", "publish"} => Work' = 3 * header'.count + 5
  /\ pc' = "popLoad" => Work' = 3 * header'.count + 4
  /\ pc' = "popHeader" => Work' = 3 * header'.count + 3
  /\ pc' = "pushLoad" => Work' = 3
  /\ pc' = "pushSlot" => Work' = 2
  /\ pc' = "pushHeader" => Work' = 1
  /\ pc' \in {"off", "awake", "shutdown"} => Work' = 0
BY DEF Work

(* It is a number that the ring's size bounds, and no call is without it.  *)
LEMMA WorkIsNumber ==
  ASSUME TypeOK
  PROVE  /\ Work \in 0 .. 3 * MaxItems + 5
         /\ pc \notin {"off", "awake", "shutdown"} => Work > 0
<1>1. header.count \in 0 .. MaxItems /\ MaxItems \in Nat
  BY LogAssumption DEF TypeOK, Header
<1>2. pc \in {"flushCount", "publish", "popLoad", "popHeader", "pushLoad", "pushSlot",
              "pushHeader", "off", "awake", "shutdown"}
  BY DEF TypeOK, PushSteps, FlushSteps
<1> QED
  BY <1>1, <1>2, WorkAt

(* Every step of a call lowers it. *)
LEMMA StepsLowerWork ==
  ASSUME TypeOK, LogInv, [Next]_vars, pc \notin {"off", "awake", "shutdown"},
         ~ UNCHANGED vars
  PROVE  Work' < Work
<1>t. header.count \in Nat /\ after \in {"awake", "shutdown"}
  BY LogAssumption DEF TypeOK, Header
<1>1. CASE PushLoad
  <2>1. pc = "pushLoad" /\ pc' = "pushSlot"
    BY <1>1 DEF PushLoad
  <2> QED
    BY <2>1, WorkAt, WorkAtNext
<1>2. CASE PushSlot
  <2>1. pc = "pushSlot" /\ pc' = "pushHeader"
    BY <1>2 DEF PushSlot
  <2> QED
    BY <2>1, WorkAt, WorkAtNext
<1>3. CASE PushHeader
  <2>1. pc = "pushHeader" /\ pc' \in {"awake", "shutdown"}
    BY <1>3, <1>t DEF PushHeader
  <2>2. Work = 1 /\ Work' = 0
    BY <2>1, WorkAt, WorkAtNext
  <2> QED
    BY <2>2
<1>4. CASE FlushCount
  <2>1. /\ pc = "flushCount" /\ pc' \in {"awake", "popLoad"}
        /\ header' = Formatted /\ slots' = slots
    BY <1>4 DEF FlushCount, LoadHeader
  <2>2. header'.count = header.count
    BY <2>1, FormattingKeepsEntries
  <2>3. Work = 3 * header.count + 5
    BY <2>1, WorkAt
  <2>4. Work' = 0 \/ Work' = 3 * header.count + 4
    BY <2>1, <2>2, WorkAtNext
  <2> QED
    BY <1>t, <2>3, <2>4
<1>5. CASE PopLoad
  <2>1. /\ pc = "popLoad" /\ pc' \in {"awake", "popHeader"}
        /\ header' = Formatted /\ slots' = slots
    BY <1>5 DEF PopLoad
  <2>2. header'.count = header.count
    BY <2>1, FormattingKeepsEntries
  <2>3. Work = 3 * header.count + 4
    BY <2>1, WorkAt
  <2>4. Work' = 0 \/ Work' = 3 * header.count + 3
    BY <2>1, <2>2, WorkAtNext
  <2> QED
    BY <1>t, <2>3, <2>4
<1>6. CASE PopHeader
  <2>1. pc = "popHeader" /\ pc' = "publish" /\ header' = hdr
    BY <1>6 DEF PopHeader
  <2>2. hdr = Popped(header) /\ header \in Header
    BY <2>1 DEF LogInv, CallInv, TypeOK
  <2>3. header'.count = header.count - 1
    BY <2>1, <2>2 DEF Popped, Header
  <2>4. Work = 3 * header.count + 3 /\ Work' = 3 * header'.count + 5
    BY <2>1, WorkAt, WorkAtNext
  <2> QED
    BY <1>t, <2>3, <2>4
<1>7. CASE PublishPopped
  <2>1. pc = "publish" /\ pc' \in {"popLoad", "pushLoad"} /\ header' = header
    BY <1>7 DEF PublishPopped, fram
  <2>2. Work = 3 * header.count + 5
    BY <2>1, WorkAt
  <2>3. Work' = 3 \/ Work' = 3 * header.count + 4
    BY <2>1, WorkAtNext
  <2> QED
    BY <1>t, <2>2, <2>3
<1>8. CASE FramError \/ Shutdown \/ PowerFails
  <2>1. pc' \in {"off", "awake", "shutdown"}
    BY <1>8, <1>t DEF FramError, Shutdown, PowerFails, LoseRam
  <2>2. Work' = 0 /\ Work > 0
    BY <2>1, WorkAtNext, WorkIsNumber
  <2> QED
    BY <2>2
<1>9. ~ (Handlers \/ Boot)
  BY DEF Handlers, GoOffline, SendInitial, RequestShutdown, Capture, Boot
<1> QED
  BY <1>1, <1>2, <1>3, <1>4, <1>5, <1>6, <1>7, <1>8, <1>9 DEF Next, Push, Flush, Power

(* For every ring size, a call of the log makes at most 3 * MaxItems + 5   *)
(* accesses and publications, whatever fails: each step of it lowers Work, *)
(* which is a number so bounded, also when a flush puts back what it has   *)
(* popped.                                                                 *)
THEOREM CallsAreBounded ==
  Spec => CallAdvances /\ [](Work \in 0 .. 3 * MaxItems + 5)
<1>1. TypeOK /\ LogInv /\ [Next]_vars
        => [pc \notin {"off", "awake", "shutdown"} => Work' < Work]_vars
  BY StepsLowerWork
<1>2. TypeOK => Work \in 0 .. 3 * MaxItems + 5
  BY WorkIsNumber
<1> QED
  BY <1>1, <1>2, TypeCorrect, LogInvariant, PTL DEF Spec, CallAdvances
=============================================================================
