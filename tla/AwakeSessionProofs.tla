------------------------- MODULE AwakeSessionProofs -------------------------
(***************************************************************************)
(* Proofs about one session, for every length of the event queue and every *)
(* number of upload tasks that would fit.  What the report has to do with  *)
(* the power holds even if events are dropped and the FRAM fails.          *)
(*                                                                         *)
(* Two upload tasks would take two connections, and a second one follows   *)
(* a disconnection, whose event shuts the device down: an "mqtt up" that   *)
(* is behind the event of an ending in the queue is never handled.  The    *)
(* invariant counts those that may still be handled, the live ones.        *)
(***************************************************************************)
EXTENDS AwakeSession, TLAPS

(* An event of E is in the queue. *)
Has(q, E) == \E i \in 1 .. Len(q) : q[i] \in E

Live(q, i) == q[i] = "mqtt up" /\ \A j \in 1 .. i - 1 : q[j] \notin Endings

NoLive(q) == \A i \in 1 .. Len(q) : ~Live(q, i)

OneLive(q) == \A i, k \in 1 .. Len(q) : Live(q, i) /\ Live(q, k) => i = k

-----------------------------------------------------------------------------
(* The queue *)

(* An event that is posted goes to the end. *)
LEMMA AppendIsLast ==
  ASSUME NEW q \in Seq(Events), NEW e \in Events
  PROVE  /\ Append(q, e) \in Seq(Events) /\ Len(Append(q, e)) = Len(q) + 1
         /\ Len(q) \in Nat
         /\ \A i \in 1 .. Len(q) : Append(q, e)[i] = q[i]
         /\ Append(q, e)[Len(q) + 1] = e
OBVIOUS

(* An event that is taken was the first. *)
LEMMA TailIsRest ==
  ASSUME NEW q \in Seq(Events), q # <<>>
  PROVE  /\ Tail(q) \in Seq(Events) /\ Len(Tail(q)) = Len(q) - 1
         /\ Len(q) \in Nat \ {0}
         /\ Head(q) = q[1]
         /\ \A i \in 1 .. Len(q) - 1 : Tail(q)[i] = q[i + 1]
OBVIOUS

(* Appending an event makes a live one only of an "mqtt up" that no ending *)
(* precedes.                                                               *)
LEMMA Posted ==
  ASSUME NEW q \in Seq(Events), NEW r \in Seq(Events), NEW e \in Events,
         Len(r) = Len(q) + 1, Len(q) \in Nat,
         \A i \in 1 .. Len(q) : r[i] = q[i],
         r[Len(q) + 1] = e
  PROVE  /\ \A E : Has(r, E) <=> Has(q, E) \/ e \in E
         /\ NoLive(q) /\ (e # "mqtt up" \/ Has(q, Endings)) => NoLive(r)
         /\ OneLive(q) /\ (e # "mqtt up" \/ Has(q, Endings) \/ NoLive(q))
              => OneLive(r)
<1> DEFINE n == Len(q)
<1>2. \A E : Has(r, E) <=> Has(q, E) \/ e \in E
  BY DEF Has
<1>3. ASSUME NEW i \in 1 .. n
      PROVE  Live(r, i) <=> Live(q, i)
  <2>1. \A j \in 1 .. i - 1 : j \in 1 .. n
    OBVIOUS
  <2>2. r[i] = q[i] /\ \A j \in 1 .. i - 1 : r[j] = q[j]
    BY <2>1
  <2> QED BY <2>2 DEF Live
<1>4. Live(r, n + 1) => e = "mqtt up" /\ ~Has(q, Endings)
  <2>1. (n + 1) - 1 = n OBVIOUS
  <2>2. Live(r, n + 1) => r[n + 1] = "mqtt up" /\ \A j \in 1 .. n : r[j] \notin Endings
    BY <2>1 DEF Live
  <2> QED BY <2>2 DEF Has
<1>5. \A i \in 1 .. n + 1 : i \in 1 .. n \/ i = n + 1
  OBVIOUS
<1>6. NoLive(q) /\ (e # "mqtt up" \/ Has(q, Endings)) => NoLive(r)
  BY <1>3, <1>4, <1>5 DEF NoLive
<1>7. OneLive(q) /\ (e # "mqtt up" \/ Has(q, Endings) \/ NoLive(q)) => OneLive(r)
  BY <1>3, <1>4, <1>5 DEF NoLive, OneLive
<1> QED BY <1>2, <1>6, <1>7

(* Taking an event that is no ending makes no other live. *)
LEMMA Taken ==
  ASSUME NEW q \in Seq(Events), NEW r \in Seq(Events), NEW e,
         Len(r) = Len(q) - 1, Len(q) \in Nat \ {0}, q[1] = e,
         \A i \in 1 .. Len(q) - 1 : r[i] = q[i + 1]
  PROVE  /\ \A E : Has(q, E) <=> Has(r, E) \/ e \in E
         /\ e \notin Endings => /\ NoLive(q) => NoLive(r)
                                /\ OneLive(q) => OneLive(r)
         /\ e = "mqtt up" => /\ ~NoLive(q)
                             /\ OneLive(q) => NoLive(r)
<1> DEFINE n == Len(q)
<1>2. ASSUME NEW E
      PROVE  Has(q, E) <=> Has(r, E) \/ e \in E
  <2>1. \A i \in 1 .. n : i = 1 \/ (i - 1 \in 1 .. n - 1 /\ r[i - 1] = q[i])
    OBVIOUS
  <2>2. \A i \in 1 .. n - 1 : i + 1 \in 1 .. n
    OBVIOUS
  <2>3. 1 \in 1 .. n OBVIOUS
  <2> QED BY <2>1, <2>2, <2>3 DEF Has
<1>3. ASSUME e \notin Endings, NEW i \in 1 .. n - 1, Live(r, i)
      PROVE  Live(q, i + 1)
  <2>1. q[i + 1] = "mqtt up" BY <1>3 DEF Live
  <2>2. ASSUME NEW j \in 1 .. i
        PROVE  q[j] \notin Endings
    <3>1. CASE j = 1 BY <1>3, <3>1
    <3>2. CASE j # 1
      <4>1. j - 1 \in 1 .. i - 1 /\ j - 1 \in 1 .. n - 1 BY <3>2
      <4>2. r[j - 1] = q[j] BY <4>1
      <4> QED BY <4>1, <4>2, <1>3 DEF Live
    <3> QED BY <3>1, <3>2
  <2>3. (i + 1) - 1 = i OBVIOUS
  <2> QED BY <2>1, <2>2, <2>3 DEF Live
<1>4. \A i \in 1 .. n - 1 : i + 1 \in 1 .. n /\ i + 1 # 1
  OBVIOUS
<1>5. e = "mqtt up" => Live(q, 1) /\ e \notin Endings
  <2>1. \A j \in 1 .. 1 - 1 : FALSE OBVIOUS
  <2> QED BY <2>1 DEF Live, Endings
<1>6. e \notin Endings => (NoLive(q) => NoLive(r)) /\ (OneLive(q) => OneLive(r))
  <2>1. ASSUME NEW i \in 1 .. n - 1, NEW k \in 1 .. n - 1
        PROVE  i + 1 = k + 1 => i = k
    OBVIOUS
  <2> QED BY <1>3, <1>4, <2>1 DEF NoLive, OneLive
<1>7. e = "mqtt up" => ~NoLive(q) /\ (OneLive(q) => NoLive(r))
  <2>1. 1 \in 1 .. n OBVIOUS
  <2> QED BY <1>3, <1>4, <1>5, <2>1 DEF NoLive, OneLive
<1> QED BY <1>2, <1>6, <1>7

-----------------------------------------------------------------------------
(* The invariant *)

Planning == fsm.step = "plan"

Late == {"shutdown", "upload failed"}

(* What ends the session has been preceded by the report, or a try at it. *)
ReportInv ==
  /\ timer \/ uploads > 0 \/ Planning => report # "none"
  /\ Has(queue, Late) => report # "none"

UploadInv ==
  ~Overflows =>
    /\ uploads <= 1
    /\ ~Planning =>
         /\ OneLive(queue)
         /\ uploads > 0 => NoLive(queue)
         /\ mqtt # "up" /\ ~Has(queue, Endings) => uploads = 0 /\ NoLive(queue)

(* A device that is off keeps nothing but the FRAM. *)
OffInv ==
  ~on => /\ queue = <<>> /\ fsm.step = "idle" /\ menu.step = "idle"
         /\ timer = FALSE /\ uploads = 0
         /\ wifi = "idle" /\ mqtt = "stopped" /\ report = "none"

EndInv == ~Overflows /\ ~FramFails /\ on /\ report # "none" =>
            timer \/ Has(queue, Endings) \/ Planning

FsmTasks  == [step : {"idle", "save", "plan"}, context : Contexts]
MenuTasks == [step : {"idle", "open", "download", "learned", "held"},
              context : Contexts]

(* What TypeOK says of all but the queue. *)
TypeRest ==
  /\ context \in Contexts
  /\ on \in BOOLEAN
  /\ fsm \in FsmTasks
  /\ menu \in MenuTasks
  /\ timer \in BOOLEAN
  /\ uploads \in 0 .. MaxUploads
  /\ wifi \in {"idle", "trying", "up", "exhausted"}
  /\ mqtt \in {"stopped", "trying", "up"}
  /\ report \in {"none", "done", "failed"} /\ wanted \in BOOLEAN

TypeQueue == queue \in Seq(Events) /\ Len(queue) <= QueueCap

(* The type invariant, in two parts. *)
LEMMA TypeParts == TypeOK <=> TypeRest /\ TypeQueue
BY DEF TypeOK, TypeRest, TypeQueue, FsmTasks, MenuTasks

Inv == TypeRest /\ TypeQueue /\ ReportInv /\ UploadInv /\ OffInv

(* The contexts the tasks hold. *)
LEMMA ContextsHeld ==
  /\ \A d, u \in BOOLEAN : [download |-> d, upload |-> u] \in Contexts
  /\ \A c \in Contexts, u \in BOOLEAN : [c EXCEPT !.upload = u] \in Contexts
  /\ \A c \in Contexts : c.download \in BOOLEAN /\ c.upload \in BOOLEAN
BY DEF Contexts

(* The steps of the two tasks. *)
LEMMA TasksHeld ==
  /\ \A s \in {"idle", "save", "plan"}, c \in Contexts :
       Task(s, c) \in FsmTasks /\ Task(s, c).step = s /\ Task(s, c).context = c
  /\ \A s \in {"idle", "open", "download", "learned", "held"}, c \in Contexts :
       Task(s, c) \in MenuTasks /\ Task(s, c).step = s /\ Task(s, c).context = c
  /\ \A t \in FsmTasks : t.context \in Contexts
  /\ \A t \in MenuTasks : t.context \in Contexts
  /\ Idle.context \in Contexts /\ Idle \in FsmTasks /\ Idle \in MenuTasks
  /\ Idle.step = "idle"
BY DEF Task, Idle, FsmTasks, MenuTasks, Contexts

(* Posting: the event goes to the end, or is dropped. *)
LEMMA PostStep ==
  ASSUME TypeQueue, NEW e \in Events, Post(e)
  PROVE  /\ TypeQueue' /\ on
         /\ Has(queue', Late) => Has(queue, Late) \/ e \in Late
         /\ ~Overflows =>
              /\ Has(queue', Endings) <=> Has(queue, Endings) \/ e \in Endings
              /\ NoLive(queue) /\ (e # "mqtt up" \/ Has(queue, Endings)) => NoLive(queue')
              /\ OneLive(queue) /\ (e # "mqtt up" \/ Has(queue, Endings) \/ NoLive(queue))
                   => OneLive(queue')
<1>1. /\ queue \in Seq(Events) /\ on /\ Len(queue) <= QueueCap
      /\ queue' = queue \/ (queue' = Append(queue, e) /\ Len(queue) < QueueCap)
      /\ ~Overflows => queue' = Append(queue, e)
  BY DEF TypeQueue, Post, Room
<1>2. CASE queue' = queue /\ Overflows
  BY <1>1, <1>2 DEF TypeQueue
<1>3. CASE queue' = Append(queue, e) /\ Len(queue) < QueueCap
  <2>1. /\ queue' \in Seq(Events) /\ Len(queue') = Len(queue) + 1 /\ Len(queue) \in Nat
        /\ \A i \in 1 .. Len(queue) : queue'[i] = queue[i]
        /\ queue'[Len(queue) + 1] = e
    BY <1>1, <1>3, AppendIsLast
  <2>2. TypeQueue'
    BY <1>3, <2>1, SessionAssumption DEF TypeQueue
  <2>3. /\ \A E : Has(queue', E) <=> Has(queue, E) \/ e \in E
        /\ NoLive(queue) /\ (e # "mqtt up" \/ Has(queue, Endings)) => NoLive(queue')
        /\ OneLive(queue) /\ (e # "mqtt up" \/ Has(queue, Endings) \/ NoLive(queue))
             => OneLive(queue')
    <3>1. queue \in Seq(Events)
      BY <1>1
    <3> QED BY <2>1, <3>1, Posted
  <2> QED BY <1>1, <2>2, <2>3
<1>4. Overflows \in BOOLEAN
  BY SessionAssumption
<1> QED BY <1>1, <1>2, <1>3, <1>4 DEF Post, Room

(* Taking an event. *)
LEMMA TakeStep ==
  ASSUME TypeQueue, NEW e, Take(e)
  PROVE  /\ TypeQueue' /\ fsm.step = "idle" /\ queue # <<>>
         /\ Has(queue, Endings) <=> Has(queue', Endings) \/ e \in Endings
         /\ Has(queue, Late) <=> Has(queue', Late) \/ e \in Late
         /\ e \notin Endings => /\ NoLive(queue) => NoLive(queue')
                                /\ OneLive(queue) => OneLive(queue')
         /\ e = "mqtt up" => /\ ~NoLive(queue)
                             /\ OneLive(queue) => NoLive(queue')
<1>1. /\ queue \in Seq(Events) /\ queue # <<>> /\ Head(queue) = e
      /\ queue' = Tail(queue) /\ fsm.step = "idle" /\ Len(queue) <= QueueCap
  BY DEF TypeQueue, Take
<1>2. /\ queue' \in Seq(Events) /\ Len(queue') = Len(queue) - 1
      /\ Len(queue) \in Nat \ {0}
      /\ queue[1] = e
      /\ \A i \in 1 .. Len(queue) - 1 : queue'[i] = queue[i + 1]
  BY <1>1, TailIsRest
<1>3. TypeQueue'
  BY <1>1, <1>2, SessionAssumption DEF TypeQueue
<1>4. /\ \A E : Has(queue, E) <=> Has(queue', E) \/ e \in E
      /\ e \notin Endings => /\ NoLive(queue) => NoLive(queue')
                             /\ OneLive(queue) => OneLive(queue')
      /\ e = "mqtt up" => /\ ~NoLive(queue)
                          /\ OneLive(queue) => NoLive(queue')
  BY <1>1, <1>2, Taken
<1> QED BY <1>1, <1>3, <1>4

(* A queue with nothing live in it has at most one live event. *)
LEMMA NoneIsOne == \A q : NoLive(q) => OneLive(q)
BY DEF NoLive, OneLive

(* The queue at power off. *)
LEMMA NoEvents ==
  /\ <<>> \in Seq(Events) /\ Len(<<>>) <= QueueCap
  /\ NoLive(<<>>) /\ OneLive(<<>>) /\ ~Has(<<>>, Endings) /\ ~Has(<<>>, Late)
BY SessionAssumption DEF NoLive, OneLive, Has

(* A sequence of one element. *)
LEMMA OneElement ==
  /\ \A e, S : e \in S => <<e>> \in Seq(S)
  /\ \A e : Len(<<e>>) = 1 /\ <<e>>[1] = e
  /\ \A e : \A n \in Nat \ {0} : Len(<<e>>) <= n
  /\ \A i \in 1 .. 1 : i = 1
<1>1. ASSUME NEW e, NEW S, e \in S
      PROVE  <<e>> \in Seq(S)
  BY <1>1
<1>2. ASSUME NEW e
      PROVE  Len(<<e>>) = 1 /\ <<e>>[1] = e
  OBVIOUS
<1>3. ASSUME NEW i \in 1 .. 1
      PROVE  i = 1
  OBVIOUS
<1>4. ASSUME NEW e, NEW n \in Nat \ {0}
      PROVE  Len(<<e>>) <= n
  OBVIOUS
<1> QED BY <1>1, <1>2, <1>3, <1>4

(* The queue at power on. *)
LEMMA OneEvent ==
  ASSUME NEW e, e \in Events, e # "mqtt up", e \notin Endings, e \notin Late
  PROVE  /\ <<e>> \in Seq(Events) /\ Len(<<e>>) <= QueueCap
         /\ NoLive(<<e>>) /\ OneLive(<<e>>)
         /\ ~Has(<<e>>, Endings) /\ ~Has(<<e>>, Late)
<1>2. <<e>> \in Seq(Events) /\ Len(<<e>>) = 1 /\ <<e>>[1] = e
  BY OneElement
<1>3. \A i \in 1 .. 1 : i = 1
  BY OneElement
<1>4. NoLive(<<e>>)
  BY <1>2, <1>3 DEF NoLive, Live
<1>5. ~Has(<<e>>, Endings) /\ ~Has(<<e>>, Late)
  BY <1>2, <1>3 DEF Has
<1>6. OneLive(<<e>>)
  BY <1>4, NoneIsOne
<1>7. Len(<<e>>) <= QueueCap
  BY OneElement, SessionAssumption
<1> QED BY <1>2, <1>4, <1>5, <1>6, <1>7

(* No step breaks the invariant. *)
LEMMA SessionStep ==
  ASSUME Inv, Next
  PROVE  Inv' /\ (EndInv => EndInv')
<1> USE DEF Inv
<1>q. TypeQueue /\ TypeRest OBVIOUS
<1>u. uploads \in Nat /\ MaxUploads \in Nat \ {0} /\ (~Overflows => uploads <= 1)
  BY SessionAssumption DEF TypeRest, UploadInv
<1>c. /\ context \in Contexts /\ fsm.context \in Contexts /\ menu.context \in Contexts
      /\ [download |-> TRUE, upload |-> FALSE] \in Contexts
      /\ [download |-> FALSE, upload |-> TRUE] \in Contexts
      /\ [download |-> FALSE, upload |-> FALSE] \in Contexts
  BY ContextsHeld, TasksHeld DEF TypeRest
<1>t. \A c \in Contexts : Task("plan", c).step = "plan" /\ Task("save", c).step = "save"
  BY TasksHeld
<1>v. /\ {"wifi up", "mqtt up", "exit menu"} \cup Commands \cup Endings \subseteq Events
      /\ {"wifi up", "mqtt up", "exit menu", "boot", "boot menu"} \cap Endings = {}
      /\ Commands \cap Endings = {} /\ "mqtt up" \notin Commands
      /\ Late \subseteq Endings /\ {"wifi exhausted", "mqtt down"} \cap Late = {}
      /\ {"wifi exhausted", "mqtt down"} \subseteq Endings
      /\ "shutdown" \in Late /\ "upload failed" \in Late
  BY DEF Events, Endings, Commands, Late
<1>1. CASE WifiUp
  <2>1. Post("wifi up")
    BY <1>1 DEF WifiUp, Station!Connected
  <2>e. "wifi up" \in Events /\ "wifi up" \notin Endings /\ "wifi up" \notin Late
    BY <1>v
  <2>2. /\ TypeQueue' /\ on
        /\ Has(queue', Late) => Has(queue, Late)
        /\ ~Overflows =>
             /\ Has(queue', Endings) <=> Has(queue, Endings)
             /\ NoLive(queue) => NoLive(queue')
             /\ OneLive(queue) => OneLive(queue')
    BY <2>1, <2>e, <1>q, PostStep
  <2>3. TypeRest'
    <3>1. context' \in Contexts /\ fsm' \in FsmTasks /\ menu' \in MenuTasks
      BY <1>1, <1>q, <1>c, TasksHeld, ContextsHeld DEF WifiUp, Station!Connected, TypeRest
    <3>2. uploads' \in 0 .. MaxUploads
      BY <1>1, <1>q, <1>u DEF WifiUp, Station!Connected, TypeRest
    <3>3. /\ on' \in BOOLEAN /\ timer' \in BOOLEAN
          /\ wifi' \in {"idle", "trying", "up", "exhausted"}
          /\ mqtt' \in {"stopped", "trying", "up"}
          /\ report' \in {"none", "done", "failed"} /\ wanted' \in BOOLEAN
      BY <1>1, <1>q DEF WifiUp, Station!Connected, TypeRest, link, hist
    <3> QED BY <3>1, <3>2, <3>3 DEF TypeRest
  <2>4. ReportInv'
    BY <1>1, <1>q, <1>u, <2>1, <2>2 DEF WifiUp, Station!Connected, ReportInv, Planning, link, hist
  <2>5. UploadInv'
    BY <1>1, <1>q, <1>u, <2>1, <2>2 DEF WifiUp, Station!Connected, UploadInv, OffInv, Planning, link, hist
  <2>6. OffInv'
    BY <1>1, <1>q, <1>u, <2>1, <2>2 DEF WifiUp, Station!Connected, OffInv, link, hist
  <2>7. EndInv => EndInv'
    BY <1>1, <1>q, <1>u, <2>1, <2>2 DEF WifiUp, Station!Connected, EndInv, OffInv, Planning, link, hist
  <2> QED BY <2>2, <2>3, <2>4, <2>5, <2>6, <2>7
<1>2. CASE WifiExhausted
  <2>1. Post("wifi exhausted")
    BY <1>2 DEF WifiExhausted, Station!Exhausted
  <2>e. "wifi exhausted" \in Events /\ "wifi exhausted" \in Endings /\ "wifi exhausted" \notin Late
    BY <1>v
  <2>2. /\ TypeQueue' /\ on
        /\ Has(queue', Late) => Has(queue, Late)
        /\ ~Overflows =>
             /\ Has(queue', Endings)
             /\ NoLive(queue) => NoLive(queue')
             /\ OneLive(queue) => OneLive(queue')
    BY <2>1, <2>e, <1>q, PostStep
  <2>3. TypeRest'
    <3>1. context' \in Contexts /\ fsm' \in FsmTasks /\ menu' \in MenuTasks
      BY <1>2, <1>q, <1>c, TasksHeld, ContextsHeld DEF WifiExhausted, Station!Exhausted, TypeRest
    <3>2. uploads' \in 0 .. MaxUploads
      BY <1>2, <1>q, <1>u DEF WifiExhausted, Station!Exhausted, TypeRest
    <3>3. /\ on' \in BOOLEAN /\ timer' \in BOOLEAN
          /\ wifi' \in {"idle", "trying", "up", "exhausted"}
          /\ mqtt' \in {"stopped", "trying", "up"}
          /\ report' \in {"none", "done", "failed"} /\ wanted' \in BOOLEAN
      BY <1>2, <1>q DEF WifiExhausted, Station!Exhausted, TypeRest, link, hist
    <3> QED BY <3>1, <3>2, <3>3 DEF TypeRest
  <2>4. ReportInv'
    BY <1>2, <1>q, <1>u, <2>1, <2>2 DEF WifiExhausted, Station!Exhausted, ReportInv, Planning, link, hist
  <2>5. UploadInv'
    BY <1>2, <1>q, <1>u, <2>1, <2>2 DEF WifiExhausted, Station!Exhausted, UploadInv, OffInv, Planning, link, hist
  <2>6. OffInv'
    BY <1>2, <1>q, <1>u, <2>1, <2>2 DEF WifiExhausted, Station!Exhausted, OffInv, link, hist
  <2>7. EndInv => EndInv'
    BY <1>2, <1>q, <1>u, <2>1, <2>2 DEF WifiExhausted, Station!Exhausted, EndInv, OffInv, Planning, link, hist
  <2> QED BY <2>2, <2>3, <2>4, <2>5, <2>6, <2>7
<1>3. CASE WifiLost
  <2>1. queue' = queue BY <1>3 DEF WifiLost, Station!Lost
  <2>2. TypeQueue' BY <2>1, <1>q DEF TypeQueue
  <2>3. TypeRest'
    <3>1. context' \in Contexts /\ fsm' \in FsmTasks /\ menu' \in MenuTasks
      BY <1>3, <1>q, <1>c, TasksHeld, ContextsHeld DEF WifiLost, Station!Lost, TypeRest
    <3>2. uploads' \in 0 .. MaxUploads
      BY <1>3, <1>q, <1>u DEF WifiLost, Station!Lost, TypeRest
    <3>3. /\ on' \in BOOLEAN /\ timer' \in BOOLEAN
          /\ wifi' \in {"idle", "trying", "up", "exhausted"}
          /\ mqtt' \in {"stopped", "trying", "up"}
          /\ report' \in {"none", "done", "failed"} /\ wanted' \in BOOLEAN
      BY <1>3, <1>q DEF WifiLost, Station!Lost, TypeRest, link, hist
    <3> QED BY <3>1, <3>2, <3>3 DEF TypeRest
  <2>4. ReportInv'
    BY <1>3, <1>q, <1>u, <2>1, <2>2 DEF WifiLost, Station!Lost, ReportInv, Planning, link, hist
  <2>5. UploadInv'
    BY <1>3, <1>q, <1>u, <2>1, <2>2 DEF WifiLost, Station!Lost, UploadInv, OffInv, Planning, link, hist
  <2>6. OffInv'
    BY <1>3, <1>q, <1>u, <2>1, <2>2 DEF WifiLost, Station!Lost, OffInv, link, hist
  <2>7. EndInv => EndInv'
    BY <1>3, <1>q, <1>u, <2>1, <2>2 DEF WifiLost, Station!Lost, EndInv, OffInv, Planning, link, hist
  <2> QED BY <2>2, <2>3, <2>4, <2>5, <2>6, <2>7
<1>4. CASE MqttUp
  <2>1. Post("mqtt up")
    BY <1>4 DEF MqttUp
  <2>e. "mqtt up" \in Events /\ "mqtt up" \notin Endings /\ "mqtt up" \notin Late
    BY <1>v
  <2>2. /\ TypeQueue' /\ on
        /\ Has(queue', Late) => Has(queue, Late)
        /\ ~Overflows =>
             /\ Has(queue', Endings) <=> Has(queue, Endings)
             /\ NoLive(queue) /\ Has(queue, Endings) => NoLive(queue')
             /\ OneLive(queue) /\ (Has(queue, Endings) \/ NoLive(queue)) => OneLive(queue')
    BY <2>1, <2>e, <1>q, PostStep
  <2>3. TypeRest'
    <3>1. context' \in Contexts /\ fsm' \in FsmTasks /\ menu' \in MenuTasks
      BY <1>4, <1>q, <1>c, TasksHeld, ContextsHeld DEF MqttUp, TypeRest
    <3>2. uploads' \in 0 .. MaxUploads
      BY <1>4, <1>q, <1>u DEF MqttUp, TypeRest
    <3>3. /\ on' \in BOOLEAN /\ timer' \in BOOLEAN
          /\ wifi' \in {"idle", "trying", "up", "exhausted"}
          /\ mqtt' \in {"stopped", "trying", "up"}
          /\ report' \in {"none", "done", "failed"} /\ wanted' \in BOOLEAN
      BY <1>4, <1>q DEF MqttUp, TypeRest, link, hist
    <3> QED BY <3>1, <3>2, <3>3 DEF TypeRest
  <2>4. ReportInv'
    BY <1>4, <1>q, <1>u, <2>1, <2>2 DEF MqttUp, ReportInv, Planning, link, hist
  <2>5. UploadInv'
    <3> SUFFICES ASSUME ~Overflows PROVE UploadInv'
      BY DEF UploadInv
    <3>1. mqtt = "trying" /\ mqtt' = "up" /\ uploads' = uploads /\ fsm' = fsm
      BY <1>4 DEF MqttUp
    <3>2. ASSUME ~Planning
          PROVE  /\ OneLive(queue) /\ (uploads > 0 => NoLive(queue))
                 /\ Has(queue, Endings) \/ (uploads = 0 /\ NoLive(queue))
      BY <3>1, <3>2 DEF UploadInv
    <3>3. ASSUME ~Planning
          PROVE  OneLive(queue') /\ (uploads > 0 => NoLive(queue'))
      BY <3>2, <3>3, <2>2, <1>u
    <3> QED BY <3>1, <3>3, <1>u DEF UploadInv, Planning
  <2>6. OffInv'
    BY <1>4, <1>q, <1>u, <2>1, <2>2 DEF MqttUp, OffInv, link, hist
  <2>7. EndInv => EndInv'
    BY <1>4, <1>q, <1>u, <2>1, <2>2 DEF MqttUp, EndInv, OffInv, Planning, link, hist
  <2> QED BY <2>2, <2>3, <2>4, <2>5, <2>6, <2>7
<1>5. CASE MqttDown
  <2>1. Post("mqtt down")
    BY <1>5 DEF MqttDown
  <2>e. "mqtt down" \in Events /\ "mqtt down" \in Endings /\ "mqtt down" \notin Late
    BY <1>v
  <2>2. /\ TypeQueue' /\ on
        /\ Has(queue', Late) => Has(queue, Late)
        /\ ~Overflows =>
             /\ Has(queue', Endings)
             /\ NoLive(queue) => NoLive(queue')
             /\ OneLive(queue) => OneLive(queue')
    BY <2>1, <2>e, <1>q, PostStep
  <2>3. TypeRest'
    <3>1. context' \in Contexts /\ fsm' \in FsmTasks /\ menu' \in MenuTasks
      BY <1>5, <1>q, <1>c, TasksHeld, ContextsHeld DEF MqttDown, TypeRest
    <3>2. uploads' \in 0 .. MaxUploads
      BY <1>5, <1>q, <1>u DEF MqttDown, TypeRest
    <3>3. /\ on' \in BOOLEAN /\ timer' \in BOOLEAN
          /\ wifi' \in {"idle", "trying", "up", "exhausted"}
          /\ mqtt' \in {"stopped", "trying", "up"}
          /\ report' \in {"none", "done", "failed"} /\ wanted' \in BOOLEAN
      BY <1>5, <1>q DEF MqttDown, TypeRest, link, hist
    <3> QED BY <3>1, <3>2, <3>3 DEF TypeRest
  <2>4. ReportInv'
    BY <1>5, <1>q, <1>u, <2>1, <2>2 DEF MqttDown, ReportInv, Planning, link, hist
  <2>5. UploadInv'
    BY <1>5, <1>q, <1>u, <2>1, <2>2 DEF MqttDown, UploadInv, OffInv, Planning, link, hist
  <2>6. OffInv'
    BY <1>5, <1>q, <1>u, <2>1, <2>2 DEF MqttDown, OffInv, link, hist
  <2>7. EndInv => EndInv'
    BY <1>5, <1>q, <1>u, <2>1, <2>2 DEF MqttDown, EndInv, OffInv, Planning, link, hist
  <2> QED BY <2>2, <2>3, <2>4, <2>5, <2>6, <2>7
<1>6. CASE Command
  <2>1. PICK e : e \in Commands /\ Post(e)
    BY <1>6 DEF Command
  <2>e. e \in Events /\ e \notin Endings /\ e \notin Late /\ e # "mqtt up"
    BY <1>v, <2>1
  <2>2. /\ TypeQueue' /\ on
        /\ Has(queue', Late) => Has(queue, Late)
        /\ ~Overflows =>
             /\ Has(queue', Endings) <=> Has(queue, Endings)
             /\ NoLive(queue) => NoLive(queue')
             /\ OneLive(queue) => OneLive(queue')
    BY <2>1, <2>e, <1>q, PostStep
  <2>3. TypeRest'
    <3>1. context' \in Contexts /\ fsm' \in FsmTasks /\ menu' \in MenuTasks
      BY <1>6, <1>q, <1>c, TasksHeld, ContextsHeld DEF Command, TypeRest
    <3>2. uploads' \in 0 .. MaxUploads
      BY <1>6, <1>q, <1>u DEF Command, TypeRest
    <3>3. /\ on' \in BOOLEAN /\ timer' \in BOOLEAN
          /\ wifi' \in {"idle", "trying", "up", "exhausted"}
          /\ mqtt' \in {"stopped", "trying", "up"}
          /\ report' \in {"none", "done", "failed"} /\ wanted' \in BOOLEAN
      BY <1>6, <1>q DEF Command, TypeRest, link, hist
    <3> QED BY <3>1, <3>2, <3>3 DEF TypeRest
  <2>4. ReportInv'
    BY <1>6, <1>q, <1>u, <2>1, <2>2 DEF Command, ReportInv, Planning, link, hist
  <2>5. UploadInv'
    BY <1>6, <1>q, <1>u, <2>1, <2>2 DEF Command, UploadInv, OffInv, Planning, link, hist
  <2>6. OffInv'
    BY <1>6, <1>q, <1>u, <2>1, <2>2 DEF Command, OffInv, link, hist
  <2>7. EndInv => EndInv'
    BY <1>6, <1>q, <1>u, <2>1, <2>2 DEF Command, EndInv, OffInv, Planning, link, hist
  <2> QED BY <2>2, <2>3, <2>4, <2>5, <2>6, <2>7
<1>7. CASE TimerFires
  <2>1. Post("shutdown")
    BY <1>7 DEF TimerFires
  <2>e. "shutdown" \in Events /\ "shutdown" \in Endings /\ "shutdown" \in Late
    BY <1>v
  <2>2. /\ TypeQueue' /\ on
        /\ ~Overflows =>
             /\ Has(queue', Endings)
             /\ NoLive(queue) => NoLive(queue')
             /\ OneLive(queue) => OneLive(queue')
    BY <2>1, <2>e, <1>q, PostStep
  <2>3. TypeRest'
    <3>1. context' \in Contexts /\ fsm' \in FsmTasks /\ menu' \in MenuTasks
      BY <1>7, <1>q, <1>c, TasksHeld, ContextsHeld DEF TimerFires, TypeRest
    <3>2. uploads' \in 0 .. MaxUploads
      BY <1>7, <1>q, <1>u DEF TimerFires, TypeRest
    <3>3. /\ on' \in BOOLEAN /\ timer' \in BOOLEAN
          /\ wifi' \in {"idle", "trying", "up", "exhausted"}
          /\ mqtt' \in {"stopped", "trying", "up"}
          /\ report' \in {"none", "done", "failed"} /\ wanted' \in BOOLEAN
      BY <1>7, <1>q DEF TimerFires, TypeRest, link, hist
    <3> QED BY <3>1, <3>2, <3>3 DEF TypeRest
  <2>4. ReportInv'
    BY <1>7, <1>q, <1>u, <2>1, <2>2 DEF TimerFires, ReportInv, Planning, link, hist
  <2>5. UploadInv'
    BY <1>7, <1>q, <1>u, <2>1, <2>2 DEF TimerFires, UploadInv, OffInv, Planning, link, hist
  <2>6. OffInv'
    BY <1>7, <1>q, <1>u, <2>1, <2>2 DEF TimerFires, OffInv, link, hist
  <2>7. EndInv => EndInv'
    BY <1>7, <1>q, <1>u, <2>1, <2>2 DEF TimerFires, EndInv, OffInv, Planning, link, hist
  <2> QED BY <2>2, <2>3, <2>4, <2>5, <2>6, <2>7
<1>8. CASE SlotConfirmed
  <2>1. queue' = queue BY <1>8 DEF SlotConfirmed
  <2>2. TypeQueue' BY <2>1, <1>q DEF TypeQueue
  <2>3. TypeRest'
    <3>1. context' \in Contexts /\ fsm' \in FsmTasks /\ menu' \in MenuTasks
      BY <1>8, <1>q, <1>c, TasksHeld, ContextsHeld DEF SlotConfirmed, TypeRest
    <3>2. uploads' \in 0 .. MaxUploads
      BY <1>8, <1>q, <1>u DEF SlotConfirmed, TypeRest
    <3>3. /\ on' \in BOOLEAN /\ timer' \in BOOLEAN
          /\ wifi' \in {"idle", "trying", "up", "exhausted"}
          /\ mqtt' \in {"stopped", "trying", "up"}
          /\ report' \in {"none", "done", "failed"} /\ wanted' \in BOOLEAN
      BY <1>8, <1>q DEF SlotConfirmed, TypeRest, link, hist
    <3> QED BY <3>1, <3>2, <3>3 DEF TypeRest
  <2>4. ReportInv'
    BY <1>8, <1>q, <1>u, <2>1, <2>2 DEF SlotConfirmed, ReportInv, Planning, link, hist
  <2>5. UploadInv'
    BY <1>8, <1>q, <1>u, <2>1, <2>2 DEF SlotConfirmed, UploadInv, OffInv, Planning, link, hist
  <2>6. OffInv'
    BY <1>8, <1>q, <1>u, <2>1, <2>2 DEF SlotConfirmed, OffInv, link, hist
  <2>7. EndInv => EndInv'
    BY <1>8, <1>q, <1>u, <2>1, <2>2 DEF SlotConfirmed, EndInv, OffInv, Planning, link, hist
  <2> QED BY <2>2, <2>3, <2>4, <2>5, <2>6, <2>7
<1>9. CASE UploadDone
  <2>1. queue' = queue BY <1>9 DEF UploadDone
  <2>2. TypeQueue' BY <2>1, <1>q DEF TypeQueue
  <2>3. TypeRest'
    <3>1. context' \in Contexts /\ fsm' \in FsmTasks /\ menu' \in MenuTasks
      BY <1>9, <1>q, <1>c, TasksHeld, ContextsHeld DEF UploadDone, TypeRest
    <3>2. uploads' \in 0 .. MaxUploads
      BY <1>9, <1>q, <1>u DEF UploadDone, TypeRest
    <3>3. /\ on' \in BOOLEAN /\ timer' \in BOOLEAN
          /\ wifi' \in {"idle", "trying", "up", "exhausted"}
          /\ mqtt' \in {"stopped", "trying", "up"}
          /\ report' \in {"none", "done", "failed"} /\ wanted' \in BOOLEAN
      BY <1>9, <1>q DEF UploadDone, TypeRest, link, hist
    <3> QED BY <3>1, <3>2, <3>3 DEF TypeRest
  <2>4. ReportInv'
    BY <1>9, <1>q, <1>u, <2>1, <2>2 DEF UploadDone, ReportInv, Planning, link, hist
  <2>5. UploadInv'
    BY <1>9, <1>q, <1>u, <2>1, <2>2 DEF UploadDone, UploadInv, OffInv, Planning, link, hist
  <2>6. OffInv'
    BY <1>9, <1>q, <1>u, <2>1, <2>2 DEF UploadDone, OffInv, link, hist
  <2>7. EndInv => EndInv'
    BY <1>9, <1>q, <1>u, <2>1, <2>2 DEF UploadDone, EndInv, OffInv, Planning, link, hist
  <2> QED BY <2>2, <2>3, <2>4, <2>5, <2>6, <2>7
<1>10. CASE UploadFails
  <2>1. Post("upload failed")
    BY <1>10 DEF UploadFails
  <2>e. "upload failed" \in Events /\ "upload failed" \in Endings /\ "upload failed" \in Late
    BY <1>v
  <2>2. /\ TypeQueue' /\ on
        /\ ~Overflows =>
             /\ Has(queue', Endings)
             /\ NoLive(queue) => NoLive(queue')
             /\ OneLive(queue) => OneLive(queue')
    BY <2>1, <2>e, <1>q, PostStep
  <2>3. TypeRest'
    <3>1. context' \in Contexts /\ fsm' \in FsmTasks /\ menu' \in MenuTasks
      BY <1>10, <1>q, <1>c, TasksHeld, ContextsHeld DEF UploadFails, TypeRest
    <3>2. uploads' \in 0 .. MaxUploads
      <4>1. uploads > 0 /\ uploads' = uploads - 1
        BY <1>10 DEF UploadFails
      <4> QED BY <4>1, <1>q, <1>u DEF TypeRest
    <3>3. /\ on' \in BOOLEAN /\ timer' \in BOOLEAN
          /\ wifi' \in {"idle", "trying", "up", "exhausted"}
          /\ mqtt' \in {"stopped", "trying", "up"}
          /\ report' \in {"none", "done", "failed"} /\ wanted' \in BOOLEAN
      BY <1>10, <1>q DEF UploadFails, TypeRest, link, hist
    <3> QED BY <3>1, <3>2, <3>3 DEF TypeRest
  <2>4. ReportInv'
    BY <1>10, <1>q, <1>u, <2>1, <2>2 DEF UploadFails, ReportInv, Planning, link, hist
  <2>5. UploadInv'
    <3> SUFFICES ASSUME ~Overflows PROVE UploadInv'
      BY DEF UploadInv
    <3>1. uploads > 0 /\ uploads' = uploads - 1 /\ fsm' = fsm
      BY <1>10 DEF UploadFails
    <3>2. uploads' = 0
      BY <3>1, <1>u
    <3>3. ~Planning => OneLive(queue')
      BY <2>2 DEF UploadInv
    <3> QED BY <3>1, <3>2, <3>3, <2>2 DEF UploadInv, Planning
  <2>6. OffInv'
    BY <1>10, <1>q, <1>u, <2>1, <2>2 DEF UploadFails, OffInv, link, hist
  <2>7. EndInv => EndInv'
    BY <1>10, <1>q, <1>u, <2>1, <2>2 DEF UploadFails, EndInv, OffInv, Planning, link, hist
  <2> QED BY <2>2, <2>3, <2>4, <2>5, <2>6, <2>7
<1>11. CASE ReadForExit
  <2>1. queue' = queue BY <1>11 DEF ReadForExit
  <2>2. TypeQueue' BY <2>1, <1>q DEF TypeQueue
  <2>3. TypeRest'
    <3>1. context' \in Contexts /\ fsm' \in FsmTasks /\ menu' \in MenuTasks
      BY <1>11, <1>q, <1>c, TasksHeld, ContextsHeld DEF ReadForExit, TypeRest
    <3>2. uploads' \in 0 .. MaxUploads
      BY <1>11, <1>q, <1>u DEF ReadForExit, TypeRest
    <3>3. /\ on' \in BOOLEAN /\ timer' \in BOOLEAN
          /\ wifi' \in {"idle", "trying", "up", "exhausted"}
          /\ mqtt' \in {"stopped", "trying", "up"}
          /\ report' \in {"none", "done", "failed"} /\ wanted' \in BOOLEAN
      BY <1>11, <1>q DEF ReadForExit, TypeRest, link, hist
    <3> QED BY <3>1, <3>2, <3>3 DEF TypeRest
  <2>4. ReportInv'
    BY <1>11, <1>q, <1>u, <2>1, <2>2, <1>c, <1>t, TasksHeld DEF ReadForExit, ReportInv, Planning, link, hist
  <2>5. UploadInv'
    BY <1>11, <1>q, <1>u, <2>1, <2>2, <1>c, <1>t, TasksHeld DEF ReadForExit, UploadInv, OffInv, Planning, link, hist
  <2>6. OffInv'
    BY <1>11, <1>q, <1>u, <2>1, <2>2, <1>c, <1>t, TasksHeld DEF ReadForExit, OffInv, link, hist
  <2>7. EndInv => EndInv'
    BY <1>11, <1>q, <1>u, <2>1, <2>2, <1>c, <1>t, TasksHeld DEF ReadForExit, EndInv, OffInv, Planning, link, hist
  <2> QED BY <2>2, <2>3, <2>4, <2>5, <2>6, <2>7
<1>12. CASE ReadFails
  <2>1. queue' = queue BY <1>12 DEF ReadFails
  <2>2. TypeQueue' BY <2>1, <1>q DEF TypeQueue
  <2>3. TypeRest'
    <3>1. context' \in Contexts /\ fsm' \in FsmTasks /\ menu' \in MenuTasks
      BY <1>12, <1>q, <1>c, TasksHeld, ContextsHeld DEF ReadFails, TypeRest
    <3>2. uploads' \in 0 .. MaxUploads
      BY <1>12, <1>q, <1>u DEF ReadFails, TypeRest
    <3>3. /\ on' \in BOOLEAN /\ timer' \in BOOLEAN
          /\ wifi' \in {"idle", "trying", "up", "exhausted"}
          /\ mqtt' \in {"stopped", "trying", "up"}
          /\ report' \in {"none", "done", "failed"} /\ wanted' \in BOOLEAN
      BY <1>12, <1>q DEF ReadFails, TypeRest, link, hist
    <3> QED BY <3>1, <3>2, <3>3 DEF TypeRest
  <2>4. ReportInv'
    BY <1>12, <1>q, <1>u, <2>1, <2>2, <1>c, <1>t, TasksHeld DEF ReadFails, ReportInv, Planning, link, hist
  <2>5. UploadInv'
    BY <1>12, <1>q, <1>u, <2>1, <2>2, <1>c, <1>t, TasksHeld DEF ReadFails, UploadInv, OffInv, Planning, link, hist
  <2>6. OffInv'
    BY <1>12, <1>q, <1>u, <2>1, <2>2, <1>c, <1>t, TasksHeld DEF ReadFails, OffInv, link, hist
  <2>7. EndInv => EndInv'
    BY <1>12, <1>q, <1>u, <2>1, <2>2, <1>c, <1>t, TasksHeld DEF ReadFails, EndInv, OffInv, Planning, link, hist
  <2> QED BY <2>2, <2>3, <2>4, <2>5, <2>6, <2>7
<1>13. CASE Exit
  <2>1. Post("exit menu")
    BY <1>13 DEF Exit
  <2>e. "exit menu" \in Events /\ "exit menu" \notin Endings /\ "exit menu" \notin Late
    BY <1>v
  <2>2. /\ TypeQueue' /\ on
        /\ Has(queue', Late) => Has(queue, Late)
        /\ ~Overflows =>
             /\ Has(queue', Endings) <=> Has(queue, Endings)
             /\ NoLive(queue) => NoLive(queue')
             /\ OneLive(queue) => OneLive(queue')
    BY <2>1, <2>e, <1>q, PostStep
  <2>3. TypeRest'
    <3>1. context' \in Contexts /\ fsm' \in FsmTasks /\ menu' \in MenuTasks
      <4>1. /\ context' = menu.context \/ context' = context
            /\ fsm' = fsm
            /\ menu' = Task("open", Idle.context) \/ menu' = Idle
        BY <1>13 DEF Exit
      <4>2. Task("open", Idle.context) \in MenuTasks /\ Idle \in MenuTasks
        BY TasksHeld
      <4> QED BY <4>1, <4>2, <1>c, <1>q DEF TypeRest
    <3>2. uploads' \in 0 .. MaxUploads
      BY <1>13, <1>q, <1>u DEF Exit, TypeRest
    <3>3. /\ on' \in BOOLEAN /\ timer' \in BOOLEAN
          /\ wifi' \in {"idle", "trying", "up", "exhausted"}
          /\ mqtt' \in {"stopped", "trying", "up"}
          /\ report' \in {"none", "done", "failed"} /\ wanted' \in BOOLEAN
      BY <1>13, <1>q DEF Exit, TypeRest, link, hist
    <3> QED BY <3>1, <3>2, <3>3 DEF TypeRest
  <2>4. ReportInv'
    BY <1>13, <1>q, <1>u, <2>1, <2>2, <1>c, <1>t, TasksHeld DEF Exit, ReportInv, Planning, link, hist
  <2>5. UploadInv'
    BY <1>13, <1>q, <1>u, <2>1, <2>2, <1>c, <1>t, TasksHeld DEF Exit, UploadInv, OffInv, Planning, link, hist
  <2>6. OffInv'
    BY <1>13, <1>q, <1>u, <2>1, <2>2, <1>c, <1>t, TasksHeld DEF Exit, OffInv, link, hist
  <2>7. EndInv => EndInv'
    BY <1>13, <1>q, <1>u, <2>1, <2>2, <1>c, <1>t, TasksHeld DEF Exit, EndInv, OffInv, Planning, link, hist
  <2> QED BY <2>2, <2>3, <2>4, <2>5, <2>6, <2>7
<1>14. CASE BootMenu
  <2>1. PICK e : e \in {"boot menu"} /\ Take(e)
    BY <1>14 DEF BootMenu
  <2>e. e \notin Endings /\ e \notin Late
    BY <1>v, <2>1
  <2>2. /\ TypeQueue' /\ on /\ ~Planning
        /\ Has(queue', Endings) <=> Has(queue, Endings)
        /\ Has(queue', Late) => Has(queue, Late)
        /\ NoLive(queue) => NoLive(queue')
        /\ OneLive(queue) => OneLive(queue')
    BY <2>1, <2>e, <1>q, TakeStep DEF Planning, OffInv
  <2>3. TypeRest'
    <3>1. context' \in Contexts /\ fsm' \in FsmTasks /\ menu' \in MenuTasks
      BY <1>14, <1>q, <1>c, TasksHeld, ContextsHeld DEF BootMenu, TypeRest
    <3>2. uploads' \in 0 .. MaxUploads
      BY <1>14, <1>q, <1>u DEF BootMenu, TypeRest
    <3>3. /\ on' \in BOOLEAN /\ timer' \in BOOLEAN
          /\ wifi' \in {"idle", "trying", "up", "exhausted"}
          /\ mqtt' \in {"stopped", "trying", "up"}
          /\ report' \in {"none", "done", "failed"} /\ wanted' \in BOOLEAN
      BY <1>14, <1>q DEF BootMenu, TypeRest, link, hist
    <3> QED BY <3>1, <3>2, <3>3 DEF TypeRest
  <2>4. ReportInv'
    BY <1>14, <1>q, <1>u, <2>1, <2>2, <1>c, <1>t, TasksHeld DEF BootMenu, ReportInv, Planning, link, hist
  <2>5. UploadInv'
    BY <1>14, <1>q, <1>u, <2>1, <2>2, <1>c, <1>t, TasksHeld DEF BootMenu, UploadInv, OffInv, Planning, link, hist
  <2>6. OffInv'
    BY <1>14, <1>q, <1>u, <2>1, <2>2, <1>c, <1>t, TasksHeld DEF BootMenu, OffInv, link, hist
  <2>7. EndInv => EndInv'
    BY <1>14, <1>q, <1>u, <2>1, <2>2, <1>c, <1>t, TasksHeld DEF BootMenu, EndInv, OffInv, Planning, link, hist
  <2> QED BY <2>2, <2>3, <2>4, <2>5, <2>6, <2>7
<1>15. CASE Connect
  <2>1. PICK e : e \in {"boot", "exit menu"} /\ Take(e)
    BY <1>15 DEF Connect
  <2>e. e \notin Endings /\ e \notin Late
    BY <1>v, <2>1
  <2>2. /\ TypeQueue' /\ on /\ ~Planning
        /\ Has(queue', Endings) <=> Has(queue, Endings)
        /\ Has(queue', Late) => Has(queue, Late)
        /\ NoLive(queue) => NoLive(queue')
        /\ OneLive(queue) => OneLive(queue')
    BY <2>1, <2>e, <1>q, TakeStep DEF Planning, OffInv
  <2>3. TypeRest'
    <3>1. context' \in Contexts /\ fsm' \in FsmTasks /\ menu' \in MenuTasks
      BY <1>15, <1>q, <1>c, TasksHeld, ContextsHeld DEF Connect, TypeRest, StartFailover, Station!Start
    <3>2. uploads' \in 0 .. MaxUploads
      BY <1>15, <1>q, <1>u DEF Connect, TypeRest, StartFailover, Station!Start
    <3>3. /\ on' \in BOOLEAN /\ timer' \in BOOLEAN
          /\ wifi' \in {"idle", "trying", "up", "exhausted"}
          /\ mqtt' \in {"stopped", "trying", "up"}
          /\ report' \in {"none", "done", "failed"} /\ wanted' \in BOOLEAN
      BY <1>15, <1>q DEF Connect, TypeRest, link, hist, StartFailover, Station!Start
    <3> QED BY <3>1, <3>2, <3>3 DEF TypeRest
  <2>4. ReportInv'
    BY <1>15, <1>q, <1>u, <2>1, <2>2, <1>c, <1>t, TasksHeld DEF Connect, ReportInv, Planning, StartFailover, Station!Start, link, hist
  <2>5. UploadInv'
    BY <1>15, <1>q, <1>u, <2>1, <2>2, <1>c, <1>t, TasksHeld DEF Connect, UploadInv, OffInv, Planning, StartFailover, Station!Start, link, hist
  <2>6. OffInv'
    BY <1>15, <1>q, <1>u, <2>1, <2>2, <1>c, <1>t, TasksHeld DEF Connect, OffInv, StartFailover, Station!Start, link, hist
  <2>7. EndInv => EndInv'
    BY <1>15, <1>q, <1>u, <2>1, <2>2, <1>c, <1>t, TasksHeld DEF Connect, EndInv, OffInv, Planning, StartFailover, Station!Start, link, hist
  <2> QED BY <2>2, <2>3, <2>4, <2>5, <2>6, <2>7
<1>16. CASE WifiConnected
  <2>1. PICK e : e \in {"wifi up"} /\ Take(e)
    BY <1>16 DEF WifiConnected
  <2>e. e \notin Endings /\ e \notin Late
    BY <1>v, <2>1
  <2>2. /\ TypeQueue' /\ on /\ ~Planning
        /\ Has(queue', Endings) <=> Has(queue, Endings)
        /\ Has(queue', Late) => Has(queue, Late)
        /\ NoLive(queue) => NoLive(queue')
        /\ OneLive(queue) => OneLive(queue')
    BY <2>1, <2>e, <1>q, TakeStep DEF Planning, OffInv
  <2>3. TypeRest'
    <3>1. context' \in Contexts /\ fsm' \in FsmTasks /\ menu' \in MenuTasks
      BY <1>16, <1>q, <1>c, TasksHeld, ContextsHeld DEF WifiConnected, TypeRest
    <3>2. uploads' \in 0 .. MaxUploads
      BY <1>16, <1>q, <1>u DEF WifiConnected, TypeRest
    <3>3. /\ on' \in BOOLEAN /\ timer' \in BOOLEAN
          /\ wifi' \in {"idle", "trying", "up", "exhausted"}
          /\ mqtt' \in {"stopped", "trying", "up"}
          /\ report' \in {"none", "done", "failed"} /\ wanted' \in BOOLEAN
      BY <1>16, <1>q DEF WifiConnected, TypeRest, link, hist
    <3> QED BY <3>1, <3>2, <3>3 DEF TypeRest
  <2>4. ReportInv'
    BY <1>16, <1>q, <1>u, <2>1, <2>2 DEF WifiConnected, ReportInv, Planning, link, hist
  <2>5. UploadInv'
    BY <1>16, <1>q, <1>u, <2>1, <2>2 DEF WifiConnected, UploadInv, OffInv, Planning, link, hist
  <2>6. OffInv'
    BY <1>16, <1>q, <1>u, <2>1, <2>2 DEF WifiConnected, OffInv, link, hist
  <2>7. EndInv => EndInv'
    BY <1>16, <1>q, <1>u, <2>1, <2>2 DEF WifiConnected, EndInv, OffInv, Planning, link, hist
  <2> QED BY <2>2, <2>3, <2>4, <2>5, <2>6, <2>7
<1>17. CASE MqttConnected
  <2>1. PICK e : e \in {"mqtt up"} /\ Take(e)
    BY <1>17 DEF MqttConnected, Report
  <2>e. e \notin Endings /\ e \notin Late
    BY <1>v, <2>1
  <2>2. /\ TypeQueue' /\ on /\ ~Planning
        /\ Has(queue', Endings) <=> Has(queue, Endings)
        /\ Has(queue', Late) => Has(queue, Late)
        /\ ~NoLive(queue)
        /\ OneLive(queue) => NoLive(queue') /\ OneLive(queue')
    BY <2>1, <2>e, <1>q, TakeStep, NoneIsOne DEF Planning, OffInv
  <2>3. TypeRest'
    <3>1. context' \in Contexts /\ fsm' \in FsmTasks /\ menu' \in MenuTasks
      BY <1>17, <1>q, <1>c, TasksHeld, ContextsHeld DEF MqttConnected, Report, TypeRest, StartTransfer
    <3>2. uploads' \in 0 .. MaxUploads
      <4>1. uploads' = uploads \/ (uploads < MaxUploads /\ uploads' = uploads + 1)
        BY <1>17 DEF MqttConnected, Report, StartTransfer
      <4>2. uploads \in 0 .. MaxUploads
        BY <1>q DEF TypeRest
      <4> QED BY <4>1, <4>2, <1>u
    <3>3. /\ on' \in BOOLEAN /\ timer' \in BOOLEAN
          /\ wifi' \in {"idle", "trying", "up", "exhausted"}
          /\ mqtt' \in {"stopped", "trying", "up"}
          /\ report' \in {"none", "done", "failed"} /\ wanted' \in BOOLEAN
      BY <1>17, <1>q DEF MqttConnected, Report, TypeRest, link, hist, StartTransfer
    <3> QED BY <3>1, <3>2, <3>3 DEF TypeRest
  <2>4. ReportInv'
    BY <1>17, <1>q, <1>u, <2>1, <2>2, <1>c, <1>t, TasksHeld DEF MqttConnected, Report, ReportInv, Planning, StartTransfer, link, hist
  <2>5. UploadInv'
    <3> SUFFICES ASSUME ~Overflows PROVE UploadInv'
      BY DEF UploadInv
    <3>1. /\ uploads' = uploads \/ uploads' = uploads + 1
          /\ mqtt' = mqtt /\ fsm' = fsm
      BY <1>17 DEF MqttConnected, Report, StartTransfer, link
    <3>2. /\ uploads > 0 => NoLive(queue)
          /\ OneLive(queue)
          /\ mqtt # "up" /\ ~Has(queue, Endings) => NoLive(queue)
      BY <2>2 DEF UploadInv
    <3>a. uploads = 0
      BY <3>2, <2>2, <1>u
    <3>3. uploads' = 0 \/ uploads' = 1
      BY <3>1, <3>a
    <3> QED BY <3>1, <3>2, <3>3, <2>2 DEF UploadInv
  <2>6. OffInv'
    BY <1>17, <1>q, <1>u, <2>1, <2>2, <1>c, <1>t, TasksHeld DEF MqttConnected, Report, OffInv, StartTransfer, link, hist
  <2>7. EndInv => EndInv'
    BY <1>17, <1>q, <1>u, <2>1, <2>2, <1>c, <1>t, TasksHeld DEF MqttConnected, Report, EndInv, OffInv, Planning, StartTransfer, link, hist
  <2> QED BY <2>2, <2>3, <2>4, <2>5, <2>6, <2>7
<1>18. CASE TakeCommand
  <2>1. PICK e : e \in Commands /\ Take(e)
    BY <1>18 DEF TakeCommand, Commands
  <2>e. e \notin Endings /\ e \notin Late
    BY <1>v, <2>1
  <2>2. /\ TypeQueue' /\ on /\ ~Planning
        /\ Has(queue', Endings) <=> Has(queue, Endings)
        /\ Has(queue', Late) => Has(queue, Late)
        /\ NoLive(queue) => NoLive(queue')
        /\ OneLive(queue) => OneLive(queue')
    BY <2>1, <2>e, <1>q, TakeStep DEF Planning, OffInv
  <2>3. TypeRest'
    <3>1. context' \in Contexts /\ fsm' \in FsmTasks /\ menu' \in MenuTasks
      <4>1. /\ context' = context /\ menu' = menu
            /\ \/ fsm' = Task("save", context)
               \/ fsm' = Task("save", [download |-> FALSE, upload |-> TRUE])
               \/ fsm' = Task("save", [download |-> FALSE, upload |-> FALSE])
        BY <1>18 DEF TakeCommand
      <4>2. \A c \in Contexts : Task("save", c) \in FsmTasks
        BY TasksHeld
      <4> QED BY <4>1, <4>2, <1>c, <1>q DEF TypeRest
    <3>2. uploads' \in 0 .. MaxUploads
      BY <1>18, <1>q, <1>u DEF TakeCommand, TypeRest
    <3>3. /\ on' \in BOOLEAN /\ timer' \in BOOLEAN
          /\ wifi' \in {"idle", "trying", "up", "exhausted"}
          /\ mqtt' \in {"stopped", "trying", "up"}
          /\ report' \in {"none", "done", "failed"} /\ wanted' \in BOOLEAN
      BY <1>18, <1>q DEF TakeCommand, TypeRest, link, hist
    <3> QED BY <3>1, <3>2, <3>3 DEF TypeRest
  <2>4. ReportInv'
    BY <1>18, <1>q, <1>u, <2>1, <2>2, <1>c, <1>t, TasksHeld DEF TakeCommand, ReportInv, Planning, link, hist
  <2>5. UploadInv'
    BY <1>18, <1>q, <1>u, <2>1, <2>2, <1>c, <1>t, TasksHeld DEF TakeCommand, UploadInv, OffInv, Planning, link, hist
  <2>6. OffInv'
    BY <1>18, <1>q, <1>u, <2>1, <2>2, <1>c, <1>t, TasksHeld DEF TakeCommand, OffInv, link, hist
  <2>7. EndInv => EndInv'
    BY <1>18, <1>q, <1>u, <2>1, <2>2, <1>c, <1>t, TasksHeld DEF TakeCommand, EndInv, OffInv, Planning, link, hist
  <2> QED BY <2>2, <2>3, <2>4, <2>5, <2>6, <2>7
<1>19. CASE SaveContext
  <2>1. queue' = queue BY <1>19 DEF SaveContext
  <2>2. TypeQueue' BY <2>1, <1>q DEF TypeQueue
  <2>3. TypeRest'
    <3>1. context' \in Contexts /\ fsm' \in FsmTasks /\ menu' \in MenuTasks
      BY <1>19, <1>q, <1>c, TasksHeld, ContextsHeld DEF SaveContext, TypeRest
    <3>2. uploads' \in 0 .. MaxUploads
      BY <1>19, <1>q, <1>u DEF SaveContext, TypeRest
    <3>3. /\ on' \in BOOLEAN /\ timer' \in BOOLEAN
          /\ wifi' \in {"idle", "trying", "up", "exhausted"}
          /\ mqtt' \in {"stopped", "trying", "up"}
          /\ report' \in {"none", "done", "failed"} /\ wanted' \in BOOLEAN
      BY <1>19, <1>q DEF SaveContext, TypeRest, link, hist
    <3> QED BY <3>1, <3>2, <3>3 DEF TypeRest
  <2>4. ReportInv'
    BY <1>19, <1>q, <1>u, <2>1, <2>2, <1>c, <1>t, TasksHeld DEF SaveContext, ReportInv, Planning, link, hist
  <2>5. UploadInv'
    BY <1>19, <1>q, <1>u, <2>1, <2>2, <1>c, <1>t, TasksHeld DEF SaveContext, UploadInv, OffInv, Planning, link, hist
  <2>6. OffInv'
    BY <1>19, <1>q, <1>u, <2>1, <2>2, <1>c, <1>t, TasksHeld DEF SaveContext, OffInv, link, hist
  <2>7. EndInv => EndInv'
    BY <1>19, <1>q, <1>u, <2>1, <2>2, <1>c, <1>t, TasksHeld DEF SaveContext, EndInv, OffInv, Planning, link, hist
  <2> QED BY <2>2, <2>3, <2>4, <2>5, <2>6, <2>7
<1>20. CASE LastReading
  <2>1. PICK e : e \in {"wifi exhausted", "mqtt down"} /\ Take(e)
    BY <1>20 DEF LastReading, Report
  <2>e. e \in Endings /\ e \notin Late
    BY <1>v, <2>1
  <2>2. /\ TypeQueue' /\ on /\ ~Planning
        /\ Has(queue, Endings)
        /\ Has(queue', Late) => Has(queue, Late)
    BY <2>1, <2>e, <1>q, TakeStep DEF Planning, OffInv
  <2>3. TypeRest'
    <3>1. context' \in Contexts /\ fsm' \in FsmTasks /\ menu' \in MenuTasks
      BY <1>20, <1>q, <1>c, TasksHeld, ContextsHeld DEF LastReading, Report, TypeRest
    <3>2. uploads' \in 0 .. MaxUploads
      BY <1>20, <1>q, <1>u DEF LastReading, Report, TypeRest
    <3>3. /\ on' \in BOOLEAN /\ timer' \in BOOLEAN
          /\ wifi' \in {"idle", "trying", "up", "exhausted"}
          /\ mqtt' \in {"stopped", "trying", "up"}
          /\ report' \in {"none", "done", "failed"} /\ wanted' \in BOOLEAN
      BY <1>20, <1>q DEF LastReading, Report, TypeRest, link, hist
    <3> QED BY <3>1, <3>2, <3>3 DEF TypeRest
  <2>4. ReportInv'
    BY <1>20, <1>q, <1>u, <2>1, <2>2, <1>c, <1>t, TasksHeld DEF LastReading, Report, ReportInv, Planning, link, hist
  <2>5. UploadInv'
    BY <1>20, <1>q, <1>u, <2>1, <2>2, <1>c, <1>t, TasksHeld DEF LastReading, Report, UploadInv, OffInv, Planning, link, hist
  <2>6. OffInv'
    BY <1>20, <1>q, <1>u, <2>1, <2>2, <1>c, <1>t, TasksHeld DEF LastReading, Report, OffInv, link, hist
  <2>7. EndInv => EndInv'
    <3>1. fsm'.step = "plan"
      BY <1>20, <1>c, <1>t DEF LastReading, Report
    <3> QED BY <3>1 DEF EndInv, Planning
  <2> QED BY <2>2, <2>3, <2>4, <2>5, <2>6, <2>7
<1>21. CASE ShutDown
  <2>1. PICK e : e \in {"upload failed", "shutdown"} /\ Take(e)
    BY <1>21 DEF ShutDown
  <2>e. e \in Endings /\ e \in Late
    BY <1>v, <2>1
  <2>2. /\ TypeQueue' /\ on /\ ~Planning
        /\ Has(queue, Endings)
        /\ Has(queue, Late)
    BY <2>1, <2>e, <1>q, TakeStep DEF Planning, OffInv
  <2>3. TypeRest'
    <3>1. context' \in Contexts /\ fsm' \in FsmTasks /\ menu' \in MenuTasks
      BY <1>21, <1>q, <1>c, TasksHeld, ContextsHeld DEF ShutDown, TypeRest
    <3>2. uploads' \in 0 .. MaxUploads
      BY <1>21, <1>q, <1>u DEF ShutDown, TypeRest
    <3>3. /\ on' \in BOOLEAN /\ timer' \in BOOLEAN
          /\ wifi' \in {"idle", "trying", "up", "exhausted"}
          /\ mqtt' \in {"stopped", "trying", "up"}
          /\ report' \in {"none", "done", "failed"} /\ wanted' \in BOOLEAN
      BY <1>21, <1>q DEF ShutDown, TypeRest, link, hist
    <3> QED BY <3>1, <3>2, <3>3 DEF TypeRest
  <2>4. ReportInv'
    BY <1>21, <1>q, <1>u, <2>1, <2>2, <1>c, <1>t, TasksHeld DEF ShutDown, ReportInv, Planning, link, hist
  <2>5. UploadInv'
    BY <1>21, <1>q, <1>u, <2>1, <2>2, <1>c, <1>t, TasksHeld DEF ShutDown, UploadInv, OffInv, Planning, link, hist
  <2>6. OffInv'
    BY <1>21, <1>q, <1>u, <2>1, <2>2, <1>c, <1>t, TasksHeld DEF ShutDown, OffInv, link, hist
  <2>7. EndInv => EndInv'
    BY <1>21, <1>q, <1>u, <2>1, <2>2, <1>c, <1>t, TasksHeld DEF ShutDown, EndInv, OffInv, Planning, link, hist
  <2> QED BY <2>2, <2>3, <2>4, <2>5, <2>6, <2>7
<1>22. CASE CutPower
  <2>1. queue' = <<>> BY <1>22 DEF CutPower
  <2>2. /\ TypeQueue' /\ NoLive(queue') /\ OneLive(queue')
        /\ ~Has(queue', Endings) /\ ~Has(queue', Late)
    BY <2>1, NoEvents DEF TypeQueue
  <2>3. TypeRest'
    <3>1. context' \in Contexts /\ fsm' \in FsmTasks /\ menu' \in MenuTasks
      BY <1>22, <1>q, <1>c, TasksHeld, ContextsHeld DEF CutPower, TypeRest, Fresh
    <3>2. uploads' \in 0 .. MaxUploads
      BY <1>22, <1>q, <1>u DEF CutPower, TypeRest, Fresh
    <3>3. /\ on' \in BOOLEAN /\ timer' \in BOOLEAN
          /\ wifi' \in {"idle", "trying", "up", "exhausted"}
          /\ mqtt' \in {"stopped", "trying", "up"}
          /\ report' \in {"none", "done", "failed"} /\ wanted' \in BOOLEAN
      BY <1>22, <1>q DEF CutPower, TypeRest, link, hist, Fresh
    <3> QED BY <3>1, <3>2, <3>3 DEF TypeRest
  <2>4. ReportInv'
    BY <1>22, <1>q, <1>u, <2>1, <2>2, <1>c, <1>t, TasksHeld DEF CutPower, ReportInv, Planning, Fresh, link, hist
  <2>5. UploadInv'
    BY <1>22, <1>q, <1>u, <2>1, <2>2, <1>c, <1>t, TasksHeld DEF CutPower, UploadInv, OffInv, Planning, Fresh, link, hist
  <2>6. OffInv'
    BY <1>22, <1>q, <1>u, <2>1, <2>2, <1>c, <1>t, TasksHeld DEF CutPower, OffInv, Fresh, link, hist
  <2>7. EndInv => EndInv'
    BY <1>22, <1>q, <1>u, <2>1, <2>2, <1>c, <1>t, TasksHeld DEF CutPower, EndInv, OffInv, Planning, Fresh, link, hist
  <2> QED BY <2>2, <2>3, <2>4, <2>5, <2>6, <2>7
<1>23. CASE Crash
  <2>1. queue' = <<>> BY <1>23 DEF Crash
  <2>2. /\ TypeQueue' /\ NoLive(queue') /\ OneLive(queue')
        /\ ~Has(queue', Endings) /\ ~Has(queue', Late)
    BY <2>1, NoEvents DEF TypeQueue
  <2>3. TypeRest'
    <3>1. context' \in Contexts /\ fsm' \in FsmTasks /\ menu' \in MenuTasks
      BY <1>23, <1>q, <1>c, TasksHeld, ContextsHeld DEF Crash, TypeRest, Fresh
    <3>2. uploads' \in 0 .. MaxUploads
      BY <1>23, <1>q, <1>u DEF Crash, TypeRest, Fresh
    <3>3. /\ on' \in BOOLEAN /\ timer' \in BOOLEAN
          /\ wifi' \in {"idle", "trying", "up", "exhausted"}
          /\ mqtt' \in {"stopped", "trying", "up"}
          /\ report' \in {"none", "done", "failed"} /\ wanted' \in BOOLEAN
      BY <1>23, <1>q DEF Crash, TypeRest, link, hist, Fresh
    <3> QED BY <3>1, <3>2, <3>3 DEF TypeRest
  <2>4. ReportInv'
    BY <1>23, <1>q, <1>u, <2>1, <2>2, <1>c, <1>t, TasksHeld DEF Crash, ReportInv, Planning, Fresh, link, hist
  <2>5. UploadInv'
    BY <1>23, <1>q, <1>u, <2>1, <2>2, <1>c, <1>t, TasksHeld DEF Crash, UploadInv, OffInv, Planning, Fresh, link, hist
  <2>6. OffInv'
    BY <1>23, <1>q, <1>u, <2>1, <2>2, <1>c, <1>t, TasksHeld DEF Crash, OffInv, Fresh, link, hist
  <2>7. EndInv => EndInv'
    BY <1>23, <1>q, <1>u, <2>1, <2>2, <1>c, <1>t, TasksHeld DEF Crash, EndInv, OffInv, Planning, Fresh, link, hist
  <2> QED BY <2>2, <2>3, <2>4, <2>5, <2>6, <2>7
<1>24. CASE PowerOn
  <2>1. PICK e : e \in {"boot", "boot menu"} /\ queue' = <<e>> BY <1>24 DEF PowerOn
  <2>e. e \in Events /\ e # "mqtt up" /\ e \notin Endings /\ e \notin Late
    BY <2>1 DEF Events, Endings, Late
  <2>2. /\ TypeQueue' /\ NoLive(queue') /\ OneLive(queue')
        /\ ~Has(queue', Endings) /\ ~Has(queue', Late)
    BY <2>1, <2>e, OneEvent DEF TypeQueue
  <2>3. TypeRest'
    <3>1. context' \in Contexts /\ fsm' \in FsmTasks /\ menu' \in MenuTasks
      BY <1>24, <1>q, <1>c, TasksHeld, ContextsHeld DEF PowerOn, TypeRest
    <3>2. uploads' \in 0 .. MaxUploads
      BY <1>24, <1>q, <1>u DEF PowerOn, TypeRest
    <3>3. /\ on' \in BOOLEAN /\ timer' \in BOOLEAN
          /\ wifi' \in {"idle", "trying", "up", "exhausted"}
          /\ mqtt' \in {"stopped", "trying", "up"}
          /\ report' \in {"none", "done", "failed"} /\ wanted' \in BOOLEAN
      BY <1>24, <1>q DEF PowerOn, TypeRest, link, hist
    <3> QED BY <3>1, <3>2, <3>3 DEF TypeRest
  <2>4. ReportInv'
    BY <1>24, <1>q, <1>u, <2>1, <2>2 DEF PowerOn, ReportInv, Planning, link, hist
  <2>5. UploadInv'
    BY <1>24, <1>q, <1>u, <2>1, <2>2 DEF PowerOn, UploadInv, OffInv, Planning, link, hist
  <2>6. OffInv'
    BY <1>24, <1>q, <1>u, <2>1, <2>2 DEF PowerOn, OffInv, link, hist
  <2>7. EndInv => EndInv'
    BY <1>24, <1>q, <1>u, <2>1, <2>2 DEF PowerOn, EndInv, OffInv, Planning, link, hist
  <2> QED BY <2>2, <2>3, <2>4, <2>5, <2>6, <2>7
<1> QED
  BY <1>1, <1>2, <1>3, <1>4, <1>5, <1>6, <1>7, <1>8, <1>9, <1>10, <1>11, <1>12, <1>13, <1>14, <1>15, <1>16, <1>17, <1>18, <1>19, <1>20, <1>21, <1>22, <1>23, <1>24 DEF Next, Fsm

(* The device starts off. *)
LEMMA SessionInit == Init => Inv /\ EndInv
<1> SUFFICES ASSUME Init PROVE Inv /\ EndInv
  OBVIOUS
<1> USE DEF Init
<1>1. TypeQueue
  BY NoEvents DEF TypeQueue
<1>2. TypeRest
  <2>1. context \in Contexts BY ContextsHeld
  <2>2. fsm \in FsmTasks /\ menu \in MenuTasks BY TasksHeld
  <2>3. uploads \in 0 .. MaxUploads BY SessionAssumption
  <2> QED BY <2>1, <2>2, <2>3 DEF TypeRest
<1>3. ReportInv
  BY NoEvents, TasksHeld DEF ReportInv, Planning
<1>4. UploadInv
  BY NoEvents DEF UploadInv
<1>5. OffInv /\ EndInv
  BY TasksHeld DEF OffInv, EndInv
<1> QED BY <1>1, <1>2, <1>3, <1>4, <1>5 DEF Inv

(* A stutter keeps the invariant. *)
LEMMA SessionStutter == Inv /\ UNCHANGED vars => Inv' /\ (EndInv => EndInv')
<1> SUFFICES ASSUME Inv, UNCHANGED vars
             PROVE  Inv' /\ (EndInv => EndInv')
  OBVIOUS
<1> USE DEF vars, link, hist
<1>1. TypeQueue' /\ TypeRest'
  BY DEF Inv, TypeQueue, TypeRest
<1>2. ReportInv' /\ UploadInv' /\ OffInv'
  BY DEF Inv, ReportInv, UploadInv, OffInv, Planning
<1>3. EndInv => EndInv'
  BY DEF EndInv, Planning
<1> QED BY <1>1, <1>2, <1>3 DEF Inv

(* The invariant holds throughout, for every capacity of the queue. *)
THEOREM SessionInvariance == Spec => []Inv
<1>1. Init => Inv
  BY SessionInit
<1>2. Inv /\ [Next]_vars => Inv'
  BY SessionStep, SessionStutter
<1> QED BY <1>1, <1>2, PTL DEF Spec

(* Every variable of the session keeps its type, the queue its capacity,   *)
(* whether events are dropped or not.                                      *)
THEOREM TypeCorrect == Spec => []TypeOK
<1>1. Inv => TypeOK
  BY TypeParts DEF Inv
<1> QED BY <1>1, SessionInvariance, PTL

(* Two upload tasks never run at once, whatever the number of commands,    *)
(* reconnections and menu exits that wait in the queue: between two "mqtt  *)
(* up" there is an event whose handler ends the session, unless it was     *)
(* dropped.                                                                *)
THEOREM UploadsAreAlone ==
  ASSUME ~Overflows
  PROVE  Spec => []OneUploadAtATime
<1>1. Inv => OneUploadAtATime
  BY DEF Inv, UploadInv, OneUploadAtATime
<1> QED BY <1>1, SessionInvariance, PTL

(* The queue holds an event that ends the session, as the property has it. *)
LEMMA HasContains == Has(queue, Endings) <=> \E e \in Endings : Contains(queue, e)
BY DEF Has, Contains

(* After the report there is always something that shuts the device down,  *)
(* if no event is dropped and the context can be read when the timer is to *)
(* be started.                                                             *)
THEOREM SomethingAlwaysEnds ==
  ASSUME ~Overflows, ~FramFails
  PROVE  Spec => []SomethingEndsIt
<1>1. Init => Inv /\ EndInv
  BY SessionInit
<1>2. Inv /\ EndInv /\ [Next]_vars => Inv' /\ EndInv'
  BY SessionStep, SessionStutter
<1>3. Inv /\ EndInv => SomethingEndsIt
  BY HasContains DEF EndInv, SomethingEndsIt, Planning
<1> QED BY <1>1, <1>2, <1>3, PTL DEF Spec

(* The firmware cuts the power only after it has tried to publish or store *)
(* a reading of this session, on every path that ends a session, whatever  *)
(* events a full queue drops and whether the context can be read or not.   *)
(* That the try succeeds is not claimed: the code does not look.           *)
THEOREM ReportBeforeCut == Spec => NeverCutUntried
<1>1. Inv /\ [Next]_vars => [CutPower => report # "none"]_vars
  BY DEF Inv, ReportInv, Planning, CutPower
<1> QED BY <1>1, SessionInvariance, PTL DEF Spec, NeverCutUntried
=============================================================================
