---------------------------- MODULE OfflineQueue ----------------------------
(***************************************************************************)
(* What the offline telemetry log promises, whatever its FRAM layout: a    *)
(* queue of at most MaxItems readings.  A new reading enters at the back,  *)
(* pushing out the oldest one when the queue is full; readings leave from  *)
(* the front.  The one exception a power failure can cause is named        *)
(* DisplaceOldest: with a full queue, the new reading may end up in the    *)
(* place of the oldest one instead of at the back.                         *)
(***************************************************************************)
EXTENDS Naturals, Sequences

CONSTANTS
  MaxItems, (* Capacity of the queue.        *)
  Readings  (* The readings that may be kept. *)

VARIABLE queue (* The readings kept, oldest first. *)

Full == Len(queue) = MaxItems

Init == queue = << >>

(* A reading enters; the oldest one makes room for it when there is none.  *)
Enqueue(r) == queue' = Append(IF Full THEN Tail(queue) ELSE queue, r)

(* The oldest reading leaves. *)
Dequeue ==
  /\ queue # << >>
  /\ queue' = Tail(queue)

(* A push of r cut short: r took the storage of the oldest reading, and    *)
(* the queue was not told.                                                 *)
DisplaceOldest(r) ==
  /\ Full
  /\ queue' = [queue EXCEPT ![1] = r]

Next ==
  \/ \E r \in Readings : Enqueue(r) \/ DisplaceOldest(r)
  \/ Dequeue

Spec == Init /\ [][Next]_queue
=============================================================================
