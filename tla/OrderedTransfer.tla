--------------------------- MODULE OrderedTransfer ---------------------------
(***************************************************************************)
(* What a transfer of the IR slots promises, in either direction: the      *)
(* slots arrive one after the other, without a gap, and only a transfer of *)
(* all of them is ever taken for complete.                                 *)
(***************************************************************************)
EXTENDS Naturals

CONSTANT Last (* The slots are 0 .. Last. *)

VARIABLES
  moved,   (* The slots that have arrived.                                   *)
  complete (* Whether the transfer is taken for complete.                    *)

Init == moved = {} /\ complete = FALSE

Move ==
  /\ \E s \in 0 .. Last :
       /\ \A below \in 0 .. Last : below < s => below \in moved
       /\ moved' = moved \cup {s}
  /\ UNCHANGED complete

Complete ==
  /\ 0 .. Last \subseteq moved
  /\ complete' = TRUE
  /\ UNCHANGED moved

(* The end that counts the slots starts anew, or the transfer is asked for *)
(* anew.                                                                   *)
Forget  == complete' = FALSE /\ UNCHANGED moved
Restart == moved' = {} /\ complete' = FALSE

Next == Move \/ Complete \/ Forget \/ Restart

Spec == Init /\ [][Next]_<<moved, complete>>
=============================================================================
