---------------------------- MODULE WifiStation -----------------------------
(***************************************************************************)
(* What the WiFi station promises the session that waits for it: once      *)
(* started it tries, until it is connected or has no network left, and     *)
(* each attempt comes to one of the two.  A connection may be lost and     *)
(* tried again; a station that has given up stays so.                      *)
(***************************************************************************)
VARIABLE station

Start     == station = "idle" /\ station' = "trying"
Connected == station = "trying" /\ station' = "up"
Lost      == station = "up" /\ station' = "trying"
Exhausted == station \in {"trying", "up"} /\ station' = "exhausted"

Init == station = "idle"
Next == Start \/ Connected \/ Lost \/ Exhausted
Spec == Init /\ [][Next]_station

(* An attempt is answered. *)
Answers == station = "trying" ~> station \in {"up", "exhausted"}

FairSpec == Spec /\ Answers
=============================================================================
