------------------------------ MODULE MCWsRelay ------------------------------
(* One connection that sends three messages of unequal size: the first two fit   *)
(* into its chain together, the third only when nothing else waits.  The last    *)
(* two need no record.                                                           *)
EXTENDS WsRelay

CONSTANT c1

OneConnection == {c1}
ThreeOfOne == OneConnection \X (1..3)
LaterSkipped == {<<c1, 2>>, <<c1, 3>>}
Unequal == [m \in Messages |-> m[2]]
=============================================================================
