---------------------------- MODULE MCAccountSync ----------------------------
(* Model values and small parameters for the runs of AccountSync.           *)
EXTENDS AccountSync

OneGroup == {1}
TwoGroups == {1, 2}
TwoSubs == {1, 2}
OneSub == {1}
NoSubs == {}
SmallNets == {4, 6}
NoNets == {}
OneNet == {6}
NoJitter == {0}
SmallJitter == -1..0
NoMoves == {}
Shifts == {"shift"}
AllMoves == {"early", "shift"}
=============================================================================
