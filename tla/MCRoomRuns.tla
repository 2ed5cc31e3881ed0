------------------------------- MODULE MCRoomRuns -------------------------------
(* Instances of RoomRuns for TLC.                                             *)
EXTENDS RoomRuns, TLC

CONSTANTS r1, r2
TwoRuns == {r1, r2}
RunSymmetry == Permutations(TwoRuns)
==============================================================================
