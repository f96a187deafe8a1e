---------------------------- MODULE MCHostStage ----------------------------
(* Instances of HostStage for TLC. *)
EXTENDS HostStage

(* Group 0 is empty, group 2 longer than the two before it. *)
MCTokens == [g \in Group |-> <<0, 1, 2, 1, 3>>[g + 1]]

MCSize == [g \in Group |-> <<1, 2, 1, 1, 2>>[g + 1]]

(* A buffer that is one byte short, one that fits, one with room left. *)
MCCapacities == {FileSize - 1, FileSize, FileSize + 1}
============================================================================
