-------------------------- MODULE MCFrameEncoder --------------------------
(* Instances of FrameEncoder for TLC. *)
EXTENDS FrameEncoder, TLC

CONSTANTS p1, p2, b1, b2

MCParams == {p1, p2}

(* p2 is a frame of a single AC group. *)
MCEncodable == {p1}

MCBuffers == {b1, b2}
===========================================================================
