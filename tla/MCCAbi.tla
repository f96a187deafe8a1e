------------------------------- MODULE MCCAbi -------------------------------
(* Instances of CAbi for TLC. *)
EXTENDS CAbi, TLC

CONSTANTS small, large, single, bad, o1, o2

(* Two encodable configs, one of a single AC group, one with a distance    *)
(* that is not a positive number.                                          *)
MCParams == {small, large, single, bad}

MCEncodable == {small, large, bad}

MCGoodDistance == {small, large, single}

MCOneConfig == {small}

MCBuffers == {o1, o2}
=============================================================================
