---------------------------- MODULE MCDcSections ----------------------------
(* Instances of DcSections for TLC. *)
EXTENDS DcSections

(* A frame of bw x bh blocks. A 16x16 transform covers four blocks if      *)
(* `mixed`; the samples and the quant field vary with `seed`.              *)
Frame(bw, bh, mixed, seed, depth, capacity) ==
  LET tiles == CeilDiv(bw, TileBlocks) * CeilDiv(bh, TileBlocks)
  IN  [bw |-> bw, bh |-> bh,
       dc |-> [c \in 0 .. 2 |-> [b \in 0 .. bw * bh - 1 |-> (((b * b * (c + 1) + b + c) % 5) - 1) * seed]],
       acs |-> [b \in 0 .. bw * bh - 1 |->
                  IF ~mixed THEN 8
                  ELSE IF b = 0 THEN 16 ELSE IF b \in {1, bw, bw + 1} THEN COVERED ELSE 8],
       qf |-> [b \in 0 .. bw * bh - 1 |-> 1 + ((b * (seed + 2)) % 7)],
       ytox |-> [t \in 0 .. tiles - 1 |-> t * seed], ytob |-> [t \in 0 .. tiles - 1 |-> -t],
       depth |-> depth, pre |-> 11, mid |-> 5, capacity |-> capacity]

(* The depths of a code of several symbols, and of one for whose symbol    *)
(* no bits are written.                                                    *)
MCDepth == [dc |-> [s \in 0 .. 15 |-> (s % 3) + 1], meta |-> [s \in 0 .. 15 |-> (s + 1) % 4]]

MCFrames ==
  {Frame(5, 3, mixed, seed, MCDepth, 40) : mixed \in BOOLEAN, seed \in {0, 1, 3}}
    \cup {Frame(5, 3, TRUE, 1, MCDepth, 15), Frame(3, 5, TRUE, 2, MCDepth, 40),
          Frame(4, 4, TRUE, 1, MCDepth, 40), Frame(3, 1, FALSE, 1, MCDepth, 40)}
=============================================================================
