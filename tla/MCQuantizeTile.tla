--------------------------- MODULE MCQuantizeTile ---------------------------
(* Instances of QuantizeTile for TLC. *)
EXTENDS QuantizeTile

MCWeight(side, c, raw) == 2 + ((raw + c * side) % 3)
MCDcTerm(m, x, y, fx, fy) == ((x + 2 * y + fx * fy + m) % 3) - 1
MCDcInvQuant == [c \in Channel |-> 3 - c]

(* The transform of side s * BlockDim at a block, if it is one of `at`.    *)
MCSignal(at, bw, b) ==
  LET owns(k)   == b = k[3] * bw + k[2]
      covers(k) == /\ (b % bw) - k[2] \in 0 .. k[1] - 1
                   /\ (b \div bw) - k[3] \in 0 .. k[1] - 1
  IN  IF \E k \in at : owns(k) THEN BlockDim * (CHOOSE k \in at : owns(k))[1]
      ELSE IF \E k \in at : covers(k) THEN 0 ELSE BlockDim

Frame(bw, bh, at, seed) ==
  [bw |-> bw, bh |-> bh,
   acs |-> [b \in 0 .. bw * bh - 1 |-> MCSignal(at, bw, b)],
   qf  |-> [b \in 0 .. bw * bh - 1 |-> 1 + (b % 3)],
   ac  |-> [c \in Channel |-> [s \in 0 .. bw * bh * Slots - 1 |->
             LET y == ((s * s + 5 * s) % 9) - 4
             IN  IF c = 1 THEN y ELSE ((seed + c) * y + ((s * s * (c + 3) + seed * s) % 7) - 3) \div 2]]]

MCFrames ==
  {Frame(8, 8, {<<4, 4, 4>>, <<2, 0, 2>>, <<2, 2, 6>>}, 1), Frame(8, 5, {<<4, 0, 0>>, <<2, 6, 2>>}, -3),
   Frame(7, 8, {<<4, 0, 4>>, <<2, 4, 4>>, <<2, 4, 6>>}, 4), Frame(9, 4, {<<4, 4, 0>>, <<2, 0, 2>>}, 7)}
=============================================================================
