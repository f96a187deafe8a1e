---------------------------- MODULE VarDctLayout ----------------------------
(***************************************************************************)
(* The layout of a frame's transforms and of their coefficients            *)
(* (src/src/vardct_layout.h), and the orders the coefficients are coded in *)
(* (src/src/coeff_order.h and its host reference).                         *)
(*                                                                         *)
(* A frame f has f.bw x f.bh blocks. f.acs[block] is the side of the       *)
(* transform whose first block it is, COVERED elsewhere; f.ac[c] are the   *)
(* coefficients of channel c by slot. A transform's coefficients are       *)
(* indexed by raster position, its low-frequency corner is coded as DC.    *)
(***************************************************************************)
EXTENDS KernelOps

CONSTANTS
  BlockDim,   (* 8, the side of a block in coefficients *)
  Sides       (* the transforms' sides *)

ASSUME LayoutAssumption ==
  BlockDim \in Nat \ {0} /\ \A s \in Sides : \E m \in {1, 2, 4} : s = m * BlockDim

COVERED == 0
Channel == 0 .. 2
Slots   == BlockDim * BlockDim   (* COEFFS_PER_BLOCK *)

CoveredSide(side) == side \div BlockDim
Covered(side)     == CoveredSide(side) * CoveredSide(side)
Log2Covered(side) == CASE CoveredSide(side) = 1 -> 0 [] CoveredSide(side) = 2 -> 2 [] OTHER -> 4

PlaneSlot(side, bx, by, bw, raw) ==
  LET q == raw \div Slots
      m == CoveredSide(side)
  IN  ((by + q \div m) * bw + bx + (q % m)) * Slots + (raw % Slots)

IsCorner(side, raw) == raw \div side < CoveredSide(side) /\ raw % side < CoveredSide(side)

Positions(side) == 0 .. side * side - 1

(* The natural order: the corner in raster order, then the diagonals of    *)
(* the block, traversed in alternating directions.                         *)
NaturalIndexOf(side, raw) ==
  LET x(r) == r % side
      y(r) == r \div side
      d(r) == x(r) + y(r)
      zigzag(r) == d(r) * side + IF d(r) % 2 = 0 THEN x(r) ELSE y(r)
  IN  IF IsCorner(side, raw) THEN y(raw) * CoveredSide(side) + x(raw)
      ELSE Covered(side)
             + Cardinality({r \in Positions(side) : ~IsCorner(side, r) /\ zigzag(r) < zigzag(raw)})

NaturalIndex == [side \in Sides |-> [r \in Positions(side) |-> NaturalIndexOf(side, r)]]
Natural ==
  [side \in Sides |-> [k \in Positions(side) |-> CHOOSE r \in Positions(side) : NaturalIndex[side][r] = k]]

-----------------------------------------------------------------------------
FirstBlocks(f) == {b \in 0 .. f.bw * f.bh - 1 : f.acs[b] # COVERED}

(* The transform of a first block covers a block. *)
Covers(f, o, block) ==
  LET m  == CoveredSide(f.acs[o])
      dx == (block % f.bw) - (o % f.bw)
      dy == (block \div f.bw) - (o \div f.bw)
  IN  dx \in 0 .. m - 1 /\ dy \in 0 .. m - 1

Owner(f, block) == CHOOSE o \in FirstBlocks(f) : Covers(f, o, block)

Coefficient(f, c, block, raw) ==
  f.ac[c][PlaneSlot(f.acs[block], block % f.bw, block \div f.bw, f.bw, raw)]

(* CoeffOrderStats: how many transforms of a side have a non-zero          *)
(* coefficient at a position.                                              *)
OrderStats(f) ==
  [nonzeros |-> Tabulated([t \in Sides \X Channel |->
     Tabulated([raw \in Positions(t[1]) |->
       IF IsCorner(t[1], raw) THEN 0
       ELSE Cardinality({b \in FirstBlocks(f) : f.acs[b] = t[1] /\ Coefficient(f, t[2], b, raw) # 0})])]),
   blocks |-> Tabulated([side \in Sides |-> Cardinality({b \in FirstBlocks(f) : f.acs[b] = side})])]

(* The zeros of a position, in coarse steps. *)
OrderKey(blocks, nonzeros, side) == (10 * (blocks - nonzeros) + side) \div (10 * side)

(* The keys of a transform's positions, by natural index. *)
OrderKeys(stats, side, c) ==
  Tabulated([i \in Positions(side) |->
    IF i < Covered(side) THEN 0
    ELSE OrderKey(stats.blocks[side], stats.nonzeros[<<side, c>>][Natural[side][i]], side)])

(* The host reference: the stable sort of the natural order by key, and    *)
(* its Lehmer code.                                                        *)
OrderReference(stats, side, c) ==
  LET key    == OrderKeys(stats, side, c)
      n      == side * side
      rank(i) == Cardinality({j \in Positions(side) : key[j] * n + j < key[i] * n + i})
      at     == Tabulated([k \in Positions(side) |-> CHOOSE i \in Positions(side) : rank(i) = k])
  IN  [order  |-> Tabulated([k \in Positions(side) |-> Natural[side][at[k]]]),
       lehmer |-> Tabulated([k \in Positions(side) |->
                    at[k] - Cardinality({l \in 0 .. k - 1 : at[l] < at[k]})])]
=============================================================================
