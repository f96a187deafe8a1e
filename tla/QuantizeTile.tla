---------------------------- MODULE QuantizeTile ----------------------------
(***************************************************************************)
(* The quantizer (src/src/frontend_quantize.cu): a CUDA block per tile of  *)
(* color stages the tile in shared memory, quantizes luma, estimates the   *)
(* tile's correlation of chroma with it, quantizes the residual chroma,    *)
(* and counts the non-zero coefficients, for the entropy coder by block    *)
(* and for the coefficient orders by position, in the buffer that held the *)
(* coefficients.                                                           *)
(*                                                                         *)
(* A warp's work between two block barriers is a step; tiles and warps     *)
(* interleave. Floats are exact fractions, written as numerator and        *)
(* denominator; weights are small integers.                                *)
(***************************************************************************)
EXTENDS VarDctLayout

CONSTANTS
  TileSide,           (* blocks per side of a color tile                   *)
  BandRows,           (* tile rows whose positions one warp resolves       *)
  Warps,              (* QUANT_WARPS                                       *)
  HalvesPerVector,
  Weight(_, _, _),    (* dequantization weight of a side, channel, index   *)
  DcTerm(_, _, _, _, _),  (* LlfDcTerms of a corner and a covered block    *)
  DcInvQuant, DcDen,  (* the DC steps of a channel, as fractions           *)
  ColorFactor, MapMax,
  Int16Values,        (* the values of an int16_t                          *)
  Frames

TilePositions == TileSide * TileSide
TileSlots     == TilePositions * Slots
Threads       == TileSide * Slots
Lanes         == Threads \div Warps

OrderOffset(side, c) ==
  SumOver({s \in Sides : s < side}, LAMBDA s : 3 * s * s) + c * side * side
OrderEntries == SumOver(Sides, LAMBDA s : 3 * s * s)
SideIndex(side) == Cardinality({s \in Sides : s < side})
StatsWords == OrderEntries + Cardinality(Sides)

ASSUME QuantizeAssumption ==
  /\ TilePositions % Warps = 0 /\ Threads % Warps = 0 /\ TileSide % BandRows = 0
  /\ TileSide \div BandRows <= Warps
  /\ \A s \in Sides : BandRows % CoveredSide(s) = 0
  /\ 2 * StatsWords <= 3 * TileSlots
  /\ TileSide \in Nat \ {0} /\ BandRows \in Nat \ {0} /\ Warps \in Nat \ {0}
  /\ HalvesPerVector \in Nat \ {0} /\ Int16Values \in Nat \ {0}

(* What the choice of transforms leaves to the quantizer                   *)
(* (select_transforms): a frame's size in blocks, transforms, quantizer    *)
(* field and coefficients; each block is covered by one transform, which   *)
(* lies in the frame and is aligned to its size.                           *)
ASSUME FramesAssumption ==
  \A f \in Frames :
    LET blocks == 0 .. f.bw * f.bh - 1
    IN  /\ DOMAIN f = {"bw", "bh", "acs", "qf", "ac"}
        /\ f.bw \in Nat \ {0} /\ f.bh \in Nat \ {0}
        /\ f.acs \in [blocks -> Sides \cup {COVERED}]
        /\ f.ac \in [Channel -> [0 .. f.bw * f.bh * Slots - 1 -> Int]]
        /\ \A b \in blocks :
             /\ \E o \in FirstBlocks(f) : Covers(f, o, b)
             /\ \A o \in FirstBlocks(f), p \in FirstBlocks(f) :
                  Covers(f, o, b) /\ Covers(f, p, b) => o = p
        /\ \A o \in FirstBlocks(f) :
             LET m == CoveredSide(f.acs[o])
             IN  /\ (o % f.bw) % m = 0 /\ (o \div f.bw) % m = 0
                 /\ (o % f.bw) + m <= f.bw /\ (o \div f.bw) + m <= f.bh

UNSET == 1000   (* what shared memory holds before it is written *)

-----------------------------------------------------------------------------
(* Rounding, thresholds and the color model. *)

Magnitude(n) == IF n < 0 THEN -n ELSE n

(* lrintf(n / d), halves to even. *)
Nearest(n, d) ==
  LET q == n \div d
      r == 2 * (n % d)
  IN  IF r < d \/ (r = d /\ q % 2 = 0) THEN q ELSE q + 1

(* ac_deadzone_threshold, in units of 1 / 100000. *)
DeadzoneThreshold(side, c, raw) ==
  LET low  == raw \div side < side \div 2 /\ raw % side < side \div 2
      base == IF low THEN 58000 ELSE 62000
  IN  IF c = 1 THEN IF low THEN 56000 ELSE 62000
      ELSE IF Covered(side) < 4 THEN base
      ELSE LET lowered == base - 744 * Covered(side) IN IF lowered < 50000 THEN 50000 ELSE lowered

QuantizeDeadzone(n, d, threshold) ==
  IF 100000 * Magnitude(n) < threshold * d THEN 0 ELSE Nearest(n, d)

(* A quantized coefficient as an int16_t. *)
Narrowed(q) == ((q + Int16Values \div 2) % Int16Values) - Int16Values \div 2

(* cfl_maps_from_sums: a slope as a signed map value. *)
MapValue(s, syy) ==
  LET m == IF syy > 0 THEN Nearest(s * ColorFactor, syy) ELSE 0
  IN  IF m < -MapMax - 1 THEN -MapMax - 1 ELSE IF m > MapMax THEN MapMax ELSE m

(* cfl_ytox_ratio, cfl_ytob_ratio, over the color factor. *)
Ratio(c, m) == IF c = 2 THEN ColorFactor + m ELSE m

(* The coefficient of luma y quantized at strength qf, before it is         *)
(* narrowed, and what a decoder would make of it, times the strength.      *)
QuantizedLuma(y, qf, side, raw) ==
  QuantizeDeadzone(y * qf, Weight(side, 1, raw), DeadzoneThreshold(side, 1, raw))
Roundtrip(q, side, raw) == q * Weight(side, 1, raw)

(* X and B share the dead zone of X. *)
QuantizedChroma(c, v, roundtrip, map, qf, side, raw) ==
  Narrowed(QuantizeDeadzone(v * qf * ColorFactor - Ratio(c, map) * roundtrip,
                            Weight(side, c, raw) * ColorFactor, DeadzoneThreshold(side, 0, raw)))

(* The DC of a covered block from the values of its channels. *)
QuantizedDc(value) ==
  LET y == Nearest(value[1] * DcInvQuant[1], DcDen)
  IN  [c \in Channel |->
         CASE c = 0 -> Nearest(value[0] * DcInvQuant[0], DcDen)
           [] c = 1 -> y
           [] c = 2 -> Nearest((value[2] * DcInvQuant[1] - y * DcDen) * DcInvQuant[2], DcInvQuant[1] * DcDen)]

-----------------------------------------------------------------------------
(* The tiles of a frame, and the quantized frame as one thread would make  *)
(* it from the coefficients (what the tests of the kernel recompute).      *)

TilesX(f) == CeilDiv(f.bw, TileSide)
NumTiles(f) == TilesX(f) * CeilDiv(f.bh, TileSide)
TileBx(f, t) == (t % TilesX(f)) * TileSide
TileBy(f, t) == (t \div TilesX(f)) * TileSide
Cols(f, t) == Least(TileSide, f.bw - TileBx(f, t))
Rows(f, t) == Least(TileSide, f.bh - TileBy(f, t))
InFrame(f, t, p) == p % TileSide < Cols(f, t) /\ p \div TileSide < Rows(f, t)
BlockOf(f, t, p) == (TileBy(f, t) + p \div TileSide) * f.bw + TileBx(f, t) + (p % TileSide)

TileOf(f, block) == ((block \div f.bw) \div TileSide) * TilesX(f) + ((block % f.bw) \div TileSide)

(* Every coefficient past the corners, as owner and index. *)
AcOf(f, S) == UNION {{<<o, raw>> : raw \in {r \in Positions(f.acs[o]) : ~IsCorner(f.acs[o], r)}} : o \in S}

SerialMaps(f, t) ==
  LET ac == AcOf(f, {o \in FirstBlocks(f) : TileOf(f, o) = t})
      v(c, k) == Coefficient(f, c, k[1], k[2])
      sxy == SumOver(ac, LAMBDA k : v(0, k) * v(1, k))
      syy == SumOver(ac, LAMBDA k : v(1, k) * v(1, k))
      sby == SumOver(ac, LAMBDA k : (v(2, k) - v(1, k)) * v(1, k))
  IN  <<MapValue(sxy, syy), MapValue(sby, syy)>>

SerialAc(f, maps, c, block, slot) ==
  LET o    == Owner(f, block)
      side == f.acs[o]
      raw  == (((block \div f.bw) - (o \div f.bw)) * CoveredSide(side) + (block % f.bw) - (o % f.bw)) * Slots + slot
      y    == QuantizedLuma(Coefficient(f, 1, o, raw), f.qf[o], side, raw)
  IN  IF IsCorner(side, raw) THEN 0
      ELSE IF c = 1 THEN Narrowed(y)
      ELSE QuantizedChroma(c, Coefficient(f, c, o, raw), Roundtrip(y, side, raw),
                           maps[TileOf(f, block)][IF c = 0 THEN 1 ELSE 2], f.qf[o], side, raw)

SerialDc(f, block) ==
  LET o == Owner(f, block)
      m == CoveredSide(f.acs[o])
      x == (block % f.bw) - (o % f.bw)
      y == (block \div f.bw) - (o \div f.bw)
  IN  QuantizedDc([c \in Channel |->
        IF m = 1 THEN Coefficient(f, c, o, 0)
        ELSE SumOver((0 .. m - 1) \X (0 .. m - 1),
                     LAMBDA k : DcTerm(m, x, y, k[1], k[2]) * Coefficient(f, c, o, k[1] * f.acs[o] + k[2]))])

Serial(f) ==
  LET maps == Tabulated([t \in 0 .. NumTiles(f) - 1 |-> SerialMaps(f, t)])
  IN  [maps |-> maps,
       dc   |-> Tabulated([b \in 0 .. f.bw * f.bh - 1 |-> SerialDc(f, b)]),
       ac   |-> [c \in Channel |-> Tabulated([s \in 0 .. f.bw * f.bh * Slots - 1 |->
                   SerialAc(f, maps, c, s \div Slots, s % Slots)])]]

-----------------------------------------------------------------------------
VARIABLES
  frame,    (* coefficients, transform signals and quantizer field         *)
  region,   (* [tile][warp]: block barriers the warp has come to           *)
  tile,     (* [tile]: the block's shared memory                           *)
  regs,     (* [tile][warp]: what the warp's threads keep in registers     *)
  out       (* the planes and counts of the frame in global memory         *)

vars == <<frame, region, tile, regs, out>>

Tiles == DOMAIN region
Warp  == 0 .. Warps - 1

SharedMemory ==
  [coeffs |-> [c \in Channel |-> [at \in 0 .. TileSlots - 1 |-> UNSET]],
   pos    |-> [p \in 0 .. TilePositions - 1 |-> [owner |-> 0, side |-> 0, ordinal |-> 0, qf |-> 0, llf |-> {}]],
   nz     |-> [c \in Channel |-> [p \in 0 .. TilePositions - 1 |-> UNSET]],
   sums   |-> [w \in Warp |-> <<UNSET, UNSET, UNSET>>],
   maps   |-> <<UNSET, UNSET>>,
   stats  |-> [i \in 0 .. StatsWords - 1 |-> UNSET]]

Init ==
  /\ frame \in Frames
  /\ region = [t \in 0 .. NumTiles(frame) - 1 |-> [w \in Warp |-> 0]]
  /\ tile = [t \in 0 .. NumTiles(frame) - 1 |-> SharedMemory]
  /\ regs = [t \in 0 .. NumTiles(frame) - 1 |-> [w \in Warp |-> [roundtrip |-> <<>>, nonzero |-> {}]]]
  /\ out = [ac |-> [c \in Channel |-> [s \in 0 .. frame.bw * frame.bh * Slots - 1 |-> UNSET]],
            dc |-> [b \in 0 .. frame.bw * frame.bh - 1 |-> <<>>],
            maps |-> [t \in 0 .. NumTiles(frame) - 1 |-> <<UNSET, UNSET>>],
            nz_exact |-> [c \in Channel |-> [b \in 0 .. frame.bw * frame.bh - 1 |-> UNSET]],
            nz_grid  |-> [c \in Channel |-> [b \in 0 .. frame.bw * frame.bh - 1 |-> UNSET]],
            order_stats |-> [i \in 0 .. StatsWords - 1 |-> 0]]

(* Mutant: no barrier before the buffer of the coefficients is reused.     *)
PassesBarrier_NotReuse(t, w, r) == region[t][w] = r /\ \A v \in Warp : r = 4 \/ region[t][v] >= r

(* A warp goes on past the r-th barrier when every warp has come to it. *)
PassesBarrier(t, w, r) == region[t][w] = r /\ \A v \in Warp : region[t][v] >= r

ToNextBarrier(t, w) == region' = [region EXCEPT ![t][w] = @ + 1]

(* The positions a warp's threads resolve, and the positions whose slots   *)
(* they quantize.                                                          *)
Band(w) == {p \in 0 .. TilePositions - 1 : (p \div TileSide) \div BandRows = w}
Quantizes(t, w) == {p \in 0 .. TilePositions - 1 : p % Warps = w /\ InFrame(frame, t, p)}

(* A tile position, as its warp finds it by shuffles: the transform that   *)
(* owns it, by the signals at the aligned positions of the band.           *)
Position(f, t, p) ==
  LET lx == p % TileSide
      ly == p \div TileSide
      first == (ly \div BandRows) * BandRows * TileSide
      lane(m) == ((ly - (ly % m)) % BandRows) * TileSide + lx - (lx % m)
      acs(q)  == IF InFrame(f, t, q) THEN f.acs[BlockOf(f, t, q)] ELSE 0
      large   == {s \in Sides : CoveredSide(s) > 1 /\ acs(first + lane(CoveredSide(s))) = s}
      side    == IF large = {} THEN BlockDim ELSE CHOOSE s \in large : \A r \in large : r <= s
      owner   == first + lane(CoveredSide(side))
      ordinal == (ly - owner \div TileSide) * CoveredSide(side) + lx - (owner % TileSide)
  IN  [owner |-> owner, side |-> side, ordinal |-> ordinal,
       qf  |-> IF InFrame(f, t, owner) THEN f.qf[BlockOf(f, t, owner)] ELSE 0,
       llf |-> IF InFrame(f, t, p) THEN {s \in 0 .. Slots - 1 : IsCorner(side, ordinal * Slots + s)}
               ELSE 0 .. Slots - 1]

(* The warp of the thread that stages element `at` of channel c. *)
Stages(c, at) == (((c * TileSlots + at) \div HalvesPerVector) % Threads) \div Lanes

LoadTile(t, w) ==
  /\ PassesBarrier(t, w, 0)
  /\ tile' = [tile EXCEPT
       ![t].coeffs = [c \in Channel |-> Tabulated([at \in 0 .. TileSlots - 1 |->
          IF Stages(c, at) # w THEN tile[t].coeffs[c][at]
          ELSE IF InFrame(frame, t, at \div Slots)
          THEN frame.ac[c][BlockOf(frame, t, at \div Slots) * Slots + (at % Slots)] ELSE 0])],
       ![t].pos = Tabulated([p \in DOMAIN tile[t].pos |->
          IF p \in Band(w) THEN Position(frame, t, p) ELSE tile[t].pos[p]]),
       ![t].nz  = [c \in Channel |-> Tabulated([p \in DOMAIN tile[t].nz[c] |->
          IF p \in Band(w) THEN 0 ELSE tile[t].nz[c][p]])]]
  /\ ToNextBarrier(t, w)
  /\ UNCHANGED <<frame, regs, out>>

(* The sums of the color regression over the slots of a warp's threads. *)
WarpSums(t, w) ==
  LET mine == {k \in (0 .. TileSide - 1) \X (0 .. TileSide - 1) \X (0 .. Slots - 1) :
                 /\ (k[1] * Slots + k[3]) \div Lanes = w
                 /\ k[3] \notin tile[t].pos[k[1] * TileSide + k[2]].llf}
      v(c, k) == tile[t].coeffs[c][(k[1] * TileSide + k[2]) * Slots + k[3]]
  IN  <<SumOver(mine, LAMBDA k : v(0, k) * v(1, k)), SumOver(mine, LAMBDA k : v(1, k) * v(1, k)),
        SumOver(mine, LAMBDA k : (v(2, k) - v(1, k)) * v(1, k))>>

(* The DC of a position, from its transform's corner in the staged tile. *)
DcAt(t, p) ==
  LET at == tile[t].pos[p]
      m  == CoveredSide(at.side)
      lx == at.owner % TileSide
      ly == at.owner \div TileSide
      corner(c, k) == tile[t].coeffs[c][PlaneSlot(at.side, lx, ly, TileSide, k[1] * at.side + k[2])]
  IN  QuantizedDc([c \in Channel |->
        IF m = 1 THEN tile[t].coeffs[c][p * Slots]
        ELSE SumOver((0 .. m - 1) \X (0 .. m - 1),
               LAMBDA k : DcTerm(m, (p % TileSide) - lx, (p \div TileSide) - ly, k[1], k[2]) * corner(c, k))])

(* The slots of a warp's positions that are coded as AC. *)
AcSlots(t, w) == {k \in Quantizes(t, w) \X (0 .. Slots - 1) : k[2] \notin tile[t].pos[k[1]].llf}
RawAt(t, k) == tile[t].pos[k[1]].ordinal * Slots + k[2]

(* The planes with a warp's quantized slots; its corner slots hold 0. *)
WithPlane(plane, t, w, q) ==
  Tabulated([s \in DOMAIN plane |->
    LET p == CHOOSE x \in Quantizes(t, w) : BlockOf(frame, t, x) = s \div Slots
    IN  IF \E x \in Quantizes(t, w) : BlockOf(frame, t, x) = s \div Slots
        THEN IF <<p, s % Slots>> \in DOMAIN q THEN q[<<p, s % Slots>>] ELSE 0
        ELSE plane[s]])

NonzeroAt(q) == {k \in DOMAIN q : q[k] # 0}

Stored(q) == Tabulated([k \in DOMAIN q |-> Narrowed(q[k])])

(* Mutant: the non-zeros of a covered block are counted at the block.      *)
CountedAt_Block(t, p) == p

(* The tile position that counts the non-zeros of position p. *)
CountedAt(t, p) == tile[t].pos[p].owner

(* The counters of a channel after a warp's atomicAdds. *)
Counted(nz, t, nonzero) ==
  Tabulated([o \in DOMAIN nz |-> nz[o] + Cardinality({k \in nonzero : CountedAt(t, k[1]) = o})])

(* Luma is narrowed when it is stored and counted; what chroma is predicted *)
(* from, and the non-zeros the orders are counted by, are those of before. *)
QuantizeLuma(t, w) ==
  /\ PassesBarrier(t, w, 1)
  /\ \E q \in {Tabulated([k \in AcSlots(t, w) |->
                 QuantizedLuma(tile[t].coeffs[1][k[1] * Slots + k[2]], tile[t].pos[k[1]].qf,
                               tile[t].pos[k[1]].side, RawAt(t, k))])} :
       /\ tile' = [tile EXCEPT ![t].sums[w] = WarpSums(t, w),
                               ![t].nz[1] = Counted(tile[t].nz[1], t, NonzeroAt(Stored(q)))]
       /\ regs' = [regs EXCEPT ![t][w] =
            [roundtrip |-> Tabulated([k \in DOMAIN q |-> Roundtrip(q[k], tile[t].pos[k[1]].side, RawAt(t, k))]),
             nonzero |-> {<<1, k>> : k \in NonzeroAt(q)}]]
       /\ out' = [out EXCEPT
            !.ac[1] = WithPlane(out.ac[1], t, w, Stored(q)),
            !.dc = Tabulated([b \in DOMAIN out.dc |->
              IF \E p \in Band(w) : InFrame(frame, t, p) /\ BlockOf(frame, t, p) = b
              THEN DcAt(t, CHOOSE p \in Band(w) : InFrame(frame, t, p) /\ BlockOf(frame, t, p) = b)
              ELSE out.dc[b]])]
  /\ ToNextBarrier(t, w)
  /\ UNCHANGED frame

(* The first warp reduces the sums of the warps to the tile's maps. *)
MapColors(t, w) ==
  /\ PassesBarrier(t, w, 2)
  /\ LET total(i) == SumOver(Warp, LAMBDA v : tile[t].sums[v][i])
         maps == <<MapValue(total(1), total(2)), MapValue(total(3), total(2))>>
     IN  IF w = 0
         THEN tile' = [tile EXCEPT ![t].maps = maps] /\ out' = [out EXCEPT !.maps[t] = maps]
         ELSE UNCHANGED <<tile, out>>
  /\ ToNextBarrier(t, w)
  /\ UNCHANGED <<frame, regs>>

QuantizeChroma(t, w) ==
  /\ PassesBarrier(t, w, 3)
  /\ LET q(c) == Tabulated([k \in AcSlots(t, w) |->
                   QuantizedChroma(c, tile[t].coeffs[c][k[1] * Slots + k[2]], regs[t][w].roundtrip[k],
                                   tile[t].maps[IF c = 0 THEN 1 ELSE 2], tile[t].pos[k[1]].qf,
                                   tile[t].pos[k[1]].side, RawAt(t, k))])
     IN  \E x \in {q(0)}, b \in {q(2)} :
           /\ tile' = [tile EXCEPT ![t].nz[0] = Counted(tile[t].nz[0], t, NonzeroAt(x)),
                                   ![t].nz[2] = Counted(tile[t].nz[2], t, NonzeroAt(b))]
           /\ regs' = [regs EXCEPT ![t][w].nonzero =
                regs[t][w].nonzero \cup {<<0, k>> : k \in NonzeroAt(x)} \cup {<<2, k>> : k \in NonzeroAt(b)}]
           /\ out' = [out EXCEPT !.ac[0] = WithPlane(out.ac[0], t, w, x),
                                 !.ac[2] = WithPlane(out.ac[2], t, w, b)]
  /\ ToNextBarrier(t, w)
  /\ UNCHANGED frame

-----------------------------------------------------------------------------
(* The statistics reuse the buffer of the coefficients: a word of them is  *)
(* two coefficients.                                                       *)

ZeroesWord(w, i) == (i % Threads) \div Lanes = w

WithoutWords(coeffs, w) ==
  [c \in Channel |-> Tabulated([at \in 0 .. TileSlots - 1 |->
     LET i == (c * TileSlots + at) \div 2
     IN  IF i < StatsWords /\ ZeroesWord(w, i) THEN 0 ELSE coeffs[c][at]])]

FirstBlock(t, p) == InFrame(frame, t, p) /\ tile[t].pos[p].owner = p

(* The counts of a block, which its neighbours predict theirs from. *)
CountsOf(t, w, counts, value(_, _)) ==
  [c \in Channel |-> Tabulated([b \in DOMAIN counts[c] |->
     IF \E p \in Band(w) : InFrame(frame, t, p) /\ BlockOf(frame, t, p) = b
     THEN value(c, CHOOSE p \in Band(w) : InFrame(frame, t, p) /\ BlockOf(frame, t, p) = b)
     ELSE counts[c][b]])]

WriteCounts(t, w) ==
  /\ PassesBarrier(t, w, 4)
  /\ LET nz(c, p) == tile[t].nz[c][tile[t].pos[p].owner]
         exact(c, p) == IF FirstBlock(t, p) THEN nz(c, p) ELSE 0
         grid(c, p) == LET side == tile[t].pos[p].side
                       IN  (nz(c, p) + Covered(side) - 1) \div 2^Log2Covered(side)
     IN  out' = [out EXCEPT !.nz_exact = CountsOf(t, w, out.nz_exact, exact),
                            !.nz_grid = CountsOf(t, w, out.nz_grid, grid)]
  /\ tile' = [tile EXCEPT
       ![t].stats = Tabulated([i \in DOMAIN tile[t].stats |-> IF ZeroesWord(w, i) THEN 0 ELSE tile[t].stats[i]]),
       ![t].coeffs = WithoutWords(tile[t].coeffs, w)]
  /\ ToNextBarrier(t, w)
  /\ UNCHANGED <<frame, regs>>

(* The word that counts a non-zero coefficient. *)
StatsWord(t, c, k) == OrderOffset(tile[t].pos[k[1]].side, c) + RawAt(t, k)

CountOrders(t, w) ==
  /\ PassesBarrier(t, w, 5)
  /\ LET blocks(i) == {p \in Band(w) : FirstBlock(t, p) /\ OrderEntries + SideIndex(tile[t].pos[p].side) = i}
         hits(i)   == {n \in regs[t][w].nonzero : StatsWord(t, n[1], n[2]) = i}
     IN  tile' = [tile EXCEPT ![t].stats =
           Tabulated([i \in DOMAIN tile[t].stats |->
             tile[t].stats[i] + Cardinality(blocks(i)) + Cardinality(hits(i))])]
  /\ ToNextBarrier(t, w)
  /\ UNCHANGED <<frame, regs, out>>

FlushOrders(t, w) ==
  /\ PassesBarrier(t, w, 6)
  /\ out' = [out EXCEPT !.order_stats =
       Tabulated([i \in DOMAIN out.order_stats |->
         out.order_stats[i] + IF ZeroesWord(w, i) THEN tile[t].stats[i] ELSE 0])]
  /\ ToNextBarrier(t, w)
  /\ UNCHANGED <<frame, tile, regs>>

Done == \A t \in Tiles : \A w \in Warp : region[t][w] = 7
Terminated == Done /\ UNCHANGED vars

Next ==
  \/ \E t \in Tiles, w \in Warp :
       \/ LoadTile(t, w) \/ QuantizeLuma(t, w) \/ MapColors(t, w) \/ QuantizeChroma(t, w)
       \/ WriteCounts(t, w) \/ CountOrders(t, w) \/ FlushOrders(t, w)
  \/ Terminated

Spec == Init /\ [][Next]_vars

-----------------------------------------------------------------------------
(* However the warps and tiles interleave, the coefficients, the DC and    *)
(* the color maps are those of one thread that quantizes the frame: no     *)
(* warp uses a coefficient that the statistics overwrote, a map or an      *)
(* owner of which another warp has not written yet.                        *)
QuantizedSerially ==
  Done => \E s \in {Serial(frame)} : out.maps = s.maps /\ out.dc = s.dc /\ out.ac = s.ac

(* No luma coefficient of this place is narrowed to zero. *)
LumaKept(side, raw) ==
  \A o \in FirstBlocks(frame) : frame.acs[o] = side /\ ~IsCorner(side, raw) =>
    LET y == QuantizedLuma(Coefficient(frame, 1, o, raw), frame.qf[o], side, raw)
    IN  Narrowed(y) = 0 => y = 0

(* What the entropy coder takes on trust: the non-zeros of a transform are *)
(* counted at its first block and nowhere else, every block it covers      *)
(* holds its share of them for the prediction of its neighbours, and the   *)
(* statistics of the orders are those of the coefficients written. Of luma *)
(* the statistics see what it was before it was narrowed: theirs are the   *)
(* coefficients written where that makes no zero.                          *)
CountsMatchCoefficients ==
  Done => \E f \in {[frame EXCEPT !.ac = out.ac]} : \E expected \in {OrderStats(f)} :
    /\ \A b \in 0 .. f.bw * f.bh - 1 : \E o \in {Owner(f, b)} : \A c \in Channel :
         LET nz == Cardinality({r \in Positions(f.acs[o]) : Coefficient(f, c, o, r) # 0})
         IN  /\ out.nz_exact[c][b] = IF b = o THEN nz ELSE 0
             /\ out.nz_grid[c][b] = CeilDiv(nz, Covered(f.acs[o]))
    /\ \A side \in Sides :
         /\ out.order_stats[OrderEntries + SideIndex(side)] = expected.blocks[side]
         /\ \A c \in Channel, r \in Positions(side) : (c = 1 => LumaKept(side, r)) =>
              out.order_stats[OrderOffset(side, c) + r] = expected.nonzeros[<<side, c>>][r]
=============================================================================
