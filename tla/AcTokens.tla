------------------------------ MODULE AcTokens ------------------------------
(***************************************************************************)
(* The AC tokens of a frame as the device makes them                       *)
(* (src/src/entropy.cu): the coefficient orders, the histograms of the     *)
(* tokens' contexts and the sizes of the items (an item is a channel of a  *)
(* block), the layout of the groups' tokens, and the packing of the tokens *)
(* and their raw bits, a batch of groups at a time.                        *)
(*                                                                         *)
(* A warp tokenizes an item WarpSize coefficients at a time from ballots;  *)
(* the host reference (tools/bitstream/vardct_frame.cc) walks them one by  *)
(* one. The warps of a pack kernel are steps of their own, in any order.   *)
(***************************************************************************)
EXTENDS EntropyOps, VarDctLayout

CONSTANTS
  GroupBlocks,     (* AC_GROUP_BLOCKS                                      *)
  WarpSize,
  LayoutThreads,   (* AC_LAYOUT_THREADS                                    *)
  OrderSplits,     (* ORDER_SPLITS                                         *)
  WordBits,        (* 64                                                   *)
  BatchGroups,     (* groups of a pack batch                               *)
  RawWords,        (* words of the raw buffer                             *)
  ContextMap(_),   (* the clusters of the contexts                         *)
  Frames

ASSUME TokensAssumption ==
  /\ (GroupBlocks * GroupBlocks * 3) % WarpSize = 0
  /\ \A s \in Sides : (s * s) % OrderSplits = 0
  /\ BatchGroups \in Nat \ {0}
  /\ WarpSize \in Nat \ {0} /\ OrderSplits \in Nat \ {0}
  /\ \A f \in Frames : f.bw \in Nat /\ f.bh \in Nat

CHANNEL_ORDER == <<1, 0, 2>>
STALE == WordBits   (* marks a word not zeroed yet *)
GroupChunks == (GroupBlocks * GroupBlocks * 3) \div WarpSize

-----------------------------------------------------------------------------
(* The context model (ac_context.h). *)

NumBlockCtx == 15
NonZeroBuckets == 37
ZeroDensityCount == 458

(* AC_DEFAULT_CTX_MAP at the orders of the square transforms. *)
BlockContext(c, side) ==
  IF c = 1 THEN IF CoveredSide(side) = 1 THEN 0 ELSE 2
  ELSE IF CoveredSide(side) = 1 THEN 7 ELSE 9

NonzeroContext(predicted, block_ctx) ==
  LET nz == Least(predicted, 64)
  IN  (IF nz < 8 THEN nz ELSE 4 + nz \div 2) * NumBlockCtx + block_ctx

ZeroDensityOffset(block_ctx) == NumBlockCtx * NonZeroBuckets + ZeroDensityCount * block_ctx

BadContext == 2989

CoeffFreqContext(k) ==
  IF k = 0 THEN BadContext
  ELSE IF k < 16 THEN k - 1 ELSE IF k < 32 THEN 15 + (k - 16) \div 2 ELSE 23 + (k - 32) \div 4

CoeffNumNonzeroContext(n) ==
  IF n = 0 THEN BadContext
  ELSE LET bounds == <<1, 2, 4, 8, 12, 20, 32, 63>>
           values == <<0, 31, 62, 93, 123, 152, 180, 206>>
       IN  values[CHOOSE i \in 1 .. 8 : n <= bounds[i] /\ \A j \in 1 .. i - 1 : n > bounds[j]]

ZeroDensityContext(left, k, side, prev) ==
  LET groups == (left + Covered(side) - 1) \div Covered(side)
  IN  (CoeffNumNonzeroContext(groups) + CoeffFreqContext(k \div Covered(side))) * 2 + prev

PredictNonzeros(has_left, has_top, top, left) ==
  IF ~has_left THEN IF has_top THEN top ELSE 32
  ELSE IF ~has_top THEN left
  ELSE (top + left + 1) \div 2

TokenOf(value, context) == Hybrid(value) @@ [context |-> context]

(* The flag before the first coefficient. *)
FirstPrev(nzeros, side) == IF nzeros > (side * side) \div 16 THEN 0 ELSE 1

-----------------------------------------------------------------------------
(* The host reference: the tokens of a group, in decoder order.            *)

GroupExtent(f, g) ==
  LET xg  == CeilDiv(f.bw, GroupBlocks)
      bx0 == (g % xg) * GroupBlocks
      by0 == (g \div xg) * GroupBlocks
  IN  [bx0 |-> bx0, by0 |-> by0,
       gbw |-> Least(GroupBlocks, f.bw - bx0), gbh |-> Least(GroupBlocks, f.bh - by0)]

NumGroups(f) == CeilDiv(f.bw, GroupBlocks) * CeilDiv(f.bh, GroupBlocks)

(* The non-zero coefficients of a transform, by position in its order. *)
NonzerosOf(f, c, block) ==
  Cardinality({r \in Positions(f.acs[block]) :
                 ~IsCorner(f.acs[block], r) /\ Coefficient(f, c, block, r) # 0})

(* What a block contributes to the prediction of its neighbours. *)
Normalized(f, c, block) ==
  LET o == Owner(f, block)
  IN  (NonzerosOf(f, c, o) + Covered(f.acs[o]) - 1) \div 2^Log2Covered(f.acs[o])

SerialCoefficients(f, order, c, block) ==
  LET side == f.acs[block]
      step(s, k) ==
        IF s.remaining = 0 THEN s
        ELSE LET v    == Coefficient(f, c, block, order[k])
                 prev == IF v # 0 THEN 1 ELSE 0
                 ctx  == ZeroDensityOffset(BlockContext(c, side))
                           + ZeroDensityContext(s.remaining, k, side, s.prev)
             IN  [tokens |-> Append(s.tokens, TokenOf(PackSigned(v), ctx)),
                  remaining |-> s.remaining - prev, prev |-> prev]
      nzeros == NonzerosOf(f, c, block)
  IN  FoldLeft(step, [tokens |-> <<>>, remaining |-> nzeros, prev |-> FirstPrev(nzeros, side)],
               [i \in 1 .. side * side - Covered(side) |-> Covered(side) + i - 1]).tokens

SerialGroup(f, orders, g) ==
  LET e == GroupExtent(f, g)
      item(i) ==
        LET sbx   == ((i \div 3) % e.gbw)
            sby   == (i \div 3) \div e.gbw
            block == (e.by0 + sby) * f.bw + e.bx0 + sbx
            c     == CHANNEL_ORDER[(i % 3) + 1]
            side  == f.acs[block]
            predicted == PredictNonzeros(sbx > 0, sby > 0,
                           IF sby > 0 THEN Normalized(f, c, block - f.bw) ELSE 0,
                           IF sbx > 0 THEN Normalized(f, c, block - 1) ELSE 0)
        IN  IF side = COVERED THEN <<>>
            ELSE <<TokenOf(NonzerosOf(f, c, block), NonzeroContext(predicted, BlockContext(c, side)))>>
                   \o SerialCoefficients(f, orders[<<side, c>>].order, c, block)
  IN  FlattenSeq([i \in 1 .. e.gbw * e.gbh * 3 |-> item(i - 1)])

Orders(f) == Tabulated([t \in Sides \X Channel |-> OrderReference(OrderStats(f), t[1], t[2])])
Serial(f) == Tabulated([g \in 0 .. NumGroups(f) - 1 |-> SerialGroup(f, Orders(f), g)])
RawBits(tokens) == FoldLeft(LAMBDA n, t : n + t.nbits, 0, tokens)

-----------------------------------------------------------------------------
VARIABLES
  frame,                            (* the input *)
  nz_exact, nz_grid, order_stats,   (* from the quantizer, see QuantizeTile *)
  stage,                            (* the kernel that runs next *)
  orders,
  items,                            (* the tokens of each item *)
  histogram,                        (* tokens per context and symbol *)
  item_sizes,                       (* tokens and raw bits of each item *)
  chunk_base, layout,
  batch, todo,                      (* the batch, the chunks its warps still have to pack *)
  entries, raw                      (* the written tokens, the set bits of the raw words *)

quantized == <<frame, nz_exact, nz_grid, order_stats>>
counted   == <<items, histogram, item_sizes>>
placed    == <<chunk_base, layout>>
packed    == <<entries, raw>>
vars == <<quantized, stage, orders, counted, placed, batch, todo, packed>>

Blocks == 0 .. frame.bw * frame.bh - 1
Groups == 0 .. NumGroups(frame) - 1

Init ==
  /\ frame \in Frames
  /\ nz_exact = [c \in Channel |-> [b \in Blocks |->
       IF frame.acs[b] = COVERED THEN 0 ELSE NonzerosOf(frame, c, b)]]
  /\ nz_grid = [c \in Channel |-> [b \in Blocks |-> Normalized(frame, c, b)]]
  /\ order_stats = OrderStats(frame)
  /\ stage = "orders"
  /\ orders = <<>>
  /\ items = <<>> /\ histogram = <<>> /\ item_sizes = <<>>
  /\ chunk_base = <<>> /\ layout = <<>>
  /\ batch = 0 /\ todo = {}
  /\ entries = {}
  /\ raw = {<<w, STALE>> : w \in 0 .. RawWords - 1}

(* The keys of [lo, hi) that a thread compares a position's key with: those *)
(* before its warp's first index precede every position of the warp, those *)
(* past its last follow it.                                                *)
Split(size, i, split) ==
  LET first == i - (i % WarpSize)
      lo    == split * (size \div OrderSplits)
      hi    == lo + size \div OrderSplits
      clamp(x) == IF x < lo THEN lo ELSE Least(hi, x)
  IN  [lo |-> lo, begin |-> clamp(first), end |-> clamp(first + WarpSize), hi |-> hi]

(* Mutant: count_at_most and count_below swapped, equal keys change places. *)
Partial_Swapped(key, size, i, split) ==
  LET s == Split(size, i, split)
  IN  [before |-> {j \in s.lo .. s.begin - 1 : key[j] < key[i]}
                    \cup {j \in s.begin .. s.end - 1 : j < i /\ key[j] < key[i]},
       after  |-> {j \in s.begin .. s.end - 1 : j > i /\ key[j] <= key[i]}
                    \cup {j \in s.end .. s.hi - 1 : key[j] <= key[i]}]

(* coeff_orders_kernel: the keys of a split that a thread counts before    *)
(* its position, of lower and of higher indices.                           *)
Partial(key, size, i, split) ==
  LET s == Split(size, i, split)
  IN  [before |-> {j \in s.lo .. s.begin - 1 : key[j] <= key[i]}
                    \cup {j \in s.begin .. s.end - 1 : j < i /\ key[j] <= key[i]},
       after  |-> {j \in s.begin .. s.end - 1 : j > i /\ key[j] < key[i]}
                    \cup {j \in s.end .. s.hi - 1 : key[j] < key[i]}]

(* The sum of the partial counts: a key counts once for each thread that   *)
(* counts it.                                                              *)
CountedFor(key, size, i, what) ==
  Cardinality(UNION {{split} \X Partial(key, size, i, split)[what] : split \in 0 .. OrderSplits - 1})

CoeffOrder(side, c) ==
  LET key       == OrderKeys(order_stats, side, c)
      before(i) == CountedFor(key, side * side, i, "before")
      after(i)  == CountedFor(key, side * side, i, "after")
      at        == Tabulated([k \in Positions(side) |->
                     CHOOSE i \in Positions(side) : before(i) + after(i) = k])
  IN  [order  |-> Tabulated([k \in Positions(side) |-> Natural[side][at[k]]]),
       lehmer |-> Tabulated([k \in Positions(side) |-> at[k] - before(at[k])])]

CoeffOrders ==
  /\ stage = "orders"
  /\ orders' = [t \in Sides \X Channel |-> CoeffOrder(t[1], t[2])]
  /\ stage' = "histogram"
  /\ UNCHANGED <<quantized, counted, placed, batch, todo, packed>>

-----------------------------------------------------------------------------
(* Mutant: the neighbours are those of the frame, not of the group.        *)
PredictedNonzeros_Frame(c, bx, by) ==
  PredictNonzeros(bx > 0, by > 0,
                  IF by > 0 THEN nz_grid[c][(by - 1) * frame.bw + bx] ELSE 0,
                  IF bx > 0 THEN nz_grid[c][by * frame.bw + bx - 1] ELSE 0)

PredictedNonzeros(c, bx, by) ==
  LET has_left == bx % GroupBlocks > 0
      has_top  == by % GroupBlocks > 0
  IN  PredictNonzeros(has_left, has_top,
                      IF has_top THEN nz_grid[c][(by - 1) * frame.bw + bx] ELSE 0,
                      IF has_left THEN nz_grid[c][by * frame.bw + bx - 1] ELSE 0)

CountToken(c, block) ==
  TokenOf(nz_exact[c][block],
          NonzeroContext(PredictedNonzeros(c, block % frame.bw, block \div frame.bw),
                         BlockContext(c, frame.acs[block])))

(* Mutant: a lane takes the flag of its own coefficient.                   *)
PrevFlag_Own(mask, lane, before) == IF lane = 0 THEN before ELSE IF lane \in mask THEN 1 ELSE 0

(* Whether the coefficient before a lane's is non-zero: that of the lane   *)
(* below, and for lane 0 the last of the chunk before.                     *)
PrevFlag(mask, lane, before) == IF lane = 0 THEN before ELSE IF lane - 1 \in mask THEN 1 ELSE 0

(* The coefficient tokens of an item: of each chunk, those of the lanes    *)
(* that have one, in the order of the lanes.                               *)
CoeffTokens(c, block) ==
  LET side  == frame.acs[block]
      order == orders[<<side, c>>].order
      chunkTokens(s, chunk) ==
        LET k(lane) == Covered(side) + chunk * WarpSize + lane
            lanes   == {lane \in 0 .. WarpSize - 1 : k(lane) < side * side}
            v       == Tabulated([lane \in lanes |-> Coefficient(frame, c, block, order[k(lane)])])
            mask    == {lane \in lanes : v[lane] # 0}
            left(lane) == s.remaining - Cardinality({l \in mask : l < lane})
            token(lane) ==
              TokenOf(PackSigned(v[lane]),
                      ZeroDensityOffset(BlockContext(c, side))
                        + ZeroDensityContext(left(lane), k(lane), side, PrevFlag(mask, lane, s.prev)))
            active  == SelectSeq([l \in 1 .. WarpSize |-> l - 1], LAMBDA l : l \in lanes /\ left(l) > 0)
        IN  IF s.remaining = 0 THEN s
            ELSE [tokens    |-> s.tokens \o [i \in DOMAIN active |-> token(active[i])],
                  remaining |-> s.remaining - Cardinality(mask),
                  prev      |-> PrevFlag(mask, WarpSize, s.prev)]
      nzeros == nz_exact[c][block]
  IN  FoldLeft(chunkTokens, [tokens |-> <<>>, remaining |-> nzeros, prev |-> FirstPrev(nzeros, side)],
               [i \in 1 .. CeilDiv(side * side - Covered(side), WarpSize) |-> i - 1]).tokens

(* The tokens of item idx of the frame, block * 3 + physical channel. *)
ItemTokens(idx) ==
  LET block == idx \div 3
      c     == CHANNEL_ORDER[(idx % 3) + 1]
  IN  IF frame.acs[block] = COVERED THEN <<>>
      ELSE <<CountToken(c, block)>> \o (IF nz_exact[c][block] = 0 THEN <<>> ELSE CoeffTokens(c, block))

(* How many of the tokens of these sequences have each context and symbol. *)
Counts(seqs) ==
  LET tokens == UNION {{<<x, i>> : i \in DOMAIN seqs[x]} : x \in DOMAIN seqs}
      bin(t) == [context |-> seqs[t[1]][t[2]].context, symbol |-> seqs[t[1]][t[2]].symbol]
  IN  [b \in {bin(t) : t \in tokens} |-> Cardinality({t \in tokens : bin(t) = b})]

(* The histogram and the pack kernels each make the tokens of an item from *)
(* the same inputs: items keeps them.                                      *)
Histogram ==
  /\ stage = "histogram"
  /\ items' = Tabulated([idx \in 0 .. 3 * frame.bw * frame.bh - 1 |-> ItemTokens(idx)])
  /\ histogram' = Counts(items')
  /\ item_sizes' = [idx \in DOMAIN items' |->
                      [tokens |-> Len(items'[idx]), raw |-> RawBits(items'[idx])]]
  /\ stage' = "layout"
  /\ UNCHANGED <<quantized, orders, placed, batch, todo, packed>>

-----------------------------------------------------------------------------
(* The index in the frame of item i of a group. *)
FrameItem(g, i) ==
  LET e == GroupExtent(frame, g)
  IN  ((e.by0 + (i \div 3) \div e.gbw) * frame.bw + e.bx0 + ((i \div 3) % e.gbw)) * 3 + (i % 3)

(* The items of a chunk, by lane: slots past the group's items are empty.  *)
ChunkItem(q, lane) ==
  LET g == q \div GroupChunks
      i == (q % GroupChunks) * WarpSize + lane
      e == GroupExtent(frame, g)
  IN  IF i < e.gbw * e.gbh * 3 THEN {FrameItem(g, i)} ELSE {}

ItemSize(q, lane, what) == SumOver(ChunkItem(q, lane), LAMBDA idx : item_sizes[idx][what])

(* The sizes of a chunk, a group or a frame are of tokens and raw bits at  *)
(* once; the groups are scanned in tiles of LayoutThreads, each from the   *)
(* sum of the tiles before.                                                *)
Layout ==
  /\ stage = "layout"
  /\ LET chunks(what) ==
           Tabulated([q \in 0 .. NumGroups(frame) * GroupChunks - 1 |->
             SumOver(0 .. WarpSize - 1, LAMBDA l : ItemSize(q, l, what))])
         sums(chunk) ==
           Tabulated([g \in Groups |->
             InclusiveSums([k \in 0 .. GroupChunks - 1 |-> chunk[g * GroupChunks + k]], GroupChunks)])
         base(sum, chunk) ==
           Tabulated([q \in DOMAIN chunk |-> sum[q \div GroupChunks][q % GroupChunks] - chunk[q]])
         offset(size, g) ==
           LET tile == g - (g % LayoutThreads)
               in   == [t \in 0 .. LayoutThreads - 1 |-> IF tile + t \in Groups THEN size[tile + t] ELSE 0]
           IN  IF g \notin Groups THEN SumOver(Groups, LAMBDA h : size[h])
               ELSE SumOver(0 .. tile - 1, LAMBDA h : size[h])
                      + InclusiveSums(in, LayoutThreads)[g % LayoutThreads] - size[g]
         tokens == chunks("tokens")
         raws   == chunks("raw")
         size(sum)  == Tabulated([g \in Groups |-> sum[g][GroupChunks - 1]])
         words(sum) == Tabulated([g \in Groups |-> CeilDiv(sum[g][GroupChunks - 1], WordBits)])
     IN  /\ chunk_base' = [tokens |-> base(sums(tokens), tokens), raw |-> base(sums(raws), raws)]
         /\ layout' = [tokens   |-> [g \in 0 .. NumGroups(frame) |-> offset(size(sums(tokens)), g)],
                       raw      |-> [g \in 0 .. NumGroups(frame) |-> offset(words(sums(raws)), g)],
                       raw_bits |-> size(sums(raws))]
  /\ stage' = "zero"
  /\ UNCHANGED <<quantized, orders, counted, batch, todo, packed>>

(* A batch's raw words start zeroed. *)
BatchEnd == Least(batch + BatchGroups, NumGroups(frame))

ZeroRawWords ==
  /\ stage = "zero"
  /\ raw' = {r \in raw : r[1] \notin layout.raw[batch] .. layout.raw[BatchEnd] - 1}
  /\ todo' = batch * GroupChunks .. BatchEnd * GroupChunks - 1
  /\ stage' = "pack"
  /\ UNCHANGED <<quantized, orders, counted, placed, batch, entries>>

-----------------------------------------------------------------------------
(* The bits of a token that are set, at their words: a token's may go over *)
(* into the next word.                                                     *)
PutRawBits(pos, token) ==
  {<<(pos + i) \div WordBits, (pos + i) % WordBits>> :
     i \in {i \in 0 .. token.nbits - 1 : (token.bits \div 2^i) % 2 = 1}}

(* Tokens in a row: the entry of each, and the bits from raw_pos on.       *)
Packed(tokens, pos, raw_pos) ==
  FoldLeft(LAMBDA s, t :
             [entries |-> Append(s.entries, <<pos + Len(s.entries), ContextMap(t.context), t.symbol>>),
              bits    |-> s.bits \cup PutRawBits(s.end, t),
              end     |-> s.end + t.nbits],
           [entries |-> <<>>, bits |-> {}, end |-> raw_pos], tokens)

(* A warp packs the items of its chunk, each at the sum of those of the    *)
(* lanes below.                                                            *)
Pack(q) ==
  /\ stage = "pack" /\ q \in todo
  /\ LET g == q \div GroupChunks
         below(what) ==
           LET in == Tabulated([l \in 0 .. WarpSize - 1 |-> ItemSize(q, l, what)])
           IN  [l \in 0 .. WarpSize - 1 |-> InclusiveSums(in, WarpSize)[l] - in[l]]
         tokens_below == Tabulated(below("tokens"))
         raw_below    == Tabulated(below("raw"))
         out == UNION {{Packed(items[idx], layout.tokens[g] + chunk_base.tokens[q] + tokens_below[l],
                               layout.raw[g] * WordBits + chunk_base.raw[q] + raw_below[l]) :
                          idx \in ChunkItem(q, l)} : l \in 0 .. WarpSize - 1}
     IN  /\ entries' = entries \cup UNION {Range(o.entries) : o \in out}
         /\ raw' = raw \cup UNION {o.bits : o \in out}
  /\ todo' = todo \ {q}
  /\ UNCHANGED <<quantized, stage, orders, counted, placed, batch>>

NextBatch ==
  /\ stage = "pack" /\ todo = {}
  /\ batch' = BatchEnd
  /\ stage' = IF BatchEnd = NumGroups(frame) THEN "done" ELSE "zero"
  /\ UNCHANGED <<quantized, orders, counted, placed, todo, packed>>

Terminated == stage = "done" /\ UNCHANGED vars

Next ==
  \/ CoeffOrders \/ Histogram \/ Layout \/ ZeroRawWords
  \/ (\E q \in todo : Pack(q)) \/ NextBatch \/ Terminated

Spec == Init /\ [][Next]_vars

-----------------------------------------------------------------------------
(* The reference packs a group's tokens and raw bits in the order it walks *)
(* the coefficients (build_ac_reference); the device packs the same        *)
(* entries, the raw bits of each group from a word of its own on, zero     *)
(* padded, and leaves what no token takes alone.                           *)
PackedIsSerial ==
  stage = "done" =>
    \E serial \in {Serial(frame)} :
      LET tokens(g) == SumOver(0 .. g - 1, LAMBDA h : Len(serial[h]))
          words(g)  == SumOver(0 .. g - 1, LAMBDA h : CeilDiv(RawBits(serial[h]), WordBits))
          out == {Packed(serial[g], tokens(g), words(g) * WordBits) : g \in Groups}
          written == words(NumGroups(frame))
      IN  /\ \A g \in 0 .. NumGroups(frame) : layout.tokens[g] = tokens(g) /\ layout.raw[g] = words(g)
          /\ \A g \in Groups : layout.raw_bits[g] = RawBits(serial[g])
          /\ entries = UNION {Range(o.entries) : o \in out}
          /\ raw = UNION {o.bits : o \in out} \cup {<<w, STALE>> : w \in written .. RawWords - 1}

(* The clusters' codes are built from the histograms before a token is     *)
(* packed: they count exactly the tokens of all groups, each at a context  *)
(* the decoder has for its block's channel and transform.                  *)
ContextsCounted ==
  stage = "layout" =>
    /\ histogram = Counts(Serial(frame))
    /\ \A b \in DOMAIN histogram :
         \/ b.context < NumBlockCtx * NonZeroBuckets
         \/ \E c \in Channel, s \in Sides :
              b.context - ZeroDensityOffset(BlockContext(c, s)) \in 0 .. ZeroDensityCount - 1

(* A decoder takes the natural index that has so many unused ones below    *)
(* it; Unused is what is left to it before each element of a Lehmer code.  *)
Taken(unused, code) == CHOOSE i \in unused : Cardinality({j \in unused : j < i}) = code

Unused(side, lehmer) ==
  LET unused[k \in 0 .. side * side] ==
        IF k = 0 THEN Positions(side)
        ELSE LET before == unused[k - 1] IN before \ {Taken(before, lehmer[k - 1])}
  IN  unused

(* A decoder reads the Lehmer code of an order and takes the natural       *)
(* indices one by one: it finds the order the tokens were made in, whose   *)
(* corner stayed in front, and which is the host reference's.              *)
OrdersDecoded ==
  stage = "histogram" =>
    \A t \in Sides \X Channel :
      LET lehmer == orders[t].lehmer
          unused == Unused(t[1], lehmer)
      IN  /\ \A k \in Positions(t[1]) :
               orders[t].order[k] = Natural[t[1]][Taken(unused[k], lehmer[k])]
          /\ \A k \in 0 .. Covered(t[1]) - 1 : lehmer[k] = 0
          /\ orders[t] = OrderReference(OrderStats(frame), t[1], t[2])
=============================================================================
