----------------------------- MODULE DcSections -----------------------------
(***************************************************************************)
(* The DcGroup sections of a frame as the device writes them               *)
(* (src/src/entropy.cu): the lists of first blocks, the histograms the     *)
(* prefix codes are built from, the sizes and offsets of the groups' runs  *)
(* of items, and the emission of the items, in which each thread writes    *)
(* the bits of a run of its own into words it may share with the threads   *)
(* before and after it.                                                    *)
(*                                                                         *)
(* The kernels of a stream follow each other, so a kernel whose threads    *)
(* only write places of their own is one step; in the emission every word  *)
(* a thread writes is a step. A bit of the output is the item's bit it     *)
(* stands for, so that a bit out of place is not mistaken for another.     *)
(***************************************************************************)
EXTENDS EntropyOps

CONSTANTS
  DcGroupBlocks,   (* DC_GROUP_BLOCKS, threads of a first-block kernel     *)
  TileBlocks,      (* blocks per side of a color tile, ACMETA_HIST_ROWS    *)
  HistRows,        (* DC_HIST_ROWS                                         *)
  WarpSize,
  Chunks,          (* DC_CHUNKS                                            *)
  Threads,         (* DC_EMIT_THREADS                                      *)
  WordBits, ByteBits,
  Words,           (* words of the output buffer                           *)
  Frames           (* the frames to encode                                 *)

ASSUME DcAssumption ==
  /\ DcGroupBlocks % TileBlocks = 0 /\ DcGroupBlocks % HistRows = 0
  /\ DcGroupBlocks % WarpSize = 0
  /\ Chunks \in Nat \ {0} /\ Threads \in Nat \ {0}
  /\ WordBits % ByteBits = 0

COVERED == 0
CHANNEL_ORDER == <<1, 0, 2>>   (* physical channels Y, X, B of planes X, Y, B *)

-----------------------------------------------------------------------------
Token(v) == Hybrid(PackSigned(v))

ClampedGradient(n, w, l) ==
  LET lo == Least(n, w)
      hi == n + w - lo
  IN  IF l < lo THEN hi ELSE IF l > hi THEN lo ELSE n + w - l

(* The prediction of a sample; at(dx, dy) is its neighbour that far back.  *)
GradientPredict(has_left, has_top, at(_, _)) ==
  LET left    == IF has_left THEN at(1, 0) ELSE IF has_top THEN at(0, 1) ELSE 0
      top     == IF has_top THEN at(0, 1) ELSE left
      topleft == IF has_left /\ has_top THEN at(1, 1) ELSE left
  IN  ClampedGradient(left, top, topleft)

(* AcStrategyType of a block side. *)
RawStrategy(side) == CASE side = 16 -> 4 [] side = 32 -> 5 [] OTHER -> 0

(* The bits of a value coded with a prefix code of these depths. *)
Coded(table, depth, v) ==
  [i \in 1 .. depth[Token(v).symbol] |-> <<table, Token(v).symbol, i>>]
    \o [i \in 1 .. Token(v).nbits |-> <<"raw", Token(v).bits, i>>]
Blob(name, g, n) == [i \in 1 .. n |-> <<name, g, i>>]

-----------------------------------------------------------------------------
(* The host reference: the section of a group from its own channels. (The  *)
(* host writer knows one quant for the frame, raw_quant_field; here it     *)
(* takes each first block's from the plane the device has.)                *)

Extent(f, g) ==
  LET xdg == CeilDiv(f.bw, DcGroupBlocks)
      bx0 == (g % xdg) * DcGroupBlocks
      by0 == (g \div xdg) * DcGroupBlocks
  IN  [bx0 |-> bx0, by0 |-> by0,
       gbw |-> Least(DcGroupBlocks, f.bw - bx0), gbh |-> Least(DcGroupBlocks, f.bh - by0)]

NumGroups(f) == CeilDiv(f.bw, DcGroupBlocks) * CeilDiv(f.bh, DcGroupBlocks)

Channel(w, h, pixel(_, _)) == [w |-> w, pixels |-> [i \in 1 .. w * h |-> pixel((i - 1) % w, (i - 1) \div w)]]

DcChannels(f, g) ==
  LET e == Extent(f, g)
  IN  [p \in 1 .. 3 |-> Channel(e.gbw, e.gbh,
         LAMBDA x, y : f.dc[CHANNEL_ORDER[p]][(e.by0 + y) * f.bw + e.bx0 + x])]

MetadataChannels(f, g) ==
  LET e     == Extent(f, g)
      tile(map) == Channel(CeilDiv(e.gbw, TileBlocks), CeilDiv(e.gbh, TileBlocks),
                     LAMBDA x, y : map[(e.by0 \div TileBlocks + y) * CeilDiv(f.bw, TileBlocks)
                                         + e.bx0 \div TileBlocks + x])
      block(i) == (e.by0 + i \div e.gbw) * f.bw + e.bx0 + (i % e.gbw)
      first == SelectSeq([i \in 1 .. e.gbw * e.gbh |-> block(i - 1)], LAMBDA b : f.acs[b] # COVERED)
      count == Len(first)
  IN  <<tile(f.ytox), tile(f.ytob),
        Channel(count, 2, LAMBDA x, y : IF y = 0 THEN RawStrategy(f.acs[first[x + 1]])
                                      ELSE f.qf[first[x + 1]] - 1)>>

(* The residuals of a channel; AcMetadata uses the predictor Zero. *)
Residuals(ch, gradient) ==
  [i \in 1 .. Len(ch.pixels) |->
     ch.pixels[i] - IF gradient
                    THEN GradientPredict((i - 1) % ch.w > 0, i > ch.w,
                           LAMBDA dx, dy : ch.pixels[i - dx - dy * ch.w])
                    ELSE 0]

Written(table, depth, channels, gradient) ==
  FlattenSeq([c \in DOMAIN channels |->
    FlattenSeq([i \in DOMAIN channels[c].pixels |-> Coded(table, depth, Residuals(channels[c], gradient)[i])])])

Section(f, g) ==
  Blob("pre", g, f.pre) \o Written("dc", f.depth.dc, DcChannels(f, g), TRUE)
    \o Blob("mid", g, f.mid) \o Written("meta", f.depth.meta, MetadataChannels(f, g), FALSE)

Bytes(bits) == CeilDiv(Len(bits), ByteBits)

-----------------------------------------------------------------------------
VARIABLES
  frame,                              (* the input *)
  stage,                              (* the kernel that runs next *)
  row_counts, positions, counts,      (* the first blocks of each group *)
  dc_hist, meta_hist,                 (* the groups' histograms *)
  run_offsets, chunk_bits, chunk_base,
  group_sizes, group_offsets,
  out,                                (* the words of the output *)
  pos, acc                            (* each emitting thread: the bit it writes next, and *)
                                      (* the bits of its run from there on *)

first_blocks == <<row_counts, positions, counts>>
hists == <<dc_hist, meta_hist>>
sizes == <<run_offsets, chunk_bits>>
scan  == <<chunk_base, group_sizes, group_offsets>>
writers == <<pos, acc>>
vars  == <<frame, stage, first_blocks, hists, sizes, scan, out, writers>>

Group  == 0 .. NumGroups(frame) - 1
Xdg    == CeilDiv(frame.bw, DcGroupBlocks)
Runs   == Group \X (0 .. Chunks - 1) \X (0 .. Threads - 1)

Init ==
  /\ frame \in Frames
  /\ stage = "rows"
  /\ row_counts = <<>> /\ positions = <<>> /\ counts = <<>>
  /\ dc_hist = <<>> /\ meta_hist = <<>>
  /\ run_offsets = <<>> /\ chunk_bits = <<>>
  /\ chunk_base = <<>> /\ group_sizes = <<>> /\ group_offsets = <<>>
  /\ out = [w \in 0 .. Words - 1 |-> {<<0, "stale", 0, 0>>}]
  /\ pos = <<>> /\ acc = <<>>

-----------------------------------------------------------------------------
(* The lists of first blocks: a thread block per block row and column of   *)
(* groups, a thread per position of the row.                               *)

IsFirst(by, gx, t) ==
  LET bx == gx * DcGroupBlocks + t IN bx < frame.bw /\ frame.acs[by * frame.bw + bx] # COVERED

RowCounts ==
  /\ stage = "rows"
  /\ row_counts' = [g \in Group |-> [r \in 0 .. DcGroupBlocks - 1 |->
       Cardinality({t \in 0 .. DcGroupBlocks - 1 :
         LET by == (g \div Xdg) * DcGroupBlocks + r IN by < frame.bh /\ IsFirst(by, g % Xdg, t)})]]
  /\ stage' = "scatter"
  /\ UNCHANGED <<frame, positions, counts, hists, sizes, scan, out, writers>>

(* A thread's place: the counts of the group's earlier rows, which the     *)
(* warps sum up, those of the earlier warps of its row, and its rank in    *)
(* its warp.                                                               *)
Place(g, r, t) ==
  LET by    == (g \div Xdg) * DcGroupBlocks + r
      warps == DcGroupBlocks \div WarpSize
      earlier(w) == InclusiveSums([l \in 0 .. WarpSize - 1 |->
                      IF w * WarpSize + l < r THEN row_counts[g][w * WarpSize + l] ELSE 0],
                      WarpSize)[WarpSize - 1]
      flags(w) == {l \in 0 .. WarpSize - 1 : IsFirst(by, g % Xdg, w * WarpSize + l)}
      warp  == t \div WarpSize
  IN  SumOver(0 .. warps - 1, LAMBDA w : earlier(w))
        + SumOver(0 .. warp - 1, LAMBDA w : Cardinality(flags(w)))
        + Cardinality({l \in flags(warp) : l < t % WarpSize})

Scatter ==
  /\ stage = "scatter"
  /\ LET rows(g)  == {r \in 0 .. DcGroupBlocks - 1 : (g \div Xdg) * DcGroupBlocks + r < frame.bh}
         first(g) == {p \in rows(g) \X (0 .. DcGroupBlocks - 1) :
                        IsFirst((g \div Xdg) * DcGroupBlocks + p[1], g % Xdg, p[2])}
         count(g) == SumOver(rows(g), LAMBDA r : row_counts[g][r])
     IN  /\ positions' = [g \in Group |-> [i \in 0 .. count(g) - 1 |->
              LET p == CHOOSE p \in first(g) : Place(g, p[1], p[2]) = i
              IN  ((g \div Xdg) * DcGroupBlocks + p[1]) * frame.bw
                    + (g % Xdg) * DcGroupBlocks + p[2]]]
         /\ counts' = [g \in Group |-> count(g)]
  /\ stage' = "histograms"
  /\ UNCHANGED <<frame, row_counts, hists, sizes, scan, out, writers>>

-----------------------------------------------------------------------------
(* The prediction of plane ch at block (bx, by), within the group whose    *)
(* first block is (bx0, by0).                                              *)
GroupGradient(ch, bx, by, bx0, by0) ==
  GradientPredict(bx > bx0, by > by0,
                  LAMBDA dx, dy : frame.dc[ch][(by - dy) * frame.bw + bx - dx])

DcResidual(ch, bx, by, bx0, by0) ==
  frame.dc[ch][by * frame.bw + bx] - GroupGradient(ch, bx, by, bx0, by0)

(* The group of a strip of rows from row_lo, in a column of groups. *)
StripGroup(row_lo, gx) == (row_lo \div DcGroupBlocks) * Xdg + gx

DcCounts(g, symbol) ==
  Cardinality({s \in (0 .. 2) \X (0 .. frame.bw - 1) \X (0 .. frame.bh - 1) :
    LET row_lo == s[3] - (s[3] % HistRows)
        gx     == s[2] \div DcGroupBlocks
    IN  /\ StripGroup(row_lo, gx) = g
        /\ Token(DcResidual(s[1], s[2], s[3], gx * DcGroupBlocks,
                            row_lo - (row_lo % DcGroupBlocks))).symbol = symbol})

(* Mutant: a covered block is counted like a first block.                  *)
HasMetadata_All(block) == TRUE

HasMetadata(block) == frame.acs[block] # COVERED

(* The strips of the AcMetadata are rows of color tiles; a thread block    *)
(* has the tiles of its row in its column of groups.                       *)
MetaCounts(g, symbol) ==
  LET coded(v) == Token(v).symbol = symbol
      cmw    == CeilDiv(frame.bw, TileBlocks)
      cmh    == CeilDiv(frame.bh, TileBlocks)
      blocks == {b \in 0 .. frame.bw * frame.bh - 1 :
                   /\ HasMetadata(b)
                   /\ StripGroup((b \div frame.bw) - ((b \div frame.bw) % TileBlocks),
                                 (b % frame.bw) \div DcGroupBlocks) = g}
      tiles  == {t \in 0 .. cmw * cmh - 1 :
                   StripGroup((t \div cmw) * TileBlocks,
                              (t % cmw) \div (DcGroupBlocks \div TileBlocks)) = g}
  IN  Cardinality({b \in blocks : coded(RawStrategy(frame.acs[b]))})
        + Cardinality({b \in blocks : coded(frame.qf[b] - 1)})
        + Cardinality({t \in tiles : coded(frame.ytox[t])})
        + Cardinality({t \in tiles : coded(frame.ytob[t])})

Histograms ==
  /\ stage = "histograms"
  /\ dc_hist' = [g \in Group |-> [s \in DOMAIN frame.depth.dc |-> DcCounts(g, s)]]
  /\ meta_hist' = [g \in Group |-> [s \in DOMAIN frame.depth.meta |-> MetaCounts(g, s)]]
  /\ stage' = "size"
  /\ UNCHANGED <<frame, first_blocks, sizes, scan, out, writers>>

-----------------------------------------------------------------------------
(* The items of a group (DcCtx). *)

Ctx(g) ==
  LET e == Extent(frame, g)
      cw == CeilDiv(e.gbw, TileBlocks)
      ch == CeilDiv(e.gbh, TileBlocks)
      n == e.gbw * e.gbh
  IN  [e |-> e, n |-> n, cw |-> cw, ch |-> ch, count |-> counts[g],
       m |-> 3 * n + 2 + 2 * cw * ch + 2 * counts[g]]

(* The value of the DC sample i of a group, in the order Y, X, B. *)
DcSample(g, i) ==
  LET c  == Ctx(g)
      bp == i % c.n
  IN  DcResidual(CHANNEL_ORDER[i \div c.n + 1], c.e.bx0 + (bp % c.e.gbw), c.e.by0 + bp \div c.e.gbw,
                 c.e.bx0, c.e.by0)

(* The value of its AcMetadata sample j: YtoX, YtoB, strategies, quant     *)
(* field.                                                                  *)
MetaSample(g, j) ==
  LET c    == Ctx(g)
      cwch == c.cw * c.ch
      tile(t) == (c.e.by0 \div TileBlocks + t \div c.cw) * CeilDiv(frame.bw, TileBlocks)
                   + c.e.bx0 \div TileBlocks + (t % c.cw)
  IN  IF j < cwch THEN frame.ytox[tile(j)]
      ELSE IF j < 2 * cwch THEN frame.ytob[tile(j - cwch)]
      ELSE IF j < 2 * cwch + c.count
      THEN RawStrategy(frame.acs[positions[g][j - 2 * cwch]])
      ELSE frame.qf[positions[g][j - (2 * cwch + c.count)]] - 1

ItemBits(g, k) ==
  LET n == Ctx(g).n IN
  IF k = 0 THEN frame.pre
  ELSE IF k < 1 + 3 * n
  THEN LET t == Token(DcSample(g, k - 1)) IN frame.depth.dc[t.symbol] + t.nbits
  ELSE IF k = 1 + 3 * n THEN frame.mid
  ELSE LET t == Token(MetaSample(g, k - (3 * n + 2))) IN frame.depth.meta[t.symbol] + t.nbits

ItemEmit(g, k) ==
  LET n == Ctx(g).n IN
  IF k = 0 THEN Blob("pre", g, frame.pre)
  ELSE IF k < 1 + 3 * n THEN Coded("dc", frame.depth.dc, DcSample(g, k - 1))
  ELSE IF k = 1 + 3 * n THEN Blob("mid", g, frame.mid)
  ELSE Coded("meta", frame.depth.meta, MetaSample(g, k - (3 * n + 2)))

(* The items of a thread: a part of its chunk's, which is a part of the    *)
(* group's.                                                                *)
ThreadRange(run) ==
  LET m     == Ctx(run[1]).m
      chunk == CeilDiv(m, Chunks)
      k_lo  == Least(run[2] * chunk, m)
      len   == Least(k_lo + chunk, m) - k_lo
      r     == CeilDiv(len, Threads)
  IN  [lo |-> k_lo + Least(run[3] * r, len), hi |-> k_lo + Least(run[3] * r + r, len)]

ChunkSizes ==
  /\ stage = "size"
  /\ LET run_bits(run) == SumOver(ThreadRange(run).lo .. ThreadRange(run).hi - 1,
                                  LAMBDA k : ItemBits(run[1], k))
         sums(g, c) == InclusiveSums([t \in 0 .. Threads - 1 |-> run_bits(<<g, c, t>>)], Threads)
     IN  /\ run_offsets' = [run \in Runs |-> sums(run[1], run[2])[run[3]] - run_bits(run)]
         /\ chunk_bits' = [g \in Group |-> [c \in 0 .. Chunks - 1 |-> sums(g, c)[Threads - 1]]]
  /\ stage' = "scan"
  /\ UNCHANGED <<frame, first_blocks, hists, scan, out, writers>>

(* One thread block walks the groups. *)
ChunkScan ==
  /\ stage = "scan"
  /\ LET sums(g)   == InclusiveSums(chunk_bits[g], Chunks)
         size(g)   == CeilDiv(sums(g)[Chunks - 1], ByteBits)
     IN  /\ chunk_base' = [g \in Group |-> [c \in 0 .. Chunks - 1 |-> sums(g)[c] - chunk_bits[g][c]]]
         /\ group_sizes' = [g \in Group |-> size(g)]
         /\ group_offsets' = [g \in Group |-> SumOver(0 .. g - 1, size)]
  /\ stage' = "zero"
  /\ UNCHANGED <<frame, first_blocks, hists, sizes, out, writers>>

(* A section over the capacity is neither zeroed nor emitted. *)
SectionEnd == group_offsets[NumGroups(frame) - 1] + group_sizes[NumGroups(frame) - 1]
Fits == SectionEnd <= frame.capacity

ZeroSection ==
  /\ stage = "zero"
  /\ out' = IF Fits
            THEN [w \in DOMAIN out |-> IF w < CeilDiv(SectionEnd * ByteBits, WordBits) THEN {} ELSE out[w]]
            ELSE out
  /\ stage' = "start"
  /\ UNCHANGED <<frame, first_blocks, hists, sizes, scan, writers>>

-----------------------------------------------------------------------------
(* RunBitWriter: the bits of a run from their place in the output on. A    *)
(* thread's items depend on nothing the others write.                      *)

EmitStart ==
  /\ stage = "start"
  /\ pos' = [run \in Runs |->
       group_offsets[run[1]] * ByteBits + chunk_base[run[1]][run[2]] + run_offsets[run]]
  /\ acc' = [run \in Runs |->
       IF ~Fits THEN <<>>
       ELSE LET r == ThreadRange(run)
            IN  FlattenSeq([i \in 1 .. r.hi - r.lo |-> ItemEmit(run[1], r.lo + i - 1)])]
  /\ stage' = "emit"
  /\ UNCHANGED <<frame, first_blocks, hists, sizes, scan, out>>

(* The bits that fall into a word when `bits` are written from `start` on. *)
WordOf(start, bits, word) ==
  {<<(start + i - 1) % WordBits, bits[i][1], bits[i][2], bits[i][3]>> :
     i \in {i \in DOMAIN bits : (start + i - 1) \div WordBits = word}}

(* Mutant: the last word is stored like those inside of the run.           *)
IsShared_First(start, n) == start % WordBits # 0

(* The words a run may share with others: its first one unless it starts   *)
(* with the word, and its last one unless it fills the word.               *)
IsShared(start, n) == start % WordBits # 0 \/ start + n < (start \div WordBits + 1) * WordBits

(* A thread writes its next word: a shared one by an atomic OR, the others *)
(* by a store.                                                             *)
EmitWord(run) ==
  /\ stage = "emit" /\ acc[run] # <<>>
  /\ LET bits == acc[run]
         word == pos[run] \div WordBits
         n    == Least(Len(bits), WordBits - (pos[run] % WordBits))
     IN  /\ out' = [out EXCEPT ![word] =
              IF IsShared(pos[run], Len(bits)) THEN @ \cup WordOf(pos[run], bits, word)
              ELSE WordOf(pos[run], bits, word)]
         /\ pos' = [pos EXCEPT ![run] = @ + n]
         /\ acc' = [acc EXCEPT ![run] = SubSeq(@, n + 1, Len(@))]
  /\ UNCHANGED <<frame, stage, first_blocks, hists, sizes, scan>>

EmitDone ==
  /\ stage = "emit" /\ \A run \in Runs : acc[run] = <<>>
  /\ stage' = "done"
  /\ UNCHANGED <<frame, first_blocks, hists, sizes, scan, out, writers>>

Terminated == stage = "done" /\ UNCHANGED vars

Next ==
  \/ RowCounts \/ Scatter \/ Histograms \/ ChunkSizes \/ ChunkScan \/ ZeroSection \/ EmitStart
  \/ (\E run \in Runs : EmitWord(run)) \/ EmitDone \/ Terminated

Spec == Init /\ [][Next]_vars

-----------------------------------------------------------------------------
(* "the concatenation still reproduces the reference bitstream"            *)
(* (entropy.cu): in whatever order the threads write their words, the      *)
(* output holds each group's reference section, byte aligned and zero      *)
(* padded, and nothing past the section's last word is touched; when the   *)
(* section does not fit nothing is, and the sizes still tell so.           *)
SectionsHoldTheItems ==
  stage = "done" =>
    LET section == [g \in Group |-> Section(frame, g)]
        offset(g) == SumOver(0 .. g - 1, LAMBDA h : Bytes(section[h]))
        end  == offset(NumGroups(frame)) * ByteBits
        word(w) == UNION {WordOf(offset(g) * ByteBits, section[g], w) : g \in Group}
    IN  /\ \A g \in Group : group_sizes[g] = Bytes(section[g]) /\ group_offsets[g] = offset(g)
        /\ \A w \in DOMAIN out :
             out[w] = IF end <= frame.capacity * ByteBits /\ w * WordBits < end THEN word(w)
                      ELSE {<<0, "stale", 0, 0>>}

(* The prefix codes are built from histograms of what is coded: a group's  *)
(* counts are those of the symbols of its items, although the counting     *)
(* kernels cut the frame into strips and the emission into runs.           *)
CountedAsEmitted ==
  stage = "size" =>
    \A g \in Group :
      LET n     == Ctx(g).n
          count(S, sample(_, _), s) == Cardinality({i \in S : Token(sample(g, i)).symbol = s})
      IN  /\ \A s \in DOMAIN frame.depth.dc :
               dc_hist[g][s] = count(0 .. 3 * n - 1, DcSample, s)
          /\ \A s \in DOMAIN frame.depth.meta :
               meta_hist[g][s] = count(0 .. Ctx(g).m - 3 * n - 3, MetaSample, s)
=============================================================================
