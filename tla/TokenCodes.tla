------------------------------ MODULE TokenCodes ----------------------------
(***************************************************************************)
(* The entropy codes of a frame, down to the bits: the device builds the   *)
(* prefix codes of a DC group (prefix_build.cu), the host the codes of the *)
(* AC tokens (bitstream/frame_assembly.cc), with which it codes the token  *)
(* streams backwards, several in lockstep (bitstream/token_stream.cc), and *)
(* places them in the file.                                                *)
(*                                                                         *)
(* A frame f has the histograms f.dc and f.meta of a group of f.blocks     *)
(* blocks, f.count of them first blocks; the clusters f.map of the AC      *)
(* contexts, of which there are several; for each AC group the tokens      *)
(* f.streams[i], a sequence of <<context, value>>; the Lehmer codes        *)
(* f.orders of the coefficient orders; the quantizer f.scale, f.quant_dc;  *)
(* and the f.sizes of sections.                                            *)
(***************************************************************************)
EXTENDS WarpPrefix, EntropyFormat

CONSTANTS
  Frames,
  TokenConfig,     (* HybridUintConfig of the AC tokens                    *)
  MinAnsTokens,    (* MIN_ANS_TOKENS                                       *)
  OrderSides,      (* the sides of transforms: [size, skip, bit] of each   *)
  ChunkBits,       (* 16, what a renormalization moves out of the state    *)
  WordBits,        (* 64                                                   *)
  NumLanes         (* LANES                                                *)

StateBits == 2 * ChunkBits
InitialState == 19 * 2^ChunkBits           (* ANS_INITIAL_STATE *)

ASSUME WidthAssumption ==
  /\ AnsLogTabSize <= ChunkBits /\ 2 * StateBits = WordBits /\ WordBits % 8 = 0
  /\ NumLanes \in Nat \ {0}

ASSUME FrameAssumption == \A f \in Frames : Len(f.map) > 1

VARIABLES
  frame, stage,
  blobs,           (* what the device built for the group                  *)
  global,          (* AcGlobalBuilder: the mode and the parts built so far *)
  section,         (* the bits of AcGlobal                                 *)
  lanes, claimed,     (* the streams being coded, the next to claim           *)
  coded, placed

vars == <<frame, stage, blobs, global, section, lanes, claimed, coded, placed>>

----------------------------------------------------------------------------
(* The frame's tokens. *)

Streams  == DOMAIN frame.streams
Clusters == 0 .. Max(Range(frame.map))
Token(pair) == Hybrid(TokenConfig, pair[2])
ClusterOf(pair) == frame.map[pair[1] + 1]
AllTokens == FlattenSeq(frame.streams)

AcHistogram(c) ==
  Tabulated([t \in 0 .. frame.alphabet - 1 |->
    Cardinality({i \in DOMAIN AllTokens :
                   ClusterOf(AllTokens[i]) = c /\ Token(AllTokens[i]).token = t})])

RawStream(tokens) ==
  FlattenSeq([i \in DOMAIN tokens |-> Bits(Token(tokens[i]).nbits, Token(tokens[i]).bits)])

(* Raw bits packed from the low end of words, and a word after the last. *)
RawWords(raw) ==
  [w \in 0 .. Len(raw) \div WordBits + 1 |->
     SumOver(1 .. WordBits, LAMBDA i : BitAt(raw, w * WordBits + i) * 2^(i - 1))]

----------------------------------------------------------------------------
(* The coefficient orders: of each side with an order that is not the      *)
(* natural one, the length of each channel's Lehmer code, and the code.    *)

PermutationContexts == 8
PermutationAlphabet == 64
PermutationContext(v) ==
  IF v = 0 THEN 0 ELSE Least(1 + FloorLog2(v), PermutationContexts - 1)

UsedOrders == {k \in DOMAIN OrderSides :
                 \E c \in 1 .. 3 : Used(frame.orders[k][c]) # {}}

TokenizeOrder(lehmer, size, skip) ==
  LET end == Max({skip} \cup {i + 1 : i \in {i \in skip .. size - 1 : lehmer[i] # 0}})
      last(i) == IF i = skip THEN 0 ELSE lehmer[i - 1]
  IN  <<<<PermutationContext(size), end - skip>>>>
        \o [j \in 1 .. end - skip |-> <<PermutationContext(last(skip + j - 1)), lehmer[skip + j - 1]>>]

TokenizeOrders(k) ==
  FlattenSeq([c \in 1 .. 3 |->
    TokenizeOrder(frame.orders[k][c], OrderSides[k].size, OrderSides[k].skip)])

UsedOrdersEnc == <<Val(95), Val(19), Val(0), BitsOffset(13, 0)>>

CoeffOrderTokens ==
  LET used == SelectSeq([k \in DOMAIN OrderSides |-> k], LAMBDA k : k \in UsedOrders)
  IN  FlattenSeq([k \in DOMAIN used |-> TokenizeOrders(used[k])])

(* The contexts that hold tokens have a code each, in their order. *)
ContextsOf(tokens) ==
  SelectSeq(Symbols(PermutationContexts), LAMBDA x : \E i \in DOMAIN tokens : tokens[i][1] = x)

OrderSymbol(token) == Hybrid(DefaultConfig, token[2])

ContextHistogram(tokens, context) ==
  LET own == SelectSeq(tokens, LAMBDA t : t[1] = context)
  IN  ValueCounts([i \in DOMAIN own |-> OrderSymbol(own[i]).token], PermutationAlphabet)

OrderContextMap(holding) ==
  [i \in 1 .. PermutationContexts |->
     IF i - 1 \in Range(holding) THEN (CHOOSE c \in DOMAIN holding : holding[c] = i - 1) - 1 ELSE 0]

OrderWord(code, symbol) == code.bits[symbol.token] \o Bits(symbol.nbits, symbol.bits)

OrderWords(tokens, map, codes) ==
  FlattenSeq([i \in DOMAIN tokens |->
    OrderWord(codes[map[tokens[i][1] + 1] + 1], OrderSymbol(tokens[i]))])

(* The codes of the contexts that hold tokens, and the tokens in them. *)
CodedOrders(tokens, map, hists) ==
  ClusteredPrefixHistograms(map, hists, DefaultConfig)
    \o OrderWords(tokens, map, [c \in DOMAIN hists |-> BuildClusterCode(hists[c])])

OrdersInContexts(tokens, holding) ==
  CodedOrders(tokens, OrderContextMap(holding),
    [c \in DOMAIN holding |-> ContextHistogram(tokens, holding[c])])

OrdersOf(tokens) == OrdersInContexts(tokens, ContextsOf(tokens))

WriteCoeffOrders ==
  WriteU32(UsedOrdersEnc, SumOver(UsedOrders, LAMBDA k : 2^OrderSides[k].bit))
    \o IF UsedOrders = {} THEN <<>> ELSE OrdersOf(CoeffOrderTokens)

----------------------------------------------------------------------------
(* The small sections and headers (frame_assembly.cc, codestream.cc). *)

Padded(bits) == bits \o Bits(CeilDiv(Len(bits), 8) * 8 - Len(bits), 0)

GlobalScaleEnc == <<BitsOffset(11, 1), BitsOffset(11, 2049), BitsOffset(12, 4097), BitsOffset(16, 8193)>>
QuantDcEnc     == <<Val(16), BitsOffset(5, 1), BitsOffset(8, 1), BitsOffset(16, 1)>>
TocDist        == <<BitsOffset(10, 0), BitsOffset(14, 1024), BitsOffset(22, 17408), BitsOffset(30, 4211712)>>

DcGlobal ==
  Padded(<<1>> \o WriteU32(GlobalScaleEnc, frame.scale) \o WriteU32(QuantDcEnc, frame.quant_dc)
           \o <<1, 1, 0>>)

TocMultiSection ==
  Padded(<<0>>) \o Padded(FlattenSeq([i \in DOMAIN frame.sizes |-> WriteU32(TocDist, frame.sizes[i])]))

----------------------------------------------------------------------------
Init ==
  /\ frame \in Frames
  /\ stage = "device"
  /\ blobs = <<>> /\ global = <<>> /\ section = <<>>
  /\ lanes = <<>> /\ claimed = 1 /\ coded = <<>> /\ placed = <<>>

(* dc_group_blobs_kernel *)
BuildDcGroupBlobs ==
  /\ stage = "device"
  /\ blobs' = [pre |-> PreBlob(frame.dc), mid |-> MidBlob(frame.meta, frame.blocks, frame.count)]
  /\ stage' = "start"
  /\ UNCHANGED <<frame, global, section, lanes, claimed, coded, placed>>

(* AcGlobalBuilder::AcGlobalBuilder: prefix codes for few tokens, or where *)
(* no cluster has two symbols.                                             *)
StartAcGlobal ==
  /\ stage = "start"
  /\ LET hists == Tabulated([c \in Clusters |-> AcHistogram(c)])
     IN  global' = [hists |-> hists,
           prefix |-> \/ Len(AllTokens) < MinAnsTokens
                      \/ \A c \in Clusters : Cardinality(Used(hists[c])) <= 1,
           log_alpha |-> Max({MinLogAlpha} \cup {CeilLog2(AlphabetSize(hists[c])) : c \in Clusters}),
           clusters |-> <<>>, orders |-> <<>>, map |-> <<>>]
  /\ stage' = "global"
  /\ UNCHANGED <<frame, blobs, section, lanes, claimed, coded, placed>>

(* AnsEntryCode of a cluster's symbols. *)
AnsEntries(table) ==
  [s \in 0 .. frame.alphabet - 1 |->
     LET freq == IF s \in DOMAIN table.freq THEN table.freq[s] ELSE 0
     IN  [reciprocal |-> IF freq = 0 THEN 0 ELSE (2^(StateBits + AnsLogTabSize) + freq - 1) \div freq,
          slot |-> IF freq = 0 THEN 0 ELSE table.offset[s], freq |-> freq,
          raw_bits |-> RawBits(TokenConfig, s)]]

(* build_cluster: the clusters in any order, by any of the methods. *)
BuildCluster(c) ==
  /\ stage = "global" /\ c \notin DOMAIN global.clusters
  /\ \E m \in IF global.prefix THEN {0} ELSE Methods(Trimmed(global.hists[c])) :
       global' = [global EXCEPT !.clusters = (c :>
         IF global.prefix THEN <<>>
         ELSE WriteAnsHistogram(Trimmed(global.hists[c]), m, global.log_alpha)) @@ @]
  /\ UNCHANGED <<frame, stage, blobs, section, lanes, claimed, coded, placed>>

BuildCoeffOrders ==
  /\ stage = "global" /\ global.orders = <<>>
  /\ global' = [global EXCEPT !.orders = WriteCoeffOrders]
  /\ UNCHANGED <<frame, stage, blobs, section, lanes, claimed, coded, placed>>

BuildContextMap ==
  /\ stage = "global" /\ ~global.prefix /\ global.map = <<>>
  /\ global' = [global EXCEPT !.map = BestContextMap(frame.map, Cardinality(Clusters)).bits]
  /\ UNCHANGED <<frame, stage, blobs, section, lanes, claimed, coded, placed>>

SerializeAcGlobalHead == <<1>> \o Bits(CeilLog2(Len(frame.streams)), 0)

ClusterSeq(f) == [i \in 1 .. Cardinality(Clusters) |-> f[i - 1]]

(* The section, and the codes of the token entries. *)
Finish ==
  /\ stage = "global"
  /\ DOMAIN global.clusters = Clusters /\ global.orders # <<>>
  /\ global.prefix \/ global.map # <<>>
  /\ LET head == SerializeAcGlobalHead \o global.orders
     IN  section' = Padded(head \o
           IF global.prefix
           THEN ClusteredPrefixHistograms(frame.map, ClusterSeq(global.hists), TokenConfig)
           ELSE <<0>> \o global.map \o <<0>> \o Bits(2, global.log_alpha - MinLogAlpha)
                  \o FlattenSeq([i \in 1 .. Cardinality(Clusters) |->
                       EncodeUintConfig(TokenConfig, global.log_alpha)])
                  \o FlattenSeq([i \in 1 .. Cardinality(Clusters) |-> global.clusters[i - 1].bits]))
  /\ global' = [global EXCEPT !.clusters =
       IF global.prefix THEN Tabulated([c \in Clusters |-> BuildClusterCode(global.hists[c])])
       ELSE Tabulated([c \in Clusters |->
              [entries |-> AnsEntries(global.clusters[c].table),
               reverse |-> global.clusters[c].table.reverse]])]
  /\ lanes' = [l \in 1 .. NumLanes |-> [status |-> "empty"]]
  /\ stage' = "code"
  /\ UNCHANGED <<frame, blobs, claimed, coded, placed>>

----------------------------------------------------------------------------
(* The backward coder. Words are stored descending: `words` grows at its   *)
(* front.                                                                  *)

CodedStreamCapacityWords(tokens) ==
  (StateBits + ChunkBits * Len(tokens) + Len(RawStream(tokens))) \div WordBits + 1

Prepend(out, bits, n) ==
  IF out.fill + n > WordBits
  THEN LET kept == out.fill + n - WordBits
       IN  [words |-> <<(out.acc * 2^(WordBits - out.fill)) + (bits \div 2^kept)>> \o out.words,
            acc |-> bits % 2^kept, fill |-> kept]
  ELSE [out EXCEPT !.acc = @ * 2^n + bits, !.fill = @ + n]

(* Bug: the part in the second word is dropped. *)
ReadRaw_OneWord(raw, pos, n) == (raw[pos \div WordBits] \div 2^(pos % WordBits)) % 2^n

(* n raw bits from a position on, which may lie in two words. *)
ReadRaw(raw, pos, n) ==
  LET shift == pos % WordBits
      word  == pos \div WordBits
      high  == IF shift = 0 THEN 0 ELSE (raw[word + 1] % 2^shift) * 2^(WordBits - shift)
  IN  ((raw[word] \div 2^shift) + high) % 2^n

PrependRaw(lane, n) ==
  IF n = 0 THEN lane
  ELSE [lane EXCEPT !.raw_pos = @ - n,
                    !.out = Prepend(@, ReadRaw(lane.raw, lane.raw_pos - n, n), n)]

PrefixStep(lane) ==
  LET pair == frame.streams[lane.stream][lane.left]
      t    == Token(pair).token
      code == global.clusters[ClusterOf(pair)]
      word == code.bits[t]
      rawed == PrependRaw(lane, RawBits(TokenConfig, t))
  IN  [rawed EXCEPT !.left = @ - 1, !.out = Prepend(@, Number(word, 0, Len(word)), Len(word))]

(* PutSymbol: the state's low bits go out if the symbol would take it past *)
(* its width; the division is a multiplication by the reciprocal.          *)
AnsStep(lane) ==
  LET pair  == frame.streams[lane.stream][lane.left]
      code  == global.clusters[ClusterOf(pair)]
      c     == code.entries[Token(pair).token]
      rawed == PrependRaw(lane, c.raw_bits)
      renormalize == lane.state \div 2^(StateBits - AnsLogTabSize) >= c.freq
      x == IF renormalize THEN lane.state \div 2^ChunkBits ELSE lane.state
      v == ((x * c.reciprocal) % 2^WordBits) \div 2^(StateBits + AnsLogTabSize)
  IN  [rawed EXCEPT !.left = @ - 1,
         !.out = IF renormalize THEN Prepend(@, lane.state % 2^ChunkBits, ChunkBits) ELSE @,
         !.state = v * 2^AnsLogTabSize + code.reverse[c.slot + (x - v * c.freq)]]

StartLane(i) ==
  LET raw == RawStream(frame.streams[i])
  IN  [status |-> "active", stream |-> i, left |-> Len(frame.streams[i]), raw |-> RawWords(raw),
       raw_pos |-> Len(raw), state |-> InitialState,
       out |-> [words |-> <<>>, acc |-> 0, fill |-> 0]]

(* The final state precedes an rANS stream. *)
StoreLane(lane) ==
  IF global.prefix THEN lane.out ELSE Prepend(lane.out, lane.state, StateBits)

Empty(l)  == lanes[l].status = "empty"
Active(l) == lanes[l].status = "active"

(* A lane claims streams until it has one with tokens. *)
Refill(l) ==
  /\ stage = "code" /\ Empty(l) /\ \A k \in 1 .. l - 1 : ~Empty(k)
  /\ claimed' = claimed + 1
  /\ IF claimed \notin Streams
     THEN lanes' = [lanes EXCEPT ![l] = [status |-> "closed"]] /\ coded' = coded
     ELSE LET lane == StartLane(claimed)
          IN  IF lane.left # 0 THEN lanes' = [lanes EXCEPT ![l] = lane] /\ coded' = coded
              ELSE lanes' = lanes /\ coded' = (claimed :> StoreLane(lane)) @@ coded
  /\ UNCHANGED <<frame, stage, blobs, global, section, placed>>

(* The active lanes in lockstep, a token each; those that end are stored. *)
StepLanes ==
  /\ stage = "code"
  /\ \A l \in 1 .. NumLanes : ~Empty(l)
  /\ \E l \in 1 .. NumLanes : Active(l)
  /\ LET stepped == Tabulated([l \in {k \in 1 .. NumLanes : Active(k)} |->
                      IF global.prefix THEN PrefixStep(lanes[l]) ELSE AnsStep(lanes[l])])
         ended   == {l \in DOMAIN stepped : stepped[l].left = 0}
     IN  /\ lanes' = [l \in 1 .. NumLanes |->
               IF l \in ended THEN [status |-> "empty"]
               ELSE IF Active(l) THEN stepped[l] ELSE lanes[l]]
         /\ coded' = [i \in {stepped[l].stream : l \in ended} |->
               StoreLane(stepped[CHOOSE l \in ended : stepped[l].stream = i])] @@ coded
  /\ UNCHANGED <<frame, stage, blobs, global, section, claimed, placed>>

AllCoded ==
  /\ stage = "code" /\ \A l \in 1 .. NumLanes : ~Empty(l) /\ ~Active(l)
  /\ stage' = "place"
  /\ UNCHANGED <<frame, blobs, global, section, lanes, claimed, coded, placed>>

SizeBytes(s) == CeilDiv(s.fill + WordBits * Len(s.words), 8)

(* place_coded_stream: the words behind a head that fills a part of one. *)
PlacedBits(s) ==
  LET n == Len(s.words)
      shifted(a, word) ==
        [bits  |-> a.bits \o Bits(WordBits, a.carry + (word % 2^(WordBits - s.fill)) * 2^s.fill),
         carry |-> word \div 2^(WordBits - s.fill)]
      end == FoldLeft(shifted, [bits |-> <<>>, carry |-> s.acc], s.words)
  IN  IF SizeBytes(s) = 0 THEN <<>>
      ELSE IF s.fill = WordBits
      THEN Bits(WordBits, s.acc) \o FlattenSeq([j \in 1 .. n |-> Bits(WordBits, s.words[j])])
      ELSE end.bits \o Bits(8 * SizeBytes(s) - WordBits * n, end.carry)

PlaceStream(i) ==
  /\ stage = "place" /\ i \notin DOMAIN placed
  /\ placed' = (i :> PlacedBits(coded[i])) @@ placed
  /\ UNCHANGED <<frame, stage, blobs, global, section, lanes, claimed, coded>>

Terminated == stage = "place" /\ DOMAIN placed = Streams /\ UNCHANGED vars

Next ==
  \/ BuildDcGroupBlobs \/ StartAcGlobal
  \/ \E c \in 0 .. 255 : stage = "global" /\ c \in Clusters /\ BuildCluster(c)
  \/ BuildCoeffOrders \/ BuildContextMap \/ Finish
  \/ \E l \in 1 .. NumLanes : Refill(l)
  \/ StepLanes \/ AllCoded
  \/ \E i \in DOMAIN frame.streams : PlaceStream(i)
  \/ Terminated

Spec == Init /\ [][Next]_vars

----------------------------------------------------------------------------
(* What a decoder makes of the sections. *)

ReadU32(enc, b, p) ==
  LET s == enc[Number(b, p, 2) + 1]
  IN  [v |-> s.offset + Number(b, p + 2, s.extra), p |-> p + 2 + s.extra]

TreeValues(b, set, length) ==
  ReadEach(b, set.p, length,
    LAMBDA c, q, i : ReadHybrid(c, q, [cfg |-> set.cfgs[1], words |-> set.codes[1]]))

ReadTree(b, p, length) == TreeValues(b, ReadHistograms(b, p + 4, 6), length)

(* The words of the symbols with tokens; one symbol alone takes no bits. *)
TokenWords(code, h) ==
  IF Used(h) = {} THEN (0 :> <<>>) ELSE [s \in Used(h) |-> code.bits[s]]

PreDecodes(b) ==
  /\ Number(b, 0, 2) = 0
  /\ \E tree \in {ReadTree(b, 2, 5)} : \E set \in {ReadHistograms(b, tree.p, 1)} :
       /\ tree.v = <<0, 5, 0, 0, 0>>
       /\ set.codes[1] = TokenWords(blobs.pre, frame.dc) /\ set.p = Len(b)

MidDecodes(b) ==
  LET last == Read(b, 0, CeilLog2(frame.blocks))
  IN  /\ last.v = frame.count - 1
      /\ \E tree \in {ReadTree(b, last.p, 12)} : \E set \in {ReadHistograms(b, tree.p, 2)} :
           /\ tree.v = <<1, 4, 0, 0, 0, 0, 0, 0, 0, 0, 0, 0>>
           /\ set.map = <<0, 1>> /\ set.codes[1] = (0 :> <<>>)
           /\ set.codes[2] = TokenWords(blobs.mid, frame.meta) /\ set.p = Len(b)

(* The Lehmer code of an order, zero from its end on. *)
ReadOrder(b, p, set, side) ==
  LET code(v) == LET c == set.map[PermutationContext(v) + 1] + 1
                 IN  [cfg |-> set.cfgs[c], words |-> set.codes[c]]
      end     == ReadHybrid(b, p, code(side.size))
      next(a, i) == LET r == ReadHybrid(b, a.p, code(a.last))
                    IN  [v |-> [a.v EXCEPT ![side.skip + i] = r.v], p |-> r.p, last |-> r.v]
  IN  FoldLeft(next, [v |-> [x \in 0 .. side.size - 1 |-> 0], p |-> end.p, last |-> 0],
               Symbols(end.v))

ReadOrders(b, p) ==
  LET natural(k) == [c \in 1 .. 3 |-> [x \in 0 .. OrderSides[k].size - 1 |-> 0]]
      absent(used, k) == (used \div 2^OrderSides[k].bit) % 2 = 0
      next(used, set, a, k) ==
        IF absent(used, k) THEN [a EXCEPT !.v = Append(@, natural(k))]
        ELSE Then(ReadEach(b, a.p, 3, LAMBDA c, q, i : ReadOrder(c, q, set, OrderSides[k])),
                  LAMBDA orders, q : [v |-> Append(a.v, orders), p |-> q])
      sides(used, set, q) ==
        FoldLeft(LAMBDA a, k : next(used, set, a, k), [v |-> <<>>, p |-> q],
                 [k \in DOMAIN OrderSides |-> k])
      someOf(used, set) == sides(used, set, set.p)
  IN  Then(ReadU32(UsedOrdersEnc, b, p), LAMBDA used, q :
        IF used = 0 THEN sides(0, <<>>, q) ELSE someOf(used, ReadHistograms(b, q, 8)))

ReadAcGlobal ==
  Then(ReadOrders(section, 1 + CeilLog2(Len(frame.streams))), LAMBDA orders, q :
    [orders |-> orders, set |-> ReadHistograms(section, q, Len(frame.map))])

(* The code of a cluster as it was used, and as it was read. *)
SameCode(set, c) ==
  IF global.prefix
  THEN set.codes[c + 1] = TokenWords(global.clusters[c], global.hists[c])
  ELSE \A s \in 0 .. frame.alphabet - 1 :
         global.clusters[c].entries[s].freq =
           IF s \in DOMAIN set.codes[c + 1] THEN set.codes[c + 1][s] ELSE 0

SectionDecodes ==
  LET decodes(orders, set) ==
        /\ orders = frame.orders
        /\ set.map = frame.map
        /\ set.prefix = global.prefix
        /\ \A c \in Clusters : set.cfgs[c + 1] = TokenConfig /\ SameCode(set, c)
        /\ Len(section) = CeilDiv(set.p, 8) * 8
  IN  \E read \in {ReadAcGlobal} : decodes(read.orders, read.set)

SmallSectionsDecode ==
  LET b     == DcGlobal
      scale == ReadU32(GlobalScaleEnc, b, 1)
      dc    == ReadU32(QuantDcEnc, b, scale.p)
      sizes == ReadEach(TocMultiSection, 8, Len(frame.sizes), LAMBDA c, q, i : ReadU32(TocDist, c, q))
  IN  scale.v = frame.scale /\ dc.v = frame.quant_dc /\ sizes.v = frame.sizes

(* A decoder rebuilds from every description the code the tokens are       *)
(* written with, the context map and the coefficient orders, reading just  *)
(* the bits that were written (ans_test.cc, clustered_histogram_test.cc,   *)
(* context_map_test.cc say so of the descriptions one by one).             *)
DecoderReadsCodes ==
  /\ stage = "start" => PreDecodes(Written(blobs.pre.w)) /\ MidDecodes(Written(blobs.mid.w))
                          /\ SmallSectionsDecode
  /\ stage = "code" /\ claimed = 1 => SectionDecodes

(* The warp builds the code the host would, and writes its description to  *)
(* the bit (prefix_build.h: "byte-identical").                             *)
DeviceBuildsHostCode ==
  stage = "start" =>
    /\ Written(blobs.pre.w) = SerializeDcPre(frame.dc)
    /\ Written(blobs.mid.w) = SerializeDcMid(frame.meta, frame.blocks, frame.count)
    /\ [depth |-> blobs.pre.depth, bits |-> blobs.pre.bits] = BuildClusterCode(frame.dc)
    /\ [depth |-> blobs.mid.depth, bits |-> blobs.mid.bits] = BuildClusterCode(frame.meta)

----------------------------------------------------------------------------
(* What it makes of a placed stream, given the contexts of its tokens. *)

ReadPrefixTokens(b, set, contexts) ==
  ReadEach(b, 0, Len(contexts), LAMBDA c, q, i :
    LET k == set.map[contexts[i] + 1] + 1
    IN  ReadHybrid(c, q, [cfg |-> set.cfgs[k], words |-> set.codes[k]]))

ReadAnsTokens(b, set, contexts) ==
  LET table == [k \in DOMAIN set.codes |-> AliasEntries(set.codes[k], set.logAlpha)]
      raw(a, x, cfg, symbol, n, q) ==
        [state |-> x, p |-> q + n, v |-> Append(a.v, HybridValue(cfg, symbol, Number(b, q, n)))]
      refilled(a, x, cfg, symbol) ==
        IF x >= 2^ChunkBits THEN raw(a, x, cfg, symbol, RawBits(cfg, symbol), a.p)
        ELSE raw(a, x * 2^ChunkBits + Number(b, a.p, ChunkBits), cfg, symbol,
                 RawBits(cfg, symbol), a.p + ChunkBits)
      symbol(a, k, e) ==
        refilled(a, set.codes[k][e.symbol] * (a.state \div TabSize) + e.slot, set.cfgs[k], e.symbol)
      cluster(a, k) == symbol(a, k, SlotOf(table[k], set.logAlpha, a.state % TabSize))
      next(a, context) == cluster(a, set.map[context + 1] + 1)
  IN  FoldLeft(next, [state |-> Number(b, 0, StateBits), v |-> <<>>, p |-> StateBits], contexts)

(* Every placed stream decodes to its tokens, with the codes read from the *)
(* section, and fills its last byte; an rANS decoder ends in the state the *)
(* encoder started from. A coded stream fits the slot it was given.        *)
DecoderReadsTokens ==
  LET contexts(tokens) == [j \in DOMAIN tokens |-> tokens[j][1]]
      values(tokens)   == [j \in DOMAIN tokens |-> tokens[j][2]]
      read(set, i) ==
        IF set.prefix THEN ReadPrefixTokens(placed[i], set, contexts(frame.streams[i]))
        ELSE ReadAnsTokens(placed[i], set, contexts(frame.streams[i]))
      decodes(set, i) ==
        \E end \in {read(set, i)} :
          /\ end.v = values(frame.streams[i])
          /\ Len(placed[i]) = CeilDiv(end.p, 8) * 8
          /\ set.prefix \/ end.state = InitialState
  IN  /\ \A i \in DOMAIN coded : Len(coded[i].words) <= CodedStreamCapacityWords(frame.streams[i])
      /\ stage = "place" /\ placed # <<>> =>
           \E set \in {ReadAcGlobal.set} : \A i \in DOMAIN placed : decodes(set, i)
=============================================================================
