----------------------------- MODULE CodeHeaders ----------------------------
(***************************************************************************)
(* What precedes the tokens of a section                                   *)
(* (src/src/bitstream/serialize_impl.h, field_coder.h): the context map,   *)
(* the codes of the clusters, and the headers of the DC and AcMetadata     *)
(* streams.                                                                *)
(***************************************************************************)
EXTENDS PrefixCodes

ContextMapConfig == [split |-> 2, msb |-> 0, lsb |-> 1]
ContextMapAlphabet == 16

(* The rank of each value in a list that moves the value to its front. *)
MoveToFront(values) ==
  LET apply(s, v) ==
        LET rank == CHOOSE r \in DOMAIN s.symbols : s.symbols[r] = v
        IN  [symbols |-> <<v>> \o SelectSeq(s.symbols, LAMBDA x : x # v),
             out     |-> Append(s.out, rank - 1)]
  IN  FoldLeft(apply, [symbols |-> Symbols(Max(Range(values)) + 1), out |-> <<>>], values).out

SimpleContextMap(map, numClusters) ==
  LET n == CeilLog2(numClusters)
  IN  <<1>> \o Bits(2, n) \o FlattenSeq([i \in DOMAIN map |-> Bits(n, map[i])])

CountContextMapValues(values) ==
  Trimmed(ValueCounts([i \in DOMAIN values |-> Hybrid(ContextMapConfig, values[i]).token],
                      ContextMapAlphabet))

(* The bits of a complex map with a code for its values. *)
ComplexMapSize(values, h, depth) ==
  2 + Len(PrefixHistograms(h, 1, ContextMapConfig))
    + SumOver(DOMAIN values, LAMBDA i : Hybrid(ContextMapConfig, values[i]).nbits)
    + SumOver(DOMAIN h, LAMBDA t : h[t] * depth[t])

(* The code of a complex map's values, and the size the writer expects. *)
ContextMapCode(values, h, code) ==
  [histogram |-> h, depth |-> code.depth, bits |-> code.bits,
   size_bits |-> ComplexMapSize(values, h, code.depth)]

BuildContextMapCode(values) ==
  LET built(h) == ContextMapCode(values, h, BuildHuffmanCode(h))
  IN  built(CountContextMapValues(values))

ComplexContextMap(values, useMtf, code) ==
  LET value(v) == LET t == Hybrid(ContextMapConfig, v)
                  IN  code.bits[t.token] \o Bits(t.nbits, t.bits)
  IN  <<0, IF useMtf THEN 1 ELSE 0>>
        \o PrefixHistogramHead(Cardinality(DOMAIN code.histogram), 1, ContextMapConfig)
        \o StoreAlphabetCode(code.histogram, code.depth)
        \o FlattenSeq([i \in DOMAIN values |-> value(values[i])])

(* The smallest of the encodings; `size_bits` is what it was expected to take. *)
SmallestContextMap(map, numClusters, plain, ranks, mtf) ==
  LET simple == 3 + Len(map) * CeilLog2(numClusters)
      useMtf == mtf.size_bits < plain.size_bits
      best   == IF useMtf THEN mtf.size_bits ELSE plain.size_bits
  IN  IF numClusters <= 8 /\ simple <= best
      THEN [size_bits |-> simple, bits |-> SimpleContextMap(map, numClusters)]
      ELSE [size_bits |-> best,
            bits |-> ComplexContextMap(IF useMtf THEN ranks ELSE map, useMtf,
                                       IF useMtf THEN mtf ELSE plain)]

(* Both complex maps are built: of the values, and of their ranks. *)
RankedContextMap(map, numClusters, ranks) ==
  SmallestContextMap(map, numClusters, BuildContextMapCode(map), ranks, BuildContextMapCode(ranks))

BestContextMap(map, numClusters) == RankedContextMap(map, numClusters, MoveToFront(map))

BuildClusterCode(h) == BuildHuffmanCode(Trimmed(h))

ClusterCodesTail(hists, cfg, depth) ==
  <<1>> \o FlattenSeq([c \in DOMAIN hists |-> EncodeUintConfig(cfg, PrefixMaxBits)])
    \o FlattenSeq([c \in DOMAIN hists |-> StoreVarLenUint16(AlphabetSize(hists[c]) - 1)])
    \o FlattenSeq([c \in DOMAIN hists |-> StoreAlphabetCode(Trimmed(hists[c]), depth[c])])

ClusteredPrefixHistograms(map, hists, cfg) ==
  <<0>> \o (IF Len(map) > 1 THEN BestContextMap(map, Len(hists)).bits ELSE <<>>)
    \o ClusterCodesTail(hists, cfg, [c \in DOMAIN hists |-> BuildClusterCode(hists[c]).depth])

----------------------------------------------------------------------------
(* The headers of the modular streams.                                     *)

DefaultConfig == [split |-> 4, msb |-> 2, lsb |-> 0]
NumTreeContexts == 6
GradientPredictor == 5
ZeroPredictor == 0
EpfChannel == 3

Leaf(predictor) == <<0, predictor, 0, 0, 0>>
SingleLeafTree(predictor) == Leaf(predictor)
AcMetaTree == <<1, 2 * (EpfChannel - 1)>> \o Leaf(ZeroPredictor) \o Leaf(ZeroPredictor)

GroupHeader == <<0, 1>> \o Bits(2, 0)

TreeHistogram(tree) == ValueCounts(tree, Max(Range(tree)) + 1)

ModularTree(tree) ==
  LET h == TreeHistogram(tree)
      words == BuildHuffmanCode(h).bits
  IN  GroupHeader \o PrefixHistograms(h, NumTreeContexts, DefaultConfig)
        \o FlattenSeq([i \in DOMAIN tree |-> words[tree[i]]])

AcMetaHistogramsHead(length) ==
  <<0>> \o SimpleContextMap(<<0, 1>>, 2)
    \o <<1>> \o EncodeUintConfig(DefaultConfig, PrefixMaxBits)
    \o EncodeUintConfig(DefaultConfig, PrefixMaxBits)
    \o StoreVarLenUint16(0) \o StoreVarLenUint16(length - 1)

(* Before a DC group's DC tokens; before its AcMetadata tokens. *)
SerializeDcPre(hist) ==
  Bits(2, 0) \o ModularTree(SingleLeafTree(GradientPredictor))
    \o PrefixHistograms(Trimmed(hist), 1, DefaultConfig)

SerializeDcMid(hist, totalBlocks, count) ==
  Bits(CeilLog2(totalBlocks), count - 1) \o ModularTree(AcMetaTree)
    \o AcMetaHistogramsHead(AlphabetSize(hist))
    \o StoreAlphabetCode(Trimmed(hist), BuildClusterCode(hist).depth)

----------------------------------------------------------------------------
(* Fields (field_coder.h).  A distribution is a value, or an offset with   *)
(* extra bits.                                                             *)

Val(v) == [direct |-> TRUE, offset |-> v, extra |-> 0]
BitsOffset(n, offset) == [direct |-> FALSE, offset |-> offset, extra |-> n]

Holds(d, v) == IF d.direct THEN v = d.offset ELSE d.offset <= v /\ v - d.offset < 2^d.extra

(* A direct value where there is one, else the first of the distributions  *)
(* with the fewest bits.                                                   *)
WriteU32(enc, v) ==
  LET fit == {s \in 1 .. 4 : Holds(enc[s], v)}
      direct == {s \in fit : enc[s].direct}
      s == IF direct # {} THEN Min(direct)
           ELSE CHOOSE x \in fit : \A y \in fit :
                  enc[x].extra < enc[y].extra \/ (enc[x].extra = enc[y].extra /\ x <= y)
  IN  Bits(2, s - 1) \o Bits(enc[s].extra, v - enc[s].offset)
=============================================================================
