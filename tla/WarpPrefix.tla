----------------------------- MODULE WarpPrefix -----------------------------
(***************************************************************************)
(* The warp that builds a prefix code on the device                        *)
(* (src/src/prefix_build.cu).  Its lanes take a histogram in chunks of     *)
(* WarpLanes symbols; between two chunks a lane keeps what the warp voted  *)
(* so far.  Lanes are counted from 0, tree nodes from 1.                   *)
(***************************************************************************)
EXTENDS CodeHeaders

CONSTANT WarpLanes

ASSUME WarpAssumption == WarpLanes \in Nat \ {0}

Lanes == 0 .. WarpLanes - 1
Chunks(n) == [k \in 1 .. CeilDiv(n, WarpLanes) |-> (k - 1) * WarpLanes]

(* The lanes whose vote is true, and those of them below a lane. *)
Ballot(vote(_)) == {l \in Lanes : vote(l)}
Below(votes, l) == Cardinality({x \in votes : x < l})

----------------------------------------------------------------------------
(* SharedBitWriter: words that start as zeros, into which bits are OR-ed.  *)

EmptyWords == [ones |-> {}, pos |-> 0]

Composed(ones, pos, bits) == ones \cup {pos + i - 1 : i \in {i \in DOMAIN bits : bits[i] = 1}}

Write(w, bits) == [ones |-> Composed(w.ones, w.pos, bits), pos |-> w.pos + Len(bits)]

Written(w) == [i \in 1 .. w.pos |-> IF i - 1 \in w.ones THEN 1 ELSE 0]

----------------------------------------------------------------------------

SummarizeHistogram(h) ==
  LET n == Cardinality(DOMAIN h)
      chunk(s, base) ==
        LET nonzero == Ballot(LAMBDA l : base + l < n /\ h[base + l] # 0)
            found   == [k \in 1 .. Cardinality(nonzero) |->
                          base + CHOOSE l \in nonzero : Below(nonzero, l) = k - 1]
        IN  [alphabet |-> IF nonzero = {} THEN s.alphabet ELSE base + Max(nonzero) + 1,
             used     |-> s.used + Cardinality(nonzero),
             first    |-> s.first \o SubSeq(found, 1, Least(Len(found), 4 - Len(s.first)))]
  IN  FoldLeft(chunk, [alphabet |-> 1, used |-> 0, first |-> <<>>], Chunks(n))

DepthValues == 16

(* Lane d counts the values equal to d. *)
CountDepthValues(values, n) ==
  LET chunk(count, base) ==
        [d \in 0 .. DepthValues - 1 |->
           count[d] + Cardinality(Ballot(LAMBDA l : base + l < n /\ values[base + l] = d))]
  IN  FoldLeft(chunk, [d \in 0 .. DepthValues - 1 |-> 0], Chunks(n))

(* The used symbols from the last to the first, each at the slot its vote  *)
(* gives it.                                                               *)
CollectLeaves(h) ==
  LET n == Cardinality(DOMAIN h)
      symbol(base, l) == n - 1 - (base + l)
      chunk(leaves, base) ==
        LET nonzero == Ballot(LAMBDA l : base + l < n /\ h[symbol(base, l)] # 0)
        IN  leaves \o [k \in 1 .. Cardinality(nonzero) |->
              symbol(base, CHOOSE l \in nonzero : Below(nonzero, l) = k - 1)]
  IN  FoldLeft(chunk, <<>>, Chunks(n))

(* Bug: leaves of equal counts change places. *)
LeafRank_TiesReversed(counts, j) ==
  1 + Cardinality({k \in DOMAIN counts :
        counts[k] < counts[j] \/ (counts[k] = counts[j] /\ k > j)})

(* The place of leaf j by count: equal counts keep the order of the leaves. *)
LeafRank(counts, j) ==
  1 + Cardinality({k \in DOMAIN counts :
        counts[k] < counts[j] \/ (counts[k] = counts[j] /\ k < j)})

(* The parent of each node below the root, as one lane's merge records it. *)
ParentLinks(counts) ==
  LET kids == Merged(counts).kids
      n    == Len(counts)
  IN  Tabulated([x \in {k[1] : k \in Range(kids)} \cup {k[2] : k \in Range(kids)} |->
        n + 1 + CHOOSE m \in DOMAIN kids : x \in Range(kids[m])])

(* A leaf is as deep as its chain of parents up to the root is long. *)
ChainLength(parent, leaf, n) ==
  LET up[x \in 1 .. 2 * n] == IF x = 2 * n THEN 0 ELSE 1 + up[parent[x]] IN up[leaf]

(* The depths in the tree of the leaves j, whose nodes are node[j]. *)
LinkedDepths(h, leaves, node, parent) ==
  Tabulated([s \in DOMAIN h |->
    IF h[s] = 0 THEN 0
    ELSE ChainLength(parent, node[CHOOSE j \in DOMAIN leaves : leaves[j] = s], Len(leaves))])

RankedDepths(h, leaves, counts, node) ==
  LinkedDepths(h, leaves, node,
    ParentLinks([r \in DOMAIN leaves |-> counts[CHOOSE j \in DOMAIN leaves : node[j] = r]]))

CountedDepths(h, leaves, counts) ==
  RankedDepths(h, leaves, counts, Tabulated([j \in DOMAIN leaves |-> LeafRank(counts, j)]))

(* The depths with every count raised to a floor. *)
FlooredDepths(h, leaves, floor) ==
  CountedDepths(h, leaves, Tabulated([j \in DOMAIN leaves |-> Greatest(h[leaves[j]], floor)]))

WarpCreateHuffmanTree(h, limit) ==
  LET short(depth) == \A s \in DOMAIN h : depth[s] <= limit
      raise(d, e) == IF short(d) THEN d ELSE FlooredDepths(h, CollectLeaves(h), 2^e - 1)
  IN  IF Cardinality(Used(h)) = 1 THEN [s \in DOMAIN h |-> IF h[s] = 0 THEN 0 ELSE 1]
      ELSE FoldLeft(raise, [s \in DOMAIN h |-> limit + 1], Symbols(31))

(* A code word is its depth's next one plus the number of lower lanes of   *)
(* the chunk with the same depth; the chunk then moves the next one on.    *)
WarpConvertBitDepthsToSymbols(depth) ==
  LET n     == Cardinality(DOMAIN depth)
      count == CountDepthValues(depth, n)
      start[d \in 0 .. DepthValues - 1] ==
        IF d = 0 THEN 0 ELSE 2 * (start[d - 1] + IF d = 1 THEN 0 ELSE count[d - 1])
      chunk(c, base) ==
        LET same(d) == Ballot(LAMBDA l : base + l < n /\ depth[base + l] = d)
            own     == [i \in {base + l : l \in {x \in Lanes : base + x < n}} |->
                          CodeWord(depth[i], c.next[depth[i]] + Below(same(depth[i]), i - base))]
        IN  [next |-> Tabulated([d \in 0 .. DepthValues - 1 |-> c.next[d] + Cardinality(same(d))]),
             bits |-> own @@ c.bits]
  IN  FoldLeft(chunk, [next |-> start, bits |-> <<>>], Chunks(n)).bits

(* The code-length tokens of a chunk, each at the offset its lane scanned. *)
StoreTokenChunk(w, tokens, words, base) ==
  LET token(l) == IF base + l < Len(tokens) THEN words[tokens[base + l + 1]] ELSE <<>>
      ends == InclusiveSums([l \in Lanes |-> Len(token(l))], WarpLanes)
      composed(ones, l) == Composed(ones, w.pos + ends[l] - Len(token(l)), token(l))
  IN  [ones |-> FoldLeft(composed, w.ones, Symbols(WarpLanes)),
       pos  |-> w.pos + ends[WarpLanes - 1]]

StoreTokens(tokens, words, w) ==
  FoldLeft(LAMBDA v, base : StoreTokenChunk(v, tokens, words, base), w, Chunks(Len(tokens)))

(* One length alone, codes = 1, takes no bits. *)
StoreCodeLengths(codes, cl, tokens, w) ==
  StoreTokens(tokens,
    IF codes = 1 THEN [l \in DOMAIN cl |-> <<>>] ELSE WarpConvertBitDepthsToSymbols(cl),
    Write(w, StoreHuffmanTreeOfHuffmanTree(codes, cl)))

CodeLengthHistogram(count) ==
  [l \in 0 .. CodeLengthCodes - 1 |-> IF l < DepthValues THEN count[l] ELSE 0]

StoreCountedLengths(hist, tokens, w) ==
  StoreCodeLengths(Least(2, Cardinality(Used(hist))), WarpCreateHuffmanTree(hist, 5), tokens, w)

WarpStoreHuffmanTree(depth, w) ==
  LET length == SummarizeHistogram(depth).alphabet
  IN  StoreCountedLengths(CodeLengthHistogram(CountDepthValues(depth, length)),
                          [i \in 1 .. length |-> depth[i - 1]], w)

(* The description of a code of n symbols, by how many of them are used. *)
WarpStoreCode(n, s, depth, w) ==
  LET maxBits == BitLength(n - 1)
  IN  IF n = 1 THEN w
      ELSE IF s.used <= 1
      THEN Write(w, Bits(4, 1) \o Bits(maxBits, IF s.used = 0 THEN 0 ELSE s.first[1]))
      ELSE IF s.used <= 4 THEN Write(w, StoreSimpleHuffmanTree(depth, s.first, maxBits))
      ELSE WarpStoreHuffmanTree(depth, w)

(* The depths and words of a code, and the writer after its description. *)
WarpCode(h, s, depth, w) ==
  [depth |-> depth,
   bits  |-> IF s.used <= 1 THEN [x \in DOMAIN h |-> <<>>]
             ELSE WarpConvertBitDepthsToSymbols(depth),
   w     |-> WarpStoreCode(Cardinality(DOMAIN h), s, depth, w)]

WarpSummarizedCode(h, s, w) ==
  WarpCode(h, s, IF s.used <= 1 THEN [x \in DOMAIN h |-> 0]
                 ELSE WarpCreateHuffmanTree(h, MaxCodeLength), w)

WarpWritePrefixCode(h, w) == WarpSummarizedCode(h, SummarizeHistogram(h), w)

WarpWritePrefixHistograms(h, numContexts, w) ==
  WarpWritePrefixCode(h, Write(w,
    PrefixHistogramHead(Cardinality(DOMAIN h), numContexts, DefaultConfig)))

(* Lane v counts the tree tokens of value v. *)
WarpWriteModularTree(tree, w) ==
  LET len  == Max(Range(tree)) + 1
      hist == [v \in 0 .. len - 1 |-> Cardinality({i \in DOMAIN tree : tree[i] = v})]
      tokens(code) == Write(code.w, FlattenSeq([i \in DOMAIN tree |-> code.bits[tree[i]]]))
  IN  tokens(WarpWritePrefixHistograms(hist, NumTreeContexts, Write(w, GroupHeader)))

(* dc_group_blobs_kernel, the block of a group's DC code and the one of    *)
(* its AcMetadata code.                                                    *)
TrimmedHistogram(hist) == [s \in 0 .. SummarizeHistogram(hist).alphabet - 1 |-> hist[s]]

PreBlob(hist) ==
  WarpWritePrefixHistograms(TrimmedHistogram(hist), 1,
    WarpWriteModularTree(SingleLeafTree(GradientPredictor), Write(EmptyWords, Bits(2, 0))))

MidBlob(hist, totalBlocks, count) ==
  WarpWritePrefixCode(TrimmedHistogram(hist),
    Write(WarpWriteModularTree(AcMetaTree,
            Write(EmptyWords, Bits(CeilLog2(totalBlocks), count - 1))),
          AcMetaHistogramsHead(SummarizeHistogram(hist).alphabet)))
=============================================================================
