----------------------------- MODULE PrefixCodes ----------------------------
(***************************************************************************)
(* Prefix codes as the bitstream carries them                              *)
(* (src/src/bitstream/serialize_impl.h): the length-limited Huffman code   *)
(* of a histogram, the description a decoder rebuilds it from, the context *)
(* map, and the headers of the DC and AcMetadata sections.                 *)
(*                                                                         *)
(* A writer's output is the sequence of the bits it was given.  Symbols,   *)
(* clusters and contexts count from 0, so histograms, depths and codes are *)
(* functions on 0 .. n - 1.                                                *)
(***************************************************************************)
EXTENDS KernelOps

Greatest(a, b) == IF a < b THEN b ELSE a
FloorLog2(v) == CHOOSE n \in 0 .. 30 : v \div 2^n = 1
BitLength(v) == IF v = 0 THEN 0 ELSE FloorLog2(v) + 1
CeilLog2(v)  == IF v <= 1 THEN 0 ELSE BitLength(v - 1)

(* n bits of v, least significant first. *)
Bits(n, v) == [i \in 1 .. n |-> (v \div 2^(i - 1)) % 2]

(* n bits of v, most significant first: a code word, which is stored       *)
(* reversed.                                                               *)
CodeWord(n, v) == [i \in 1 .. n |-> (v \div 2^(n - i)) % 2]

Symbols(n) == [i \in 1 .. n |-> i - 1]
Used(h) == {s \in DOMAIN h : h[s] # 0}
AlphabetSize(h) == Max({1} \cup {s + 1 : s \in Used(h)})
Trimmed(h) == [s \in 0 .. AlphabetSize(h) - 1 |-> h[s]]
ValueCounts(values, n) ==
  [v \in 0 .. n - 1 |-> Cardinality({i \in DOMAIN values : values[i] = v})]

----------------------------------------------------------------------------
(* The Huffman code.                                                       *)

InsertStable(leaves, leaf) ==
  LET k == Cardinality({i \in DOMAIN leaves : leaves[i].count <= leaf.count})
  IN  SubSeq(leaves, 1, k) \o <<leaf>> \o SubSeq(leaves, k + 1, Len(leaves))

(* The used symbols, collected from the last to the first, by count. *)
SortedLeaves(h, floor) ==
  LET n == Cardinality(DOMAIN h)
      add(leaves, s) == IF h[s] = 0 THEN leaves
                        ELSE InsertStable(leaves, [count |-> Greatest(h[s], floor), symbol |-> s])
  IN  FoldLeft(add, <<>>, [i \in 1 .. n |-> n - i])

(* The queues the merge takes the lighter of two nodes from: the leaves    *)
(* from i on, the inner nodes from j on, a sentinel at each end.           *)
Sentinel == 2147483647

MergeQueues(counts) ==
  [count |-> counts \o <<Sentinel, Sentinel>>, i |-> 1, j |-> Len(counts) + 2, kids |-> <<>>]

Lighter(q) == IF q.count[q.i] <= q.count[q.j] THEN q.i ELSE q.j

TakeLighter(q) ==
  IF Lighter(q) = q.i THEN [q EXCEPT !.i = @ + 1] ELSE [q EXCEPT !.j = @ + 1]

MergePair(q, k) ==
  LET left  == Lighter(q)
      rest  == TakeLighter(q)
      right == Lighter(rest)
      sum   == q.count[left] + q.count[right]
  IN  [TakeLighter(rest) EXCEPT
         !.count = Append([q.count EXCEPT ![Len(q.count)] = sum], Sentinel),
         !.kids  = Append(@, <<left, right>>)]

Merged(counts) == FoldLeft(MergePair, MergeQueues(counts), Symbols(Len(counts) - 1))

(* The levels of the tree's nodes, from the root down. *)
SetDepth(kids) ==
  LET n == Len(kids) + 1
      descend(level, m) == [level EXCEPT ![kids[n - m][1]] = level[2 * n - m + 1] + 1,
                                         ![kids[n - m][2]] = level[2 * n - m + 1] + 1]
  IN  FoldLeft(descend, [x \in 1 .. 2 * n |-> 0], [m \in 1 .. n - 1 |-> m])

(* The depths of a code with no code word above limit bits: counts below a *)
(* floor, doubled until the code is short enough, count as the floor.      *)
CreateHuffmanTree(h, limit) ==
  LET depths(e) ==
        LET leaves == SortedLeaves(h, 2^e - 1)
            level  == SetDepth(Merged([k \in DOMAIN leaves |-> leaves[k].count]).kids)
        IN  Tabulated([s \in DOMAIN h |->
              IF h[s] = 0 THEN 0 ELSE level[CHOOSE k \in DOMAIN leaves : leaves[k].symbol = s]])
      short(e) == \A s \in Used(h) : depths(e)[s] <= limit
  IN  IF Cardinality(Used(h)) = 1 THEN [s \in DOMAIN h |-> IF h[s] = 0 THEN 0 ELSE 1]
      ELSE depths(CHOOSE e \in 0 .. 30 : short(e) /\ \A f \in 0 .. e - 1 : ~short(f))

MaxCodeLength == 15

FirstCode(depth) ==
  LET f[d \in 0 .. MaxCodeLength] ==
        IF d = 0 THEN 0
        ELSE 2 * (f[d - 1] + Cardinality({s \in DOMAIN depth : d > 1 /\ depth[s] = d - 1}))
  IN  f

(* The canonical code words, in the order of the symbols at each depth. *)
ConvertBitDepthsToSymbols(depth) ==
  LET first == FirstCode(depth)
      next(s) == first[depth[s]] + Cardinality({t \in 0 .. s - 1 : depth[t] = depth[s]})
  IN  [s \in DOMAIN depth |-> CodeWord(depth[s], next(s))]

BuildHuffmanCode(h) ==
  LET code(depth) == [depth |-> depth, bits |-> ConvertBitDepthsToSymbols(depth)]
  IN  code(IF Cardinality(Used(h)) <= 1 THEN [s \in DOMAIN h |-> 0]
           ELSE CreateHuffmanTree(h, MaxCodeLength))

----------------------------------------------------------------------------
(* The description of a code.                                              *)

(* The depths up to the last used symbol, each a token of its own. *)
WriteHuffmanTree(depth) ==
  LET last == Max(Used(depth)) IN [i \in 1 .. last + 1 |-> depth[i - 1]]

CodeLengthCodes == 18
StorageOrder == <<1, 2, 3, 4, 0, 5, 17, 6, 16, 7, 8, 9, 10, 11, 12, 13, 14, 15>>

CodeLengthBits(l) == Bits(<<2, 4, 3, 2, 2, 4>>[l + 1], <<0, 7, 3, 2, 1, 15>>[l + 1])

StoreHuffmanTreeOfHuffmanTree(numCodes, cl) ==
  LET last == IF numCodes > 1 THEN Max({i \in DOMAIN StorageOrder : cl[StorageOrder[i]] # 0})
              ELSE CodeLengthCodes
      skip == IF cl[StorageOrder[1]] # 0 \/ cl[StorageOrder[2]] # 0 THEN 0
              ELSE IF cl[StorageOrder[3]] # 0 THEN 2 ELSE 3
  IN  Bits(2, skip)
        \o FlattenSeq([i \in 1 .. last - skip |-> CodeLengthBits(cl[StorageOrder[skip + i]])])

StoreHuffmanTree(depth) ==
  LET tokens == WriteHuffmanTree(depth)
      counts == ValueCounts(tokens, CodeLengthCodes)
      codes  == Cardinality(Used(counts))
      coded(words) == FlattenSeq([i \in DOMAIN tokens |-> words[tokens[i]]])
      stored(cl) == StoreHuffmanTreeOfHuffmanTree(codes, cl)
                      \o IF codes = 1 THEN <<>> ELSE coded(ConvertBitDepthsToSymbols(cl))
  IN  stored(CreateHuffmanTree(counts, 5))

(* Up to four symbols are listed, the shorter codes first. *)
ExchangeShorter(depth, symbols) ==
  LET n == Len(symbols)
      exchange(q, pair) ==
        IF pair[2] <= n /\ depth[q[pair[2]]] < depth[q[pair[1]]]
        THEN [q EXCEPT ![pair[1]] = q[pair[2]], ![pair[2]] = q[pair[1]]] ELSE q
  IN  FoldLeft(exchange, symbols, <<<<1, 2>>, <<1, 3>>, <<1, 4>>, <<2, 3>>, <<2, 4>>, <<3, 4>>>>)

StoreSimpleHuffmanTree(depth, symbols, maxBits) ==
  LET q == ExchangeShorter(depth, symbols)
  IN  Bits(2, 1) \o Bits(2, Len(q) - 1)
        \o FlattenSeq([i \in DOMAIN q |-> Bits(maxBits, q[i])])
        \o IF Len(q) = 4 THEN Bits(1, IF depth[q[1]] = 1 THEN 1 ELSE 0) ELSE <<>>

UsedInOrder(h) == SelectSeq(Symbols(Cardinality(DOMAIN h)), LAMBDA s : h[s] # 0)

StoreHuffmanCode(h, depth) ==
  LET used    == UsedInOrder(h)
      maxBits == BitLength(Cardinality(DOMAIN h) - 1)
  IN  IF Len(used) <= 1 THEN Bits(4, 1) \o Bits(maxBits, IF used = <<>> THEN 0 ELSE used[1])
      ELSE IF Len(used) <= 4 THEN StoreSimpleHuffmanTree(depth, used, maxBits)
      ELSE StoreHuffmanTree(depth)

----------------------------------------------------------------------------
(* Histogram descriptions.                                                 *)

(* HybridUintConfig::encode: the token of a value and its raw bits. *)
Hybrid(cfg, v) ==
  IF v < 2^cfg.split THEN [token |-> v, nbits |-> 0, bits |-> 0]
  ELSE LET n     == FloorLog2(v)
           m     == v - 2^n
           nbits == n - cfg.msb - cfg.lsb
       IN  [token |-> 2^cfg.split + (n - cfg.split) * 2^(cfg.msb + cfg.lsb)
                        + (m \div 2^(n - cfg.msb)) * 2^cfg.lsb + (m % 2^cfg.lsb),
            nbits |-> nbits, bits |-> (v \div 2^cfg.lsb) % 2^nbits]

RawBits(cfg, token) ==
  IF token < 2^cfg.split THEN 0
  ELSE (cfg.split - (cfg.msb + cfg.lsb)) + ((token - 2^cfg.split) \div 2^(cfg.msb + cfg.lsb))

EncodeUintConfig(cfg, logAlpha) ==
  Bits(CeilLog2(logAlpha + 1), cfg.split)
    \o IF cfg.split = logAlpha THEN <<>>
       ELSE Bits(CeilLog2(cfg.split + 1), cfg.msb)
              \o Bits(CeilLog2((cfg.split - cfg.msb) + 1), cfg.lsb)

StoreVarLenUint16(n) ==
  IF n = 0 THEN <<0>>
  ELSE <<1>> \o Bits(4, FloorLog2(n)) \o Bits(FloorLog2(n), n - 2^FloorLog2(n))

PrefixMaxBits == 15

PrefixHistogramHead(length, numContexts, cfg) ==
  <<0>> \o (IF numContexts > 1 THEN <<1>> \o Bits(2, 0) ELSE <<>>)
    \o <<1>> \o EncodeUintConfig(cfg, PrefixMaxBits) \o StoreVarLenUint16(length - 1)

(* A code over more than one symbol; one symbol needs none. *)
StoreAlphabetCode(h, depth) ==
  IF Cardinality(DOMAIN h) > 1 THEN StoreHuffmanCode(h, depth) ELSE <<>>

PrefixHistograms(h, numContexts, cfg) ==
  PrefixHistogramHead(Cardinality(DOMAIN h), numContexts, cfg)
    \o StoreAlphabetCode(h, BuildHuffmanCode(h).depth)
=============================================================================
