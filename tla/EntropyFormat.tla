---------------------------- MODULE EntropyFormat ---------------------------
(***************************************************************************)
(* How a JPEG XL decoder reads entropy coded streams: the reference the    *)
(* writers of CodeHeaders and AnsCodes are checked against, as far as they *)
(* use the format (no LZ77, no repeated code lengths).  A reader takes the *)
(* bits and a position and gives the value `v` and the position `p` after  *)
(* it.                                                                     *)
(***************************************************************************)
EXTENDS AnsCodes

BitAt(b, i) == IF i <= Len(b) THEN b[i] ELSE 0
Number(b, p, n) ==
  LET low[i \in 0 .. n] == IF i = 0 THEN 0 ELSE low[i - 1] + BitAt(b, p + i) * 2^(i - 1)
  IN  low[n]
Read(b, p, n) == [v |-> Number(b, p, n), p |-> p + n]

(* What is read after r, given its value and the position behind it. *)
Then(r, rest(_, _)) == rest(r.v, r.p)

(* The values of `count` reads, the reader told which one it is. *)
ReadEach(b, p, count, reader(_, _, _)) ==
  LET next(a, i) == LET r == reader(b, a.p, i) IN [v |-> Append(a.v, r.v), p |-> r.p]
  IN  FoldLeft(next, [v |-> <<>>, p |-> p], [i \in 1 .. count |-> i])

ReadVarLen(b, p, width) ==
  IF BitAt(b, p + 1) = 0 THEN [v |-> 0, p |-> p + 1]
  ELSE Then(Read(b, p + 1, width), LAMBDA n, q : [v |-> 2^n + Number(b, q, n), p |-> q + n])

ReadConfig(b, p, logAlpha) ==
  LET config(split, msb, lsb, q) == [v |-> [split |-> split, msb |-> msb, lsb |-> lsb], p |-> q]
  IN  Then(Read(b, p, CeilLog2(logAlpha + 1)), LAMBDA split, q :
        IF split = logAlpha THEN config(split, 0, 0, q)
        ELSE Then(Read(b, q, CeilLog2(split + 1)), LAMBDA msb, r :
               Then(Read(b, r, CeilLog2((split - msb) + 1)), LAMBDA lsb, t :
                 config(split, msb, lsb, t))))

HybridValue(cfg, token, raw) ==
  IF token < 2^cfg.split THEN token
  ELSE LET n    == cfg.split + ((token - 2^cfg.split) \div 2^(cfg.msb + cfg.lsb))
           high == 2^cfg.msb + ((token \div 2^cfg.lsb) % 2^cfg.msb)
       IN  (high * 2^(n - cfg.msb - cfg.lsb) + raw) * 2^cfg.lsb + (token % 2^cfg.lsb)

----------------------------------------------------------------------------
(* Prefix codes: the words of the symbols that have one. *)

(* The canonical code: a shorter word, or the same length and a smaller    *)
(* symbol, takes its share of the code space first.                        *)
CanonicalWords(depth) ==
  LET before(s) == {t \in Used(depth) : depth[t] < depth[s] \/ (depth[t] = depth[s] /\ t < s)}
      start(s)  == SumOver(before(s), LAMBDA t : 2^(15 - depth[t])) \div 2^(15 - depth[s])
  IN  IF Cardinality(Used(depth)) = 1 THEN [s \in Used(depth) |-> <<>>]
      ELSE [s \in Used(depth) |-> CodeWord(depth[s], start(s))]

ReadSymbol(b, p, words) ==
  LET here(s) == \A i \in DOMAIN words[s] : words[s][i] = BitAt(b, p + i)
      symbol(read) == CHOOSE s \in read : TRUE
      ending(read) ==
        IF read = {} THEN [v |-> -1, p |-> p]
        ELSE [v |-> symbol(read), p |-> p + Len(words[symbol(read)])]
  IN  ending({s \in DOMAIN words : here(s)})

ReadSimpleCode(b, p, alphabet) ==
  LET lengths(n, select) ==
        CASE n = 0 -> <<1>> [] n = 1 -> <<1, 1>> [] n = 2 -> <<1, 2, 2>>
          [] OTHER -> IF select THEN <<1, 2, 3, 3>> ELSE <<2, 2, 2, 2>>
      length(at, all) == IF at = {} THEN 0 ELSE all[Min(at)]
      depths(symbols, all) ==
        [s \in 0 .. alphabet - 1 |-> length({i \in DOMAIN symbols : symbols[i] = s}, all)]
  IN  Then(Read(b, p, 2), LAMBDA n, q :
        Then(ReadEach(b, q, n + 1, LAMBDA c, x, i : Read(c, x, BitLength(alphabet - 1))),
             LAMBDA symbols, r :
               [v |-> CanonicalWords(depths(symbols, lengths(n, BitAt(b, r + 1) = 1))),
                p |-> r + IF n = 3 THEN 1 ELSE 0]))

(* Lengths until they fill the code space. *)
ReadLengths(b, p, order, full, reader(_, _)) ==
  LET share(length) == IF length = 0 THEN 0 ELSE full \div 2^length
      next(a, s) ==
        IF a.space = full THEN a
        ELSE Then(reader(b, a.p), LAMBDA l, q :
               [p |-> q, v |-> (s :> l) @@ a.v, space |-> a.space + share(l)])
  IN  FoldLeft(next, [p |-> p, v |-> <<>>, space |-> 0], order)

CodeLengthWords ==
  [l \in 0 .. 5 |-> <<<<0, 0>>, <<1, 1, 1, 0>>, <<1, 1, 0>>, <<0, 1>>, <<1, 0>>, <<1, 1, 1, 1>>>>[l + 1]]

ReadComplexCode(b, p, skip, alphabet) ==
  LET order == <<1, 2, 3, 4, 0, 5, 17, 6, 16, 7, 8, 9, 10, 11, 12, 13, 14, 15>>
      lengths(words, q) ==
        ReadLengths(b, q, Symbols(alphabet), 2^15, LAMBDA c, x : ReadSymbol(c, x, words))
      codeLengths == ReadLengths(b, p, SubSeq(order, skip + 1, 18), 32,
                       LAMBDA c, x : ReadSymbol(c, x, CodeLengthWords))
  IN  Then(Then(codeLengths, LAMBDA depth, q : lengths(CanonicalWords(depth), q)),
           LAMBDA depth, q : [v |-> CanonicalWords(depth), p |-> q])

ReadPrefixCode(b, p, alphabet) ==
  IF alphabet = 1 THEN [v |-> (0 :> <<>>), p |-> p]
  ELSE Then(Read(b, p, 2), LAMBDA kind, q :
         IF kind = 1 THEN ReadSimpleCode(b, q, alphabet) ELSE ReadComplexCode(b, q, kind, alphabet))

(* One prefix code for a single context. *)
ReadOwnCode(b, p) ==
  Then(ReadConfig(b, p + 2, 15), LAMBDA cfg, q :
    Then(ReadVarLen(b, q, 4), LAMBDA size, r :
      Then(ReadPrefixCode(b, r, size + 1), LAMBDA words, t :
        [v |-> [cfg |-> cfg, words |-> words], p |-> t])))

ReadHybrid(b, p, code) ==
  LET raw(s, n, q) == [v |-> HybridValue(code.cfg, s, Number(b, q, n)), p |-> q + n]
  IN  Then(ReadSymbol(b, p, code.words), LAMBDA s, q : raw(s, RawBits(code.cfg, s), q))

----------------------------------------------------------------------------
(* Context maps. *)

InverseMoveToFront(ranks) ==
  LET moved(s, v) ==
        [symbols |-> <<v>> \o SelectSeq(s.symbols, LAMBDA x : x # v), out |-> Append(s.out, v)]
      apply(s, r) == moved(s, s.symbols[r + 1])
  IN  FoldLeft(apply, [symbols |-> Symbols(256), out |-> <<>>], ranks).out

ReadContextMap(b, p, n) ==
  LET simple(width, q) == ReadEach(b, q, n, LAMBDA c, x, i : Read(c, x, width))
      coded(code, q) == ReadEach(b, q, n, LAMBDA c, x, i : ReadHybrid(c, x, code))
      ranked(values) == IF BitAt(b, p + 2) = 1 THEN InverseMoveToFront(values) ELSE values
  IN  IF n = 1 THEN [v |-> <<0>>, p |-> p]
      ELSE IF BitAt(b, p + 1) = 1 THEN Then(Read(b, p + 1, 2), simple)
      ELSE Then(Then(ReadOwnCode(b, p + 2), coded), LAMBDA values, q : [v |-> ranked(values), p |-> q])

----------------------------------------------------------------------------
(* rANS histograms. *)

ReadUnary(b, p, bound) ==
  LET ends(n) == n = bound \/ BitAt(b, p + n + 1) = 0
      ending(n) == [v |-> n, p |-> p + n + IF n = bound THEN 0 ELSE 1]
  IN  ending(Min({n \in 0 .. bound : ends(n)}))

LogCountWords ==
  [l \in 0 .. RleSymbol |->
     LET i == IF l = RleSymbol THEN 14 ELSE l + 1
     IN  <<<<1, 0, 0, 0, 1>>, <<1, 1, 0, 1>>, <<1, 1, 1, 1>>, <<1, 1, 0, 0>>, <<1, 0, 0, 1>>,
           <<1, 1, 1, 0>>, <<0, 0, 1>>, <<0, 1, 0>>, <<1, 0, 1>>, <<0, 1, 1>>, <<0, 0, 0>>,
           <<1, 0, 0, 0, 0, 1>>, <<1, 0, 0, 0, 0, 0, 0>>, <<1, 0, 0, 0, 0, 0, 1>>>>[i]]

(* The log-counts, and for a symbol that starts a run its length. *)
ReadLogCounts(b, p, length) ==
  LET run(a, i, n, q) == [a EXCEPT !.p = q, !.next = i + n, !.run = (i :> n) @@ @]
      one(a, i, s, q) == [a EXCEPT !.p = q, !.next = i + 1, !.log = (i :> s) @@ @]
      next(a, i) ==
        IF i < a.next THEN a
        ELSE Then(ReadSymbol(b, a.p, LogCountWords), LAMBDA s, q :
               IF s # RleSymbol THEN one(a, i, s, q)
               ELSE Then(ReadVarLen(b, q, 3), LAMBDA n, r : run(a, i, n + 4, r)))
  IN  FoldLeft(next, [p |-> p, next |-> 0, log |-> <<>>, run |-> <<>>], Symbols(length))

(* The counts of the symbols but `omit`, which has what the others leave. *)
ReadCounts(b, logs, length, shift, omit) ==
  LET repeated(counts, i) ==
        [x \in i .. i + logs.run[i] - 1 |-> IF i - 1 \in DOMAIN counts THEN counts[i - 1] ELSE 0]
      count(a, i, l, n) ==
        [counts |-> (i :> (2^n + Number(b, a.p, n)) * 2^(l - 1 - n)) @@ a.counts, p |-> a.p + n]
      next(a, i) ==
        IF i \in DOMAIN a.counts \/ i = omit THEN a
        ELSE IF i \in DOMAIN logs.run THEN [a EXCEPT !.counts = repeated(@, i) @@ @]
        ELSE IF logs.log[i] <= 1 THEN [a EXCEPT !.counts = (i :> logs.log[i]) @@ @]
        ELSE count(a, i, logs.log[i], PopulationCountPrecision(logs.log[i] - 1, shift))
      rest(counts) == (omit :> TabSize - SumOver(DOMAIN counts, LAMBDA i : counts[i])) @@ counts
      ending(read) == [v |-> rest(read.counts), p |-> read.p]
  IN  ending(FoldLeft(next, [counts |-> <<>>, p |-> logs.p], Symbols(length)))

ReadGeneralCounts(b, p) ==
  LET deepest(log) == Min({i \in DOMAIN log : \A j \in DOMAIN log : log[j] <= log[i]})
      counts(logs, length, shift) == ReadCounts(b, logs, length, shift, deepest(logs.log))
  IN  Then(ReadUnary(b, p, FloorLog2(AnsLogTabSize + 1)), LAMBDA k, q :
        Then(ReadVarLen(b, q + k, 3), LAMBDA size, r :
          counts(ReadLogCounts(b, r, size + 3), size + 3, 2^k + Number(b, q, k) - 1)))

ReadAnsHistogram(b, p) ==
  LET two == BitAt(b, p + 2) = 1
      one(symbol, q) == [v |-> (symbol :> TabSize), p |-> q]
      pair(first, q) ==
        Then(ReadVarLen(b, q, 3), LAMBDA second, r :
          Then(Read(b, r, AnsLogTabSize), LAMBDA weight, t :
            [v |-> (first :> weight) @@ (second :> TabSize - weight), p |-> t]))
      flat(last, q) == [v |-> FlatCounts(last + 1), p |-> q]
  IN  IF BitAt(b, p + 1) = 1
      THEN Then(ReadVarLen(b, p + 2, 3), LAMBDA s, q : IF two THEN pair(s, q) ELSE one(s, q))
      ELSE IF two THEN Then(ReadVarLen(b, p + 2, 3), flat)
      ELSE ReadGeneralCounts(b, p + 2)

----------------------------------------------------------------------------
(* A set of histograms for n contexts. *)
ReadHistograms(b, p, n) ==
  LET set(map, prefix, logAlpha, cfgs, codes, q) ==
        [map |-> map, prefix |-> prefix, logAlpha |-> logAlpha, cfgs |-> cfgs, codes |-> codes, p |-> q]
      prefixCodes(clusters, q) ==
        Then(ReadEach(b, q, clusters, LAMBDA c, x, i : ReadVarLen(c, x, 4)), LAMBDA sizes, r :
          ReadEach(b, r, clusters, LAMBDA c, x, i : ReadPrefixCode(c, x, sizes[i] + 1)))
      ansCodes(clusters, q) == ReadEach(b, q, clusters, LAMBDA c, x, i : ReadAnsHistogram(c, x))
      codesOf(clusters, prefix, q) ==
        IF prefix THEN prefixCodes(clusters, q) ELSE ansCodes(clusters, q)
      coded(map, clusters, prefix, logAlpha, q) ==
        Then(ReadEach(b, q, clusters, LAMBDA c, x, i : ReadConfig(c, x, logAlpha)), LAMBDA cfgs, r :
          Then(codesOf(clusters, prefix, r), LAMBDA codes, t :
            set(map, prefix, logAlpha, cfgs, codes, t)))
      mapped(map, q) ==
        Then(Read(b, q, 1), LAMBDA prefix, r :
          Then(Read(b, r, IF prefix = 1 THEN 0 ELSE 2), LAMBDA alpha, t :
            coded(map, Max(Range(map)) + 1, prefix = 1,
                  IF prefix = 1 THEN 15 ELSE MinLogAlpha + alpha, t)))
  IN  Then(ReadContextMap(b, p + 1, n), mapped)
=============================================================================
