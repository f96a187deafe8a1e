------------------------------ MODULE AnsCodes ------------------------------
(***************************************************************************)
(* rANS histograms (src/src/bitstream/ans.cc): a histogram normalized to   *)
(* the size of the decoder's table, its description, and the map from a    *)
(* symbol's occurrences to the decoder's slots.                            *)
(*                                                                         *)
(* The normalization scales with floats; the fractions here are exact.     *)
(* Which method of description is taken is left open among those that      *)
(* work: the code picks by an estimate of the cost whose rounding it calls *)
(* dependent on the compiler.                                              *)
(***************************************************************************)
EXTENDS CodeHeaders

CONSTANTS
  AnsLogTabSize,   (* ANS_LOG_TAB_SIZE                                     *)
  MinLogAlpha      (* the smallest log_alpha_size that can be signalled    *)

ASSUME AnsAssumption ==
  /\ MinLogAlpha \in Nat \ {0} /\ AnsLogTabSize \in MinLogAlpha .. 12

TabSize == 2^AnsLogTabSize
MinRleReps == 4

PopulationCountPrecision(logcount, shift) ==
  Greatest(0, Least(logcount, shift - ((AnsLogTabSize - logcount) \div 2)))

SmallestIncrement(count, shift) ==
  IF count = 0 THEN 1
  ELSE 2^(FloorLog2(count) - PopulationCountPrecision(FloorLog2(count), shift))

Total(h) == SumOver(DOMAIN h, LAMBDA s : h[s])

(* The counts scaled to TabSize.  Those below one become one, the others   *)
(* share what is left, each rounded to a count the description can hold:   *)
(* to the nearest, or to the one that keeps the sum closest to what it     *)
(* should be.  The largest takes the remainder.                            *)
RebalanceHistogram(h, shift, minimizeErrorOfSum) ==
  LET total  == Total(h)
      small  == {s \in Used(h) : TabSize * h[s] < total}
      ones   == Cardinality(small)
      weight == SumOver(small, LAMBDA s : h[s])
      share(s) == Greatest(1, Least((h[s] * (TabSize - ones)) \div (total - weight), TabSize - 1))
      target(a, s) == IF minimizeErrorOfSum
                      THEN ((TabSize * (a.weight + h[s])) \div total) - a.sum
                      ELSE (TabSize * h[s]) \div total
      rounded(floor, inc, aim) ==
        IF floor = 0 \/ (aim >= floor + (inc \div 2) /\ floor + inc < TabSize)
        THEN floor + inc ELSE floor
      near(count, inc, aim) == rounded(count - (count % inc), inc, aim)
      keep(a, s, kept) ==
        [weight |-> a.weight + h[s], sum |-> a.sum + kept,
         counts |-> [a.counts EXCEPT ![s] = kept],
         pos |-> IF FloorLog2(kept) > a.log THEN s ELSE a.pos,
         log |-> Greatest(a.log, FloorLog2(kept))]
      round(a, s) ==
        IF s \in small \/ h[s] = 0 THEN a
        ELSE keep(a, s, near(share(s), SmallestIncrement(share(s), shift), target(a, s)))
      start == [weight |-> weight, sum |-> ones, pos |-> 0, log |-> -1,
                counts |-> [s \in DOMAIN h |-> IF s \in small THEN 1 ELSE 0]]
      filled(end) ==
        LET rest == end.counts[end.pos] - (end.sum - TabSize)
        IN  [ok |-> rest > 0, counts |-> [end.counts EXCEPT ![end.pos] = rest],
             omit_pos |-> end.pos]
  IN  IF ones >= TabSize THEN [ok |-> FALSE, counts |-> start.counts, omit_pos |-> 0]
      ELSE filled(FoldLeft(round, start, Symbols(Cardinality(DOMAIN h))))

NormalizeCounts(h, shift) ==
  LET preferred(nearest) == IF nearest.ok THEN nearest ELSE RebalanceHistogram(h, shift, TRUE)
  IN  IF Cardinality(Used(h)) = 1
      THEN [ok |-> TRUE, counts |-> [s \in DOMAIN h |-> IF h[s] = 0 THEN 0 ELSE TabSize],
            omit_pos |-> 0]
      ELSE preferred(RebalanceHistogram(h, shift, FALSE))

----------------------------------------------------------------------------
(* The description.                                                        *)

StoreVarLenUint8(n) ==
  IF n = 0 THEN <<0>>
  ELSE <<1>> \o Bits(3, FloorLog2(n)) \o Bits(FloorLog2(n), n - 2^FloorLog2(n))

(* The static code of the log-counts; its last symbol starts a run. *)
RleSymbol == AnsLogTabSize + 1
LogCountBits(l) ==
  LET i == IF l = RleSymbol THEN 14 ELSE l + 1
  IN  Bits(<<5, 4, 4, 4, 4, 4, 3, 3, 3, 3, 3, 6, 7, 7>>[i],
           <<17, 11, 15, 3, 9, 7, 4, 2, 5, 6, 0, 33, 1, 65>>[i])

(* Bug: a run may cross the count that is left out. *)
RunLengths_AcrossOmitted(counts, omitPos) ==
  LET n == Cardinality(DOMAIN counts)
      look(a, k) ==
        LET i == k + 1
        IN  IF counts[i] # counts[a.last] \/ i + 1 = n \/ i - a.last >= 255
            THEN [last |-> i + 1, same |-> [a.same EXCEPT ![a.last] = i - a.last]]
            ELSE a
  IN  FoldLeft(look, [last |-> 0, same |-> [s \in DOMAIN counts |-> 0]], Symbols(n - 1)).same

(* Runs of equal counts, by their first symbol.  A run stops before the    *)
(* count that is left out, and does not start with it or end the alphabet. *)
RunLengths(counts, omitPos) ==
  LET n == Cardinality(DOMAIN counts)
      look(a, k) ==
        LET i == k + 1
        IN  IF \/ counts[i] # counts[a.last] \/ i + 1 = n \/ i - a.last >= 255
               \/ i = omitPos \/ i = omitPos + 1
            THEN [last |-> i + 1, same |-> [a.same EXCEPT ![a.last] = i - a.last]]
            ELSE a
  IN  FoldLeft(look, [last |-> 0, same |-> [s \in DOMAIN counts |-> 0]], Symbols(n - 1)).same

(* The log-counts; the one left out is made the first of the largest. *)
LogCounts(counts, omitPos) ==
  LET log(s) == IF counts[s] > 0 THEN FloorLog2(counts[s]) + 1 ELSE 0
      others == Used(counts) \ {omitPos}
  IN  [s \in DOMAIN counts |->
        IF s # omitPos THEN log(s)
        ELSE Max({0} \cup {IF t < omitPos THEN log(t) + 1 ELSE log(t) : t \in others})]

(* Elias-gamma, without the end of the unary part when it is at its bound. *)
ShiftBits(shift) ==
  LET log == FloorLog2(shift + 1)
  IN  Bits(log, 2^log - 1)
        \o (IF log # FloorLog2(AnsLogTabSize + 1) THEN <<0>> ELSE <<>>)
        \o Bits(log, (shift + 1) % 2^log)

(* A symbol at a time, a run after its first symbol all at once. *)
ByRuns(same, length, run(_), single(_)) ==
  LET emit(a, i) ==
        IF i < a.next THEN a
        ELSE IF i > 0 /\ same[i - 1] > MinRleReps
        THEN [next |-> i + same[i - 1] - 1, bits |-> a.bits \o run(same[i - 1])]
        ELSE [next |-> i + 1, bits |-> a.bits \o single(i)]
  IN  FoldLeft(emit, [next |-> 0, bits |-> <<>>], Symbols(length)).bits

EncodeCounts(counts, omitPos, shift) ==
  LET symbols == UsedInOrder(counts)
      same    == RunLengths(counts, omitPos)
      logs    == LogCounts(counts, omitPos)
      length  == Max(Used(counts) \cup {omitPos}) + 1
      mantissa(i) ==
        IF logs[i] <= 1 \/ i = omitPos THEN <<>>
        ELSE LET n == PopulationCountPrecision(logs[i] - 1, shift)
             IN  Bits(n, (counts[i] \div 2^(logs[i] - 1 - n)) - 2^n)
  IN  IF Len(symbols) <= 2
      THEN <<1>> \o Bits(1, Len(symbols) - 1)
             \o FlattenSeq([i \in DOMAIN symbols |-> StoreVarLenUint8(symbols[i])])
             \o IF Len(symbols) = 2 THEN Bits(AnsLogTabSize, counts[symbols[1]]) ELSE <<>>
      ELSE <<0, 0>> \o ShiftBits(shift) \o StoreVarLenUint8(length - 3)
             \o ByRuns(same, length,
                  LAMBDA n : LogCountBits(RleSymbol) \o StoreVarLenUint8(n - MinRleReps - 1),
                  LAMBDA i : LogCountBits(logs[i]))
             \o ByRuns(same, length, LAMBDA n : <<>>, mantissa)

FlatCounts(n) == [s \in 0 .. n - 1 |-> (TabSize \div n) + IF s < TabSize % n THEN 1 ELSE 0]

EncodeFlatHistogram(n) == <<0, 1>> \o StoreVarLenUint8(n - 1)

(* Method 0 is the flat histogram, method m the counts at shift m - 1. *)
Methods(h) ==
  {0} \cup {shift + 1 : shift \in {e \in 0 .. AnsLogTabSize :
                                     e % 2 = 0 /\ NormalizeCounts(h, e).ok}}

----------------------------------------------------------------------------
(* The alias table: an entry's slots below `cutoff` belong to its own      *)
(* symbol, the others to `right`, whose occurrences there start at `offset`*)
(* plus the position of the slot.                                          *)

SpreadOverfull(entrySize, cutoffs) ==
  LET n == Cardinality(DOMAIN cutoffs)
      spread(a, k) ==
        IF a.over = <<>> THEN a
        ELSE LET over  == Last(a.over)
                 under == Last(a.under)
                 left  == a.cutoff[over] - (entrySize - a.cutoff[under])
             IN  [cutoff |-> [a.cutoff EXCEPT ![over] = left],
                  right  |-> [a.right EXCEPT ![under] = over],
                  offset |-> [a.offset EXCEPT ![under] = left],
                  under  |-> Front(a.under) \o IF left < entrySize THEN <<over>> ELSE <<>>,
                  over   |-> Front(a.over) \o IF left > entrySize THEN <<over>> ELSE <<>>]
  IN  FoldLeft(spread,
        [cutoff |-> cutoffs, right |-> [s \in DOMAIN cutoffs |-> 0],
         offset |-> [s \in DOMAIN cutoffs |-> 0],
         under |-> SelectSeq(Symbols(n), LAMBDA s : cutoffs[s] < entrySize),
         over  |-> SelectSeq(Symbols(n), LAMBDA s : cutoffs[s] > entrySize)],
        Symbols(n))

AliasEntries(counts, logAlpha) ==
  LET entrySize == 2^(AnsLogTabSize - logAlpha)
      all       == {s \in DOMAIN counts : counts[s] = TabSize}
      spread    == SpreadOverfull(entrySize, Tabulated([s \in 0 .. 2^logAlpha - 1 |->
                     IF s \in DOMAIN counts THEN counts[s] ELSE 0]))
  IN  [s \in 0 .. 2^logAlpha - 1 |->
        IF all # {}
        THEN [cutoff |-> 0, right |-> CHOOSE x \in all : TRUE, offset |-> entrySize * s]
        ELSE IF spread.cutoff[s] = entrySize THEN [cutoff |-> 0, right |-> s, offset |-> 0]
        ELSE [cutoff |-> spread.cutoff[s], right |-> spread.right[s],
              offset |-> spread.offset[s] - spread.cutoff[s]]]

(* The symbol of a decoder slot and which of its occurrences it is. *)
SlotOf(entries, logAlpha, value) ==
  LET entrySize == 2^(AnsLogTabSize - logAlpha)
      own == value \div entrySize
      pos == value % entrySize
      e   == entries[own]
  IN  IF pos >= e.cutoff THEN [symbol |-> e.right, slot |-> e.offset + pos]
      ELSE [symbol |-> own, slot |-> pos]

BuildReverseMap(counts, logAlpha) ==
  LET entries == Tabulated(AliasEntries(counts, logAlpha))
      offset  == [s \in DOMAIN counts |-> SumOver({t \in DOMAIN counts : t < s}, LAMBDA t : counts[t])]
      slots   == Tabulated([v \in 0 .. TabSize - 1 |-> SlotOf(entries, logAlpha, v)])
  IN  [freq |-> counts, offset |-> offset,
       reverse |-> [i \in 0 .. TabSize - 1 |->
          CHOOSE v \in 0 .. TabSize - 1 : offset[slots[v].symbol] + slots[v].slot = i]]

(* A histogram's description by a method, and the encoder's tables. *)
WriteAnsHistogram(hist, method, logAlpha) ==
  LET n    == Cardinality(DOMAIN hist)
      h    == IF Used(hist) = {} THEN [hist EXCEPT ![0] = TabSize] ELSE hist
      normalized(norm) ==
        [table |-> BuildReverseMap(norm.counts, logAlpha),
         bits  |-> EncodeCounts(norm.counts, norm.omit_pos, method - 1)]
  IN  IF method = 0
      THEN [table |-> BuildReverseMap(FlatCounts(n), logAlpha), bits |-> EncodeFlatHistogram(n)]
      ELSE normalized(NormalizeCounts(h, method - 1))
=============================================================================
