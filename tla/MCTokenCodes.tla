---------------------------- MODULE MCTokenCodes ----------------------------
(* Instances of TokenCodes for TLC. *)
EXTENDS TokenCodes

MCTokenConfig == [split |-> 2, msb |-> 1, lsb |-> 0]
MCOrderSides == <<[size |-> 4, skip |-> 1, bit |-> 0], [size |-> 16, skip |-> 4, bit |-> 2]>>

Counts(list) == [s \in 0 .. Len(list) - 1 |-> list[s + 1]]
NaturalOrder(size) == [x \in 0 .. size - 1 |-> 0]
NaturalOrders == <<[c \in 1 .. 3 |-> NaturalOrder(4)], [c \in 1 .. 3 |-> NaturalOrder(16)]>>
SomeOrders ==
  <<[c \in 1 .. 3 |-> NaturalOrder(4)],
    <<NaturalOrder(16), [NaturalOrder(16) EXCEPT ![4] = 2, ![7] = 1],
      [NaturalOrder(16) EXCEPT ![15] = 0, ![5] = 9, ![6] = 3, ![7] = 1, ![8] = 1]>>>>
AllOrders ==
  <<<<[NaturalOrder(4) EXCEPT ![1] = 2], NaturalOrder(4), [NaturalOrder(4) EXCEPT ![2] = 1]>>,
    [c \in 1 .. 3 |-> [x \in 0 .. 15 |-> IF x < 4 THEN 0 ELSE (15 - x) % (c + 2)]]>>

(* A frame whose interest is its DC codes, and one for its AC codes. *)
DcFrame(dc, meta, blocks, count, scale, quant_dc, sizes) ==
  [dc |-> Counts(dc), meta |-> Counts(meta), blocks |-> blocks, count |-> count,
   scale |-> scale, quant_dc |-> quant_dc, sizes |-> sizes, alphabet |-> 4,
   map |-> <<0, 0>>, streams |-> <<<<>>>>, orders |-> NaturalOrders]

AcFrame(map, streams, orders, alphabet) ==
  [dc |-> Counts(<<1>>), meta |-> Counts(<<0, 1>>), blocks |-> 1, count |-> 1,
   scale |-> 1, quant_dc |-> 16, sizes |-> <<0>>, alphabet |-> alphabet,
   map |-> map, streams |-> streams, orders |-> orders]

Fibonacci == <<1, 1, 2, 3, 5, 8, 13, 21, 34, 55, 89, 144, 233, 377, 610, 987, 1597, 2584, 4181>>

MCDcFrames ==
  {DcFrame(h, <<h[1], 1, h[2]>>, 5, 2, 2049, 1, <<1023, 1024, 17408>>) :
     h \in UNION {[1 .. n -> 0 .. 2] : n \in 2 .. 5}}
    \cup {DcFrame(<<1, 2, 1>> \o h, h, 16, 16, 4096, 33, <<>>) : h \in [1 .. 4 -> {0, 1, 5}]}
    \cup {DcFrame(Fibonacci, <<0, 0, 1, 0, 0, 2, 3, 1, 1, 9, 0, 1>>, 1, 1, 8193, 257, <<17407, 70000>>),
          DcFrame(<<1, 1, 1, 1, 1, 1, 1, 1>>, [i \in 1 .. 16 |-> i * i], 9, 4, 73728, 65536, <<1>>)}

Ones(context, values) == [j \in DOMAIN values |-> <<context, values[j]>>]

(* All tokens of a frame in one context; streams of several contexts, one  *)
(* of them empty; streams that end at the end of a word; runs of equal     *)
(* counts; counts that scaled to the nearest would exceed the table; long  *)
(* context maps; clusters of one symbol each, too many for a simple map.   *)
Wide == [j \in 1 .. 36 |-> IF j <= 12 THEN j - 1 ELSE IF j <= 30 THEN 500 ELSE j - 24]
Even(n, symbols) ==
  LET value == <<0, 1, 2, 3, 4, 6, 8, 12, 16, 24, 32>>
  IN  [j \in 1 .. n |-> value[1 + (j % symbols)]]
InTurns   == [x \in 1 .. 60 |-> IF x <= 20 THEN 0 ELSE IF x <= 45 THEN 1 ELSE 2]
Scattered == [x \in 1 .. 60 |-> IF x = 31 THEN 2 ELSE IF x % 7 = 0 THEN 1 ELSE 0]

MCAcFrames ==
  {AcFrame(<<0, 0>>, <<Ones(0, v)>>, NaturalOrders, 12) :
     v \in UNION {[1 .. n -> {0, 1, 5}] : n \in 0 .. 5}}
    \cup {AcFrame(<<0, 1>>, <<Ones(0, v), <<>>, Ones(1, <<3, 9, 3>>)>>, SomeOrders, 12) :
            v \in [1 .. 3 -> {0, 12}]}
    \cup {AcFrame(<<0, 0>>, <<Ones(0, [j \in 1 .. n |-> 600 + j])>>, NaturalOrders, 20) : n \in {3, 6}}
    \cup {AcFrame(<<0, 1>>, <<Ones(0, <<33, 40, 47>>), Ones(1, <<0, 1, 0, 1, 1>>)>>, SomeOrders, 12),
          AcFrame(<<0, 0>>, <<Ones(0, Even(32, 11))>>, NaturalOrders, 12),
          AcFrame(<<0, 0>>, <<Ones(1, Even(16, 8))>>, NaturalOrders, 12),
          AcFrame(<<0, 1, 0>>, <<Ones(0, Wide), Ones(2, <<6, 500, 1000>>), Ones(1, Wide)>>,
                  AllOrders, 20),
          AcFrame(InTurns, <<Ones(0, <<7, 1, 7, 1, 2>>), Ones(59, <<90, 0>>)>>, AllOrders, 16),
          AcFrame(Scattered, <<Ones(6, <<1, 8, 1, 1>>), Ones(30, <<4>>), Ones(3, <<2, 2>>)>>,
                  SomeOrders, 8),
          AcFrame([x \in 1 .. 10 |-> x - 1], <<[x \in 1 .. 10 |-> <<x - 1, 3 * x>>], <<>>>>,
                  SomeOrders, 12)}

MCFrames == MCDcFrames \cup MCAcFrames
=============================================================================
