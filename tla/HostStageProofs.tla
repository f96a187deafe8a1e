-------------------------- MODULE HostStageProofs --------------------------
(* Theorems about HostStage, for every number of threads, groups, batches, *)
(* lanes and clusters, and all numbers of tokens and sizes of the groups.  *)
(* First come facts about the operators HostStage is built from: the       *)
(* offsets of the groups in the file, the groups of a batch, and the order *)
(* in which the groups of a batch are coded.                               *)
EXTENDS HostStage, FunctionTheorems, FiniteSetTheorems, WellFoundedInduction,
        TLAPS

(* The least-number principle.  Induction on a number n is the application *)
(* of this lemma to the set of the counterexamples.                        *)
LEMMA Least ==
  ASSUME NEW S, S \subseteq Nat, S # {}
  PROVE  \E m \in S : \A n \in S : m <= n
<1>1. PICK m \in S : \A n \in S : ~ (<<n, m>> \in OpToRel(<, Nat))
  BY NatLessThanWellFounded, WFMin
<1>2. \A n \in S : ~ (n < m)
  BY <1>1 DEF OpToRel
<1> QED BY <1>2

(* The first m numbers are among the first n, if m is at most n. *)
LEMMA FirstOfMore ==
  ASSUME NEW m \in Nat, NEW n \in Nat, m <= n
  PROVE  0 .. m - 1 \subseteq 0 .. n - 1
OBVIOUS

(* Counting up keeps a function to the naturals one. *)
LEMMA Incremented ==
  ASSUME NEW S, NEW f \in [S -> Nat], NEW x
  PROVE  [f EXCEPT ![x] = @ + 1] \in [S -> Nat]
<1>1. \A y \in S : [f EXCEPT ![x] = @ + 1][y] \in Nat
  OBVIOUS
<1> QED BY <1>1
---------------------------------------------------------------------------
(* SizeBefore.                                                             *)

(* The function f sums the sizes of the first n groups. *)
Sums(f, n) == /\ f \in [0 .. n -> Nat]
              /\ f[0] = 0
              /\ \A i \in 1 .. n : f[i] = f[i - 1] + Size[i - 1]

(* The sums of the first sizes exist, up to the number of groups. *)
LEMMA SumsExist ==
  \A n \in 0 .. NumAc : \E f : Sums(f, n)
<1> DEFINE Bad == {n \in 0 .. NumAc : ~ \E f : Sums(f, n)}
<1>1. SUFFICES ASSUME Bad # {} PROVE FALSE
  OBVIOUS
<1>2. Bad \subseteq Nat
  BY CountsAssumption
<1>3. PICK m \in Bad : \A n \in Bad : m <= n
  BY <1>1, <1>2, Least
<1>4. m # 0
  <2>1. Sums([i \in 0 .. 0 |-> 0], 0)
    BY DEF Sums
  <2> QED BY <2>1
<1>5. m - 1 \in 0 .. NumAc /\ m - 1 \notin Bad
  BY <1>3, <1>4, CountsAssumption
<1>6. PICK f : Sums(f, m - 1)
  BY <1>5
<1>7. m \in Nat /\ m >= 1 /\ Size[m - 1] \in Nat
  BY <1>3, <1>4, CountsAssumption, GroupsAssumption DEF Group
<1> DEFINE longer == [i \in 0 .. m |-> IF i = m THEN f[m - 1] + Size[m - 1] ELSE f[i]]
<1>8. longer \in [0 .. m -> Nat] /\ longer[0] = 0
  BY <1>6, <1>7 DEF Sums
<1>9. ASSUME NEW i \in 1 .. m PROVE longer[i] = longer[i - 1] + Size[i - 1]
  BY <1>6, <1>7 DEF Sums
<1>10. Sums(longer, m)
  BY <1>8, <1>9 DEF Sums
<1> QED BY <1>3, <1>10

(* SizeBefore is what its definition says: the running sum of the sizes.   *)
LEMMA SizeBeforeIsSum ==
  /\ SizeBefore \in [0 .. NumAc -> Nat]
  /\ SizeBefore[0] = 0
  /\ \A g \in Group : SizeBefore[g + 1] = SizeBefore[g] + Size[g]
<1> DEFINE Equation(f) ==
      f = [g \in 0 .. NumAc |-> IF g = 0 THEN 0 ELSE f[g - 1] + Size[g - 1]]
<1>1. PICK f : Sums(f, NumAc)
  BY SumsExist, CountsAssumption
<1>2. Equation(f)
  BY <1>1, CountsAssumption DEF Sums
<1>3. SizeBefore = CHOOSE s : Equation(s)
  BY Zenon DEF SizeBefore
<1>4. Equation(SizeBefore)
  BY <1>2, <1>3, Zenon
<1> DEFINE Untyped == {n \in 0 .. NumAc : SizeBefore[n] \notin Nat}
<1>5. Untyped = {}
  <2>1. SUFFICES ASSUME Untyped # {} PROVE FALSE
    OBVIOUS
  <2>2. Untyped \subseteq Nat
    BY CountsAssumption
  <2>3. PICK m \in Untyped : \A n \in Untyped : m <= n
    BY <2>1, <2>2, Least
  <2>4. m # 0
    BY <1>4, CountsAssumption
  <2>5. m - 1 \in 0 .. NumAc /\ SizeBefore[m - 1] \in Nat /\ Size[m - 1] \in Nat
    BY <2>3, <2>4, CountsAssumption, GroupsAssumption DEF Group
  <2>6. SizeBefore[m] = SizeBefore[m - 1] + Size[m - 1]
    BY <1>4, <2>3, <2>4
  <2> QED BY <2>3, <2>5, <2>6
<1>6. SizeBefore \in [0 .. NumAc -> Nat]
  BY <1>4, <1>5
<1>7. SizeBefore[0] = 0
  BY <1>4, CountsAssumption
<1>8. \A g \in Group : SizeBefore[g + 1] = SizeBefore[g] + Size[g]
  BY <1>4, CountsAssumption DEF Group
<1> QED BY <1>6, <1>7, <1>8

(* A group's bytes begin where those of the groups before it end. *)
LEMMA GroupSize ==
  ASSUME NEW g \in Group
  PROVE  /\ g \in 0 .. NumAc /\ g + 1 \in 0 .. NumAc
         /\ SizeBefore[g] \in Nat /\ Size[g] \in Nat /\ SizeBefore[NumAc] \in Nat
         /\ SizeBefore[g + 1] = SizeBefore[g] + Size[g]
BY SizeBeforeIsSum, CountsAssumption, GroupsAssumption DEF Group

(* Groups further back begin further back. *)
LEMMA SizeBeforeGrows ==
  ASSUME NEW g \in 0 .. NumAc, NEW h \in g .. NumAc
  PROVE  SizeBefore[g] <= SizeBefore[h]
<1> DEFINE Bad == {n \in g .. NumAc : SizeBefore[g] > SizeBefore[n]}
<1>1. SUFFICES ASSUME Bad # {} PROVE FALSE
  BY CountsAssumption, SizeBeforeIsSum
<1>2. Bad \subseteq Nat
  BY CountsAssumption
<1>3. PICK m \in Bad : \A n \in Bad : m <= n
  BY <1>1, <1>2, Least
<1>4. m # g
  BY <1>3, SizeBeforeIsSum, CountsAssumption
<1>5. m - 1 \in g .. NumAc /\ m - 1 \notin Bad /\ m - 1 \in Group
  BY <1>3, <1>4, CountsAssumption DEF Group
<1>6. SizeBefore[m] = SizeBefore[m - 1] + Size[m - 1]
  BY <1>5, SizeBeforeIsSum
<1> QED BY <1>3, <1>5, <1>6, SizeBeforeIsSum, GroupsAssumption, CountsAssumption

(* The file is as long as its fixed part, or longer. *)
LEMMA FileSizeNat == FileSize \in Nat /\ FileSize >= FixedSize
BY SizeBeforeIsSum, CountsAssumption DEF FileSize

(* The groups' bytes follow the head of the file, end before the file      *)
(* does, and do not overlap.                                               *)
Bytes(g) == FixedSize + SizeBefore[g] .. FixedSize + SizeBefore[g] + Size[g] - 1

(* A group's bytes are in the file, behind the fixed part. *)
LEMMA BytesInFile ==
  ASSUME NEW g \in Group, NEW i \in Bytes(g)
  PROVE  i \in Int /\ FixedSize <= i /\ i < FileSize
<1>1. SizeBefore[g + 1] <= SizeBefore[NumAc]
  <2>1. g + 1 \in 0 .. NumAc /\ NumAc \in g + 1 .. NumAc
    BY CountsAssumption DEF Group
  <2> QED BY <2>1, SizeBeforeGrows
<1> QED BY <1>1, GroupSize, CountsAssumption DEF Bytes, FileSize

(* Two groups share no byte. *)
LEMMA BytesDisjoint ==
  ASSUME NEW g \in Group, NEW h \in Group, NEW i \in Bytes(g), i \in Bytes(h)
  PROVE  g = h
<1>1. ASSUME NEW a \in Group, NEW b \in Group, a < b, i \in Bytes(a), i \in Bytes(b)
      PROVE  FALSE
  <2>1. SizeBefore[a + 1] <= SizeBefore[b]
    <3>1. a + 1 \in 0 .. NumAc /\ b \in a + 1 .. NumAc
      BY <1>1, CountsAssumption DEF Group
    <3> QED BY <3>1, SizeBeforeGrows
  <2> QED BY <1>1, <2>1, GroupSize, CountsAssumption DEF Bytes
<1> QED BY <1>1, CountsAssumption DEF Group

(* Every byte between the head and the end of the file is some group's.    *)
LEMMA BytesCover ==
  ASSUME NEW i \in Nat, FixedSize <= i, i < FileSize
  PROVE  \E g \in Group : i - FixedSize \in SizeBefore[g] .. SizeBefore[g + 1] - 1
<1> DEFINE Past == {n \in 0 .. NumAc : SizeBefore[n] > i - FixedSize}
<1>1. NumAc \in Past /\ Past \subseteq Nat
  BY CountsAssumption, SizeBeforeIsSum DEF FileSize
<1>2. PICK m \in Past : \A n \in Past : m <= n
  BY <1>1, Least
<1>3. m # 0
  BY <1>2, SizeBeforeIsSum, CountsAssumption
<1>4. m - 1 \in Group /\ m - 1 \notin Past /\ m - 1 \in 0 .. NumAc
  BY <1>2, <1>3, CountsAssumption DEF Group
<1>5. m - 1 + 1 = m
  BY <1>1, <1>2
<1>6. SizeBefore[m] > i - FixedSize /\ SizeBefore[m - 1] <= i - FixedSize
  <2>1. SizeBefore[m - 1] \in Nat
    BY <1>4, SizeBeforeIsSum
  <2> QED BY <1>2, <1>4, <2>1, CountsAssumption
<1>7. SizeBefore[m] \in Nat /\ SizeBefore[m - 1] \in Nat
  BY <1>2, <1>4, SizeBeforeIsSum
<1>8. i - FixedSize \in SizeBefore[m - 1] .. SizeBefore[m] - 1
  BY <1>6, <1>7, CountsAssumption
<1> QED BY <1>4, <1>5, <1>8
---------------------------------------------------------------------------
(* batch_begin.                                                            *)

(* The batches begin in order, from the first group to the last. *)
LEMMA BatchBegin ==
  /\ batch_begin(0) = 0
  /\ batch_begin(Batches) = NumAc
  /\ \A b \in 0 .. Batches : batch_begin(b) \in 0 .. NumAc
  /\ \A b, c \in 0 .. Batches : b <= c => batch_begin(b) <= batch_begin(c)
<1>1. ASSUME NEW b \in 0 .. Batches, NEW c \in 0 .. Batches, b <= c
      PROVE  batch_begin(b) <= batch_begin(c) /\ batch_begin(b) \in Nat
  <2>1. b \in Nat /\ c \in Nat /\ NumAc \in Nat /\ Batches \in Nat \ {0}
    BY CountsAssumption
  <2>2. b * NumAc \in Nat /\ c * NumAc \in Nat /\ b * NumAc <= c * NumAc
    BY <1>1, <2>1
  <2> HIDE DEF batch_begin
  <2>3. \A x, y \in Nat : x <= y => x \div Batches <= y \div Batches
                                      /\ x \div Batches \in Nat
    BY <2>1
  <2> QED BY <2>2, <2>3 DEF batch_begin
<1>2. batch_begin(0) = 0
  BY CountsAssumption DEF batch_begin
<1>3. batch_begin(Batches) = NumAc
  BY CountsAssumption DEF batch_begin
<1>4. \A b \in 0 .. Batches : b <= Batches /\ Batches \in 0 .. Batches
  BY CountsAssumption
<1>5. \A b \in 0 .. Batches : batch_begin(b) \in 0 .. NumAc
  BY <1>1, <1>3, <1>4, CountsAssumption
<1> QED BY <1>1, <1>2, <1>3, <1>5
---------------------------------------------------------------------------
(* Longest.                                                                *)

(* `Longer` is a strict total order of the groups. *)
LEMMA LongerOrders ==
  /\ \A a \in Group : ~ Longer(a, a)
  /\ \A a, b \in Group : a # b => Longer(a, b) \/ Longer(b, a)
  /\ \A a, b, c \in Group : Longer(a, b) /\ Longer(b, c) => Longer(a, c)
<1>1. \A a \in Group : a \in Nat /\ Tokens[a] \in Nat
  BY GroupsAssumption, CountsAssumption DEF Group
<1> QED BY <1>1 DEF Longer

(* The groups lo .. hi - 1, in the order of Longest, are each of them,     *)
(* once.                                                                   *)
LEMMA LongestEnumerates ==
  ASSUME NEW lo \in 0 .. NumAc, NEW hi \in lo .. NumAc
  PROVE  /\ \A n \in 0 .. hi - lo - 1 : Longest(lo .. hi - 1, n) \in lo .. hi - 1
         /\ \A m, n \in 0 .. hi - lo - 1 :
              Longest(lo .. hi - 1, m) = Longest(lo .. hi - 1, n) => m = n
         /\ \A g \in lo .. hi - 1 :
              \E n \in 0 .. hi - lo - 1 : Longest(lo .. hi - 1, n) = g
<1> DEFINE S == lo .. hi - 1
           R == 0 .. hi - lo - 1
           Above(g) == {h \in S : Longer(h, g)}
           rank == [g \in S |-> Cardinality(Above(g))]
<1>1. S \subseteq Group
  BY CountsAssumption DEF Group
<1>2. /\ IsFiniteSet(S) /\ IsFiniteSet(R)
      /\ Cardinality(S) = hi - lo /\ Cardinality(R) = hi - lo
  <2>1. lo \in Int /\ hi \in Int /\ 0 \in Int /\ hi - 1 \in Int /\ hi - lo - 1 \in Int
        /\ lo <= hi
    BY CountsAssumption
  <2>2. IsFiniteSet(S) /\ Cardinality(S) = IF lo > hi - 1 THEN 0 ELSE hi - 1 - lo + 1
    BY <2>1, FS_Interval
  <2>3. IsFiniteSet(R)
        /\ Cardinality(R) = IF 0 > hi - lo - 1 THEN 0 ELSE hi - lo - 1 - 0 + 1
    BY <2>1, FS_Interval
  <2> QED BY <2>1, <2>2, <2>3
<1>3. \A g \in S : Above(g) \in SUBSET S /\ g \notin Above(g)
  BY <1>1, LongerOrders
<1>4. \A g \in S : rank[g] \in Nat /\ rank[g] <= hi - lo /\ rank[g] # hi - lo
  <2>1. ASSUME NEW g \in S PROVE rank[g] \in Nat /\ rank[g] <= hi - lo /\ rank[g] # hi - lo
    <3>1. Above(g) \in SUBSET S /\ Above(g) # S
      BY <1>3
    <3> HIDE DEF Above
    <3>2. IsFiniteSet(Above(g)) /\ Cardinality(Above(g)) <= Cardinality(S)
          /\ Cardinality(Above(g)) # Cardinality(S)
      BY <1>2, <3>1, FS_Subset
    <3> QED BY <1>2, <3>2, FS_CardinalityType
  <2> QED BY <2>1
<1>5. rank \in [S -> R]
  BY <1>4, CountsAssumption
<1>6. ASSUME NEW g \in S, NEW h \in S, Longer(g, h) PROVE rank[g] # rank[h]
  <2>1. Above(g) \subseteq Above(h)
    BY <1>1, <1>6, LongerOrders
  <2>2. g \in Above(h) /\ g \notin Above(g)
    BY <1>3, <1>6
  <2>3. IsFiniteSet(Above(h))
    BY <1>2, <1>3, FS_Subset
  <2> QED BY <2>1, <2>2, <2>3, FS_Subset
<1>7. rank \in Injection(S, R)
  BY <1>1, <1>5, <1>6, LongerOrders DEF Injection, IsInjective
<1>8. rank \in Surjection(S, R)
  BY <1>2, <1>7, FS_Injection
<1>9. ASSUME NEW n \in R PROVE Longest(S, n) \in S /\ rank[Longest(S, n)] = n
  <2>1. PICK g \in S : Cardinality(Above(g)) = n
    BY <1>8 DEF Surjection
  <2>2. Longest(S, n) \in S /\ Cardinality(Above(Longest(S, n))) = n
    BY <2>1 DEF Longest
  <2> QED BY <2>2
<1>10. ASSUME NEW g \in S PROVE Longest(S, rank[g]) = g
  BY <1>5, <1>7, <1>9 DEF Injection, IsInjective
<1> QED BY <1>5, <1>9, <1>10

---------------------------------------------------------------------------
(* The inductive invariant.                                                *)

Labels ==
  {"tables", "build", "built", "finish", "publish_code", "await_code",
   "sync_batch", "release", "code", "await_stream", "fetch_dc", "await_coders",
   "publish_layout", "await_placement", "place", "copy", "done"}

TypeOK ==
  /\ copied \in 0 .. Batches /\ landed \in 0 .. Batches
  /\ out_capacity \in Nat /\ file = [i \in 0 .. out_capacity - 1 |-> file[i]]
  /\ next_table \in Nat /\ builds \in [Table -> Nat]
  /\ ac_global \in BOOLEAN /\ code_ready \in BOOLEAN
  /\ dc_ok \in BOOLEAN /\ placement \in {"PENDING", "SKIP", "PLACE"}
  /\ next_placed \in Nat /\ result \in {"FAILED", "BUFFER_TOO_SMALL", "OK"}
  /\ next \in Nat /\ ready \in 0 .. NumAc /\ cancelled \in BOOLEAN
  /\ order \in [Group -> Group] /\ coded \in [Group -> Nat]
  /\ pc \in [Thread -> Labels] /\ item \in [Thread -> Nat]
  /\ lanes \in [Thread -> [Lane -> [stream : Group \cup {NO_STREAM}, left : Nat]]]
  /\ refill \in [Thread -> SUBSET Lane]

(* Only thread 0 finishes the tables, releases, and lays the file out.     *)
RolesInv ==
  \A t \in Thread :
    /\ pc[t] \in {"finish", "publish_code", "sync_batch", "release", "fetch_dc",
                  "await_coders", "publish_layout"} => t = 0
    /\ pc[t] \in {"await_code", "await_placement"} => t # 0

(* The parts of AcGlobal: those claimed are built once or being built, by  *)
(* one thread each.                                                        *)
Builds(t, c) == pc[t] = "build" /\ item[t] = c

TablesInv ==
  /\ \A c \in Table : c >= next_table => builds[c] = 0
  /\ \A c \in Table :
       c < next_table => builds[c] = 1 \/ \E t \in Thread : Builds(t, c)
  /\ \A t \in Thread : pc[t] = "build" =>
       item[t] \in Table /\ item[t] < next_table /\ builds[item[t]] = 0
  /\ \A t, u \in Thread :
       pc[t] = "build" /\ pc[u] = "build" /\ item[t] = item[u] => t = u
  /\ \A t \in Thread :
       pc[t] \notin {"tables", "build"} => next_table >= NumClusters + 2

PastTables(t) == pc[t] \notin {"tables", "build", "built"}

AcGlobalInv ==
  /\ tables_done = Cardinality({t \in Thread : PastTables(t)})
  /\ ac_global => \A t \in Thread : PastTables(t)
  /\ code_ready => ac_global
  /\ \A t \in Thread :
       pc[t] \notin {"tables", "build", "built", "finish", "await_code"} => ac_global

(* The released positions of the order name the released groups, once each;*)
(* so do the sorted ones.                                                  *)
Enumerates(n) ==
  /\ \A k \in 0 .. n - 1 : order[k] < n
  /\ \A j, k \in 0 .. n - 1 : order[j] = order[k] => j = k
  /\ \A g \in 0 .. n - 1 : \E k \in 0 .. n - 1 : order[k] = g

OrderInv ==
  /\ landed <= copied
  /\ ready <= batch_begin(landed)
  /\ pc[0] # "release" => ready = batch_begin(landed)
  /\ Enumerates(ready) /\ Enumerates(batch_begin(landed))

(* The lanes are in use while their thread codes; the lane a position was  *)
(* claimed for is idle.                                                    *)
Awaits(t, k) == pc[t] = "await_stream" /\ item[t] = k

LanesInv ==
  /\ \A t \in Thread :
       refill[t] # {} \/ Active(t) # {} => pc[t] \in {"code", "await_stream"}
  /\ \A t \in Thread : pc[t] = "await_stream" =>
       /\ refill[t] # {} /\ lanes[t][NextLane(t)].stream = NO_STREAM
       /\ item[t] < NumAc /\ item[t] < next
  /\ \A t, u \in Thread :
       pc[t] = "await_stream" /\ pc[u] = "await_stream" /\ item[t] = item[u] => t = u

(* A group that is coded or being coded was released, its position of the  *)
(* queue claimed, and nobody waits for it; it is in one lane, or coded.    *)
Started(g) == coded[g] # 0 \/ \E t \in Thread, l \in Lane : InLane(t, l, g)

StartedInv ==
  \A g \in Group : Started(g) =>
    /\ g < ready
    /\ \A k \in 0 .. ready - 1 : order[k] = g =>
         k < next /\ \A t \in Thread : ~ Awaits(t, k)

OnceInv ==
  \A g \in Group :
    /\ coded[g] <= 1
    /\ \A t \in Thread, l \in Lane : InLane(t, l, g) =>
         /\ coded[g] = 0
         /\ \A u \in Thread, m \in Lane : InLane(u, m, g) => u = t /\ m = l

(* No claimed position is forgotten, and no lane stands idle while there   *)
(* are positions to claim, unless the queue is cancelled.                  *)
AfterCode == {"fetch_dc", "await_coders", "publish_layout", "await_placement",
              "place", "copy", "done"}

CodersInv ==
  /\ coders_done = Cardinality({t \in Thread : pc[t] \in AfterCode})
  /\ \A t \in Thread, l \in Lane :
       pc[t] \in AfterCode \cup {"code", "await_stream"} =>
         \/ lanes[t][l].stream # NO_STREAM \/ l \in refill[t]
         \/ next >= NumAc \/ cancelled
  /\ \A k \in Group : k < next =>
       \/ cancelled
       \/ \E t \in Thread : Awaits(t, k)
       \/ k < ready /\ Started(order[k])

(* The result and the placement of the file.                               *)
ResultInv ==
  /\ dc_ok => ~ cancelled /\ pc[0] \in {"await_coders", "publish_layout", "place",
                                         "copy", "done"}
  /\ result # "FAILED" => dc_ok /\ \A t \in Thread : pc[t] \in AfterCode
  /\ pc[0] \notin {"publish_layout", "place", "copy", "done"} => result = "FAILED"
  /\ pc[0] \notin {"place", "copy", "done"} => placement = "PENDING"
  /\ pc[0] = "publish_layout" => result = "OK"
  /\ \A t \in Thread : pc[t] \in {"place", "copy"} => placement = "PLACE"
  /\ placement = "PLACE" => result = "OK"
  /\ placement = "SKIP" => result # "OK"
  /\ placement = "PENDING" => \A t \in Thread : pc[t] # "done"
  /\ result = "OK" => FileSize <= out_capacity
  /\ result = "BUFFER_TOO_SMALL" => FileSize > out_capacity

(* The bytes of the file: the head, and the groups placed so far.          *)
Written(g) == \A i \in DOMAIN file : i \in Bytes(g) => file[i] = ToString(g)

FileInv ==
  /\ result = "OK" => \A i \in DOMAIN file : i < FixedSize => file[i] = "head"
  /\ next_placed # 0 => result = "OK"
  /\ \A t \in Thread : pc[t] = "copy" => item[t] \in Group
  /\ \A g \in Group : g < next_placed =>
       Written(g) \/ \E t \in Thread : pc[t] = "copy" /\ item[t] = g
  /\ result = "OK" => \A t \in Thread : pc[t] = "done" => next_placed >= NumAc

IInv ==
  /\ TypeOK /\ RolesInv
  /\ TablesInv /\ AcGlobalInv
  /\ OrderInv /\ LanesInv /\ StartedInv /\ OnceInv /\ CodersInv
  /\ ResultInv /\ LaidOutWhenCoded
  /\ UntouchedUnlessOk /\ FileInv
---------------------------------------------------------------------------
(* There is a thread 0, which releases the batches. *)
LEMMA ThreadZero == 0 \in Thread
BY CountsAssumption DEF Thread

(* The threads are as many as NumThreads. *)
LEMMA ThreadsFinite ==
  /\ IsFiniteSet(Thread) /\ Cardinality(Thread) = NumThreads
  /\ \A S \in SUBSET Thread : IsFiniteSet(S) /\ Cardinality(S) \in Nat
<1>1. IsFiniteSet(Thread) /\ Cardinality(Thread) = NumThreads
  <2>1. 0 \in Int /\ NumThreads - 1 \in Int /\ ~ 0 > NumThreads - 1
        /\ NumThreads - 1 - 0 + 1 = NumThreads
    BY CountsAssumption
  <2> QED BY <2>1, FS_Interval DEF Thread
<1>2. ASSUME NEW S \in SUBSET Thread PROVE IsFiniteSet(S) /\ Cardinality(S) \in Nat
  BY <1>1, FS_Subset, FS_CardinalityType
<1> QED BY <1>1, <1>2

(* The lane started next is one of those to refill. *)
LEMMA NextLaneInRefill ==
  ASSUME NEW t \in Thread, refill[t] \subseteq Lane, refill[t] # {}
  PROVE  NextLane(t) \in refill[t]
<1>1. refill[t] \subseteq Nat
  BY CountsAssumption DEF Lane
<1> QED BY <1>1, Least DEF NextLane

(* The invariant holds initially. *)
LEMMA InitIInv == Init => IInv
<1> SUFFICES ASSUME Init PROVE IInv
  OBVIOUS
<1>1. 0 \in 0 .. Batches /\ 0 \in 0 .. NumAc /\ out_capacity \in Nat
  BY CountsAssumption, CapacitiesAssumption DEF Init
<1>2. TypeOK
  <2>1. /\ Idle \in [stream : Group \cup {NO_STREAM}, left : Nat]
        /\ \A k \in Group : NumAc - 1 - k \in Group
    BY CountsAssumption DEF Idle, Group
  <2>2. /\ order \in [Group -> Group] /\ coded \in [Group -> Nat]
        /\ pc \in [Thread -> Labels] /\ item \in [Thread -> Nat]
        /\ builds \in [Table -> Nat] /\ refill \in [Thread -> SUBSET Lane]
        /\ lanes \in [Thread -> [Lane -> [stream : Group \cup {NO_STREAM}, left : Nat]]]
    BY <2>1 DEF Init, Labels
  <2>3. file = [i \in 0 .. out_capacity - 1 |-> file[i]]
    BY DEF Init
  <2> QED BY <1>1, <2>2, <2>3 DEF Init, TypeOK
<1>3. RolesInv
  BY DEF Init, RolesInv
<1>4. TablesInv
  BY CountsAssumption DEF Init, TablesInv, Table
<1>5. AcGlobalInv
  <2>1. {t \in Thread : PastTables(t)} = {}
    BY DEF Init, PastTables
  <2> QED BY <2>1, FS_EmptySet DEF Init, AcGlobalInv
<1>6. OrderInv
  BY BatchBegin, ThreadZero, CountsAssumption DEF Init, OrderInv, Enumerates
<1>7. \A t \in Thread : Active(t) = {} /\ refill[t] = {}
  BY DEF Init, Active, Idle
<1>8. \A g \in Group : coded[g] = 0 /\ ~ Started(g)
  BY CountsAssumption DEF Init, Started, InLane, Idle, NO_STREAM, Group
<1>9. LanesInv /\ StartedInv /\ OnceInv
  BY <1>7, <1>8 DEF Init, LanesInv, StartedInv, OnceInv, Started
<1>10. CodersInv
  <2>1. {t \in Thread : pc[t] \in AfterCode} = {}
    BY DEF Init, AfterCode
  <2> QED BY <2>1, FS_EmptySet DEF Init, CodersInv, AfterCode, Group
<1>11. ResultInv /\ LaidOutWhenCoded
  BY ThreadZero DEF Init, ResultInv, LaidOutWhenCoded
<1>12. UntouchedUnlessOk /\ FileInv
  BY CountsAssumption DEF Init, UntouchedUnlessOk, FileInv, Group
<1> QED BY <1>2, <1>3, <1>4, <1>5, <1>6, <1>9, <1>10, <1>11, <1>12 DEF IInv
---------------------------------------------------------------------------
(* Every step keeps the types and the roles.                               *)

(* Batches land before they are released, in their order. *)
LEMMA LandedBatches ==
  ASSUME TypeOK, OrderInv
  PROVE  /\ batch_begin(landed) \in 0 .. NumAc /\ batch_begin(copied) \in 0 .. NumAc
         /\ batch_begin(landed) <= batch_begin(copied)
BY BatchBegin DEF TypeOK, OrderInv

(* Building tables keeps the types, *)
LEMMA BuildTablesTypeOK ==
  ASSUME TypeOK, NEW t \in Thread, BuildTables(t)
  PROVE  TypeOK'
<1> USE DEF memory, placing, queue, coders, GoTo, TypeOK, Labels
<1>1. CASE ClaimTable(t)
  <2>1. /\ next_table \in Nat /\ item \in [Thread -> Nat]
        /\ pc \in [Thread -> Labels]
    OBVIOUS
  <2>2. /\ next_table' \in Nat
        /\ item' = item \/ item' = [item EXCEPT ![t] = next_table]
        /\ \E label \in Labels : pc' = [pc EXCEPT ![t] = label]
    BY <1>1, <2>1 DEF ClaimTable
  <2>3. item' \in [Thread -> Nat] /\ pc' \in [Thread -> Labels]
    <3>1. \A x \in Nat : [item EXCEPT ![t] = x] \in [Thread -> Nat]
      BY <2>1
    <3>2. \A label \in Labels : [pc EXCEPT ![t] = label] \in [Thread -> Labels]
      BY <2>1
    <3> HIDE DEF TypeOK, Labels
    <3> QED BY <2>1, <2>2, <3>1, <3>2
  <2> QED BY <1>1, <2>2, <2>3 DEF ClaimTable
<1>2. CASE BuildTable(t)
  <2>1. builds \in [Table -> Nat] /\ builds' = [builds EXCEPT ![item[t]] = @ + 1]
    BY <1>2 DEF BuildTable
  <2>2. builds' \in [Table -> Nat]
    BY <2>1, Incremented
  <2> QED BY <1>2, <2>2 DEF BuildTable
<1>3. CASE TablesDone(t)
  BY <1>3 DEF TablesDone
<1>4. CASE FinishTables(t)
  BY <1>4 DEF FinishTables
<1>5. CASE PublishCode(t)
  BY <1>5 DEF PublishCode
<1>6. CASE AwaitCode(t)
  BY <1>6 DEF AwaitCode, StartCoding, tables
<1> QED BY <1>1, <1>2, <1>3, <1>4, <1>5, <1>6 DEF BuildTables

(* releasing batches does, *)
LEMMA ReleaseTypeOK ==
  ASSUME TypeOK, OrderInv, NEW t \in Thread, Release(t)
  PROVE  TypeOK'
<1> USE DEF memory, tables, placing, queue, coders, GoTo, Labels
<1>1. CASE SortBatches(t)
  <2> DEFINE end == batch_begin(copied)
  <2>1. ready \in 0 .. NumAc /\ end \in ready .. NumAc
    <3>1. ready \in 0 .. NumAc /\ ready <= batch_begin(landed)
      BY DEF OrderInv, TypeOK
    <3> HIDE DEF end
    <3> QED BY <3>1, LandedBatches, CountsAssumption DEF end
  <2>2. \A k \in ready .. end - 1 :
          k - ready \in 0 .. end - ready - 1 /\ ready .. end - 1 \subseteq Group
    BY <2>1, CountsAssumption DEF Group
  <2>3. \A k \in ready .. end - 1 : Longest(ready .. end - 1, k - ready) \in Group
    BY <2>1, <2>2, LongestEnumerates
  <2>4. order' \in [Group -> Group]
    BY <1>1, <2>3 DEF SortBatches, TypeOK
  <2> QED BY <1>1, <2>4 DEF SortBatches, TypeOK
<1>2. CASE ReleaseBatches(t)
  BY <1>2, LandedBatches DEF ReleaseBatches, TypeOK
<1>3. CASE AllReleased(t)
  BY <1>3 DEF AllReleased, StartCoding, TypeOK
<1>4. CASE CancelQueue(t)
  BY <1>4 DEF CancelQueue, StartCoding, TypeOK
<1> QED BY <1>1, <1>2, <1>3, <1>4 DEF Release

(* coding does, *)
LEMMA CodeTypeOK ==
  ASSUME TypeOK, OrderInv, LanesInv, NEW t \in Thread, Code(t)
  PROVE  TypeOK'
<1> USE DEF memory, tables, placing, queue, coders, GoTo, Labels
<1> DEFINE LaneState == [stream : Group \cup {NO_STREAM}, left : Nat]
<1>1. Idle \in LaneState
  BY DEF Idle
<1>2. /\ pc[t] = "await_stream" => item[t] \in Group
      /\ refill[t] # {} => NextLane(t) \in Lane
  <2>1. item[t] \in Nat /\ refill[t] \subseteq Lane
    BY DEF TypeOK
  <2>2. pc[t] = "await_stream" => item[t] < NumAc
    BY DEF LanesInv
  <2> QED BY <2>1, <2>2, NextLaneInRefill, CountsAssumption DEF Group
<1> HIDE DEF LaneState
<1>30. lanes \in [Thread -> [Lane -> LaneState]] /\ refill \in [Thread -> SUBSET Lane]
  BY DEF TypeOK, LaneState
<1>3. CASE ClaimStream(t)
  <2>1. coded' \in [Group -> Nat]
    <3>1. coded \in [Group -> Nat] /\ coded' = Finished(t, NextLane(t))
      BY <1>3 DEF ClaimStream, TypeOK
    <3> QED BY <3>1, Incremented DEF Finished
  <2>2. lanes' \in [Thread -> [Lane -> LaneState]]
    <3>1. lanes' = [lanes EXCEPT ![t][NextLane(t)] = Idle]
      BY <1>3 DEF ClaimStream
    <3> QED BY <1>1, <1>30, <3>1
  <2>3. refill' \in [Thread -> SUBSET Lane]
    BY <1>3, <1>30 DEF ClaimStream
  <2>4. /\ next' \in Nat /\ item' \in [Thread -> Nat] /\ pc' \in [Thread -> Labels]
    <3>1. next \in Nat /\ item \in [Thread -> Nat] /\ pc \in [Thread -> Labels]
      BY DEF TypeOK
    <3> QED BY <1>3, <3>1 DEF ClaimStream
  <2> QED BY <1>3, <2>1, <2>2, <2>3, <2>4 DEF ClaimStream, TypeOK, LaneState
<1>4. CASE StartStream(t)
  <2> DEFINE g == order[item[t]]
  <2>1. [stream |-> g, left |-> Tokens[g]] \in LaneState
    <3>1. g \in Group
      BY <1>2, <1>4 DEF StartStream, TypeOK
    <3> QED BY <3>1, GroupsAssumption DEF LaneState
  <2>2. lanes' \in [Thread -> [Lane -> LaneState]]
    <3>1. lanes' = [lanes EXCEPT ![t][NextLane(t)] = [stream |-> g, left |-> Tokens[g]]]
      BY <1>4 DEF StartStream
    <3> QED BY <1>30, <2>1, <3>1
  <2>3. refill' \in [Thread -> SUBSET Lane]
    BY <1>4, <1>30 DEF StartStream
  <2> QED BY <1>4, <2>2, <2>3 DEF StartStream, TypeOK, LaneState
<1>5. CASE StreamCancelled(t)
  BY <1>5 DEF StreamCancelled, TypeOK
<1>6. CASE CodeTokens(t)
  <2> DEFINE lefts == {lanes[t][l].left : l \in Active(t)}
             steps == CHOOSE n \in lefts : \A l \in Active(t) : n <= lanes[t][l].left
             left(l) == IF Active(t) = Lane THEN lanes[t][l].left - steps ELSE 0
  <2>0. \A l \in Lane : lanes[t][l] \in LaneState /\ lanes[t][l].left \in Nat
    BY <1>30 DEF LaneState
  <2>00. Active(t) \subseteq Lane /\ Active(t) # {}
    BY <1>6 DEF CodeTokens, Active
  <2>1. lefts \subseteq Nat /\ lefts # {}
    BY <2>0, <2>00
  <2>2. PICK n \in lefts : \A m \in lefts : n <= m
    BY <2>1, Least
  <2>3. steps \in lefts /\ \A l \in Active(t) : steps <= lanes[t][l].left
    BY <2>2
  <2>4. \A l \in Active(t) : left(l) \in Nat
    <3>1. steps \in Nat
      BY <2>1, <2>3
    <3> HIDE DEF steps
    <3> QED BY <2>0, <2>00, <2>3, <3>1
  <2>5. \A l \in Active(t) : [lanes[t][l] EXCEPT !.left = left(l)] \in LaneState
    <3> HIDE DEF left
    <3> QED BY <2>0, <2>00, <2>4 DEF LaneState
  <2>6. lanes' = [lanes EXCEPT ![t] =
                    [l \in Lane |-> IF l \in Active(t)
                                    THEN [lanes[t][l] EXCEPT !.left = left(l)]
                                    ELSE lanes[t][l]]]
    BY <1>6 DEF CodeTokens
  <2>7. lanes' \in [Thread -> [Lane -> LaneState]]
    <3> HIDE DEF left
    <3> QED BY <1>30, <2>00, <2>5, <2>6
  <2>8. refill' \in [Thread -> SUBSET Lane]
    BY <1>6, <1>30, <2>00 DEF CodeTokens
  <2> QED BY <1>6, <2>7, <2>8 DEF CodeTokens, TypeOK, LaneState
<1>7. CASE CoderDone(t)
  BY <1>7 DEF CoderDone, TypeOK
<1> QED BY <1>3, <1>4, <1>5, <1>6, <1>7 DEF Code

(* placing does, *)
LEMMA PlaceTypeOK ==
  ASSUME TypeOK, NEW t \in Thread, Place(t)
  PROVE  TypeOK'
<1> USE DEF memory, tables, placing, queue, coders, GoTo, Labels, Skip, TypeOK
<1>1. CASE FetchDc(t)
  BY <1>1 DEF FetchDc
<1>2. CASE SkipFailed(t)
  BY <1>2 DEF SkipFailed
<1>3. CASE SkipTooLarge(t)
  BY <1>3 DEF SkipTooLarge
<1>4. CASE LayOut(t)
  BY <1>4 DEF LayOut
<1>5. CASE PublishLayout(t)
  BY <1>5 DEF PublishLayout
<1>6. CASE AwaitPlacement(t)
  BY <1>6 DEF AwaitPlacement
<1>7. CASE ClaimPlace(t)
  <2>1. next_placed \in Nat /\ item \in [Thread -> Nat] /\ pc \in [Thread -> Labels]
    OBVIOUS
  <2>2. /\ next_placed' \in Nat
        /\ item' = item \/ item' = [item EXCEPT ![t] = next_placed]
        /\ \E label \in Labels : pc' = [pc EXCEPT ![t] = label]
    BY <1>7, <2>1 DEF ClaimPlace
  <2>3. item' \in [Thread -> Nat] /\ pc' \in [Thread -> Labels]
    <3>1. \A x \in Nat : [item EXCEPT ![t] = x] \in [Thread -> Nat]
      BY <2>1
    <3>2. \A label \in Labels : [pc EXCEPT ![t] = label] \in [Thread -> Labels]
      BY <2>1
    <3> HIDE DEF TypeOK, Labels
    <3> QED BY <2>1, <2>2, <3>1, <3>2
  <2> QED BY <1>7, <2>2, <2>3 DEF ClaimPlace
<1>8. CASE PlaceGroup(t)
  BY <1>8 DEF PlaceGroup
<1> QED BY <1>1, <1>2, <1>3, <1>4, <1>5, <1>6, <1>7, <1>8 DEF Place

(* and so every step. *)
LEMMA NextTypeOK ==
  ASSUME TypeOK, OrderInv, LanesInv, [Next]_vars
  PROVE  TypeOK'
<1>1. CASE BatchLands
  <2>1. copied' \in 0 .. Batches
    <3>1. copied \in 0 .. Batches
      BY DEF TypeOK
    <3>2. copied < Batches /\ copied' = copied + 1
      BY <1>1 DEF BatchLands
    <3> QED BY <3>1, <3>2, CountsAssumption
  <2> QED BY <1>1, <2>1 DEF BatchLands, TypeOK, tables, placing, queue, coders
<1>2. CASE \E t \in Thread : Step(t)
  BY <1>2, BuildTablesTypeOK, ReleaseTypeOK, CodeTypeOK, PlaceTypeOK DEF Step
<1>3. CASE UNCHANGED vars
  BY <1>3 DEF vars, memory, tables, placing, queue, coders, TypeOK
<1> QED BY <1>1, <1>2, <1>3 DEF Next

(* A thread's step leaves the other threads' private state alone.          *)
LEMMA OthersKeep ==
  ASSUME TypeOK, NEW t \in Thread, Step(t)
  PROVE  \A u \in Thread : u # t =>
           /\ pc'[u] = pc[u] /\ item'[u] = item[u]
           /\ lanes'[u] = lanes[u] /\ refill'[u] = refill[u]
<1> USE DEF coders, GoTo
<1>1. /\ pc \in [Thread -> Labels] /\ item \in [Thread -> Nat]
      /\ DOMAIN lanes = Thread /\ refill \in [Thread -> SUBSET Lane]
  BY DEF TypeOK
<1>2. CASE BuildTables(t)
  BY <1>1, <1>2 DEF BuildTables, ClaimTable, BuildTable, TablesDone, FinishTables,
                    PublishCode, AwaitCode, StartCoding
<1>3. CASE Release(t)
  BY <1>1, <1>3 DEF Release, SortBatches, ReleaseBatches, AllReleased, CancelQueue,
                    StartCoding
<1>4. CASE Code(t)
  BY <1>1, <1>4 DEF Code, ClaimStream, StartStream, StreamCancelled, CodeTokens,
                    CoderDone
<1>5. CASE Place(t)
  BY <1>1, <1>5 DEF Place, FetchDc, SkipFailed, SkipTooLarge, Skip, LayOut,
                    PublishLayout, AwaitPlacement, ClaimPlace, PlaceGroup
<1> QED BY <1>2, <1>3, <1>4, <1>5 DEF Step

(* Where a step may take a thread. *)
LEMMA Moves ==
  ASSUME TypeOK, NEW t \in Thread
  PROVE  /\ ClaimTable(t) => pc[t] = "tables" /\ pc'[t] \in {"build", "built"}
         /\ BuildTable(t) => pc[t] = "build" /\ pc'[t] = "tables"
         /\ TablesDone(t) => /\ pc[t] = "built"
                             /\ pc'[t] = IF t = 0 THEN "finish" ELSE "await_code"
         /\ FinishTables(t) => pc[t] = "finish" /\ pc'[t] = "publish_code"
         /\ PublishCode(t) => pc[t] = "publish_code" /\ pc'[t] = "sync_batch"
         /\ AwaitCode(t) => pc[t] = "await_code" /\ pc'[t] = "code"
         /\ SortBatches(t) => pc[t] = "sync_batch" /\ pc'[t] = "release"
         /\ ReleaseBatches(t) => pc[t] = "release" /\ pc'[t] = "sync_batch"
         /\ AllReleased(t) \/ CancelQueue(t) => pc[t] = "sync_batch" /\ pc'[t] = "code"
         /\ ClaimStream(t) => pc[t] = "code" /\ pc'[t] \in {"code", "await_stream"}
         /\ StartStream(t) \/ StreamCancelled(t) => /\ pc[t] = "await_stream"
                                                    /\ pc'[t] = "code"
         /\ CodeTokens(t) => pc[t] = "code" /\ pc'[t] = "code"
         /\ CoderDone(t) => /\ pc[t] = "code"
                            /\ pc'[t] = IF t = 0 THEN "fetch_dc" ELSE "await_placement"
         /\ FetchDc(t) => pc[t] = "fetch_dc" /\ pc'[t] = "await_coders"
         /\ SkipFailed(t) \/ SkipTooLarge(t) => pc[t] = "await_coders" /\ pc'[t] = "done"
         /\ LayOut(t) => pc[t] = "await_coders" /\ pc'[t] = "publish_layout"
         /\ PublishLayout(t) => pc[t] = "publish_layout" /\ pc'[t] = "place"
         /\ AwaitPlacement(t) => pc[t] = "await_placement" /\ pc'[t] \in {"place", "done"}
         /\ ClaimPlace(t) => pc[t] = "place" /\ pc'[t] \in {"copy", "done"}
         /\ PlaceGroup(t) => pc[t] = "copy" /\ pc'[t] = "place"
<1> USE DEF coders, GoTo
<1>1. pc \in [Thread -> Labels]
  BY DEF TypeOK
<1>2. /\ ClaimTable(t) => pc[t] = "tables" /\ pc'[t] \in {"build", "built"}
      /\ BuildTable(t) => pc[t] = "build" /\ pc'[t] = "tables"
      /\ TablesDone(t) => /\ pc[t] = "built"
                          /\ pc'[t] = IF t = 0 THEN "finish" ELSE "await_code"
      /\ FinishTables(t) => pc[t] = "finish" /\ pc'[t] = "publish_code"
      /\ PublishCode(t) => pc[t] = "publish_code" /\ pc'[t] = "sync_batch"
      /\ AwaitCode(t) => pc[t] = "await_code" /\ pc'[t] = "code"
  BY <1>1 DEF ClaimTable, BuildTable, TablesDone, FinishTables, PublishCode,
              AwaitCode, StartCoding
<1>3. /\ SortBatches(t) => pc[t] = "sync_batch" /\ pc'[t] = "release"
      /\ ReleaseBatches(t) => pc[t] = "release" /\ pc'[t] = "sync_batch"
      /\ AllReleased(t) \/ CancelQueue(t) => pc[t] = "sync_batch" /\ pc'[t] = "code"
  BY <1>1 DEF SortBatches, ReleaseBatches, AllReleased, CancelQueue, StartCoding
<1>4. /\ ClaimStream(t) => pc[t] = "code" /\ pc'[t] \in {"code", "await_stream"}
      /\ StartStream(t) \/ StreamCancelled(t) => /\ pc[t] = "await_stream"
                                                 /\ pc'[t] = "code"
      /\ CodeTokens(t) => pc[t] = "code" /\ pc'[t] = "code"
      /\ CoderDone(t) => /\ pc[t] = "code"
                         /\ pc'[t] = IF t = 0 THEN "fetch_dc" ELSE "await_placement"
  BY <1>1 DEF ClaimStream, StartStream, StreamCancelled, CodeTokens, CoderDone
<1>5. /\ FetchDc(t) => pc[t] = "fetch_dc" /\ pc'[t] = "await_coders"
      /\ SkipFailed(t) \/ SkipTooLarge(t) => pc[t] = "await_coders" /\ pc'[t] = "done"
      /\ LayOut(t) => pc[t] = "await_coders" /\ pc'[t] = "publish_layout"
      /\ PublishLayout(t) => pc[t] = "publish_layout" /\ pc'[t] = "place"
      /\ AwaitPlacement(t) => pc[t] = "await_placement" /\ pc'[t] \in {"place", "done"}
      /\ ClaimPlace(t) => pc[t] = "place" /\ pc'[t] \in {"copy", "done"}
      /\ PlaceGroup(t) => pc[t] = "copy" /\ pc'[t] = "place"
  BY <1>1 DEF FetchDc, SkipFailed, SkipTooLarge, Skip, LayOut, PublishLayout,
              AwaitPlacement, ClaimPlace, PlaceGroup
<1> QED BY <1>2, <1>3, <1>4, <1>5

(* Every step keeps the threads' roles, *)
LEMMA NextRolesInv ==
  ASSUME TypeOK, RolesInv, [Next]_vars
  PROVE  RolesInv'
<1>1. CASE BatchLands \/ UNCHANGED vars
  BY <1>1 DEF BatchLands, vars, RolesInv
<1>2. ASSUME NEW t \in Thread, Step(t) PROVE RolesInv'
  <2>1. \A u \in Thread : u # t => pc'[u] = pc[u]
    BY <1>2, OthersKeep
  <2>2. /\ pc'[t] \in {"finish", "publish_code", "sync_batch", "release", "fetch_dc",
                       "await_coders", "publish_layout"} => t = 0
        /\ pc'[t] \in {"await_code", "await_placement"} => t # 0
    BY <1>2, Moves DEF RolesInv, Step, BuildTables, Release, Code, Place
  <2> QED BY <2>1, <2>2 DEF RolesInv
<1> QED BY <1>1, <1>2 DEF Next

(* Which actions write a variable. *)
LEMMA Writers ==
  ASSUME NEW t \in Thread, Step(t)
  PROVE  /\ UNCHANGED <<copied, out_capacity>>
         /\ ClaimTable(t) \/ UNCHANGED next_table
         /\ BuildTable(t) \/ UNCHANGED builds
         /\ TablesDone(t) \/ UNCHANGED tables_done
         /\ FinishTables(t) \/ UNCHANGED ac_global
         /\ PublishCode(t) \/ UNCHANGED code_ready
         /\ SortBatches(t) \/ UNCHANGED <<order, landed>>
         /\ ReleaseBatches(t) \/ UNCHANGED ready
         /\ CancelQueue(t) \/ UNCHANGED cancelled
         /\ ClaimStream(t) \/ UNCHANGED <<next, coded>>
         /\ CoderDone(t) \/ UNCHANGED coders_done
         /\ FetchDc(t) \/ UNCHANGED dc_ok
         /\ SkipFailed(t) \/ SkipTooLarge(t) \/ PublishLayout(t) \/ UNCHANGED placement
         /\ SkipTooLarge(t) \/ LayOut(t) \/ UNCHANGED result
         /\ ClaimPlace(t) \/ UNCHANGED next_placed
         /\ LayOut(t) \/ PlaceGroup(t) \/ UNCHANGED file
         /\ ClaimTable(t) \/ ClaimStream(t) \/ ClaimPlace(t) \/ UNCHANGED item
         /\ ClaimStream(t) \/ StartStream(t) \/ CodeTokens(t) \/ UNCHANGED lanes
         /\ \/ AwaitCode(t) \/ AllReleased(t) \/ CancelQueue(t)
            \/ ClaimStream(t) \/ StartStream(t) \/ StreamCancelled(t) \/ CodeTokens(t)
            \/ UNCHANGED refill
<1> USE DEF memory, tables, placing, queue, coders
<1>1. CASE BuildTables(t)
  BY <1>1 DEF BuildTables, ClaimTable, BuildTable, TablesDone, FinishTables,
              PublishCode, AwaitCode, StartCoding
<1>2. CASE Release(t)
  BY <1>2 DEF Release, SortBatches, ReleaseBatches, AllReleased, CancelQueue,
              StartCoding
<1>3. CASE Code(t)
  BY <1>3 DEF Code, ClaimStream, StartStream, StreamCancelled, CodeTokens, CoderDone
<1>4. CASE Place(t)
  BY <1>4 DEF Place, FetchDc, SkipFailed, SkipTooLarge, Skip, LayOut, PublishLayout,
              AwaitPlacement, ClaimPlace, PlaceGroup
<1> QED BY <1>1, <1>2, <1>3, <1>4 DEF Step
---------------------------------------------------------------------------
(* The parts of AcGlobal.                                                  *)

(* what claimed table parts are worth, *)
LEMMA NextTablesInv ==
  ASSUME TypeOK, TablesInv, [Next]_vars
  PROVE  TablesInv'
<1> USE DEF Builds
<1>1. CASE BatchLands \/ UNCHANGED vars
  BY <1>1 DEF BatchLands, vars, tables, coders, TablesInv
<1>2. ASSUME NEW t \in Thread, ClaimTable(t) PROVE TablesInv'
  <2>1. /\ next_table \in Nat /\ NumClusters \in Nat
        /\ builds' = builds /\ next_table' = next_table + 1
        /\ pc[t] = "tables"
    BY <1>2, CountsAssumption DEF ClaimTable, TypeOK
  <2>2. \A u \in Thread : u # t => pc'[u] = pc[u] /\ item'[u] = item[u]
    BY <1>2, OthersKeep DEF Step, BuildTables
  <2>3. \/ next_table \in Table /\ pc'[t] = "build" /\ item'[t] = next_table
        \/ next_table \notin Table /\ pc'[t] = "built"
    BY <1>2 DEF ClaimTable, GoTo, TypeOK
  <2>4. \A c \in Table : c \in Nat /\ (c < next_table' <=> c < next_table \/ c = next_table)
    BY <2>1 DEF Table
  <2>5. next_table \notin Table => next_table >= NumClusters + 2
    BY <2>1 DEF Table
  <2> QED BY <2>1, <2>2, <2>3, <2>4, <2>5 DEF TablesInv
<1>3. ASSUME NEW t \in Thread, BuildTable(t) PROVE TablesInv'
  <2>1. /\ pc[t] = "build" /\ pc'[t] = "tables"
        /\ next_table' = next_table
        /\ item' = item
        /\ item[t] \in Table /\ item[t] < next_table /\ builds[item[t]] = 0
        /\ builds \in [Table -> Nat]
        /\ builds' = [builds EXCEPT ![item[t]] = builds[item[t]] + 1]
    BY <1>3, Moves DEF BuildTable, coders, TablesInv, TypeOK
  <2>2. \A u \in Thread : u # t => pc'[u] = pc[u]
    BY <1>3, OthersKeep DEF Step, BuildTables
  <2>3. builds'[item[t]] = 1 /\ \A c \in Table : c # item[t] => builds'[c] = builds[c]
    BY <2>1
  <2>4. \A c \in Table : c >= next_table => c # item[t]
    BY <2>1 DEF TypeOK
  <2> QED BY <2>1, <2>2, <2>3, <2>4 DEF TablesInv
<1>4. ASSUME NEW t \in Thread, Step(t), ~ ClaimTable(t), ~ BuildTable(t)
      PROVE  TablesInv'
  <2>1. UNCHANGED <<next_table, builds>>
    BY <1>4, Writers
  <2>2. pc[t] \notin {"tables", "build"} /\ pc'[t] \notin {"tables", "build"}
    BY <1>4, Moves DEF Step, BuildTables, Release, Code, Place
  <2>3. \A u \in Thread : u # t => pc'[u] = pc[u] /\ item'[u] = item[u]
    BY <1>4, OthersKeep
  <2> QED BY <2>1, <2>2, <2>3 DEF TablesInv
<1> QED BY <1>1, <1>2, <1>3, <1>4 DEF Next

(* that AcGlobal is assembled after its parts, *)
LEMMA NextAcGlobalInv ==
  ASSUME TypeOK, RolesInv, AcGlobalInv, [Next]_vars
  PROVE  AcGlobalInv'
<1> DEFINE Done == {u \in Thread : PastTables(u)}
<1>1. CASE BatchLands \/ UNCHANGED vars
  BY <1>1 DEF BatchLands, vars, tables, AcGlobalInv, PastTables
<1>2. ASSUME NEW t \in Thread, Step(t) PROVE AcGlobalInv'
  <2>1. \A u \in Thread : u # t => pc'[u] = pc[u]
    BY <1>2, OthersKeep
  <2>2. CASE TablesDone(t)
    <3>1. /\ ~ PastTables(t) /\ PastTables(t)' /\ ~ ac_global
          /\ pc'[t] \in {"finish", "await_code"}
          /\ tables_done' = tables_done + 1 /\ UNCHANGED <<ac_global, code_ready>>
      BY <2>2, Moves DEF PastTables, AcGlobalInv, TablesDone
    <3>2. Done' = Done \cup {t} /\ t \notin Done
      BY <2>1, <3>1 DEF PastTables
    <3>3. Cardinality(Done') = Cardinality(Done) + 1
      BY <3>2, ThreadsFinite, FS_AddElement
    <3> QED BY <2>1, <3>1, <3>3 DEF AcGlobalInv
  <2>3. CASE ~ TablesDone(t)
    <3>1. PastTables(t)' <=> PastTables(t)
      BY <1>2, <2>3, Moves DEF PastTables, Step, BuildTables, Release, Code, Place
    <3>2. Done' = Done /\ tables_done' = tables_done
      BY <1>2, <2>1, <2>3, <3>1, Writers DEF PastTables
    <3>3. ac_global' => \A u \in Thread : PastTables(u)'
      <4>1. CASE FinishTables(t)
        <5>1. Cardinality(Done) = Cardinality(Thread)
          BY <4>1, ThreadsFinite DEF FinishTables, AcGlobalInv
        <5>2. Done = Thread
          BY <5>1, ThreadsFinite, FS_Subset
        <5> QED BY <2>1, <3>1, <5>2 DEF PastTables
      <4>2. CASE ~ FinishTables(t)
        BY <1>2, <2>1, <3>1, <4>2, Writers DEF AcGlobalInv, PastTables
      <4> QED BY <4>1, <4>2
    <3>4. code_ready' => ac_global'
      BY <1>2, Writers DEF AcGlobalInv, FinishTables, PublishCode
    <3>5. pc'[t] \notin {"tables", "build", "built", "finish", "await_code"} => ac_global'
      <4>1. CASE FinishTables(t) \/ AwaitCode(t)
        BY <4>1 DEF FinishTables, AwaitCode, tables, AcGlobalInv
      <4>2. CASE ~ (FinishTables(t) \/ AwaitCode(t))
        BY <1>2, <2>3, <4>2, Moves, Writers
        DEF AcGlobalInv, Step, BuildTables, Release, Code, Place
      <4> QED BY <4>1, <4>2
    <3>6. ac_global => ac_global'
      BY <1>2, Writers DEF FinishTables
    <3> QED BY <2>1, <3>2, <3>3, <3>4, <3>5, <3>6 DEF AcGlobalInv
  <2> QED BY <2>2, <2>3
<1> QED BY <1>1, <1>2 DEF Next
---------------------------------------------------------------------------
(* The queue of streams.                                                   *)

(* and the order of the released groups. *)
LEMMA NextOrderInv ==
  ASSUME TypeOK, RolesInv, OrderInv, [Next]_vars
  PROVE  OrderInv'
<1>1. CASE UNCHANGED vars
  BY <1>1 DEF vars, queue, OrderInv, Enumerates, batch_begin, memory
<1>2. CASE BatchLands
  <2>1. copied \in Nat /\ landed \in Nat /\ copied' = copied + 1
    BY <1>2, CountsAssumption DEF BatchLands, TypeOK
  <2>2. UNCHANGED <<landed, ready, order, pc>>
    BY <1>2 DEF BatchLands, queue
  <2> QED BY <2>1, <2>2 DEF OrderInv, Enumerates, batch_begin
<1>3. ASSUME NEW t \in Thread, SortBatches(t) PROVE OrderInv'
  <2> DEFINE end == batch_begin(copied)
  <2>1. /\ t = 0 /\ pc[0] = "sync_batch" /\ pc'[0] = "release"
        /\ landed' = copied /\ UNCHANGED <<copied, ready>>
    BY <1>3, Moves DEF SortBatches, RolesInv, memory
  <2>2. ready = batch_begin(landed) /\ Enumerates(ready)
    BY <2>1 DEF OrderInv
  <2>3. ready \in 0 .. NumAc /\ end \in ready .. NumAc
    BY <2>2, LandedBatches, CountsAssumption
  <2>4. \A k \in Group : order'[k] = IF k \in ready .. end - 1
                                     THEN Longest(ready .. end - 1, k - ready)
                                     ELSE order[k]
    BY <1>3 DEF SortBatches
  <2> HIDE DEF end
  <2>types. ready \in Nat /\ end \in Nat /\ ready <= end /\ end <= NumAc
    BY <2>3, CountsAssumption
  <2>5. \A k \in 0 .. ready - 1 : order'[k] = order[k] /\ order[k] < ready
    <3>1. 0 .. ready - 1 \subseteq Group
      BY <2>types, CountsAssumption DEF Group
    <3>2. \A k \in 0 .. ready - 1 : k \notin ready .. end - 1
      BY <2>types
    <3>3. \A k \in 0 .. ready - 1 : order[k] < ready
      BY <2>2 DEF Enumerates
    <3> QED BY <2>4, <3>1, <3>2, <3>3
  <2>6. \A k \in ready .. end - 1 :
          /\ k - ready \in 0 .. end - ready - 1
          /\ order'[k] = Longest(ready .. end - 1, k - ready)
    BY <2>3, <2>4, CountsAssumption DEF Group
  <2>7. \A k \in ready .. end - 1 : order'[k] \in ready .. end - 1
    <3>1. \A n \in 0 .. end - ready - 1 : Longest(ready .. end - 1, n) \in ready .. end - 1
      BY <2>3, LongestEnumerates
    <3> QED BY <2>6, <3>1
  <2>8. Enumerates(ready)'
    BY <2>1, <2>2, <2>5 DEF Enumerates
  <2>9. \A k \in 0 .. end - 1 : /\ k \in 0 .. ready - 1 \/ k \in ready .. end - 1
                                /\ order'[k] < end
    <3>1. \A k \in 0 .. end - 1 : k \in 0 .. ready - 1 \/ k \in ready .. end - 1
      BY <2>types
    <3>2. \A k \in 0 .. ready - 1 : order[k] \in Nat
      <4>1. order \in [Group -> Group]
        BY DEF TypeOK
      <4>2. 0 .. ready - 1 \subseteq Group /\ Group \subseteq Nat
        BY <2>types, CountsAssumption DEF Group
      <4> QED BY <4>1, <4>2
    <3> QED BY <2>5, <2>7, <2>types, <3>1, <3>2
  <2>10. ASSUME NEW j \in 0 .. end - 1, NEW k \in 0 .. end - 1, order'[j] = order'[k]
         PROVE  j = k
    <3>1. order[j] \in Group /\ order[k] \in Group
      <4>1. j \in Group /\ k \in Group
        BY <2>types, CountsAssumption DEF Group
      <4> QED BY <4>1 DEF TypeOK
    <3>2. CASE j \in 0 .. ready - 1 /\ k \in 0 .. ready - 1
      BY <2>2, <2>5, <2>10, <3>2 DEF Enumerates
    <3>3. CASE j \in ready .. end - 1 /\ k \in ready .. end - 1
      <4>1. j - ready = k - ready
        BY <2>3, <2>6, <2>10, <3>3, LongestEnumerates
      <4> QED BY <2>3, <3>3, <4>1
    <3>4. CASE \/ j \in 0 .. ready - 1 /\ k \in ready .. end - 1
               \/ k \in 0 .. ready - 1 /\ j \in ready .. end - 1
      BY <2>3, <2>5, <2>7, <2>10, <3>1, <3>4, CountsAssumption DEF Group
    <3> QED BY <2>9, <3>2, <3>3, <3>4
  <2>11. ASSUME NEW g \in 0 .. end - 1 PROVE \E k \in 0 .. end - 1 : order'[k] = g
    <3>1. CASE g < ready
      <4>1. PICK k \in 0 .. ready - 1 : order[k] = g
        BY <2>2, <2>3, <3>1 DEF Enumerates
      <4> QED BY <2>3, <2>5, <4>1
    <3>2. CASE g >= ready
      <4>1. PICK n \in 0 .. end - ready - 1 : Longest(ready .. end - 1, n) = g
        BY <2>3, <3>2, LongestEnumerates
      <4>2. ready + n \in ready .. end - 1 /\ (ready + n) - ready = n
            /\ ready + n \in 0 .. end - 1
        BY <2>3
      <4> QED BY <2>6, <4>1, <4>2
    <3> QED BY <2>3, <3>1, <3>2
  <2>12. end' = end
    BY <2>1 DEF end, batch_begin
  <2>13. batch_begin(landed)' = end
    BY <2>1 DEF end, batch_begin
  <2>14. Enumerates(batch_begin(landed))'
    BY <2>9, <2>10, <2>11, <2>13 DEF Enumerates
  <2> QED BY <2>1, <2>3, <2>8, <2>13, <2>14 DEF OrderInv, TypeOK
<1>4. ASSUME NEW t \in Thread, ReleaseBatches(t) PROVE OrderInv'
  <2>1. /\ ready' = batch_begin(landed) /\ UNCHANGED <<copied, order, landed>>
    BY <1>4 DEF ReleaseBatches, memory
  <2>2. batch_begin(landed)' = batch_begin(landed) /\ batch_begin(landed) \in 0 .. NumAc
    BY <2>1, LandedBatches DEF batch_begin
  <2> QED BY <2>1, <2>2 DEF OrderInv, Enumerates
<1>5. ASSUME NEW t \in Thread, Step(t), ~ SortBatches(t), ~ ReleaseBatches(t)
      PROVE  OrderInv'
  <2>1. UNCHANGED <<copied, ready, order, landed>>
    BY <1>5, Writers
  <2>2. batch_begin(landed)' = batch_begin(landed)
    BY <2>1 DEF batch_begin
  <2>3. pc'[0] # "release" => pc[0] # "release"
    BY <1>5, OthersKeep, ThreadZero, Moves DEF Step, BuildTables, Release, Code, Place
  <2> QED BY <2>1, <2>2, <2>3 DEF OrderInv, Enumerates
<1> QED BY <1>1, <1>2, <1>3, <1>4, <1>5 DEF Next

(* What ClaimStream and StartStream do to the lanes. *)
LEMMA ClaimStreamDoes ==
  ASSUME TypeOK, LanesInv, NEW t \in Thread, ClaimStream(t)
  PROVE  LET l == NextLane(t) IN
         /\ l \in Lane /\ l \in refill[t] /\ pc[t] = "code" /\ next' = next + 1
         /\ lanes'[t][l].stream = NO_STREAM
         /\ \A m \in Lane : m # l => lanes'[t][m] = lanes[t][m]
         /\ coded' = Finished(t, l)
         /\ \/ /\ next < NumAc /\ pc'[t] = "await_stream" /\ item'[t] = next
               /\ refill' = refill
            \/ /\ next >= NumAc /\ pc'[t] = "code" /\ item' = item
               /\ refill'[t] = refill[t] \ {l}
<1> DEFINE l == NextLane(t)
<1>1. /\ refill[t] # {} /\ pc[t] = "code" /\ next' = next + 1 /\ coded' = Finished(t, l)
      /\ lanes' = [lanes EXCEPT ![t][l] = Idle]
  BY DEF ClaimStream
<1>2. l \in refill[t] /\ l \in Lane
  BY <1>1, NextLaneInRefill DEF TypeOK
<1> HIDE DEF l
<1>3. DOMAIN lanes = Thread /\ DOMAIN lanes[t] = Lane
  BY DEF TypeOK
<1>4. /\ lanes'[t][l].stream = NO_STREAM
      /\ \A m \in Lane : m # l => lanes'[t][m] = lanes[t][m]
  BY <1>1, <1>2, <1>3 DEF Idle
<1>5. /\ next \in Nat /\ item \in [Thread -> Nat] /\ pc \in [Thread -> Labels]
      /\ refill \in [Thread -> SUBSET Lane]
  BY DEF TypeOK
<1>6. \/ /\ next < NumAc /\ pc'[t] = "await_stream" /\ item'[t] = next
         /\ refill' = refill
      \/ /\ next >= NumAc /\ pc'[t] = "code" /\ item' = item
         /\ refill'[t] = refill[t] \ {l}
  BY <1>5, CountsAssumption DEF ClaimStream, GoTo, l
<1> QED BY <1>1, <1>2, <1>4, <1>6 DEF l

(* What starting a stream in a lane changes. *)
LEMMA StartStreamDoes ==
  ASSUME TypeOK, LanesInv, NEW t \in Thread, StartStream(t)
  PROVE  LET l == NextLane(t) IN
         /\ l \in Lane /\ l \in refill[t] /\ pc[t] = "await_stream" /\ pc'[t] = "code"
         /\ item[t] < ready /\ item[t] \in Group
         /\ lanes[t][l].stream = NO_STREAM
         /\ lanes'[t][l].stream = order[item[t]] /\ order[item[t]] \in Group
         /\ \A m \in Lane : m # l => lanes'[t][m] = lanes[t][m]
         /\ refill[t] \ {l} \subseteq refill'[t] /\ refill'[t] \subseteq refill[t]
<1> DEFINE l == NextLane(t)
           g == order[item[t]]
<1>1. /\ pc[t] = "await_stream" /\ pc' = [pc EXCEPT ![t] = "code"] /\ ready > item[t]
      /\ lanes' = [lanes EXCEPT ![t][l] = [stream |-> g, left |-> Tokens[g]]]
      /\ refill' = refill \/ refill' = [refill EXCEPT ![t] = @ \ {l}]
  BY DEF StartStream, GoTo
<1>2. /\ refill[t] # {} /\ lanes[t][l].stream = NO_STREAM /\ item[t] < NumAc
  BY <1>1 DEF LanesInv
<1>3. l \in refill[t] /\ l \in Lane
  BY <1>2, NextLaneInRefill DEF TypeOK
<1>4. item[t] \in Group /\ item[t] < ready
  <2>1. item[t] \in Nat /\ ready \in 0 .. NumAc
    BY DEF TypeOK
  <2> QED BY <1>1, <1>2, <2>1, CountsAssumption DEF Group
<1>5. g \in Group
  BY <1>4 DEF TypeOK
<1> HIDE DEF l, g
<1>6. DOMAIN lanes = Thread /\ DOMAIN lanes[t] = Lane /\ DOMAIN refill = Thread
      /\ DOMAIN pc = Thread
  BY DEF TypeOK
<1>7. /\ lanes'[t][l].stream = g
      /\ \A m \in Lane : m # l => lanes'[t][m] = lanes[t][m]
  BY <1>1, <1>3, <1>6
<1>8. refill[t] \ {l} \subseteq refill'[t] /\ refill'[t] \subseteq refill[t]
  BY <1>1, <1>6
<1> QED BY <1>1, <1>2, <1>3, <1>4, <1>5, <1>6, <1>7, <1>8 DEF l, g

(* The lanes keep their streams while they code. *)
LEMMA CodeTokensDoes ==
  ASSUME TypeOK, NEW t \in Thread, CodeTokens(t)
  PROVE  /\ pc[t] = "code" /\ pc'[t] = "code" /\ refill[t] = {} /\ Active(t) # {}
         /\ \A m \in Lane : lanes'[t][m].stream = lanes[t][m].stream
         /\ refill'[t] \subseteq Active(t)
<1> DEFINE steps == CHOOSE n \in {lanes[t][l].left : l \in Active(t)} :
                      \A l \in Active(t) : n <= lanes[t][l].left
           left(l) == IF Active(t) = Lane THEN lanes[t][l].left - steps ELSE 0
<1>1. /\ pc[t] = "code" /\ pc' = pc /\ refill[t] = {} /\ Active(t) # {}
      /\ lanes' = [lanes EXCEPT ![t] =
                     [l \in Lane |-> IF l \in Active(t)
                                     THEN [lanes[t][l] EXCEPT !.left = left(l)]
                                     ELSE lanes[t][l]]]
      /\ refill' = [refill EXCEPT ![t] = {l \in Active(t) : left(l) = 0}]
  BY DEF CodeTokens
<1> HIDE DEF left
<1>2. /\ DOMAIN lanes = Thread /\ DOMAIN refill = Thread
      /\ \A l \in Lane : DOMAIN lanes[t][l] = {"stream", "left"}
  BY DEF TypeOK
<1>3. \A m \in Lane : lanes'[t][m].stream = lanes[t][m].stream
  BY <1>1, <1>2
<1>4. refill'[t] \subseteq Active(t)
  BY <1>1, <1>2
<1> QED BY <1>1, <1>3, <1>4

(* Every step keeps what the lanes hold. *)
LEMMA NextLanesInv ==
  ASSUME TypeOK, LanesInv, [Next]_vars
  PROVE  LanesInv'
<1>1. CASE BatchLands \/ UNCHANGED vars
  BY <1>1 DEF BatchLands, vars, queue, coders, LanesInv, Active, NextLane
<1>2. ASSUME NEW t \in Thread, Step(t) PROVE LanesInv'
  <2>1. \A u \in Thread : u # t =>
          /\ pc'[u] = pc[u] /\ item'[u] = item[u] /\ refill'[u] = refill[u]
          /\ lanes'[u] = lanes[u] /\ Active(u)' = Active(u) /\ NextLane(u)' = NextLane(u)
    BY <1>2, OthersKeep DEF Active, NextLane
  <2>2. next' = next \/ next' = next + 1
    BY <1>2, Writers DEF ClaimStream
  <2>3. \A u \in Thread : item[u] \in Nat /\ next \in Nat
    BY DEF TypeOK
  <2>4. CASE ClaimStream(t)
    <3>1. /\ pc[t] = "code" /\ pc'[t] \in {"code", "await_stream"} /\ next' = next + 1
          /\ pc'[t] = "await_stream" =>
               /\ next < NumAc /\ item'[t] = next /\ refill' = refill
               /\ refill[t] # {} /\ lanes'[t][NextLane(t)].stream = NO_STREAM
      BY <2>4, ClaimStreamDoes
    <3>2. refill' = refill => NextLane(t)' = NextLane(t)
      BY DEF NextLane
    <3>3. \A u \in Thread : u # t /\ pc[u] = "await_stream" => item[u] < next
      BY DEF LanesInv
    <3> QED BY <2>1, <2>3, <3>1, <3>2, <3>3 DEF LanesInv
  <2>5. CASE ~ ClaimStream(t)
    <3>1. pc'[t] # "await_stream"
      BY <1>2, <2>5, Moves DEF Step, BuildTables, Release, Code, Place
    <3>2. refill'[t] # {} \/ Active(t)' # {} => pc'[t] = "code"
      <4>1. CASE CoderDone(t)
        BY <4>1 DEF CoderDone, coders, Active
      <4>2. CASE pc[t] \notin {"code", "await_stream"}
        <5>1. refill[t] = {} /\ Active(t) = {}
          BY <4>2 DEF LanesInv
        <5>2. lanes' = lanes
          BY <1>2, <4>2, Writers, Moves
        <5>3. refill' = refill \/ pc'[t] = "code"
          BY <1>2, <4>2, Writers, Moves
        <5> QED BY <5>1, <5>2, <5>3 DEF Active
      <4>3. CASE pc[t] \in {"code", "await_stream"} /\ ~ CoderDone(t)
        BY <1>2, <2>5, <4>3, Moves DEF Step, BuildTables, Release, Code, Place
      <4> QED BY <4>1, <4>2, <4>3
    <3> QED BY <2>1, <2>2, <2>3, <3>1, <3>2 DEF LanesInv
  <2> QED BY <2>4, <2>5
<1> QED BY <1>1, <1>2 DEF Next
---------------------------------------------------------------------------
(* The streams of the lanes.                                               *)

(* ClaimStream finishes the stream of the lane it refills. *)
LEMMA ClaimStreamFinishes ==
  ASSUME TypeOK, LanesInv, NEW t \in Thread, ClaimStream(t)
  PROVE  /\ \A u \in Thread, m \in Lane, g \in Group :
              InLane(u, m, g)' <=> InLane(u, m, g) /\ ~ (u = t /\ m = NextLane(t))
         /\ \A g \in Group :
              coded'[g] = IF InLane(t, NextLane(t), g) THEN coded[g] + 1 ELSE coded[g]
<1> DEFINE l == NextLane(t)
<1>1. /\ l \in Lane /\ lanes'[t][l].stream = NO_STREAM /\ coded' = Finished(t, l)
      /\ \A m \in Lane : m # l => lanes'[t][m] = lanes[t][m]
  BY ClaimStreamDoes
<1>2. \A u \in Thread : u # t => lanes'[u] = lanes[u]
  BY OthersKeep DEF Step, Code
<1>3. \A g \in Group : g # NO_STREAM
  BY CountsAssumption DEF Group, NO_STREAM
<1>4. coded \in [Group -> Nat]
  BY DEF TypeOK
<1> HIDE DEF l
<1>5. \A u \in Thread, m \in Lane, g \in Group :
        InLane(u, m, g)' <=> InLane(u, m, g) /\ ~ (u = t /\ m = l)
  BY <1>1, <1>2, <1>3 DEF InLane
<1>6. \A g \in Group : coded'[g] = IF InLane(t, l, g) THEN coded[g] + 1 ELSE coded[g]
  BY <1>1, <1>3, <1>4 DEF InLane, Finished
<1> QED BY <1>5, <1>6 DEF l

(* StartStream puts the group of the claimed position in that lane. *)
LEMMA StartStreamStarts ==
  ASSUME TypeOK, LanesInv, NEW t \in Thread, StartStream(t)
  PROVE  /\ \A u \in Thread, m \in Lane, g \in Group :
              InLane(u, m, g)' <=> \/ InLane(u, m, g)
                                   \/ u = t /\ m = NextLane(t) /\ g = order[item[t]]
         /\ coded' = coded
<1> DEFINE l == NextLane(t)
<1>1. /\ l \in Lane /\ lanes[t][l].stream = NO_STREAM
      /\ lanes'[t][l].stream = order[item[t]]
      /\ \A m \in Lane : m # l => lanes'[t][m] = lanes[t][m]
  BY StartStreamDoes
<1>2. \A u \in Thread : u # t => lanes'[u] = lanes[u]
  BY OthersKeep DEF Step, Code
<1>3. \A g \in Group : g # NO_STREAM
  BY CountsAssumption DEF Group, NO_STREAM
<1> HIDE DEF l
<1>4. \A u \in Thread, m \in Lane, g \in Group :
        InLane(u, m, g)' <=> \/ InLane(u, m, g)
                             \/ u = t /\ m = l /\ g = order[item[t]]
  BY <1>1, <1>2, <1>3 DEF InLane
<1>5. coded' = coded
  BY DEF StartStream, queue
<1> QED BY <1>4, <1>5 DEF l

(* Only claiming and starting a stream move streams. *)
LEMMA StreamsKept ==
  ASSUME TypeOK, NEW t \in Thread, Step(t), ~ ClaimStream(t), ~ StartStream(t)
  PROVE  /\ \A u \in Thread, m \in Lane, g \in Group :
              InLane(u, m, g)' <=> InLane(u, m, g)
         /\ coded' = coded
<1>1. coded' = coded
  BY Writers
<1>2. \A u \in Thread, m \in Lane : lanes'[u][m].stream = lanes[u][m].stream
  <2>1. CASE CodeTokens(t)
    BY <2>1, CodeTokensDoes, OthersKeep
  <2>2. CASE ~ CodeTokens(t)
    BY <2>2, Writers
  <2> QED BY <2>1, <2>2
<1> QED BY <1>1, <1>2 DEF InLane

(* Every step keeps that claimed positions are awaited, in a lane or *)
(* coded,                                                            *)
LEMMA NextStartedInv ==
  ASSUME TypeOK, RolesInv, OrderInv, OrderInv', LanesInv, StartedInv, [Next]_vars
  PROVE  StartedInv'
<1> USE DEF Awaits
<1>1. CASE BatchLands \/ UNCHANGED vars
  BY <1>1 DEF BatchLands, vars, queue, coders, StartedInv, Started, InLane
<1>2. ASSUME NEW t \in Thread, Step(t) PROVE StartedInv'
  <2>1. \A u \in Thread : u # t => pc'[u] = pc[u] /\ item'[u] = item[u]
    BY <1>2, OthersKeep
  <2>2. next \in Nat /\ ready \in Nat /\ Group \subseteq Nat /\ ready <= NumAc
    BY CountsAssumption DEF TypeOK, Group
  <2>3. CASE ClaimStream(t)
    <3>1. /\ next' = next + 1 /\ ready' = ready /\ order' = order
          /\ pc'[t] = "await_stream" => item'[t] = next
      BY <2>3, ClaimStreamDoes, <1>2, Writers, Moves
    <3>2. \A g \in Group : Started(g)' => Started(g)
      <4>1. coded \in [Group -> Nat]
        BY DEF TypeOK
      <4>2. ClaimStream(t) => NextLane(t) \in Lane
        BY ClaimStreamDoes
      <4> QED BY <2>3, <4>1, <4>2, ClaimStreamFinishes DEF Started
    <3> QED BY <2>1, <2>2, <3>1, <3>2 DEF StartedInv
  <2>4. CASE StartStream(t)
    <3>1. /\ next' = next /\ ready' = ready /\ order' = order /\ item' = item
          /\ pc'[t] = "code" /\ pc[t] = "await_stream"
          /\ item[t] < ready /\ item[t] \in Group
      BY <2>4, StartStreamDoes, <1>2, Writers, Moves
    <3>2. \A g \in Group : Started(g)' => Started(g) \/ g = order[item[t]]
      BY <2>4, StartStreamStarts DEF Started
    <3>3. item[t] \in 0 .. ready - 1 /\ item[t] < next
      <4>1. item[t] < next
        BY <3>1 DEF LanesInv
      <4>2. item[t] \in Nat
        BY <2>2, <3>1
      <4> QED BY <2>2, <3>1, <4>1, <4>2
    <3>4. order[item[t]] < ready /\ \A k \in 0 .. ready - 1 :
                                       order[k] = order[item[t]] => k = item[t]
      BY <3>3 DEF OrderInv, Enumerates
    <3>5. \A u \in Thread : pc[u] = "await_stream" /\ item[u] = item[t] => u = t
      BY <3>1 DEF LanesInv
    <3> QED BY <2>1, <3>1, <3>2, <3>3, <3>4, <3>5 DEF StartedInv
  <2>5. CASE ~ ClaimStream(t) /\ ~ StartStream(t)
    <3>1. \A g \in Group : Started(g)' <=> Started(g)
      BY <1>2, <2>5, StreamsKept DEF Started
    <3>2. next' = next
      BY <1>2, <2>5, Writers
    <3>3. pc'[t] # "await_stream"
      BY <1>2, <2>5, Moves DEF Step, BuildTables, Release, Code, Place
    <3>4. \A u \in Thread, k \in Nat : Awaits(u, k)' => Awaits(u, k)
      BY <2>1, <3>3
    <3>5. ASSUME NEW g \in Group, Started(g)
          PROVE  /\ g < ready'
                 /\ \A k \in 0 .. ready' - 1 : order'[k] = g =>
                      k \in 0 .. ready - 1 /\ order[k] = g
      <4>1. g \in 0 .. ready - 1
        BY <2>2, <3>5 DEF StartedInv
      <4>2. CASE SortBatches(t)
        <5>1. /\ ready' = ready
              /\ \A k \in Group : k < ready => order'[k] = order[k]
          BY <2>2, <4>2 DEF SortBatches, queue
        <5>2. 0 .. ready - 1 \subseteq Group
          BY <2>2, CountsAssumption DEF Group
        <5> QED BY <2>2, <4>1, <5>1, <5>2
      <4>3. CASE ReleaseBatches(t)
        <5>1. ready' = batch_begin(landed) /\ order' = order
          BY <4>3 DEF ReleaseBatches
        <5>2. ready <= ready' /\ ready' \in Nat
          BY <2>2, <5>1, LandedBatches, CountsAssumption DEF OrderInv
        <5>3. PICK j \in 0 .. ready - 1 : order[j] = g
          BY <4>1 DEF OrderInv, Enumerates
        <5>4. \A k \in 0 .. ready' - 1 : order[k] = g => k = j
          <6>1. \A i, k \in 0 .. ready' - 1 : order[i] = order[k] => i = k
            <7>1. Enumerates(batch_begin(landed))
              BY DEF OrderInv
            <7>2. \A i, k \in 0 .. batch_begin(landed) - 1 : order[i] = order[k] => i = k
              BY <7>1 DEF Enumerates
            <7> QED BY <5>1, <7>2
          <6>2. j \in 0 .. ready' - 1
            <7>1. ready \in Nat
              BY DEF TypeOK
            <7>2. ready' \in Nat /\ ready <= ready'
              BY <5>2
            <7>3. 0 .. ready - 1 \subseteq 0 .. ready' - 1
              BY <7>1, <7>2, FirstOfMore
            <7> QED BY <7>3
          <6> QED BY <5>3, <6>1, <6>2
        <5> QED BY <2>2, <4>1, <5>1, <5>2, <5>3, <5>4
      <4>4. CASE ~ SortBatches(t) /\ ~ ReleaseBatches(t)
        BY <1>2, <2>2, <4>1, <4>4, Writers
      <4> QED BY <4>2, <4>3, <4>4
    <3> QED BY <3>1, <3>2, <3>4, <3>5 DEF StartedInv
  <2> QED BY <2>3, <2>4, <2>5
<1> QED BY <1>1, <1>2 DEF Next

(* by one lane at most, *)
LEMMA NextOnceInv ==
  ASSUME TypeOK, LanesInv, StartedInv, OnceInv, [Next]_vars
  PROVE  OnceInv'
<1>1. CASE BatchLands \/ UNCHANGED vars
  BY <1>1 DEF BatchLands, vars, queue, coders, OnceInv, InLane
<1>2. ASSUME NEW t \in Thread, Step(t) PROVE OnceInv'
  <2>1. CASE ClaimStream(t)
    <3>1. NextLane(t) \in Lane
      BY <2>1, ClaimStreamDoes
    <3>2. \A g \in Group : coded[g] \in Nat
      BY DEF TypeOK
    <3> QED BY <2>1, <3>1, <3>2, ClaimStreamFinishes DEF OnceInv
  <2>2. CASE StartStream(t)
    <3>1. ~ Started(order[item[t]]) /\ NextLane(t) \in Lane
      <4>1. /\ pc[t] = "await_stream" /\ item[t] \in 0 .. ready - 1
            /\ order[item[t]] \in Group /\ NextLane(t) \in Lane
        <5>1. /\ pc[t] = "await_stream" /\ item[t] < ready /\ item[t] \in Group
              /\ order[item[t]] \in Group /\ NextLane(t) \in Lane
          BY <2>2, StartStreamDoes
        <5>2. ready \in Nat /\ item[t] \in Nat
          BY CountsAssumption DEF TypeOK
        <5>3. item[t] \in 0 .. ready - 1
          BY <5>1, <5>2
        <5> QED BY <5>1, <5>3
      <4> QED BY <4>1 DEF StartedInv, Awaits
    <3> QED BY <2>2, <3>1, StartStreamStarts DEF OnceInv, Started
  <2>3. CASE ~ ClaimStream(t) /\ ~ StartStream(t)
    BY <1>2, <2>3, StreamsKept DEF OnceInv
  <2> QED BY <2>1, <2>2, <2>3
<1> QED BY <1>1, <1>2 DEF Next

(* What is released stays released, in the same order. *)
LEMMA ReleasedKept ==
  ASSUME TypeOK, RolesInv, OrderInv, [Next]_vars
  PROVE  ready' \in Nat /\ ready' >= ready /\ \A k \in 0 .. ready - 1 : order'[k] = order[k]
<1>1. ready \in Nat /\ ready <= NumAc
  BY CountsAssumption DEF TypeOK
<1>2. CASE BatchLands \/ UNCHANGED vars
  BY <1>1, <1>2 DEF BatchLands, vars, queue
<1>3. ASSUME NEW t \in Thread, SortBatches(t)
      PROVE  ready' = ready /\ \A k \in 0 .. ready - 1 : order'[k] = order[k]
  <2>1. /\ ready' = ready
        /\ \A k \in Group : k < ready => order'[k] = order[k]
    BY <1>1, <1>3, CountsAssumption DEF SortBatches, Group
  <2>2. 0 .. ready - 1 \subseteq Group
    BY <1>1, CountsAssumption DEF Group
  <2> QED BY <1>1, <2>1, <2>2
<1>4. ASSUME NEW t \in Thread, ReleaseBatches(t)
      PROVE  ready' \in Nat /\ ready' >= ready /\ order' = order
  BY <1>1, <1>4, LandedBatches, CountsAssumption DEF ReleaseBatches, OrderInv
<1>5. ASSUME NEW t \in Thread, Step(t), ~ SortBatches(t), ~ ReleaseBatches(t)
      PROVE  ready' = ready /\ order' = order
  BY <1>5, Writers
<1> QED BY <1>1, <1>2, <1>3, <1>4, <1>5 DEF Next

(* What is started stays so, and is coded in the end. *)
LEMMA StartedKept ==
  ASSUME TypeOK, LanesInv, [Next]_vars, NEW g \in Group, Started(g)
  PROVE  Started(g)'
<1>1. CASE BatchLands \/ UNCHANGED vars
  BY <1>1 DEF BatchLands, vars, queue, coders, Started, InLane
<1>2. ASSUME NEW t \in Thread, Step(t) PROVE Started(g)'
  <2>1. coded[g] \in Nat
    BY DEF TypeOK
  <2>2. CASE ClaimStream(t)
    BY <2>1, <2>2, ClaimStreamFinishes DEF Started
  <2>3. CASE StartStream(t)
    BY <2>3, StartStreamStarts DEF Started
  <2>4. CASE ~ ClaimStream(t) /\ ~ StartStream(t)
    BY <1>2, <2>4, StreamsKept DEF Started
  <2> QED BY <2>2, <2>3, <2>4
<1> QED BY <1>1, <1>2 DEF Next

(* and the count of the threads done coding. *)
LEMMA NextCodersInv ==
  ASSUME TypeOK, RolesInv, OrderInv, LanesInv, CodersInv, [Next]_vars
  PROVE  CodersInv'
<1> DEFINE Past == {u \in Thread : pc[u] \in AfterCode}
           AtWork(u, m) == lanes[u][m].stream # NO_STREAM \/ m \in refill[u]
           Over == next >= NumAc \/ cancelled
<1>types. next \in Nat /\ NumAc \in Nat /\ ready \in Nat
  BY CountsAssumption DEF TypeOK
<1>1. CASE BatchLands \/ UNCHANGED vars
  BY <1>1 DEF BatchLands, vars, queue, placing, coders, CodersInv, Started, InLane,
              Awaits
<1>2. ASSUME NEW t \in Thread, Step(t) PROVE CodersInv'
  <2>1. \A u \in Thread : u # t => /\ pc'[u] = pc[u] /\ item'[u] = item[u]
                                   /\ lanes'[u] = lanes[u] /\ refill'[u] = refill[u]
    BY <1>2, OthersKeep
  <2>2. (next' = next \/ next' = next + 1) /\ (cancelled => cancelled')
    BY <1>2, Writers DEF ClaimStream, CancelQueue
  <2>3. Over => Over'
    BY <2>2, <1>types
  <2>4. coders_done' = Cardinality(Past')
    <3>1. CASE CoderDone(t)
      <4>1. /\ pc[t] = "code" /\ pc'[t] \in AfterCode /\ coders_done' = coders_done + 1
        BY <3>1, Moves DEF CoderDone, AfterCode
      <4>2. Past' = Past \cup {t} /\ t \notin Past
        BY <2>1, <4>1 DEF AfterCode
      <4>3. Cardinality(Past') = Cardinality(Past) + 1
        BY <4>2, ThreadsFinite, FS_AddElement
      <4> QED BY <4>1, <4>3 DEF CodersInv
    <3>2. CASE ~ CoderDone(t)
      <4>1. pc'[t] \in AfterCode <=> pc[t] \in AfterCode
        BY <1>2, <3>2, Moves DEF AfterCode, Step, BuildTables, Release, Code, Place
      <4>2. Past' = Past
        BY <2>1, <4>1
      <4> QED BY <1>2, <3>2, <4>2, Writers DEF CodersInv
    <3> QED BY <3>1, <3>2
  <2>5. ASSUME NEW l \in Lane,
               pc'[t] \in AfterCode \cup {"code", "await_stream"}
        PROVE  AtWork(t, l)' \/ Over'
    <3>1. CASE AwaitCode(t) \/ AllReleased(t) \/ CancelQueue(t)
      BY <3>1 DEF AwaitCode, AllReleased, CancelQueue, StartCoding, TypeOK
    <3>2. CASE ~ (AwaitCode(t) \/ AllReleased(t) \/ CancelQueue(t))
      <4>1. pc[t] \in AfterCode \cup {"code", "await_stream"}
        BY <1>2, <2>5, <3>2, Moves DEF AfterCode, Step, BuildTables, Release, Code, Place
      <4>2. AtWork(t, l) \/ Over
        BY <4>1 DEF CodersInv
      <4>3. CASE ClaimStream(t)
        BY <2>2, <2>3, <4>2, <4>3, ClaimStreamDoes, <1>types
      <4>4. CASE StartStream(t)
        <5>1. order[item[t]] # NO_STREAM
          BY <4>4, StartStreamDoes, CountsAssumption DEF Group, NO_STREAM
        <5> QED BY <2>3, <4>2, <4>4, <5>1, StartStreamDoes
      <4>5. CASE StreamCancelled(t)
        BY <4>5 DEF StreamCancelled, queue
      <4>6. CASE CodeTokens(t)
        BY <2>3, <4>2, <4>6, CodeTokensDoes
      <4>7. CASE ~ (ClaimStream(t) \/ StartStream(t) \/ StreamCancelled(t) \/ CodeTokens(t))
        BY <1>2, <2>3, <3>2, <4>2, <4>7, Writers
      <4> QED BY <4>3, <4>4, <4>5, <4>6, <4>7
    <3> QED BY <3>1, <3>2
  <2>6. ASSUME NEW u \in Thread, NEW l \in Lane,
               pc'[u] \in AfterCode \cup {"code", "await_stream"}
        PROVE  AtWork(u, l)' \/ Over'
    BY <2>1, <2>3, <2>5, <2>6 DEF CodersInv
  <2>7. ASSUME NEW k \in Group, k < next'
        PROVE  \/ cancelled'
               \/ \E u \in Thread : Awaits(u, k)'
               \/ k < ready' /\ Started(order[k])'
    <3>1. k \in Nat
      BY CountsAssumption DEF Group
    <3>2. CASE k >= next
      <4>1. ClaimStream(t)
        BY <1>types, <1>2, <2>7, <3>1, <3>2, Writers
      <4>2. /\ next' = next + 1
            /\ \/ next >= NumAc
               \/ pc'[t] = "await_stream" /\ item'[t] = next
        BY <4>1, ClaimStreamDoes
      <4>3. k = next /\ k < NumAc
        BY <1>types, <2>7, <3>1, <3>2, <4>2 DEF Group
      <4> QED BY <1>types, <4>2, <4>3 DEF Awaits
    <3>3. CASE k < next /\ k < ready /\ Started(order[k])
      <4>1. ready' \in Nat /\ ready' >= ready /\ order'[k] = order[k] /\ order[k] \in Group
        <5>1. k \in 0 .. ready - 1
          BY <1>types, <3>1, <3>3
        <5>2. order[k] \in Group
          BY DEF TypeOK
        <5> QED BY <5>1, <5>2, ReleasedKept
      <4>2. Started(order[k])'
        <5>1. PICK g \in Group : g = order[k]
          BY <4>1
        <5>2. Started(g)'
          BY <3>3, <5>1, StartedKept
        <5> QED BY <4>1, <5>1, <5>2 DEF Started, InLane
      <4> QED BY <1>types, <3>1, <3>3, <4>1, <4>2
    <3>4. CASE \E u \in Thread : Awaits(u, k)
      <4>1. PICK u \in Thread : Awaits(u, k)
        BY <3>4
      <4>2. CASE u # t
        BY <2>1, <4>1, <4>2 DEF Awaits
      <4>3. CASE u = t
        <5>1. StartStream(t) \/ StreamCancelled(t)
          BY <1>2, <4>1, <4>3, Moves DEF Awaits, Step, BuildTables, Release, Code, Place
        <5>2. CASE StreamCancelled(t)
          BY <5>2 DEF StreamCancelled, queue
        <5>3. CASE StartStream(t)
          <6>1. /\ item[t] = k /\ k < ready /\ order[k] \in Group /\ NextLane(t) \in Lane
                /\ ready' = ready /\ order' = order
            BY <1>2, <4>1, <4>3, <5>3, StartStreamDoes, Writers, Moves DEF Awaits
          <6>2. PICK g \in Group : g = order[k]
            BY <6>1
          <6>3. Started(g)'
            BY <5>3, <6>1, <6>2, StartStreamStarts DEF Started
          <6> QED BY <6>1, <6>2, <6>3 DEF Started, InLane
        <5> QED BY <5>1, <5>2, <5>3
      <4> QED BY <4>2, <4>3
    <3> QED BY <1>types, <2>2, <3>1, <3>2, <3>3, <3>4 DEF CodersInv
  <2> QED BY <2>4, <2>6, <2>7 DEF CodersInv
<1> QED BY <1>1, <1>2 DEF Next
---------------------------------------------------------------------------
(* The result.                                                             *)

(* When all threads are counted, none is still coding. *)
LEMMA AllCodersDone ==
  ASSUME CodersInv, coders_done = NumThreads
  PROVE  \A t \in Thread : pc[t] \in AfterCode
<1> DEFINE Past == {t \in Thread : pc[t] \in AfterCode}
<1>1. Cardinality(Past) = Cardinality(Thread)
  BY ThreadsFinite DEF CodersInv
<1>2. Past = Thread
  BY <1>1, ThreadsFinite, FS_Subset
<1> QED BY <1>2

(* With every thread past its coding, and the queue not cancelled, every   *)
(* group has been coded.                                                   *)
LEMMA AllCoded ==
  ASSUME TypeOK, OrderInv, LanesInv, OnceInv, CodersInv,
         \A t \in Thread : pc[t] \in AfterCode, ~ cancelled
  PROVE  /\ \A g \in Group : coded[g] = 1
         /\ \A t \in Thread : Active(t) = {}
<1>1. \A t \in Thread : Active(t) = {} /\ refill[t] = {}
  BY DEF LanesInv, AfterCode
<1>2. \A t \in Thread, l \in Lane : lanes[t][l].stream = NO_STREAM
  BY <1>1 DEF Active
<1>3. next >= NumAc
  <2>1. 1 \in Lane
    BY CountsAssumption DEF Lane
  <2> QED BY <1>1, <1>2, <2>1, ThreadZero DEF CodersInv
<1>4. \A k \in Group : k < ready /\ Started(order[k])
  <2>1. \A k \in Group : k < next
    <3>1. NumAc \in Nat /\ next \in Nat
      BY CountsAssumption DEF TypeOK
    <3> QED BY <1>3, <3>1 DEF Group
  <2>2. \A k \in Nat, t \in Thread : ~ Awaits(t, k)
    BY DEF Awaits, AfterCode
  <2>3. Group \subseteq Nat
    BY CountsAssumption DEF Group
  <2> QED BY <2>1, <2>2, <2>3 DEF CodersInv
<1>5. ready = NumAc
  <2>1. NumAc - 1 \in Group /\ NumAc \in Nat
    BY CountsAssumption DEF Group
  <2>2. NumAc - 1 < ready /\ ready \in 0 .. NumAc
    BY <1>4, <2>1 DEF TypeOK
  <2> QED BY <2>1, <2>2
<1>6. ASSUME NEW g \in Group PROVE coded[g] = 1
  <2>1. PICK k \in Group : order[k] = g
    BY <1>5 DEF OrderInv, Enumerates, Group
  <2>2. coded[g] # 0
    <3>1. \A t \in Thread, l \in Lane : ~ InLane(t, l, g)
      BY <1>2, CountsAssumption DEF InLane, Group, NO_STREAM
    <3> QED BY <1>4, <2>1, <3>1 DEF Started
  <2>3. coded[g] \in Nat /\ coded[g] <= 1
    BY DEF TypeOK, OnceInv
  <2> QED BY <2>2, <2>3
<1> QED BY <1>1, <1>6

(* Every step keeps what the result is in each phase, *)
LEMMA NextResultInv ==
  ASSUME TypeOK, RolesInv, CodersInv, ResultInv, [Next]_vars
  PROVE  ResultInv'
<1>1. CASE BatchLands \/ UNCHANGED vars
  BY <1>1 DEF BatchLands, vars, queue, placing, memory, ResultInv
<1>2. ASSUME NEW t \in Thread, Step(t) PROVE ResultInv'
  <2>1. /\ out_capacity' = out_capacity
        /\ \A u \in Thread : u # t => pc'[u] = pc[u]
    BY <1>2, OthersKeep, Writers
  <2>2. pc[t] \in AfterCode => pc'[t] \in AfterCode
    BY <1>2, Moves DEF AfterCode, Step, BuildTables, Release, Code, Place
  <2>3. CASE CancelQueue(t)
    <3>1. /\ t = 0 /\ pc[0] = "sync_batch" /\ pc'[0] = "code"
          /\ UNCHANGED <<dc_ok, result, placement>>
      BY <2>3, Moves DEF CancelQueue, RolesInv, placing
    <3> QED BY <2>1, <3>1 DEF ResultInv
  <2>4. CASE FetchDc(t)
    <3>1. /\ t = 0 /\ pc[0] = "fetch_dc" /\ pc'[0] = "await_coders"
          /\ UNCHANGED <<cancelled, result, placement>> /\ (dc_ok' => ~ cancelled)
      BY <2>4, Moves DEF FetchDc, RolesInv, queue
    <3> QED BY <2>1, <3>1 DEF ResultInv
  <2>5. CASE SkipFailed(t)
    <3>1. /\ t = 0 /\ pc[0] = "await_coders" /\ pc'[0] = "done" /\ placement' = "SKIP"
          /\ UNCHANGED <<cancelled, result, dc_ok>>
      BY <2>5, Moves DEF SkipFailed, Skip, RolesInv, queue
    <3> QED BY <2>1, <2>2, <3>1 DEF ResultInv
  <2>6. CASE SkipTooLarge(t)
    <3>1. /\ t = 0 /\ pc[0] = "await_coders" /\ pc'[0] = "done" /\ placement' = "SKIP"
          /\ result' = "BUFFER_TOO_SMALL" /\ dc_ok /\ FileSize > out_capacity
          /\ UNCHANGED <<cancelled, dc_ok>> /\ coders_done = NumThreads
      BY <2>6, Moves DEF SkipTooLarge, Skip, RolesInv, queue
    <3>2. \A u \in Thread : pc'[u] \in AfterCode
      BY <2>1, <2>2, <3>1, AllCodersDone
    <3> QED BY <2>1, <3>1, <3>2 DEF ResultInv
  <2>7. CASE LayOut(t)
    <3>1. /\ t = 0 /\ pc[0] = "await_coders" /\ pc'[0] = "publish_layout"
          /\ result' = "OK" /\ dc_ok /\ FileSize <= out_capacity
          /\ UNCHANGED <<cancelled, dc_ok, placement>> /\ coders_done = NumThreads
      BY <2>7, Moves DEF LayOut, RolesInv, queue
    <3>2. \A u \in Thread : pc'[u] \in AfterCode
      BY <2>1, <2>2, <3>1, AllCodersDone
    <3> QED BY <2>1, <3>1, <3>2 DEF ResultInv
  <2>8. CASE PublishLayout(t)
    <3>1. /\ t = 0 /\ pc[0] = "publish_layout" /\ pc'[0] = "place"
          /\ placement' = "PLACE" /\ UNCHANGED <<cancelled, dc_ok, result>>
      BY <2>8, Moves DEF PublishLayout, RolesInv, queue
    <3> QED BY <2>1, <2>2, <3>1 DEF ResultInv
  <2>9. CASE AwaitPlacement(t)
    <3>1. /\ t # 0 /\ pc[t] = "await_placement" /\ placement # "PENDING"
          /\ pc'[t] = IF placement = "PLACE" THEN "place" ELSE "done"
          /\ UNCHANGED <<cancelled, dc_ok, result, placement>>
      BY <2>9, Moves DEF AwaitPlacement, GoTo, RolesInv, queue, placing, TypeOK
    <3> QED BY <2>1, <2>2, <3>1, ThreadZero DEF ResultInv, TypeOK
  <2>10. CASE ClaimPlace(t) \/ PlaceGroup(t)
    <3>1. /\ pc[t] \in {"place", "copy"} /\ pc'[t] \in {"place", "copy", "done"}
          /\ UNCHANGED <<cancelled, dc_ok, result, placement>>
      BY <2>10, Moves DEF ClaimPlace, PlaceGroup, queue, placing
    <3>2. placement = "PLACE"
      BY <3>1 DEF ResultInv
    <3> QED BY <2>1, <2>2, <3>1, <3>2, ThreadZero DEF ResultInv
  <2>11. CASE (BuildTables(t) \/ Release(t) \/ Code(t)) /\ ~ CancelQueue(t)
    <3>1. /\ pc[t] \notin {"publish_layout", "place", "copy", "done", "await_coders"}
          /\ pc'[t] \notin {"publish_layout", "place", "copy", "done"}
      BY <2>11, Moves DEF BuildTables, Release, Code
    <3>2. UNCHANGED <<cancelled, dc_ok, result, placement>>
      <4>1. /\ ~ FetchDc(t) /\ ~ SkipFailed(t) /\ ~ SkipTooLarge(t) /\ ~ LayOut(t)
            /\ ~ PublishLayout(t)
        BY <2>11, Moves DEF BuildTables, Release, Code
      <4> QED BY <1>2, <2>11, <4>1, Writers
    <3>3. dc_ok' => pc'[0] = pc[0]
      BY <2>1, <3>1, <3>2, ThreadZero DEF ResultInv
    <3> QED BY <2>1, <2>2, <3>1, <3>2, <3>3, ThreadZero DEF ResultInv
  <2> QED BY <1>2, <2>3, <2>4, <2>5, <2>6, <2>7, <2>8, <2>9, <2>10, <2>11
          DEF Step, Release, Place
<1> QED BY <1>1, <1>2 DEF Next

(* and that the file is laid out after all groups are coded. *)
LEMMA NextLaidOut ==
  ASSUME TypeOK, RolesInv, OrderInv, LanesInv, OnceInv, CodersInv, ResultInv,
         LaidOutWhenCoded, [Next]_vars
  PROVE  LaidOutWhenCoded'
<1>1. CASE BatchLands \/ UNCHANGED vars
  BY <1>1 DEF BatchLands, vars, queue, placing, coders, LaidOutWhenCoded, Active
<1>2. ASSUME NEW t \in Thread, Step(t) PROVE LaidOutWhenCoded'
  <2>1. CASE SkipTooLarge(t) \/ LayOut(t)
    <3>1. dc_ok /\ coders_done = NumThreads /\ UNCHANGED <<coded, lanes>>
      BY <2>1 DEF SkipTooLarge, Skip, LayOut, queue, coders
    <3>2. /\ \A g \in Group : coded[g] = 1
          /\ \A u \in Thread : Active(u) = {}
      BY <3>1, AllCodersDone, AllCoded DEF ResultInv
    <3> QED BY <3>1, <3>2 DEF LaidOutWhenCoded, Active
  <2>2. CASE ~ SkipTooLarge(t) /\ ~ LayOut(t)
    <3>1. result' = result
      BY <1>2, <2>2, Writers
    <3>2. result # "FAILED" => pc[t] \notin {"code", "await_stream"}
      BY DEF ResultInv, AfterCode
    <3>3. pc[t] \notin {"code", "await_stream"} => UNCHANGED <<coded, lanes>>
      BY <1>2, Writers, Moves
    <3> QED BY <3>1, <3>2, <3>3 DEF LaidOutWhenCoded, Active
  <2> QED BY <2>1, <2>2
<1> QED BY <1>1, <1>2 DEF Next
---------------------------------------------------------------------------
(* The file.                                                               *)

(* The file is as long as its buffer. *)
LEMMA DomainOfFile ==
  ASSUME TypeOK
  PROVE  DOMAIN file = 0 .. out_capacity - 1 /\ DOMAIN file \subseteq Nat
<1>1. file = [i \in 0 .. out_capacity - 1 |-> file[i]] /\ out_capacity \in Nat
  BY DEF TypeOK
<1>2. DOMAIN file = 0 .. out_capacity - 1
  BY <1>1
<1> QED BY <1>1, <1>2

(* LayOut writes the head; a copied group writes its own bytes. *)
LEMMA LayOutWrites ==
  ASSUME NEW t \in Thread, LayOut(t)
  PROVE  /\ DOMAIN file' = DOMAIN file
         /\ \A i \in DOMAIN file : file'[i] = IF i < FixedSize THEN "head" ELSE file[i]
BY DEF LayOut

(* Placing a group writes its bytes and no other. *)
LEMMA PlaceGroupWrites ==
  ASSUME NEW t \in Thread, PlaceGroup(t)
  PROVE  /\ DOMAIN file' = DOMAIN file
         /\ \A i \in DOMAIN file :
              file'[i] = IF i \in Bytes(item[t]) THEN ToString(item[t]) ELSE file[i]
BY DEF PlaceGroup, Bytes

(* Every step keeps what is left untouched, *)
LEMMA NextUntouched ==
  ASSUME TypeOK, RolesInv, ResultInv, FileInv, UntouchedUnlessOk, [Next]_vars
  PROVE  UntouchedUnlessOk'
<1> USE DEF FileSize
<1>1. CASE BatchLands \/ UNCHANGED vars
  BY <1>1 DEF BatchLands, vars, placing, memory, UntouchedUnlessOk
<1>2. ASSUME NEW t \in Thread, Step(t) PROVE UntouchedUnlessOk'
  <2>1. CASE LayOut(t)
    <3>1. result = "FAILED" /\ result' = "OK"
      BY <2>1, Moves DEF LayOut, RolesInv, ResultInv
    <3>2. \A i \in DOMAIN file : i >= FileSize => ~ i < FixedSize
      BY DomainOfFile, FileSizeNat, CountsAssumption
    <3> QED BY <2>1, <3>1, <3>2, LayOutWrites DEF UntouchedUnlessOk
  <2>2. CASE PlaceGroup(t)
    <3>1. pc[t] = "copy" /\ item[t] \in Group /\ result = "OK" /\ result' = result
      BY <2>2, Moves DEF PlaceGroup, placing, ResultInv, FileInv
    <3>2. \A i \in DOMAIN file : i >= FileSize => i \notin Bytes(item[t])
      BY <3>1, BytesInFile, DomainOfFile, FileSizeNat
    <3> QED BY <2>2, <3>1, <3>2, PlaceGroupWrites DEF UntouchedUnlessOk
  <2>3. CASE ~ LayOut(t) /\ ~ PlaceGroup(t)
    <3>1. file' = file
      BY <1>2, <2>3, Writers
    <3>2. SkipTooLarge(t) \/ result' = result
      BY <1>2, <2>3, Writers
    <3>3. SkipTooLarge(t) => result = "FAILED"
      BY Moves DEF RolesInv, ResultInv
    <3> QED BY <3>1, <3>2, <3>3 DEF UntouchedUnlessOk
  <2> QED BY <2>1, <2>2, <2>3
<1> QED BY <1>1, <1>2 DEF Next

(* and what of the file is written. *)
LEMMA NextFileInv ==
  ASSUME TypeOK, RolesInv, ResultInv, FileInv, [Next]_vars
  PROVE  FileInv'
<1>1. CASE BatchLands \/ UNCHANGED vars
  BY <1>1 DEF BatchLands, vars, placing, memory, coders, FileInv, Written, Bytes
<1>2. ASSUME NEW t \in Thread, Step(t) PROVE FileInv'
  <2>1. \A u \in Thread : u # t => pc'[u] = pc[u] /\ item'[u] = item[u]
    BY <1>2, OthersKeep
  <2>2. next_placed \in Nat /\ NumAc \in Nat /\ Group \subseteq Nat
    BY CountsAssumption DEF TypeOK, Group
  <2>3. CASE LayOut(t)
    <3>1. /\ t = 0 /\ pc[0] = "await_coders" /\ pc'[0] = "publish_layout"
          /\ UNCHANGED <<next_placed, item>>
      BY <2>3, Moves DEF LayOut, RolesInv, coders
    <3>2. next_placed = 0 /\ \A u \in Thread : pc[u] # "done" /\ pc[u] # "copy"
      BY <3>1 DEF ResultInv, FileInv
    <3>3. \A u \in Thread : pc'[u] # "done" /\ pc'[u] # "copy"
      BY <2>1, <3>1, <3>2
    <3> QED BY <2>2, <2>3, <3>1, <3>2, <3>3, LayOutWrites DEF FileInv
  <2>4. CASE PlaceGroup(t)
    <3>1. /\ pc[t] = "copy" /\ pc'[t] = "place" /\ item[t] \in Group
          /\ UNCHANGED <<next_placed, item, result>>
      BY <2>4, Moves DEF PlaceGroup, placing, coders, FileInv
    <3>2. \A i \in DOMAIN file : i < FixedSize => i \notin Bytes(item[t])
      BY <3>1, BytesInFile, DomainOfFile, CountsAssumption
    <3>3. Written(item[t])'
      BY <2>4, <3>1, PlaceGroupWrites DEF Written, Bytes
    <3>4. ASSUME NEW g \in Group, g # item[t], Written(g) PROVE Written(g)'
      <4>1. \A i \in DOMAIN file : i \in Bytes(g) => i \notin Bytes(item[t])
        BY <3>1, <3>4, BytesDisjoint
      <4> QED BY <2>4, <3>4, <4>1, PlaceGroupWrites DEF Written, Bytes
    <3>5. \A g \in Group : g < next_placed =>
            Written(g)' \/ \E u \in Thread : pc'[u] = "copy" /\ item'[u] = g
      <4>1. SUFFICES ASSUME NEW g \in Group, g < next_placed, ~ Written(g)'
                     PROVE  \E u \in Thread : pc'[u] = "copy" /\ item'[u] = g
        OBVIOUS
      <4>2. g # item[t] /\ ~ Written(g)
        BY <3>1, <3>3, <3>4, <4>1 DEF Written, Bytes
      <4>3. PICK u \in Thread : pc[u] = "copy" /\ item[u] = g
        BY <4>1, <4>2 DEF FileInv
      <4> QED BY <2>1, <3>1, <4>2, <4>3
    <3>6. result' = "OK" => \A i \in DOMAIN file' : i < FixedSize => file'[i] = "head"
      BY <2>4, <3>1, <3>2, PlaceGroupWrites DEF FileInv
    <3>7. \A u \in Thread : pc'[u] = "copy" => item'[u] \in Group
      BY <2>1, <3>1 DEF FileInv
    <3>8. result' = "OK" => \A u \in Thread : pc'[u] = "done" => next_placed' >= NumAc
      BY <2>1, <3>1 DEF FileInv
    <3> QED BY <3>1, <3>5, <3>6, <3>7, <3>8 DEF FileInv
  <2>5. CASE ClaimPlace(t)
    <3>1. /\ pc[t] = "place" /\ next_placed' = next_placed + 1 /\ result' = result
          /\ file' = file
      BY <2>5 DEF ClaimPlace, memory
    <3>2. \/ next_placed < NumAc /\ pc'[t] = "copy" /\ item'[t] = next_placed
          \/ next_placed >= NumAc /\ pc'[t] = "done"
      BY <2>2, <2>5 DEF ClaimPlace, GoTo, TypeOK
    <3>3. result = "OK"
      BY <3>1 DEF ResultInv
    <3>4. next_placed < NumAc => next_placed \in Group
      BY <2>2 DEF Group
    <3>5. \A g \in Group : g < next_placed' => g < next_placed \/ g = next_placed
      BY <2>2, <3>1
    <3>6. \A g \in Group : g < next_placed' =>
            Written(g)' \/ \E u \in Thread : pc'[u] = "copy" /\ item'[u] = g
      <4>1. SUFFICES ASSUME NEW g \in Group, g < next_placed', ~ Written(g)'
                     PROVE  \E u \in Thread : pc'[u] = "copy" /\ item'[u] = g
        OBVIOUS
      <4>2. ~ Written(g) /\ g < NumAc
        BY <2>2, <3>1, <4>1 DEF Written, Bytes, Group
      <4>3. CASE g < next_placed
        <5>1. PICK u \in Thread : pc[u] = "copy" /\ item[u] = g
          BY <4>2, <4>3 DEF FileInv
        <5> QED BY <2>1, <3>1, <5>1
      <4>4. CASE g = next_placed
        BY <2>2, <3>2, <4>2, <4>4
      <4> QED BY <3>5, <4>1, <4>3, <4>4
    <3>7. \A u \in Thread : pc'[u] = "copy" => item'[u] \in Group
      BY <2>1, <3>2, <3>4 DEF FileInv
    <3>8. \A u \in Thread : pc'[u] = "done" => next_placed' >= NumAc
      BY <2>1, <2>2, <3>1, <3>2, <3>3 DEF FileInv
    <3> QED BY <3>1, <3>3, <3>6, <3>7, <3>8 DEF FileInv
  <2>6. CASE ~ LayOut(t) /\ ~ PlaceGroup(t) /\ ~ ClaimPlace(t)
    <3>1. file' = file /\ next_placed' = next_placed
      BY <1>2, <2>6, Writers
    <3>2. pc[t] # "copy" /\ pc'[t] # "copy"
      BY <1>2, <2>6, Moves DEF Step, BuildTables, Release, Code, Place
    <3>3. SkipTooLarge(t) \/ result' = result
      BY <1>2, <2>6, Writers
    <3>4. SkipTooLarge(t) => result = "FAILED" /\ result' = "BUFFER_TOO_SMALL"
      BY Moves DEF RolesInv, ResultInv, SkipTooLarge
    <3>5. pc'[t] = "done" => result # "OK" \/ pc[t] = "done"
      <4>1. CASE SkipFailed(t)
        BY <4>1, Moves DEF RolesInv, ResultInv
      <4>2. CASE AwaitPlacement(t)
        BY <4>2 DEF AwaitPlacement, GoTo, ResultInv, TypeOK
      <4>3. CASE ~ SkipFailed(t) /\ ~ AwaitPlacement(t)
        BY <1>2, <2>6, <3>4, <4>3, Moves DEF Step, BuildTables, Release, Code, Place
      <4> QED BY <4>1, <4>2, <4>3
    <3>6. \A u \in Thread, g \in Group :
            pc[u] = "copy" /\ item[u] = g => pc'[u] = "copy" /\ item'[u] = g
      BY <2>1, <3>2
    <3> QED BY <2>1, <3>1, <3>2, <3>3, <3>4, <3>5, <3>6 DEF FileInv, Written, Bytes
  <2> QED BY <2>3, <2>4, <2>5, <2>6
<1> QED BY <1>1, <1>2 DEF Next
---------------------------------------------------------------------------
(* The theorems.                                                           *)

(* Every step keeps the invariant. *)
LEMMA NextIInv == IInv /\ [Next]_vars => IInv'
<1> SUFFICES ASSUME IInv, [Next]_vars PROVE IInv'
  OBVIOUS
<1>1. TypeOK' /\ RolesInv'
  BY NextTypeOK, NextRolesInv DEF IInv
<1>2. TablesInv' /\ AcGlobalInv'
  BY NextTablesInv, NextAcGlobalInv DEF IInv
<1>3. OrderInv' /\ LanesInv'
  BY NextOrderInv, NextLanesInv DEF IInv
<1>4. StartedInv' /\ OnceInv' /\ CodersInv'
  BY <1>3, NextStartedInv, NextOnceInv, NextCodersInv DEF IInv
<1>5. ResultInv' /\ LaidOutWhenCoded'
  BY NextResultInv, NextLaidOut DEF IInv
<1>6. UntouchedUnlessOk' /\ FileInv'
  BY NextUntouched, NextFileInv DEF IInv
<1> QED BY <1>1, <1>2, <1>3, <1>4, <1>5, <1>6 DEF IInv

(* The inductive invariant of the host stage. *)
LEMMA Inductive == Spec => []IInv
BY InitIInv, NextIInv, PTL DEF Spec

(* Every part of AcGlobal is built, and built once, before thread 0        *)
(* assembles it (FinishTables) and before a thread codes a token with it.  *)
THEOREM TablesComeFirst == Spec => []TablesBeforeCode
<1>1. IInv => TablesBeforeCode
  <2> SUFFICES ASSUME IInv PROVE TablesBeforeCode
    OBVIOUS
  <2>1. ASSUME ac_global, NEW c \in Table PROVE builds[c] = 1
    <3>1. \A t \in Thread : PastTables(t)
      BY <2>1 DEF IInv, AcGlobalInv
    <3>2. next_table >= NumClusters + 2
      BY <3>1, ThreadZero DEF PastTables, IInv, TablesInv
    <3>3. next_table \in Nat
      BY DEF IInv, TypeOK
    <3>4. c < next_table
      BY <3>2, <3>3, CountsAssumption DEF Table
    <3>5. TablesInv
      BY DEF IInv
    <3> QED BY <3>1, <3>4, <3>5 DEF PastTables, Builds, TablesInv
  <2>2. ASSUME NEW t \in Thread, Active(t) # {} PROVE ac_global
    BY <2>2 DEF IInv, LanesInv, AcGlobalInv
  <2> QED BY <2>1, <2>2 DEF TablesBeforeCode
<1> QED BY <1>1, Inductive, PTL

(* However the threads race for the queue, a group's tokens are coded by   *)
(* one lane of one thread, and not again once it is coded.                 *)
THEOREM EveryStreamOnce == Spec => []StreamsCodedOnce
<1>1. IInv => StreamsCodedOnce
  <2> SUFFICES ASSUME IInv PROVE StreamsCodedOnce
    OBVIOUS
  <2> SUFFICES ASSUME NEW g \in Group
               PROVE  Cardinality({tl \in Thread \X Lane : InLane(tl[1], tl[2], g)})
                        + coded[g] <= 1
    BY Zenon DEF StreamsCodedOnce
  <2> DEFINE S == {tl \in Thread \X Lane : InLane(tl[1], tl[2], g)}
  <2>1. coded[g] \in Nat /\ coded[g] <= 1
    BY DEF IInv, TypeOK, OnceInv
  <2>2. CASE S = {}
    BY <2>1, <2>2, FS_EmptySet
  <2>3. CASE S # {}
    <3>1. PICK tl \in S : TRUE
      BY <2>3
    <3>2. \A um \in S : um[1] = tl[1] /\ um[2] = tl[2]
      BY <3>1 DEF IInv, OnceInv
    <3>3. S = {tl}
      BY <3>1, <3>2
    <3>4. coded[g] = 0
      BY <3>1 DEF IInv, OnceInv
    <3>5. Cardinality(S) = 1
      BY <3>3, FS_Singleton
    <3> HIDE DEF S
    <3>6. Cardinality(S) + coded[g] <= 1
      BY <3>4, <3>5
    <3> QED BY <3>6 DEF S
  <2> QED BY <2>2, <2>3
<1> QED BY <1>1, Inductive, PTL

(* No thread reads a group's tokens before the copy of its batch landed.   *)
THEOREM TokensHaveLanded == Spec => []TokensLanded
<1>1. IInv => TokensLanded
  <2> SUFFICES ASSUME IInv, NEW t \in Thread, NEW l \in Lane, NEW g \in Group,
                      InLane(t, l, g)
               PROVE  g < batch_begin(copied)
    BY DEF TokensLanded
  <2>1. g < ready
    BY DEF IInv, StartedInv, Started
  <2>2. g \in Nat /\ ready \in Nat
    BY CountsAssumption DEF Group, IInv, TypeOK
  <2>3. /\ ready <= batch_begin(landed) /\ batch_begin(landed) <= batch_begin(copied)
        /\ batch_begin(landed) \in Nat /\ batch_begin(copied) \in Nat
    BY LandedBatches, CountsAssumption DEF IInv, OrderInv
  <2> QED BY <2>1, <2>2, <2>3
<1> QED BY <1>1, Inductive, PTL

(* The released positions are read without a lock: what they hold is the   *)
(* released groups, each once, and is never written again.                 *)
NamesReleased == {order[k] : k \in 0 .. ready - 1} = 0 .. ready - 1

(* The order's sorted prefix names the released groups. *)
LEMMA OrderNamesReleased == IInv => NamesReleased
<1> SUFFICES ASSUME IInv PROVE NamesReleased
  OBVIOUS
<1>1. order \in [Group -> Group] /\ ready \in 0 .. NumAc
  BY DEF IInv, TypeOK
<1>2. 0 .. ready - 1 \subseteq Group /\ Group \subseteq Nat /\ ready \in Nat
  BY <1>1, CountsAssumption DEF Group
<1>3. \A k \in 0 .. ready - 1 : order[k] \in Nat /\ order[k] < ready
  BY <1>1, <1>2 DEF IInv, OrderInv, Enumerates
<1>4. \A g \in 0 .. ready - 1 : \E k \in 0 .. ready - 1 : order[k] = g
  BY DEF IInv, OrderInv, Enumerates
<1> QED BY <1>2, <1>3, <1>4 DEF NamesReleased

(* What has been released to the threads never changes under them: a batch *)
(* sorts its own part of the order only, before it moves `ready`.          *)
THEOREM ReleasedOrderStays == Spec => ReleasedOrderKept
<1>1. IInv' => NamesReleased'
  BY OrderNamesReleased, PTL
<1>2. IInv /\ IInv' /\ [Next]_vars =>
        /\ {order'[k] : k \in 0 .. ready' - 1} = 0 .. ready' - 1
        /\ ready' >= ready
        /\ \A k \in 0 .. ready - 1 : order'[k] = order[k]
  BY <1>1, ReleasedKept DEF IInv, NamesReleased
<1> QED BY <1>2, Inductive, PTL DEF Spec, ReleasedOrderKept

(* The output buffer of a frame that failed, or was too large, is as it    *)
(* was; that of a frame that is OK, past the file.                         *)
THEOREM BufferUntouched == Spec => []UntouchedUnlessOk
<1>1. IInv => UntouchedUnlessOk
  BY DEF IInv
<1> QED BY <1>1, Inductive, PTL

(* With every group placed, the file is the one a single thread writes.    *)
LEMMA FileAsExpected ==
  ASSUME TypeOK, UntouchedUnlessOk, FileInv, result = "OK", Returned
  PROVE  file = ExpectedFile
<1>1. next_placed >= NumAc /\ next_placed \in Nat
  BY ThreadZero DEF FileInv, Returned, TypeOK
<1>2. \A g \in Group : Written(g)
  BY <1>1, CountsAssumption DEF FileInv, Returned, Group
<1>3. ASSUME NEW i \in DOMAIN file, ~ i < FixedSize, ~ i >= FileSize
      PROVE  file[i] = ToString(CHOOSE g \in Group : i - FixedSize \in SizeBefore[g] ..
                                                         SizeBefore[g + 1] - 1)
  <2>1. i \in Nat /\ FixedSize <= i /\ i < FileSize
    BY <1>3, DomainOfFile, FileSizeNat, CountsAssumption
  <2> DEFINE g == CHOOSE h \in Group : i - FixedSize \in SizeBefore[h] ..
                                           SizeBefore[h + 1] - 1
  <2>2. g \in Group /\ i - FixedSize \in SizeBefore[g] .. SizeBefore[g + 1] - 1
    BY <2>1, BytesCover
  <2> HIDE DEF g
  <2>3. i \in Bytes(g)
    BY <2>1, <2>2, GroupSize, CountsAssumption DEF Bytes
  <2>4. file[i] = ToString(g)
    BY <1>2, <2>2, <2>3 DEF Written
  <2> QED BY <2>4 DEF g
<1>4. \A i \in DOMAIN file : i < FixedSize => file[i] = "head"
  BY DEF FileInv
<1>5. \A i \in DOMAIN file : i >= FileSize => file[i] = "old"
  BY DEF UntouchedUnlessOk
<1>6. file = [i \in DOMAIN file |-> file[i]]
  BY DomainOfFile DEF TypeOK
<1>7. \A i \in DOMAIN file : file[i] = ExpectedFile[i]
  BY <1>3, <1>4, <1>5 DEF ExpectedFile
<1>8. ExpectedFile = [i \in DOMAIN file |-> ExpectedFile[i]]
  BY DEF ExpectedFile
<1> QED BY <1>6, <1>7, <1>8

(* The file is laid out when every group is coded; the file of a frame     *)
(* that is OK does not depend on how the threads shared the work; a frame  *)
(* that does not fit says so, and a cancelled one fails.                   *)
THEOREM FileIsComplete == Spec => []FileComplete
<1>1. IInv => FileComplete
  <2> SUFFICES ASSUME IInv PROVE FileComplete
    OBVIOUS
  <2>1. ASSUME Returned, result = "OK" PROVE file = ExpectedFile /\ FileSize <= out_capacity
    BY <2>1, FileAsExpected DEF IInv, ResultInv
  <2>2. /\ result = "BUFFER_TOO_SMALL" => FileSize > out_capacity
        /\ cancelled => result = "FAILED"
    BY DEF IInv, ResultInv
  <2>3. LaidOutWhenCoded
    BY DEF IInv
  <2> QED BY <2>1, <2>2, <2>3 DEF FileComplete
<1> QED BY <1>1, Inductive, PTL
============================================================================
