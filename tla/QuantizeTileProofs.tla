------------------------- MODULE QuantizeTileProofs -------------------------
(***************************************************************************)
(* Proof that the quantizer's warps, however they interleave, make of a    *)
(* frame what one thread makes of it, and count what they have written,    *)
(* for every frame, number of warps and size of a tile.                    *)
(*                                                                         *)
(*   - every block is at one position of one tile, and the first block of  *)
(*     its transform is in its band of the tile, so that the shuffles find *)
(*     it (OwnerInTile, PositionIs);                                       *)
(*   - a staged tile holds the frame's coefficients (StagedIs), those past *)
(*     the corners correspond one to one to its warps' cells (KeysAre,     *)
(*     LanesIs), and so the warps' sums add up to the tile's (SumClasses,  *)
(*     SumRenamed, TotalIs) and make its maps (MapsAre); its corners make  *)
(*     the DC (DcAtIs);                                                    *)
(*   - each slot of the planes is written by one warp (SharesAre,          *)
(*     WithPlaneIs), which takes at its turn what one thread would         *)
(*     (LumaDoes, MapDoes, ChromaDoes);                                    *)
(*   - Inv says what a warp's place between the barriers implies of the    *)
(*     shared memory of its tile, of its registers and of what it has      *)
(*     written: a warp is never more than a barrier ahead of another       *)
(*     (Barriers), so that the coefficients are the staged ones until all  *)
(*     have quantized (LoadedIs);                                          *)
(*   - CountsInv says the same of the counts: what a position's count, a   *)
(*     warp's non-zeros and a word of the statistics hold of the warps     *)
(*     that have come to a barrier (TallyAdd, HitsAdd, FirstsAdd), and the *)
(*     frame's words of the tiles that have flushed them (AllAdd); words   *)
(*     do not meet (OffsetsAre, IndicesAre), and non-zeros correspond one  *)
(*     to one to coefficients written (TallyWritten, HitsWritten).         *)
(***************************************************************************)
EXTENDS QuantizeTile, FiniteSetTheorems, FunctionTheorems, WellFoundedInduction, TLAPS

---------------------------------------------------------------------------
(* The least-number principle.  Induction on a number n is the application *)
(* of this lemma to the set of the counterexamples.                        *)
LEMMA LeastNumber ==
  ASSUME NEW S, S \subseteq Nat, S # {}
  PROVE  \E m \in S : \A n \in S : m <= n
<1>1. PICK m \in S : \A n \in S : ~ (<<n, m>> \in OpToRel(<, Nat))
  BY NatLessThanWellFounded, WFMin
<1>2. \A n \in S : ~ (n < m)
  BY <1>1 DEF OpToRel
<1> QED BY <1>2

(* A table of a function is the function. *)
LEMMA TabulatedIs == \A f : Tabulated(f) = f
BY DEF Tabulated

---------------------------------------------------------------------------
(* Sums.  SumFunctionOnSet(f, S) takes an element of S after the other, by *)
(* CHOOSE; that the function it is defined by exists is proved by taking   *)
(* the smallest set it would not exist for.                                *)

Some(s) == CHOOSE x \in s : TRUE
Running(g, f, S) ==
  g = [s \in SUBSET S |-> IF s = {} THEN 0 ELSE f[Some(s)] + g[s \ {Some(s)}]]

(* A sum is the value of its running sum for the whole set. *)
LEMMA SumIsRunning ==
  ASSUME NEW f, NEW S
  PROVE  SumFunctionOnSet(f, S) = (CHOOSE g : Running(g, f, S))[S]
BY Zenon DEF SumFunctionOnSet, FoldFunctionOnSet, MapThenFoldSet, Running, Some

(* Removing the chosen element leaves a smaller finite set. *)
LEMMA SomeRemoved ==
  ASSUME NEW s, IsFiniteSet(s), s # {}
  PROVE  /\ Some(s) \in s
         /\ IsFiniteSet(s \ {Some(s)})
         /\ Cardinality(s) \in Nat /\ Cardinality(s \ {Some(s)}) \in Nat
         /\ Cardinality(s \ {Some(s)}) < Cardinality(s)
<1>1. Some(s) \in s
  BY DEF Some
<1>2. IsFiniteSet(s \ {Some(s)}) /\ Cardinality(s \ {Some(s)}) = Cardinality(s) - 1
  BY <1>1, FS_RemoveElement
<1>3. Cardinality(s) \in Nat /\ Cardinality(s \ {Some(s)}) \in Nat
  BY <1>2, FS_CardinalityType
<1> QED BY <1>1, <1>2, <1>3

(* Two running sums agree on the sets they share. *)
LEMMA RunningUnique ==
  ASSUME NEW f, NEW S, NEW T, NEW g, NEW h, Running(g, f, S), Running(h, f, T),
         NEW s, s \subseteq S, s \subseteq T, IsFiniteSet(s)
  PROVE  g[s] = h[s]
<1> DEFINE Bad == {n \in Nat : \E u : /\ u \subseteq S /\ u \subseteq T /\ IsFiniteSet(u)
                                      /\ Cardinality(u) = n /\ g[u] # h[u]}
<1>1. SUFFICES ASSUME Bad # {} PROVE FALSE
  BY FS_CardinalityType
<1>2. PICK n \in Bad : \A k \in Bad : n <= k
  BY <1>1, LeastNumber
<1>3. PICK u : /\ u \subseteq S /\ u \subseteq T /\ IsFiniteSet(u)
               /\ Cardinality(u) = n /\ g[u] # h[u]
  BY <1>2
<1>4. /\ g[u] = IF u = {} THEN 0 ELSE f[Some(u)] + g[u \ {Some(u)}]
      /\ h[u] = IF u = {} THEN 0 ELSE f[Some(u)] + h[u \ {Some(u)}]
  BY <1>3 DEF Running
<1>5. u # {}
  BY <1>3, <1>4
<1> DEFINE v == u \ {Some(u)}
<1>6. v \subseteq S /\ v \subseteq T /\ IsFiniteSet(v) /\ Cardinality(v) \in Nat /\ Cardinality(v) < n
  BY <1>3, <1>5, SomeRemoved
<1>7. Cardinality(v) \notin Bad
  <2>1. n \in Nat
    BY <1>2
  <2> HIDE DEF Bad, v
  <2> QED BY <1>2, <1>6, <2>1
<1>8. g[v] = h[v]
  BY <1>6, <1>7
<1> QED BY <1>3, <1>4, <1>5, <1>8

(* A finite set has a running sum. *)
LEMMA RunningExists ==
  ASSUME NEW f, NEW S, IsFiniteSet(S)
  PROVE  \E g : Running(g, f, S)
<1> DEFINE Bad == {n \in Nat : \E T : IsFiniteSet(T) /\ Cardinality(T) = n /\ ~ \E g : Running(g, f, T)}
<1>1. SUFFICES ASSUME Bad # {} PROVE FALSE
  BY FS_CardinalityType
<1>2. PICK n \in Bad : \A k \in Bad : n <= k
  BY <1>1, LeastNumber
<1>3. PICK T : IsFiniteSet(T) /\ Cardinality(T) = n /\ ~ \E g : Running(g, f, T)
  BY <1>2
<1> DEFINE G(s) == CHOOSE g : Running(g, f, s)
           g == [s \in SUBSET T |-> IF s = {} THEN 0
                                    ELSE f[Some(s)] + G(s \ {Some(s)})[s \ {Some(s)}]]
<1>4. ASSUME NEW s \in SUBSET T, s # {}
      PROVE  /\ s \ {Some(s)} \in SUBSET T
             /\ IsFiniteSet(s \ {Some(s)})
             /\ Running(G(s \ {Some(s)}), f, s \ {Some(s)})
  <2>1. IsFiniteSet(s) /\ Cardinality(s) <= n
    BY <1>3, FS_Subset
  <2>2. s \ {Some(s)} \in SUBSET T
    OBVIOUS
  <2>3. IsFiniteSet(s \ {Some(s)}) /\ Cardinality(s \ {Some(s)}) \in Nat
        /\ Cardinality(s \ {Some(s)}) < n
    BY <2>1, <1>4, SomeRemoved, <1>2
  <2>4. Cardinality(s \ {Some(s)}) \notin Bad
    BY <1>2, <2>3
  <2>5. \E r : Running(r, f, s \ {Some(s)})
    BY <2>3, <2>4
  <2> QED BY <2>2, <2>3, <2>5, Zenon
<1>5. ASSUME NEW s \in SUBSET T, s # {}
      PROVE  g[s \ {Some(s)}] = G(s \ {Some(s)})[s \ {Some(s)}]
  <2> DEFINE v == s \ {Some(s)}
  <2>1. v \in SUBSET T /\ IsFiniteSet(v) /\ Running(G(v), f, v)
    BY <1>4, <1>5
  <2>2. G(v)[v] = IF v = {} THEN 0 ELSE f[Some(v)] + G(v)[v \ {Some(v)}]
    <3> HIDE DEF v, G
    <3> QED BY <2>1 DEF Running
  <2>3. CASE v = {}
    BY <2>1, <2>2, <2>3
  <2>4. CASE v # {}
    <3> DEFINE w == v \ {Some(v)}
    <3>1. w \in SUBSET T /\ IsFiniteSet(w) /\ Running(G(w), f, w) /\ w \subseteq v
      BY <1>4, <2>1, <2>4
    <3>2. G(v)[w] = G(w)[w]
      <4> HIDE DEF v, w, G
      <4> QED BY <2>1, <3>1, RunningUnique
    <3>3. g[v] = f[Some(v)] + G(w)[w]
      BY <2>1, <2>4
    <3> QED BY <2>2, <2>4, <3>2, <3>3
  <2> QED BY <2>3, <2>4
<1>6. Running(g, f, T)
  <2>1. g = [s \in SUBSET T |-> IF s = {} THEN 0 ELSE f[Some(s)] + g[s \ {Some(s)}]]
    <3> DEFINE k(s) == G(s \ {Some(s)})[s \ {Some(s)}]
    <3>1. \A s \in SUBSET T : s # {} => g[s \ {Some(s)}] = k(s)
      BY <1>5
    <3>2. g = [s \in SUBSET T |-> IF s = {} THEN 0 ELSE f[Some(s)] + k(s)]
      OBVIOUS
    <3> HIDE DEF g, k, G
    <3> QED BY <3>1, <3>2
  <2> HIDE DEF g
  <2> QED BY <2>1 DEF Running
<1> QED BY <1>3, <1>6

(* The definition of a sum, unrolled. *)
LEMMA SumUnrolled ==
  ASSUME NEW f, NEW S, IsFiniteSet(S)
  PROVE  SumFunctionOnSet(f, S) =
           IF S = {} THEN 0 ELSE f[Some(S)] + SumFunctionOnSet(f, S \ {Some(S)})
<1> DEFINE G(s) == CHOOSE g : Running(g, f, s)
<1>1. Running(G(S), f, S)
  BY RunningExists, Zenon
<1>2. SumFunctionOnSet(f, S) = G(S)[S]
  BY SumIsRunning, Zenon
<1>3. G(S)[S] = IF S = {} THEN 0 ELSE f[Some(S)] + G(S)[S \ {Some(S)}]
  <2> HIDE DEF G
  <2> QED BY <1>1 DEF Running
<1>4. CASE S # {}
  <2> DEFINE T == S \ {Some(S)}
  <2>1. IsFiniteSet(T) /\ T \subseteq S
    BY <1>4, SomeRemoved
  <2>2. Running(G(T), f, T)
    BY <2>1, RunningExists, Zenon
  <2>3. G(S)[T] = G(T)[T]
    <3> HIDE DEF G, T
    <3> QED BY <1>1, <2>1, <2>2, RunningUnique
  <2>4. SumFunctionOnSet(f, T) = G(T)[T]
    BY SumIsRunning, Zenon
  <2> QED BY <1>2, <1>3, <1>4, <2>3, <2>4
<1> QED BY <1>2, <1>3, <1>4

(* An empty sum is 0. *)
LEMMA SumEmpty == \A f : SumFunctionOnSet(f, {}) = 0
BY SumUnrolled, FS_EmptySet

(* A sum of integers is an integer. *)
LEMMA SumInt ==
  ASSUME NEW S, IsFiniteSet(S), NEW f, \A x \in S : f[x] \in Int
  PROVE  SumFunctionOnSet(f, S) \in Int
<1> DEFINE Bad == {n \in Nat : \E T : /\ T \subseteq S /\ IsFiniteSet(T) /\ Cardinality(T) = n
                                      /\ SumFunctionOnSet(f, T) \notin Int}
<1>1. SUFFICES ASSUME Bad # {} PROVE FALSE
  BY FS_CardinalityType
<1>2. PICK n \in Bad : \A k \in Bad : n <= k
  BY <1>1, LeastNumber
<1>3. PICK T : /\ T \subseteq S /\ IsFiniteSet(T) /\ Cardinality(T) = n
               /\ SumFunctionOnSet(f, T) \notin Int
  BY <1>2
<1>4. T # {}
  BY <1>3, SumEmpty
<1> DEFINE v == T \ {Some(T)}
<1>5. v \subseteq S /\ IsFiniteSet(v) /\ Cardinality(v) \in Nat /\ Cardinality(v) < n
      /\ Some(T) \in T
  BY <1>3, <1>4, SomeRemoved
<1>6. Cardinality(v) \notin Bad
  BY <1>2, <1>5
<1>7. SumFunctionOnSet(f, v) \in Int
  BY <1>5, <1>6
<1>8. f[Some(T)] \in Int
  BY <1>3, <1>5
<1>9. SumFunctionOnSet(f, T) = f[Some(T)] + SumFunctionOnSet(f, v)
  BY <1>3, <1>4, SumUnrolled
<1> QED BY <1>3, <1>7, <1>8, <1>9

(* A sum of integers may take any of its elements first. *)
LEMMA SumRemove ==
  ASSUME NEW S, IsFiniteSet(S), NEW f, \A y \in S : f[y] \in Int, NEW x \in S
  PROVE  SumFunctionOnSet(f, S) = f[x] + SumFunctionOnSet(f, S \ {x})
<1> DEFINE Wrong(T) == \E y \in T : SumFunctionOnSet(f, T) # f[y] + SumFunctionOnSet(f, T \ {y})
           Bad == {n \in Nat : \E T : /\ T \subseteq S /\ IsFiniteSet(T) /\ Cardinality(T) = n
                                      /\ Wrong(T)}
<1>1. SUFFICES ASSUME Bad # {} PROVE FALSE
  BY FS_CardinalityType
<1>2. PICK n \in Bad : \A k \in Bad : n <= k
  BY <1>1, LeastNumber
<1>3. PICK T : T \subseteq S /\ IsFiniteSet(T) /\ Cardinality(T) = n /\ Wrong(T)
  BY <1>2
<1>4. PICK y \in T : SumFunctionOnSet(f, T) # f[y] + SumFunctionOnSet(f, T \ {y})
  BY <1>3
<1> DEFINE p == Some(T)
           u == T \ {p}
           v == T \ {y}
           w == T \ {p, y}
<1>5. p \in T /\ IsFiniteSet(u) /\ Cardinality(u) \in Nat /\ Cardinality(u) < n
  BY <1>3, <1>4, SomeRemoved
<1>6. IsFiniteSet(v) /\ Cardinality(v) \in Nat /\ Cardinality(v) < n
  <2>1. IsFiniteSet(v) /\ Cardinality(v) = Cardinality(T) - 1
    BY <1>3, <1>4, FS_RemoveElement
  <2> QED BY <1>3, <2>1, FS_CardinalityType
<1>7. SumFunctionOnSet(f, T) = f[p] + SumFunctionOnSet(f, u)
  BY <1>3, <1>4, SumUnrolled
<1>8. p # y
  BY <1>4, <1>7
<1>9. ~ Wrong(u) /\ ~ Wrong(v)
  <2>1. Cardinality(u) \notin Bad /\ Cardinality(v) \notin Bad
    <3>1. n \in Nat
      BY <1>2
    <3> HIDE DEF Bad, u, v
    <3> QED BY <1>2, <1>5, <1>6, <3>1
  <2> QED BY <2>1, <1>3, <1>5, <1>6
<1>10. y \in u /\ p \in v /\ u \ {y} = w /\ v \ {p} = w /\ IsFiniteSet(w) /\ w \subseteq S
  BY <1>3, <1>4, <1>5, <1>8, FS_Subset
<1>11. SumFunctionOnSet(f, u) = f[y] + SumFunctionOnSet(f, w)
  BY <1>9, <1>10
<1>12. SumFunctionOnSet(f, v) = f[p] + SumFunctionOnSet(f, w)
  BY <1>9, <1>10
<1>13. SumFunctionOnSet(f, w) \in Int /\ f[p] \in Int /\ f[y] \in Int
  BY <1>3, <1>4, <1>5, <1>10, SumInt
<1> QED BY <1>4, <1>7, <1>11, <1>12, <1>13

(* One element more adds its value. *)
LEMMA SumAdd ==
  ASSUME NEW S, IsFiniteSet(S), NEW x, x \notin S, NEW f, \A y \in S \cup {x} : f[y] \in Int
  PROVE  SumFunctionOnSet(f, S \cup {x}) = SumFunctionOnSet(f, S) + f[x]
<1> DEFINE more == S \cup {x}
<1>1. IsFiniteSet(more)
  BY FS_AddElement
<1>2. more \ {x} = S /\ x \in more
  OBVIOUS
<1>3. \A y \in more : f[y] \in Int
  OBVIOUS
<1>4. SumFunctionOnSet(f, S) \in Int /\ f[x] \in Int
  BY SumInt
<1> HIDE DEF more
<1>5. SumFunctionOnSet(f, more) = f[x] + SumFunctionOnSet(f, more \ {x})
  BY <1>1, <1>2, <1>3, SumRemove
<1>6. SumFunctionOnSet(f, more \ {x}) = SumFunctionOnSet(f, S)
  BY <1>2, Zenon
<1>7. SumFunctionOnSet(f, more) = SumFunctionOnSet(f, S) + f[x]
  BY <1>4, <1>5, <1>6
<1> QED BY <1>7 DEF more

(* The sum over two disjoint sets. *)
LEMMA SumUnion ==
  ASSUME NEW S, IsFiniteSet(S), NEW R, R \cap S = {}, IsFiniteSet(R),
         NEW f, \A x \in S \cup R : f[x] \in Int
  PROVE  SumFunctionOnSet(f, R \cup S) = SumFunctionOnSet(f, R) + SumFunctionOnSet(f, S)
<1> DEFINE Good(T) == SumFunctionOnSet(f, R \cup T) = SumFunctionOnSet(f, R) + SumFunctionOnSet(f, T)
           Bad == {n \in Nat : \E T : T \subseteq S /\ IsFiniteSet(T) /\ Cardinality(T) = n /\ ~ Good(T)}
<1>1. SUFFICES ASSUME Bad # {} PROVE FALSE
  BY FS_CardinalityType
<1>2. PICK n \in Bad : \A k \in Bad : n <= k
  BY <1>1, LeastNumber
<1>3. PICK T : T \subseteq S /\ IsFiniteSet(T) /\ Cardinality(T) = n /\ ~ Good(T)
  BY <1>2
<1>4. SumFunctionOnSet(f, R) \in Int
  BY SumInt
<1>5. T # {}
  <2>1. SumFunctionOnSet(f, {}) = 0
    BY SumEmpty
  <2>2. R \cup {} = R
    OBVIOUS
  <2> QED BY <1>3, <1>4, <2>1, <2>2
<1> DEFINE x == Some(T)
           v == T \ {x}
<1>6. x \in T /\ v \subseteq S /\ IsFiniteSet(v) /\ Cardinality(v) \in Nat /\ Cardinality(v) < n
  BY <1>3, <1>5, SomeRemoved
<1>7. Cardinality(v) \notin Bad
  <2>1. n \in Nat
    BY <1>2
  <2> HIDE DEF Bad, v
  <2> QED BY <1>2, <1>6, <2>1
<1>8. Good(v)
  BY <1>6, <1>7
<1> DEFINE w == R \cup v
<1>9. IsFiniteSet(w) /\ x \notin w /\ x \notin v /\ \A y \in w \cup {x} : f[y] \in Int
  <2>1. IsFiniteSet(w)
    BY <1>6, FS_Union
  <2> QED BY <1>3, <1>6, <2>1
<1>10. w \cup {x} = R \cup T /\ v \cup {x} = T
  BY <1>6
<1>11. SumFunctionOnSet(f, w \cup {x}) = SumFunctionOnSet(f, w) + f[x]
  <2> HIDE DEF w, x
  <2> QED BY <1>9, SumAdd
<1>12. SumFunctionOnSet(f, v \cup {x}) = SumFunctionOnSet(f, v) + f[x]
  <2>1. \A y \in v \cup {x} : f[y] \in Int
    BY <1>9
  <2> HIDE DEF v, x
  <2> QED BY <1>6, <1>9, <2>1, SumAdd
<1>13. SumFunctionOnSet(f, v) \in Int /\ f[x] \in Int
  BY <1>3, <1>6, SumInt
<1>14. SumFunctionOnSet(f, R \cup T) = SumFunctionOnSet(f, R \cup v) + f[x]
  <2> HIDE DEF x, v
  <2> QED BY <1>10, <1>11
<1>15. SumFunctionOnSet(f, T) = SumFunctionOnSet(f, v) + f[x]
  <2> HIDE DEF x, v
  <2> QED BY <1>10, <1>12
<1>16. SumFunctionOnSet(f, R \cup v) = SumFunctionOnSet(f, R) + SumFunctionOnSet(f, v)
  BY <1>8
<1>17. ~ (SumFunctionOnSet(f, R \cup T) = SumFunctionOnSet(f, R) + SumFunctionOnSet(f, T))
  BY <1>3
<1> HIDE DEF x, v
<1> QED BY <1>4, <1>13, <1>14, <1>15, <1>16, <1>17

(* The elements of S, a class of them after the other. *)
LEMMA SumClasses ==
  ASSUME NEW S, IsFiniteSet(S), NEW W, IsFiniteSet(W), NEW f, \A x \in S : f[x] \in Int,
         NEW class, \A x \in S : class[x] \in W,
         NEW sums, \A w \in W : sums[w] = SumFunctionOnSet(f, {x \in S : class[x] = w})
  PROVE  SumFunctionOnSet(sums, W) = SumFunctionOnSet(f, S)
<1> DEFINE In(V) == {x \in S : class[x] \in V}
           Of(w) == {x \in S : class[x] = w}
           Good(V) == SumFunctionOnSet(sums, V) = SumFunctionOnSet(f, In(V))
           Bad == {n \in Nat : \E V : V \subseteq W /\ IsFiniteSet(V) /\ Cardinality(V) = n /\ ~ Good(V)}
<1>1. In(W) = S
  OBVIOUS
<1>2. SUFFICES ASSUME Bad # {} PROVE FALSE
  <2>1. Cardinality(W) \in Nat
    BY FS_CardinalityType
  <2>2. SUFFICES Good(W)
    BY <1>1
  <2> QED BY <1>2, <2>1
<1>3. PICK n \in Bad : \A k \in Bad : n <= k
  BY <1>2, LeastNumber
<1>4. PICK V : V \subseteq W /\ IsFiniteSet(V) /\ Cardinality(V) = n /\ ~ Good(V)
  BY <1>3
<1>5. V # {}
  <2>1. In({}) = {} /\ SumFunctionOnSet(sums, {}) = 0 /\ SumFunctionOnSet(f, {}) = 0
    BY SumEmpty
  <2> QED BY <1>4, <2>1
<1> DEFINE w == Some(V)
           U == V \ {w}
<1>6. w \in V /\ U \subseteq W /\ IsFiniteSet(U) /\ Cardinality(U) \in Nat /\ Cardinality(U) < n
  BY <1>4, <1>5, SomeRemoved
<1>7. Cardinality(U) \notin Bad
  <2>1. n \in Nat
    BY <1>3
  <2> HIDE DEF Bad, U
  <2> QED BY <1>3, <1>6, <2>1
<1>8. Good(U)
  BY <1>6, <1>7
<1>9. IsFiniteSet(In(U)) /\ IsFiniteSet(Of(w))
  BY FS_Subset
<1>10. In(U) \cap Of(w) = {} /\ In(U) \cup Of(w) = In(V)
  BY <1>6
<1>11. SumFunctionOnSet(f, In(V)) = SumFunctionOnSet(f, In(U)) + SumFunctionOnSet(f, Of(w))
  <2>1. \A x \in Of(w) \cup In(U) : f[x] \in Int
    OBVIOUS
  <2> HIDE DEF In, Of
  <2> QED BY <1>9, <1>10, <2>1, SumUnion
<1>12. \A u \in W : sums[u] \in Int
  <2>1. SUFFICES ASSUME NEW u \in W PROVE SumFunctionOnSet(f, Of(u)) \in Int
    OBVIOUS
  <2>2. IsFiniteSet(Of(u))
    BY FS_Subset
  <2> QED BY <2>2, SumInt
<1>13. SumFunctionOnSet(sums, V) = SumFunctionOnSet(sums, U) + sums[w]
  <2>1. U \cup {w} = V /\ w \notin U /\ \A y \in U \cup {w} : sums[y] \in Int
    BY <1>4, <1>6, <1>12
  <2>2. IsFiniteSet(U)
    BY <1>6
  <2> HIDE DEF U, w
  <2>3. SumFunctionOnSet(sums, U \cup {w}) = SumFunctionOnSet(sums, U) + sums[w]
    BY ONLY <2>1, <2>2, SumAdd
  <2> QED BY <2>1, <2>3
<1>14. sums[w] = SumFunctionOnSet(f, Of(w))
  BY <1>4, <1>6
<1> QED BY <1>4, <1>8, <1>11, <1>13, <1>14

(* The same values under other names. *)
LEMMA SumRenamed ==
  ASSUME NEW S, IsFiniteSet(S), NEW T, NEW f, NEW g, NEW h,
         \A x \in S : h[x] \in T /\ f[x] = g[h[x]] /\ f[x] \in Int,
         \A x \in S : \A y \in S : h[x] = h[y] => x = y,
         \A t \in T : \E x \in S : h[x] = t
  PROVE  SumFunctionOnSet(f, S) = SumFunctionOnSet(g, T)
<1> DEFINE Im(R) == {h[x] : x \in R}
           Good(R) == SumFunctionOnSet(f, R) = SumFunctionOnSet(g, Im(R))
           Bad == {n \in Nat : \E R : R \subseteq S /\ IsFiniteSet(R) /\ Cardinality(R) = n /\ ~ Good(R)}
<1>1. Im(S) = T
  OBVIOUS
<1>2. SUFFICES ASSUME Bad # {} PROVE FALSE
  <2>1. Cardinality(S) \in Nat
    BY FS_CardinalityType
  <2>2. SUFFICES Good(S)
    BY <1>1
  <2> QED BY <1>2, <2>1
<1>3. PICK n \in Bad : \A k \in Bad : n <= k
  BY <1>2, LeastNumber
<1>4. PICK R : R \subseteq S /\ IsFiniteSet(R) /\ Cardinality(R) = n /\ ~ Good(R)
  BY <1>3
<1>5. R # {}
  <2>1. Im({}) = {} /\ SumFunctionOnSet(f, {}) = 0 /\ SumFunctionOnSet(g, {}) = 0
    BY SumEmpty
  <2> QED BY <1>4, <2>1
<1> DEFINE x == Some(R)
           U == R \ {x}
<1>6. x \in R /\ U \subseteq S /\ IsFiniteSet(U) /\ Cardinality(U) \in Nat /\ Cardinality(U) < n
  BY <1>4, <1>5, SomeRemoved
<1>7. Cardinality(U) \notin Bad
  <2>1. n \in Nat
    BY <1>3
  <2> HIDE DEF Bad, U
  <2> QED BY <1>3, <1>6, <2>1
<1>8. Good(U)
  BY <1>6, <1>7
<1>9. IsFiniteSet(Im(U))
  <2> DEFINE k == [u \in U |-> h[u]]
  <2>1. k \in Surjection(U, Im(U))
    BY DEF Surjection
  <2> HIDE DEF k, Im, U
  <2> QED BY <1>6, <2>1, FS_Surjection
<1>10. h[x] \notin Im(U) /\ Im(R) = Im(U) \cup {h[x]}
  BY <1>4, <1>6
<1>11. \A y \in Im(U) \cup {h[x]} : g[y] \in Int
  BY <1>4, <1>6
<1>12. SumFunctionOnSet(g, Im(R)) = SumFunctionOnSet(g, Im(U)) + g[h[x]]
  <2> DEFINE y == h[x]
             I == Im(U)
  <2>1. SumFunctionOnSet(g, I \cup {y}) = SumFunctionOnSet(g, I) + g[y]
    <3>1. IsFiniteSet(I) /\ y \notin I /\ \A z \in I \cup {y} : g[z] \in Int
      BY <1>9, <1>10, <1>11
    <3> HIDE DEF I, y
    <3> QED BY ONLY <3>1, SumAdd
  <2>2. Im(R) = I \cup {y}
    BY <1>10
  <2> HIDE DEF Im, I, y
  <2>3. SumFunctionOnSet(g, Im(R)) = SumFunctionOnSet(g, I) + g[y]
    BY <2>1, <2>2
  <2> QED BY <2>3 DEF I, y
<1>13. SumFunctionOnSet(f, R) = SumFunctionOnSet(f, U) + f[x]
  <2>1. U \cup {x} = R /\ x \notin U /\ \A y \in U \cup {x} : f[y] \in Int
    BY <1>4, <1>6
  <2> HIDE DEF U, x
  <2> QED BY <1>6, <2>1, SumAdd
<1>14. f[x] = g[h[x]]
  BY <1>4, <1>6
<1> QED BY <1>4, <1>8, <1>12, <1>13, <1>14

---------------------------------------------------------------------------
(* Rows and columns.                                                       *)

(* A quotient and its remainder. *)
LEMMA Quotient ==
  ASSUME NEW a \in Nat, NEW b \in Nat, b > 0
  PROVE  /\ a \div b \in Nat /\ a % b \in Nat /\ a % b < b
         /\ a = b * (a \div b) + (a % b)
OBVIOUS

(* The next multiple of b is not before that of a larger factor. *)
LEMMA NextMultiple ==
  ASSUME NEW b \in Nat, NEW x \in Nat, NEW y \in Nat, x < y
  PROVE  b * x \in Nat /\ b * y \in Nat /\ b * x + b <= b * y
<1>1. x + 1 <= y
  OBVIOUS
<1>2. b * (x + 1) <= b * y
  BY <1>1
<1>3. b * (x + 1) = b * x + b
  OBVIOUS
<1> QED BY <1>2, <1>3

(* Two numbers of the form b * q + r, r < b, are equal in both parts. *)
LEMMA Digits ==
  ASSUME NEW b \in Nat, b > 0, NEW q \in Nat, NEW r \in Nat, r < b,
         NEW p \in Nat, NEW t \in Nat, t < b, b * q + r = b * p + t
  PROVE  q = p /\ r = t
<1>1. ASSUME NEW x \in Nat, NEW y \in Nat, x < y PROVE b * x + b <= b * y
  BY <1>1, NextMultiple
<1>2. ~ (q < p)
  BY <1>1
<1>3. ~ (p < q)
  BY <1>1
<1> QED BY <1>2, <1>3

(* A number by its digits. *)
LEMMA DigitsOf ==
  ASSUME NEW b \in Nat, b > 0, NEW q \in Nat, NEW r \in Nat, r < b
  PROVE  (b * q + r) \div b = q /\ (b * q + r) % b = r /\ b * q + r \in Nat
<1> DEFINE a == b * q + r
           p == a \div b
           t == a % b
<1>1. a \in Nat
  OBVIOUS
<1>2. p \in Nat /\ t \in Nat /\ t < b /\ a = b * p + t
  <2> HIDE DEF a
  <2> QED BY <1>1, Quotient
<1>3. b * q + r = b * p + t
  BY <1>2
<1>4. q = p /\ r = t
  <2> HIDE DEF p, t
  <2> QED BY <1>2, <1>3, Digits
<1> QED BY <1>1, <1>4

(* A multiple has no remainder. *)
LEMMA Multiple ==
  ASSUME NEW b \in Nat, b > 0, NEW q \in Nat
  PROVE  (b * q) \div b = q /\ (b * q) % b = 0
<1> DEFINE r == 0
<1>1. r \in Nat /\ r < b /\ b * q + r = b * q
  OBVIOUS
<1> HIDE DEF r
<1>2. (b * q + r) \div b = q /\ (b * q + r) % b = r
  BY <1>1, DigitsOf
<1> QED BY <1>1, <1>2 DEF r

(* The cells of a grid of m rows of n columns are numbered row by row. *)
LEMMA Grid ==
  ASSUME NEW n \in Nat, n > 0, NEW m \in Nat
  PROVE  /\ n * m \in Nat
         /\ \A a \in 0 .. n * m - 1 : /\ a % n \in 0 .. n - 1 /\ a \div n \in 0 .. m - 1
                                      /\ a = (a \div n) * n + (a % n)
         /\ \A x \in 0 .. n - 1, y \in 0 .. m - 1 :
              /\ y * n + x \in 0 .. n * m - 1
              /\ (y * n + x) % n = x /\ (y * n + x) \div n = y
<1>1. n * m \in Nat
  OBVIOUS
<1>2. ASSUME NEW a \in 0 .. n * m - 1
      PROVE  /\ a % n \in 0 .. n - 1 /\ a \div n \in 0 .. m - 1
             /\ a = (a \div n) * n + (a % n)
  <2> DEFINE q == a \div n
             r == a % n
  <2>1. a \in Nat /\ a < n * m
    BY <1>1
  <2>2. q \in Nat /\ r \in Nat /\ r < n /\ a = n * q + r
    BY <2>1, Quotient
  <2> HIDE DEF q, r
  <2>3. q < m
    <3>1. SUFFICES ASSUME m <= q PROVE FALSE
      BY <2>2
    <3>2. n * m <= n * q
      BY <2>2, <3>1
    <3> QED BY <1>1, <2>1, <2>2, <3>2
  <2>4. n * q = q * n
    BY <2>2
  <2>5. a = q * n + r
    BY <2>2, <2>4
  <2> QED BY <2>2, <2>3, <2>5 DEF q, r
<1>3. ASSUME NEW x \in 0 .. n - 1, NEW y \in 0 .. m - 1
      PROVE  /\ y * n + x \in 0 .. n * m - 1
             /\ (y * n + x) % n = x /\ (y * n + x) \div n = y
  <2>1. x \in Nat /\ x < n /\ y \in Nat /\ y < m
    OBVIOUS
  <2>2. y * n = n * y
    BY <2>1
  <2>3. (n * y + x) \div n = y /\ (n * y + x) % n = x /\ n * y + x \in Nat
    BY <2>1, DigitsOf
  <2>4. n * y + n <= n * m
    BY <2>1, NextMultiple
  <2> QED BY <1>1, <2>1, <2>2, <2>3, <2>4
<1> QED BY <1>1, <1>2, <1>3

(* A line of n cells in parts of s. *)
PartsOf(n, s) ==
  /\ CeilDiv(n, s) \in Nat
  /\ \A x \in 0 .. n - 1 :
       /\ x \div s \in 0 .. CeilDiv(n, s) - 1
       /\ x % s \in 0 .. s - 1 /\ x % s < Least(s, n - (x \div s) * s)
       /\ (x \div s) * s + (x % s) = x
  /\ \A i \in 0 .. CeilDiv(n, s) - 1, l \in 0 .. s - 1 :
       l < Least(s, n - i * s) =>
         i * s + l \in 0 .. n - 1 /\ (i * s + l) \div s = i /\ (i * s + l) % s = l

LEMMA Parts ==
  ASSUME NEW n \in Nat, n > 0, NEW s \in Nat, s > 0
  PROVE  PartsOf(n, s)
<1> DEFINE c == CeilDiv(n, s)
           e == (n + s - 1) % s
<1>1. c \in Nat /\ e \in Nat /\ e < s /\ n + s - 1 = s * c + e
  <2>1. n + s - 1 \in Nat
    OBVIOUS
  <2> QED BY <2>1, Quotient DEF CeilDiv
<1> HIDE DEF c, e
<1>2. n <= s * c /\ s * c \in Nat
  BY <1>1
<1>3. ASSUME NEW x \in 0 .. n - 1
      PROVE  /\ x \div s \in 0 .. c - 1
             /\ x % s \in 0 .. s - 1 /\ x % s < Least(s, n - (x \div s) * s)
             /\ (x \div s) * s + (x % s) = x
  <2> DEFINE q == x \div s
             r == x % s
  <2>1. q \in Nat /\ r \in Nat /\ r < s /\ x = s * q + r
    BY Quotient
  <2> HIDE DEF q, r
  <2>2. q < c
    <3>1. SUFFICES ASSUME c <= q PROVE FALSE
      BY <1>1, <2>1
    <3>2. s * c <= s * q
      BY <1>1, <2>1, <3>1
    <3> QED BY <1>2, <2>1, <3>2
  <2>3. s * q = q * s /\ q * s \in Nat
    BY <2>1
  <2>4. x = q * s + r
    BY <2>1, <2>3
  <2>5. r < Least(s, n - q * s)
    BY <2>1, <2>3, <2>4 DEF Least
  <2>6. q \in 0 .. c - 1 /\ r \in 0 .. s - 1
    BY <1>1, <2>1, <2>2
  <2> QED BY <2>4, <2>5, <2>6 DEF q, r
<1>4. ASSUME NEW i \in 0 .. c - 1, NEW l \in 0 .. s - 1, l < Least(s, n - i * s)
      PROVE  i * s + l \in 0 .. n - 1 /\ (i * s + l) \div s = i /\ (i * s + l) % s = l
  <2>1. i \in Nat /\ l \in Nat /\ l < s /\ i * s = s * i /\ s * i \in Nat
    BY <1>1
  <2>2. (s * i + l) \div s = i /\ (s * i + l) % s = l /\ s * i + l \in Nat
    BY <2>1, DigitsOf
  <2>3. l < n - i * s
    BY <1>4, <2>1 DEF Least
  <2> QED BY <2>1, <2>2, <2>3
<1> QED BY <1>1, <1>3, <1>4 DEF c, PartsOf

(* The multiple of m at or before a cell.                                  *)
LEMMA Aligned ==
  ASSUME NEW m \in Nat, m > 0, NEW l \in Nat
  PROVE  /\ l % m \in 0 .. m - 1 /\ l - (l % m) \in 0 .. l
         /\ (l - (l % m)) % m = 0
<1> DEFINE a == l \div m
           r == l % m
<1>1. a \in Nat /\ r \in Nat /\ r < m /\ l = m * a + r /\ m * a \in Nat
  BY Quotient
<1> HIDE DEF a, r
<1>2. l - r = m * a
  BY <1>1
<1>3. (m * a) % m = 0
  BY <1>1, Multiple
<1> QED BY <1>1, <1>2, <1>3 DEF r

(* Of the cell l of part i, o is the last multiple of m at or before it. *)
AlignedCell(s, m, l, i, o) == o = i * s + (l - (l % m)) /\ (i * s + l) - o = l % m

(* In a part whose size is a multiple of m, a multiple of m less than m    *)
(* before a cell.                                                          *)
LEMMA AlignedAt ==
  ASSUME NEW s \in Nat, NEW m \in Nat, m > 0, s > 0, s % m = 0, NEW l \in 0 .. s - 1,
         NEW i \in Nat, NEW o \in Nat, o % m = 0, (i * s + l) - o \in 0 .. m - 1
  PROVE  AlignedCell(s, m, l, i, o)
<1> DEFINE k == s \div m
           a == l \div m
           r == l % m
<1>1. k \in Nat /\ s = m * k
  BY Quotient
<1>2. a \in Nat /\ r \in Nat /\ r < m /\ l = m * a + r /\ m * a \in Nat
  BY Quotient
<1> HIDE DEF k, a, r
<1> DEFINE q == o \div m
           d == (i * s + l) - o
<1>3. q \in Nat /\ o = m * q
  BY Quotient
<1>4. i * s \in Nat /\ i * k \in Nat
  BY <1>1
<1>5. d \in Nat /\ d < m /\ i * s + l = o + d
  BY <1>4
<1>6. i * s = m * (i * k)
  <2>1. i * (m * k) = m * (i * k)
    BY <1>1
  <2> QED BY <1>1, <2>1
<1>7. m * (i * k) + m * a = m * (i * k + a)
  BY <1>2, <1>4
<1> HIDE DEF q, d
<1> DEFINE u == i * s
           v == m * a
           z == m * q
           c == i * k + a
           y == m * c
<1>8. c \in Nat /\ u \in Nat /\ v \in Nat /\ u + v = y
  BY <1>2, <1>4, <1>6, <1>7
<1>9. z + d = u + l /\ l = v + r /\ o = z
  BY <1>2, <1>3, <1>5
<1>10. q = c /\ d = r
  <2>1. m * q + d = m * c + r
    <3> HIDE DEF u, v, z, y
    <3>1. z + d = y + r
      BY <1>2, <1>8, <1>9
    <3> QED BY <3>1 DEF z, y
  <2>2. c \in Nat /\ q \in Nat /\ d \in Nat /\ d < m /\ r \in Nat /\ r < m
    BY <1>2, <1>3, <1>5, <1>8
  <2> HIDE DEF c
  <2> QED BY ONLY <2>1, <2>2, m \in Nat, m > 0, Digits
<1>11. o = u + v
  BY <1>8, <1>9, <1>10
<1>12. l - r = v
  <2> HIDE DEF u, v, z, y
  <2> QED BY <1>2, <1>8, <1>9
<1>13. d = r
  BY <1>10
<1> QED BY <1>11, <1>12, <1>13 DEF d, r, AlignedCell

Blocks(f)    == 0 .. f.bw * f.bh - 1
Column(f, b) == b % f.bw
Row(f, b)    == b \div f.bw
TilesOf(f)   == 0 .. NumTiles(f) - 1
TilePos      == 0 .. TilePositions - 1
PosOf(f, b)  == (Row(f, b) % TileSide) * TileSide + (Column(f, b) % TileSide)

(* The bands of a tile, which its first warps resolve. *)
Bands == TileSide \div BandRows

(* The constants. *)
LEMMA Constants ==
  /\ TileSide \in Nat /\ TileSide > 0 /\ BandRows \in Nat /\ BandRows > 0 /\ Warps \in Nat /\ Warps > 0
  /\ Bands \in Nat /\ Bands <= Warps /\ TileSide = BandRows * Bands
  /\ HalvesPerVector \in Nat /\ HalvesPerVector > 0
  /\ BlockDim \in Nat /\ BlockDim > 0 /\ Slots \in Nat /\ Slots > 0
  /\ TilePositions \in Nat /\ TilePositions > 0 /\ TileSlots \in Nat /\ TileSlots > 0
  /\ Threads \in Nat /\ Threads > 0 /\ Threads % Warps = 0
  /\ \A s \in Sides : BandRows % CoveredSide(s) = 0
<1>1. TileSide \in Nat /\ TileSide > 0 /\ BlockDim \in Nat /\ BlockDim > 0
  BY QuantizeAssumption, LayoutAssumption
<1>2. \A a \in Nat, b \in Nat : a > 0 /\ b > 0 => a * b \in Nat /\ a * b > 0
  OBVIOUS
<1>3. Slots \in Nat /\ Slots > 0
  BY <1>1, <1>2 DEF Slots
<1>4. TilePositions \in Nat /\ TilePositions > 0
  BY <1>1, <1>2 DEF TilePositions
<1>5. TileSlots \in Nat /\ TileSlots > 0
  BY <1>2, <1>3, <1>4 DEF TileSlots
<1>6. Threads \in Nat /\ Threads > 0
  BY <1>1, <1>2, <1>3 DEF Threads
<1>7. Bands \in Nat /\ TileSide = BandRows * Bands
  BY QuantizeAssumption, Quotient DEF Bands
<1> QED BY <1>1, <1>3, <1>4, <1>5, <1>6, <1>7, QuantizeAssumption DEF Bands

(* The sides of transforms, in coefficients and in blocks. *)
LEMMA SideIs ==
  ASSUME NEW side \in Sides
  PROVE  /\ side \in Nat /\ side > 0 /\ side = CoveredSide(side) * BlockDim
         /\ CoveredSide(side) \in {1, 2, 4}
         /\ CoveredSide(side) \in Nat /\ CoveredSide(side) > 0
         /\ Covered(side) \in Nat /\ Covered(side) > 0
         /\ side * side = Covered(side) * Slots /\ side * side \in Nat
<1>1. PICK m \in {1, 2, 4} : side = m * BlockDim
  BY LayoutAssumption
<1>2. BlockDim \in Nat /\ BlockDim > 0
  BY LayoutAssumption
<1>3. side = BlockDim * m + 0 /\ side \in Nat /\ side > 0 /\ side = m * BlockDim
  BY <1>1, <1>2
<1>4. CoveredSide(side) = m
  BY <1>2, <1>3, DigitsOf DEF CoveredSide
<1>5. Covered(side) = m * m
  BY <1>4 DEF Covered
<1>6. (m * BlockDim) * (m * BlockDim) = (m * m) * (BlockDim * BlockDim)
  BY <1>2
<1>7. side * side = Covered(side) * Slots
  BY <1>1, <1>5, <1>6 DEF Slots
<1> QED BY <1>3, <1>4, <1>5, <1>7

(* The frames. *)
LEMMA FrameIs ==
  ASSUME NEW f \in Frames
  PROVE  /\ f.bw \in Nat /\ f.bw > 0 /\ f.bh \in Nat /\ f.bh > 0
         /\ f.acs \in [Blocks(f) -> Sides \cup {COVERED}]
         /\ f.ac \in [Channel -> [0 .. f.bw * f.bh * Slots - 1 -> Int]]
         /\ \A b \in Blocks(f) :
              /\ \E o \in FirstBlocks(f) : Covers(f, o, b)
              /\ \A o \in FirstBlocks(f), p \in FirstBlocks(f) :
                   Covers(f, o, b) /\ Covers(f, p, b) => o = p
         /\ \A o \in FirstBlocks(f) :
              /\ Column(f, o) % CoveredSide(f.acs[o]) = 0 /\ Row(f, o) % CoveredSide(f.acs[o]) = 0
              /\ Column(f, o) + CoveredSide(f.acs[o]) <= f.bw
              /\ Row(f, o) + CoveredSide(f.acs[o]) <= f.bh
BY FramesAssumption DEF Blocks, Column, Row

(* A frame's blocks by column and row. *)
LEMMA BlockIs ==
  ASSUME NEW f \in Frames
  PROVE  /\ \A b \in Blocks(f) :
              /\ Column(f, b) \in 0 .. f.bw - 1 /\ Row(f, b) \in 0 .. f.bh - 1
              /\ b = Row(f, b) * f.bw + Column(f, b)
         /\ \A x \in 0 .. f.bw - 1, y \in 0 .. f.bh - 1 :
              /\ y * f.bw + x \in Blocks(f)
              /\ Column(f, y * f.bw + x) = x /\ Row(f, y * f.bw + x) = y
BY FrameIs, Grid DEF Blocks, Column, Row

(* The positions of a tile by column and row. *)
LEMMA PosIs ==
  /\ \A p \in TilePos :
       /\ p % TileSide \in 0 .. TileSide - 1 /\ p \div TileSide \in 0 .. TileSide - 1
       /\ p = (p \div TileSide) * TileSide + (p % TileSide)
  /\ \A x \in 0 .. TileSide - 1, y \in 0 .. TileSide - 1 :
       /\ y * TileSide + x \in TilePos
       /\ (y * TileSide + x) % TileSide = x /\ (y * TileSide + x) \div TileSide = y
<1> DEFINE n == TileSide
<1>1. n \in Nat /\ n > 0 /\ TilePos = 0 .. n * n - 1
  BY Constants DEF TilePos, TilePositions
<1> HIDE DEF n
<1>2. /\ \A p \in TilePos : /\ p % n \in 0 .. n - 1 /\ p \div n \in 0 .. n - 1
                           /\ p = (p \div n) * n + (p % n)
      /\ \A x \in 0 .. n - 1, y \in 0 .. n - 1 :
           /\ y * n + x \in TilePos
           /\ (y * n + x) % n = x /\ (y * n + x) \div n = y
  BY <1>1, Grid
<1> QED BY <1>2 DEF n

(* A frame's columns and rows, in tiles. *)
LEMMA FrameParts ==
  ASSUME NEW f \in Frames
  PROVE  PartsOf(f.bw, TileSide) /\ PartsOf(f.bh, TileSide) /\ TilesX(f) = CeilDiv(f.bw, TileSide)
<1>1. f.bw \in Nat /\ f.bw > 0 /\ f.bh \in Nat /\ f.bh > 0 /\ TileSide \in Nat /\ TileSide > 0
  BY FrameIs, Constants
<1> QED BY <1>1, Parts DEF TilesX

(* The tiles of a frame by column and row. *)
LEMMA TileIs ==
  ASSUME NEW f \in Frames
  PROVE  /\ TilesX(f) \in Nat /\ CeilDiv(f.bh, TileSide) \in Nat
         /\ \A t \in TilesOf(f) :
              /\ t % TilesX(f) \in 0 .. TilesX(f) - 1 /\ t \div TilesX(f) \in 0 .. CeilDiv(f.bh, TileSide) - 1
              /\ t = (t \div TilesX(f)) * TilesX(f) + (t % TilesX(f))
         /\ \A x \in 0 .. TilesX(f) - 1, y \in 0 .. CeilDiv(f.bh, TileSide) - 1 :
              /\ y * TilesX(f) + x \in TilesOf(f)
              /\ (y * TilesX(f) + x) % TilesX(f) = x /\ (y * TilesX(f) + x) \div TilesX(f) = y
<1>1. f.bw \in Nat /\ f.bw > 0 /\ f.bh \in Nat /\ f.bh > 0 /\ TileSide \in Nat /\ TileSide > 0
  BY FrameIs, Constants
<1>2. TilesX(f) \in Nat /\ CeilDiv(f.bh, TileSide) \in Nat
  BY FrameParts DEF PartsOf
<1>3. 0 \div TileSide \in 0 .. TilesX(f) - 1
  <2>1. 0 \in 0 .. f.bw - 1
    BY <1>1
  <2> QED BY <2>1, FrameParts DEF PartsOf
<1>4. TilesX(f) > 0
  BY <1>2, <1>3
<1> QED BY <1>2, <1>4, Grid DEF TilesOf, NumTiles

(* Each block is at one position of one tile. *)
LEMMA BlockInTile ==
  ASSUME NEW f \in Frames, NEW b \in Blocks(f)
  PROVE  /\ TileOf(f, b) \in TilesOf(f) /\ PosOf(f, b) \in TilePos
         /\ InFrame(f, TileOf(f, b), PosOf(f, b))
         /\ BlockOf(f, TileOf(f, b), PosOf(f, b)) = b
         /\ PosOf(f, b) % TileSide = Column(f, b) % TileSide
         /\ PosOf(f, b) \div TileSide = Row(f, b) % TileSide
         /\ TileBx(f, TileOf(f, b)) = (Column(f, b) \div TileSide) * TileSide
         /\ TileBy(f, TileOf(f, b)) = (Row(f, b) \div TileSide) * TileSide
<1> DEFINE x == Column(f, b)
           y == Row(f, b)
           t == TileOf(f, b)
           p == PosOf(f, b)
<1>1. f.bw \in Nat /\ f.bw > 0 /\ f.bh \in Nat /\ f.bh > 0 /\ TileSide \in Nat /\ TileSide > 0
  BY FrameIs, Constants
<1>2. x \in 0 .. f.bw - 1 /\ y \in 0 .. f.bh - 1 /\ b = y * f.bw + x
  BY BlockIs
<1> HIDE DEF x, y
<1>3. /\ x \div TileSide \in 0 .. TilesX(f) - 1
      /\ x % TileSide \in 0 .. TileSide - 1 /\ x % TileSide < Least(TileSide, f.bw - (x \div TileSide) * TileSide)
      /\ (x \div TileSide) * TileSide + (x % TileSide) = x
  BY ONLY <1>2, f \in Frames, FrameParts DEF PartsOf
<1>4. /\ y \div TileSide \in 0 .. CeilDiv(f.bh, TileSide) - 1
      /\ y % TileSide \in 0 .. TileSide - 1 /\ y % TileSide < Least(TileSide, f.bh - (y \div TileSide) * TileSide)
      /\ (y \div TileSide) * TileSide + (y % TileSide) = y
  BY ONLY <1>2, f \in Frames, FrameParts DEF PartsOf
<1>5. t = (y \div TileSide) * TilesX(f) + (x \div TileSide)
  BY DEF TileOf, x, y, Column, Row
<1>6. t \in TilesOf(f) /\ t % TilesX(f) = x \div TileSide /\ t \div TilesX(f) = y \div TileSide
  BY <1>3, <1>4, <1>5, TileIs
<1>7. p = (y % TileSide) * TileSide + (x % TileSide)
  BY DEF PosOf, x, y
<1>8. p \in TilePos /\ p % TileSide = x % TileSide /\ p \div TileSide = y % TileSide
  BY <1>3, <1>4, <1>7, PosIs
<1> HIDE DEF t, p
<1>9. TileBx(f, t) = (x \div TileSide) * TileSide /\ TileBy(f, t) = (y \div TileSide) * TileSide
  BY <1>6 DEF TileBx, TileBy
<1>10. InFrame(f, t, p)
  BY <1>3, <1>4, <1>8, <1>9 DEF InFrame, Cols, Rows
<1>11. BlockOf(f, t, p) = b
  <2>1. TileBy(f, t) + p \div TileSide = y /\ TileBx(f, t) + (p % TileSide) = x
    BY <1>3, <1>4, <1>8, <1>9
  <2>2. (y * f.bw) + x = b
    BY <1>2
  <2>3. y * f.bw \in Int /\ TileBx(f, t) \in Int /\ p % TileSide \in Int
    BY <1>1, <1>2, <1>3, <1>8, <1>9
  <2>4. y * f.bw + TileBx(f, t) + (p % TileSide) = b
    BY <2>1, <2>2, <2>3
  <2> QED BY <2>1, <2>4 DEF BlockOf
<1> QED BY <1>6, <1>8, <1>9, <1>10, <1>11 DEF t, p, x, y

(* Each position of a tile that is in the frame is one block's. *)
LEMMA BlockOfIs ==
  ASSUME NEW f \in Frames, NEW t \in TilesOf(f), NEW p \in TilePos, InFrame(f, t, p)
  PROVE  /\ BlockOf(f, t, p) \in Blocks(f)
         /\ TileOf(f, BlockOf(f, t, p)) = t /\ PosOf(f, BlockOf(f, t, p)) = p
         /\ Column(f, BlockOf(f, t, p)) = TileBx(f, t) + (p % TileSide)
         /\ Row(f, BlockOf(f, t, p)) = TileBy(f, t) + p \div TileSide
<1> DEFINE i == t % TilesX(f)
           j == t \div TilesX(f)
           l == p % TileSide
           k == p \div TileSide
           x == i * TileSide + l
           y == j * TileSide + k
           b == BlockOf(f, t, p)
<1>1. f.bw \in Nat /\ f.bw > 0 /\ f.bh \in Nat /\ f.bh > 0 /\ TileSide \in Nat /\ TileSide > 0
  BY FrameIs, Constants
<1>2. /\ i \in 0 .. TilesX(f) - 1 /\ j \in 0 .. CeilDiv(f.bh, TileSide) - 1
      /\ t = j * TilesX(f) + i /\ TilesX(f) \in Nat
  BY TileIs
<1>3. l \in 0 .. TileSide - 1 /\ k \in 0 .. TileSide - 1 /\ p = k * TileSide + l
  BY PosIs
<1>4. TileBx(f, t) = i * TileSide /\ TileBy(f, t) = j * TileSide
  BY DEF TileBx, TileBy
<1>5. l < Least(TileSide, f.bw - i * TileSide) /\ k < Least(TileSide, f.bh - j * TileSide)
  BY <1>4 DEF InFrame, Cols, Rows
<1> HIDE DEF i, j, l, k
<1>6. x \in 0 .. f.bw - 1 /\ x \div TileSide = i /\ x % TileSide = l
  <2>1. \A a \in 0 .. CeilDiv(f.bw, TileSide) - 1, c \in 0 .. TileSide - 1 :
          c < Least(TileSide, f.bw - a * TileSide) =>
            /\ a * TileSide + c \in 0 .. f.bw - 1
            /\ (a * TileSide + c) \div TileSide = a /\ (a * TileSide + c) % TileSide = c
    BY ONLY f \in Frames, FrameParts DEF PartsOf
  <2>2. i \in 0 .. CeilDiv(f.bw, TileSide) - 1
    BY <1>2 DEF TilesX
  <2> QED BY <1>3, <1>5, <2>1, <2>2
<1>7. y \in 0 .. f.bh - 1 /\ y \div TileSide = j /\ y % TileSide = k
  <2>1. \A a \in 0 .. CeilDiv(f.bh, TileSide) - 1, c \in 0 .. TileSide - 1 :
          c < Least(TileSide, f.bh - a * TileSide) =>
            /\ a * TileSide + c \in 0 .. f.bh - 1
            /\ (a * TileSide + c) \div TileSide = a /\ (a * TileSide + c) % TileSide = c
    BY ONLY f \in Frames, FrameParts DEF PartsOf
  <2> QED BY <1>2, <1>3, <1>5, <2>1
<1>8. b = y * f.bw + x
  <2>1. b = y * f.bw + (i * TileSide) + l
    BY <1>4 DEF BlockOf, l, k
  <2>2. y \in Int /\ i \in Int /\ l \in Int
    BY <1>1, <1>2, <1>3, <1>7
  <2> HIDE DEF y, b
  <2>3. y * f.bw \in Int /\ i * TileSide \in Int
    BY <1>1, <2>2
  <2> QED BY <2>1, <2>2, <2>3
<1>9. b \in Blocks(f) /\ Column(f, b) = x /\ Row(f, b) = y
  BY <1>6, <1>7, <1>8, BlockIs
<1>10. TileOf(f, b) = t
  BY <1>2, <1>6, <1>7, <1>9 DEF TileOf, Column, Row
<1>11. PosOf(f, b) = p
  BY <1>3, <1>6, <1>7, <1>9 DEF PosOf
<1> HIDE DEF b
<1> QED BY <1>4, <1>9, <1>10, <1>11 DEF b, x, y, l, k
---------------------------------------------------------------------------
(* Transforms.                                                             *)

(* How far a block is from the first of its transform. *)
Dx(f, b) == Column(f, b) - Column(f, Owner(f, b))
Dy(f, b) == Row(f, b) - Row(f, Owner(f, b))
Side(f, b) == f.acs[Owner(f, b)]
Ordinal(f, b) == Dy(f, b) * CoveredSide(Side(f, b)) + Dx(f, b)

(* A block has one owner. *)
LEMMA OwnerIs ==
  ASSUME NEW f \in Frames, NEW b \in Blocks(f)
  PROVE  /\ Owner(f, b) \in FirstBlocks(f) /\ Owner(f, b) \in Blocks(f) /\ Side(f, b) \in Sides
         /\ Dx(f, b) \in 0 .. CoveredSide(Side(f, b)) - 1
         /\ Dy(f, b) \in 0 .. CoveredSide(Side(f, b)) - 1
         /\ \A o \in FirstBlocks(f) : Covers(f, o, b) => o = Owner(f, b)
<1>1. PICK o \in FirstBlocks(f) : Covers(f, o, b)
  BY FrameIs
<1>2. Owner(f, b) \in FirstBlocks(f) /\ Covers(f, Owner(f, b), b)
  BY <1>1, Zenon DEF Owner
<1>3. \A p \in FirstBlocks(f) : Covers(f, p, b) => p = Owner(f, b)
  BY <1>2, FrameIs
<1>4. Owner(f, b) \in Blocks(f) /\ Side(f, b) \in Sides
  BY <1>2, FrameIs DEF FirstBlocks, Blocks, Side
<1>5. /\ Dx(f, b) \in 0 .. CoveredSide(Side(f, b)) - 1
      /\ Dy(f, b) \in 0 .. CoveredSide(Side(f, b)) - 1
  BY <1>2, Zenon DEF Covers, Dx, Dy, Side, Column, Row
<1> QED BY <1>2, <1>3, <1>4, <1>5

(* A first block owns itself. *)
LEMMA FirstOwnsItself ==
  ASSUME NEW f \in Frames, NEW o \in FirstBlocks(f)
  PROVE  o \in Blocks(f) /\ f.acs[o] \in Sides /\ Owner(f, o) = o
<1>1. o \in Blocks(f) /\ f.acs[o] \in Sides
  BY FrameIs DEF FirstBlocks, Blocks
<1>2. Column(f, o) \in Int /\ Row(f, o) \in Int /\ CoveredSide(f.acs[o]) \in Nat /\ CoveredSide(f.acs[o]) > 0
  BY <1>1, BlockIs, SideIs
<1>3. Covers(f, o, o)
  BY <1>2 DEF Covers, Column, Row
<1> QED BY <1>1, <1>3, OwnerIs

(* The blocks of a transform, by their place in it. *)
LEMMA OwnedIs ==
  ASSUME NEW f \in Frames, NEW o \in FirstBlocks(f), NEW m, m = CoveredSide(f.acs[o]),
         NEW dx \in 0 .. m - 1, NEW dy \in 0 .. m - 1
  PROVE  LET b == (Row(f, o) + dy) * f.bw + (Column(f, o) + dx)
         IN  /\ b \in Blocks(f) /\ Owner(f, b) = o /\ Dx(f, b) = dx /\ Dy(f, b) = dy
             /\ Column(f, b) = Column(f, o) + dx /\ Row(f, b) = Row(f, o) + dy
<1> DEFINE x == Column(f, o) + dx
           y == Row(f, o) + dy
           b == y * f.bw + x
<1>1. o \in Blocks(f) /\ f.acs[o] \in Sides
  BY FirstOwnsItself
<1>2. Column(f, o) \in 0 .. f.bw - 1 /\ Row(f, o) \in 0 .. f.bh - 1 /\ m \in Nat
  BY <1>1, BlockIs, SideIs
<1>3. Column(f, o) + m <= f.bw /\ Row(f, o) + m <= f.bh /\ f.bw \in Nat /\ f.bh \in Nat
  BY FrameIs
<1>4. x \in 0 .. f.bw - 1 /\ y \in 0 .. f.bh - 1
  BY <1>2, <1>3
<1>5. x - Column(f, o) = dx /\ y - Row(f, o) = dy
  BY <1>2
<1> HIDE DEF x, y
<1>6. b \in Blocks(f) /\ Column(f, b) = x /\ Row(f, b) = y
  BY <1>4, BlockIs
<1> HIDE DEF b
<1>7. Covers(f, o, b)
  BY <1>5, <1>6 DEF Covers, Column, Row
<1>8. Owner(f, b) = o
  BY <1>6, <1>7, OwnerIs
<1>9. Dx(f, b) = dx /\ Dy(f, b) = dy
  BY <1>5, <1>6, <1>8 DEF Dx, Dy
<1> QED BY <1>6, <1>8, <1>9 DEF b, x, y

(* The position at or before p that is aligned to m. *)
AlignedPos(p, m) ==
  ((p \div TileSide) - ((p \div TileSide) % m)) * TileSide + ((p % TileSide) - ((p % TileSide) % m))

(* A side of a transform divides the tile's, and that of the bands. *)
LEMMA SideDivides ==
  ASSUME NEW s \in Sides
  PROVE  TileSide % CoveredSide(s) = 0 /\ BandRows % CoveredSide(s) = 0
<1> DEFINE m == CoveredSide(s)
           k == BandRows \div m
<1>1. m \in Nat /\ m > 0 /\ BandRows \in Nat /\ Bands \in Nat /\ TileSide = BandRows * Bands
      /\ BandRows % m = 0
  BY SideIs, Constants
<1> HIDE DEF m
<1>2. k \in Nat /\ BandRows = m * k
  BY <1>1, Quotient
<1> HIDE DEF k
<1>3. k * Bands \in Nat /\ (m * k) * Bands = m * (k * Bands)
  BY <1>1, <1>2
<1>4. TileSide = m * (k * Bands)
  BY <1>1, <1>2, <1>3
<1>5. TileSide % m = 0
  <2> DEFINE c == k * Bands
  <2>1. c \in Nat /\ TileSide = m * c
    BY <1>3, <1>4
  <2> HIDE DEF c
  <2>2. (m * c) % m = 0
    BY <1>1, <2>1, Multiple
  <2> QED BY <2>1, <2>2
<1> QED BY <1>1, <1>5 DEF m

(* An aligned position is in the tile, and as far as the remainders. *)
LEMMA AlignedPosIs ==
  ASSUME NEW p \in TilePos, NEW s \in Sides
  PROVE  LET m == CoveredSide(s)
             q == AlignedPos(p, m)
         IN  /\ q \in TilePos
             /\ q % TileSide = (p % TileSide) - ((p % TileSide) % m)
             /\ q \div TileSide = (p \div TileSide) - ((p \div TileSide) % m)
             /\ (p % TileSide) - (q % TileSide) \in 0 .. m - 1
             /\ (p \div TileSide) - (q \div TileSide) \in 0 .. m - 1
<1> DEFINE m == CoveredSide(s)
           l == p % TileSide
           k == p \div TileSide
           q == AlignedPos(p, m)
<1>1. l \in 0 .. TileSide - 1 /\ k \in 0 .. TileSide - 1 /\ TileSide \in Nat /\ TileSide > 0
  BY PosIs, Constants
<1>2. m \in Nat /\ m > 0 /\ TileSide % m = 0
  BY SideIs, SideDivides
<1>3. q = (k - (k % m)) * TileSide + (l - (l % m))
  BY DEF AlignedPos
<1> HIDE DEF l, k, m, q
<1>4. /\ l % m \in 0 .. m - 1 /\ l - (l % m) \in 0 .. TileSide - 1
      /\ k % m \in 0 .. m - 1 /\ k - (k % m) \in 0 .. TileSide - 1
  <2>1. /\ l % m \in 0 .. m - 1 /\ l - (l % m) \in 0 .. l
        /\ k % m \in 0 .. m - 1 /\ k - (k % m) \in 0 .. k
    BY <1>1, <1>2, Aligned
  <2> QED BY <1>1, <2>1
<1>5. q \in TilePos /\ q % TileSide = l - (l % m) /\ q \div TileSide = k - (k % m)
  BY <1>3, <1>4, PosIs
<1>6. l - (q % TileSide) = l % m /\ k - (q \div TileSide) = k % m
  BY <1>1, <1>2, <1>4, <1>5
<1> QED BY <1>4, <1>5, <1>6 DEF l, k, m, q

(* A transform does not leave its tile. *)
LEMMA OwnerInTile ==
  ASSUME NEW f \in Frames, NEW b \in Blocks(f)
  PROVE  /\ TileOf(f, Owner(f, b)) = TileOf(f, b)
         /\ PosOf(f, Owner(f, b)) = AlignedPos(PosOf(f, b), CoveredSide(Side(f, b)))
         /\ Dx(f, b) = (PosOf(f, b) % TileSide) - (PosOf(f, Owner(f, b)) % TileSide)
         /\ Dy(f, b) = PosOf(f, b) \div TileSide - PosOf(f, Owner(f, b)) \div TileSide
<1> DEFINE o == Owner(f, b)
           m == CoveredSide(Side(f, b))
           p == PosOf(f, b)
           t == TileOf(f, b)
           i == t % TilesX(f)
           j == t \div TilesX(f)
           l == p % TileSide
           k == p \div TileSide
           q == AlignedPos(p, m)
<1>1. o \in FirstBlocks(f) /\ o \in Blocks(f) /\ f.acs[o] \in Sides /\ m = CoveredSide(f.acs[o])
      /\ Dx(f, b) \in 0 .. m - 1 /\ Dy(f, b) \in 0 .. m - 1
  BY OwnerIs DEF Side
<1>2. m \in Nat /\ m > 0 /\ TileSide % m = 0 /\ TileSide \in Nat /\ TileSide > 0
  BY <1>1, SideIs, SideDivides, Constants
<1>3. t \in TilesOf(f) /\ p \in TilePos /\ InFrame(f, t, p) /\ BlockOf(f, t, p) = b
  BY BlockInTile
<1>4. Column(f, b) = i * TileSide + l /\ Row(f, b) = j * TileSide + k
  <2>1. Column(f, b) = TileBx(f, t) + l /\ Row(f, b) = TileBy(f, t) + k
    <3> HIDE DEF t, p
    <3> QED BY <1>3, BlockOfIs
  <2> QED BY <2>1 DEF TileBx, TileBy
<1>5. i \in Nat /\ j \in Nat
  <2> HIDE DEF t
  <2> QED BY <1>3, TileIs
<1>6. l \in 0 .. TileSide - 1 /\ k \in 0 .. TileSide - 1
  BY <1>3, PosIs
<1>7. /\ Column(f, o) % m = 0 /\ Row(f, o) % m = 0
      /\ Column(f, o) \in Nat /\ Row(f, o) \in Nat
  BY <1>1, FrameIs, BlockIs
<1>8. Dx(f, b) = Column(f, b) - Column(f, o) /\ Dy(f, b) = Row(f, b) - Row(f, o)
  BY DEF Dx, Dy
<1> HIDE DEF l, k, i, j, m
<1>9. Column(f, o) = i * TileSide + (l - (l % m)) /\ Dx(f, b) = l % m /\ l - (l % m) \in 0 .. TileSide - 1
  <2>1. (i * TileSide + l) - Column(f, o) \in 0 .. m - 1
    BY <1>1, <1>4, <1>8
  <2>2. /\ Column(f, o) = i * TileSide + (l - (l % m)) /\ (i * TileSide + l) - Column(f, o) = l % m
        /\ l - (l % m) \in 0 .. TileSide - 1
    <3> DEFINE c == Column(f, o)
    <3>1. c \in Nat /\ c % m = 0 /\ (i * TileSide + l) - c \in 0 .. m - 1
      BY <1>7, <2>1
    <3> HIDE DEF c
    <3>2. AlignedCell(TileSide, m, l, i, c)
      BY <1>2, <1>5, <1>6, <3>1, AlignedAt
    <3>3. l - (l % m) \in 0 .. l
      BY <1>2, <1>6, Aligned
    <3>4. l - (l % m) \in 0 .. TileSide - 1
      BY <1>2, <1>6, <3>3
    <3> QED BY <3>2, <3>4 DEF c, AlignedCell
  <2> QED BY <1>4, <1>8, <2>2
<1>10. Row(f, o) = j * TileSide + (k - (k % m)) /\ Dy(f, b) = k % m /\ k - (k % m) \in 0 .. TileSide - 1
  <2>1. (j * TileSide + k) - Row(f, o) \in 0 .. m - 1
    BY <1>1, <1>4, <1>8
  <2>2. /\ Row(f, o) = j * TileSide + (k - (k % m)) /\ (j * TileSide + k) - Row(f, o) = k % m
        /\ k - (k % m) \in 0 .. TileSide - 1
    <3> DEFINE c == Row(f, o)
    <3>1. c \in Nat /\ c % m = 0 /\ (j * TileSide + k) - c \in 0 .. m - 1
      BY <1>7, <2>1
    <3> HIDE DEF c
    <3>2. AlignedCell(TileSide, m, k, j, c)
      BY <1>2, <1>5, <1>6, <3>1, AlignedAt
    <3>3. k - (k % m) \in 0 .. k
      BY <1>2, <1>6, Aligned
    <3>4. k - (k % m) \in 0 .. TileSide - 1
      BY <1>2, <1>6, <3>3
    <3> QED BY <3>2, <3>4 DEF c, AlignedCell
  <2> QED BY <1>4, <1>8, <2>2
<1>11. /\ Column(f, o) \div TileSide = i /\ Column(f, o) % TileSide = l - (l % m)
       /\ Row(f, o) \div TileSide = j /\ Row(f, o) % TileSide = k - (k % m)
  <2>1. \A a \in Nat, c \in 0 .. TileSide - 1 :
          (a * TileSide + c) \div TileSide = a /\ (a * TileSide + c) % TileSide = c
    <3> SUFFICES ASSUME NEW a \in Nat, NEW c \in 0 .. TileSide - 1
                 PROVE  (a * TileSide + c) \div TileSide = a /\ (a * TileSide + c) % TileSide = c
      OBVIOUS
    <3>1. a * TileSide = TileSide * a
      BY <1>2
    <3>2. (TileSide * a + c) \div TileSide = a /\ (TileSide * a + c) % TileSide = c
      BY <1>2, DigitsOf
    <3> QED BY <3>1, <3>2
  <2> QED BY <1>5, <1>9, <1>10, <2>1
<1>12. /\ Column(f, b) \div TileSide = i /\ Row(f, b) \div TileSide = j
  <2>1. t = j * TilesX(f) + i
    <3> HIDE DEF t
    <3> QED BY <1>3, TileIs DEF i, j
  <2>2. TileBx(f, t) = (Column(f, b) \div TileSide) * TileSide /\ TileBy(f, t) = (Row(f, b) \div TileSide) * TileSide
    BY BlockInTile
  <2>3. \A a \in Nat, c \in Nat : a * TileSide = c * TileSide => a = c
    BY <1>2
  <2>4. Column(f, b) \div TileSide \in Nat /\ Row(f, b) \div TileSide \in Nat
    <3>1. Column(f, b) \in Nat /\ Row(f, b) \in Nat
      BY BlockIs
    <3> QED BY <1>2, <3>1, Quotient
  <2> QED BY <1>5, <2>2, <2>3, <2>4 DEF TileBx, TileBy, i, j
<1>13. TileOf(f, o) = TileOf(f, b)
  BY <1>11, <1>12 DEF TileOf, Column, Row
<1>14. PosOf(f, o) = q
  BY <1>11 DEF PosOf, AlignedPos, l, k
<1>15. PosOf(f, o) % TileSide = l - (l % m) /\ PosOf(f, o) \div TileSide = k - (k % m)
  <2>1. o \in Blocks(f)
    BY <1>1
  <2> HIDE DEF o
  <2> QED BY <1>11, <2>1, BlockInTile
<1>16. Dx(f, b) = l - (PosOf(f, o) % TileSide) /\ Dy(f, b) = k - (PosOf(f, o) \div TileSide)
  <2>1. l % m \in Nat /\ k % m \in Nat /\ l \in Nat /\ k \in Nat
    BY <1>2, <1>6, Quotient
  <2> QED BY <1>9, <1>10, <1>15, <2>1
<1> QED BY <1>13, <1>14, <1>16 DEF m, l, k

---------------------------------------------------------------------------
(* What a warp finds out about a position.                                 *)

(* The position a lane asks for the signal of a transform of a side. *)
LaneOf(p, m) ==
  LET lx == p % TileSide
      ly == p \div TileSide
      first == (ly \div BandRows) * BandRows * TileSide
  IN  first + (((ly - (ly % m)) % BandRows) * TileSide + lx - (lx % m))

(* It is the aligned position, as the bands are multiples of the sides. *)
LEMMA LaneIs ==
  ASSUME NEW p \in TilePos, NEW s \in Sides
  PROVE  LaneOf(p, CoveredSide(s)) = AlignedPos(p, CoveredSide(s))
<1> DEFINE m == CoveredSide(s)
           l == p % TileSide
           k == p \div TileSide
           a == k \div BandRows
           r == k % BandRows
           o == k - (k % m)
           e == r - (r % m)
           z == l - (l % m)
<1>1. l \in Nat /\ k \in Nat /\ TileSide \in Nat /\ TileSide > 0 /\ BandRows \in Nat /\ BandRows > 0
  BY PosIs, Constants
<1>2. m \in Nat /\ m > 0 /\ BandRows % m = 0
  BY SideIs, SideDivides
<1> HIDE DEF m, l, k
<1>3. a \in Nat /\ r \in Nat /\ r < BandRows /\ k = BandRows * a + r
  BY <1>1, Quotient
<1>4. /\ k % m \in 0 .. m - 1 /\ o \in 0 .. k /\ o % m = 0
      /\ r % m \in 0 .. m - 1 /\ e \in 0 .. r
      /\ l % m \in 0 .. m - 1 /\ z \in 0 .. l
  <2> HIDE DEF a, r
  <2> QED BY <1>1, <1>2, <1>3, Aligned
<1>5. k = a * BandRows + r
  BY <1>1, <1>3
<1> HIDE DEF a, r
<1>6. (a * BandRows + r) - o \in 0 .. m - 1
  <2>1. k - o = k % m
    BY <1>1, <1>4
  <2> HIDE DEF o
  <2> QED BY <1>4, <1>5, <2>1
<1> HIDE DEF o
<1>7. AlignedCell(BandRows, m, r, a, o)
  BY <1>1, <1>2, <1>3, <1>4, <1>6, AlignedAt
<1>8. o = a * BandRows + e
  BY <1>7 DEF AlignedCell
<1> HIDE DEF e, z
<1>9. e \in Nat /\ e < BandRows /\ z \in Nat
  BY <1>1, <1>3, <1>4
<1>10. o = BandRows * a + e
  BY <1>1, <1>3, <1>8, <1>9
<1>11. o % BandRows = e
  BY <1>1, <1>3, <1>9, <1>10, DigitsOf
<1>12. a * BandRows * TileSide + (e * TileSide + z) = o * TileSide + z
  <2> DEFINE u == a * BandRows
  <2>1. u \in Nat /\ o = u + e
    BY <1>1, <1>3, <1>8
  <2> HIDE DEF u
  <2>2. (u + e) * TileSide = u * TileSide + e * TileSide
    BY <1>1, <1>9, <2>1
  <2>3. u * TileSide \in Nat /\ e * TileSide \in Nat
    BY <1>1, <1>9, <2>1
  <2>4. u * TileSide + (e * TileSide + z) = o * TileSide + z
    BY <1>9, <2>1, <2>2, <2>3
  <2> QED BY <2>4 DEF u
<1>13. LaneOf(p, m) = a * BandRows * TileSide + ((o % BandRows) * TileSide + z)
  BY DEF LaneOf, a, o, l, k, z
<1>14. AlignedPos(p, m) = o * TileSide + z
  BY DEF AlignedPos, o, l, k, z
<1> QED BY <1>11, <1>12, <1>13, <1>14 DEF m

(* The signal of a position, as a lane holds it. *)
Signal(f, t, q) == IF InFrame(f, t, q) THEN f.acs[BlockOf(f, t, q)] ELSE 0

(* The transforms of more than one block that a position may be of. *)
Large(f, t, p) == {s \in Sides : CoveredSide(s) > 1 /\ Signal(f, t, LaneOf(p, CoveredSide(s))) = s}
SideAt(f, t, p) ==
  IF Large(f, t, p) = {} THEN BlockDim ELSE CHOOSE s \in Large(f, t, p) : \A r \in Large(f, t, p) : r <= s

(* Where the position p of a frame lies: what Position finds out. *)
Place(f, b) ==
  [owner |-> PosOf(f, Owner(f, b)), side |-> Side(f, b), ordinal |-> Ordinal(f, b), qf |-> f.qf[Owner(f, b)],
   llf |-> {s \in 0 .. Slots - 1 : IsCorner(Side(f, b), Ordinal(f, b) * Slots + s)}]

(* The only large transform at a position is its own. *)
LEMMA LargeIs ==
  ASSUME NEW f \in Frames, NEW t \in TilesOf(f), NEW p \in TilePos, InFrame(f, t, p)
  PROVE  LET b == BlockOf(f, t, p)
         IN  Large(f, t, p) = IF CoveredSide(Side(f, b)) > 1 THEN {Side(f, b)} ELSE {}
<1> DEFINE b == BlockOf(f, t, p)
<1>1. b \in Blocks(f) /\ TileOf(f, b) = t /\ PosOf(f, b) = p
  BY BlockOfIs
<1> HIDE DEF b
<1>2. Side(f, b) \in Sides /\ Owner(f, b) \in Blocks(f) /\ Owner(f, b) \in FirstBlocks(f)
  BY <1>1, OwnerIs
<1>3. Signal(f, t, LaneOf(p, CoveredSide(Side(f, b)))) = Side(f, b)
  <2> DEFINE o == Owner(f, b)
  <2>1. LaneOf(p, CoveredSide(Side(f, b))) = PosOf(f, o) /\ TileOf(f, o) = t
    BY <1>1, <1>2, LaneIs, OwnerInTile
  <2>2. InFrame(f, t, PosOf(f, o)) /\ BlockOf(f, t, PosOf(f, o)) = o
    <3> HIDE DEF o
    <3> QED BY <1>2, <2>1, BlockInTile DEF o
  <2> QED BY <2>1, <2>2 DEF Signal, Side
<1>4. ASSUME NEW s \in Large(f, t, p) PROVE s = Side(f, b)
  <2> DEFINE m == CoveredSide(s)
             q == AlignedPos(p, m)
             o == BlockOf(f, t, q)
  <2>1. s \in Sides /\ Signal(f, t, q) = s
    BY <1>4, LaneIs DEF Large
  <2>2. /\ q \in TilePos
        /\ (p % TileSide) - (q % TileSide) \in 0 .. m - 1
        /\ (p \div TileSide) - (q \div TileSide) \in 0 .. m - 1
    BY <2>1, AlignedPosIs
  <2> HIDE DEF q
  <2>3. InFrame(f, t, q) /\ f.acs[o] = s
    <3>1. s # 0
      BY <2>1, SideIs
    <3> QED BY <2>1, <3>1 DEF Signal
  <2>4. /\ o \in Blocks(f)
        /\ Column(f, o) = TileBx(f, t) + (q % TileSide) /\ Row(f, o) = TileBy(f, t) + q \div TileSide
    BY <2>2, <2>3, BlockOfIs
  <2> HIDE DEF o
  <2>5. Column(f, b) = TileBx(f, t) + (p % TileSide) /\ Row(f, b) = TileBy(f, t) + p \div TileSide
    BY BlockOfIs DEF b
  <2>6. TileBx(f, t) \in Int /\ TileBy(f, t) \in Int
    BY TileIs, Constants DEF TileBx, TileBy
  <2>7. /\ p % TileSide \in Int /\ p \div TileSide \in Int
        /\ q % TileSide \in Int /\ q \div TileSide \in Int
    BY <2>2, PosIs
  <2>8. Column(f, b) - Column(f, o) \in 0 .. m - 1 /\ Row(f, b) - Row(f, o) \in 0 .. m - 1
    <3>1. /\ Column(f, b) - Column(f, o) = (p % TileSide) - (q % TileSide)
          /\ Row(f, b) - Row(f, o) = (p \div TileSide) - (q \div TileSide)
      BY <2>4, <2>5, <2>6, <2>7
    <3> QED BY <2>2, <3>1
  <2>9. o \in FirstBlocks(f)
    <3>1. s # COVERED
      BY <2>1, SideIs DEF COVERED
    <3> QED BY <2>3, <2>4, <3>1 DEF FirstBlocks, Blocks
  <2>10. Covers(f, o, b)
    BY <2>3, <2>8 DEF Covers, Column, Row
  <2>11. o = Owner(f, b)
    BY <1>1, <2>9, <2>10, OwnerIs
  <2> QED BY <2>3, <2>11 DEF Side
<1>5. ASSUME NEW s \in Large(f, t, p) PROVE CoveredSide(s) > 1
  BY DEF Large
<1>6. CoveredSide(Side(f, b)) > 1 => Side(f, b) \in Large(f, t, p)
  BY <1>2, <1>3 DEF Large
<1>7. Large(f, t, p) = IF CoveredSide(Side(f, b)) > 1 THEN {Side(f, b)} ELSE {}
  BY <1>4, <1>5, <1>6
<1> QED BY <1>7 DEF b

(* The side of a position is that of its transform. *)
LEMMA SideAtIs ==
  ASSUME NEW f \in Frames, NEW t \in TilesOf(f), NEW p \in TilePos, InFrame(f, t, p)
  PROVE  SideAt(f, t, p) = Side(f, BlockOf(f, t, p))
<1> DEFINE b == BlockOf(f, t, p)
           s == Side(f, b)
           L == Large(f, t, p)
<1>1. b \in Blocks(f)
  BY BlockOfIs
<1>2. L = IF CoveredSide(s) > 1 THEN {s} ELSE {}
  BY LargeIs
<1> HIDE DEF b, L
<1>3. s \in Sides /\ s \in Nat /\ CoveredSide(s) \in {1, 2, 4} /\ s = CoveredSide(s) * BlockDim
  BY <1>1, OwnerIs, SideIs
<1> HIDE DEF s
<1>4. CASE CoveredSide(s) > 1
  <2>1. L = {s} /\ L # {}
    BY <1>2, <1>4
  <2>2. (CHOOSE x \in L : \A r \in L : r <= x) = s
    <3>1. \A r \in L : r <= s
      BY <1>3, <2>1
    <3> QED BY <2>1, <3>1, Zenon
  <2>3. SideAt(f, t, p) = s
    BY <2>1, <2>2, Zenon DEF SideAt, L
  <2> QED BY <2>3 DEF s, b
<1>5. CASE ~ (CoveredSide(s) > 1)
  <2>1. CoveredSide(s) = 1 /\ L = {}
    BY <1>2, <1>3, <1>5
  <2>2. s = BlockDim
    BY <1>3, <2>1, Constants
  <2>3. SideAt(f, t, p) = BlockDim
    BY <2>1, Zenon DEF SideAt, L
  <2> QED BY <2>2, <2>3 DEF s, b
<1> QED BY <1>4, <1>5

(* What a warp finds out about a position of the frame. *)
LEMMA PositionIs ==
  ASSUME frame \in Frames, NEW t \in TilesOf(frame), NEW p \in TilePos, InFrame(frame, t, p)
  PROVE  Position(frame, t, p) = Place(frame, BlockOf(frame, t, p))
<1> DEFINE b == BlockOf(frame, t, p)
           o == Owner(frame, b)
           side == SideAt(frame, t, p)
           owner == LaneOf(p, CoveredSide(side))
           ordinal == (p \div TileSide - owner \div TileSide) * CoveredSide(side) + ((p % TileSide) - (owner % TileSide))
<1>1. Position(frame, t, p) =
        [owner |-> owner, side |-> side, ordinal |-> ordinal,
         qf  |-> IF InFrame(frame, t, owner) THEN frame.qf[BlockOf(frame, t, owner)] ELSE 0,
         llf |-> {s \in 0 .. Slots - 1 : IsCorner(side, ordinal * Slots + s)}]
  BY Zenon DEF Position, SideAt, Large, Signal, LaneOf
<1> HIDE DEF side, owner, ordinal
<1>2. b \in Blocks(frame) /\ TileOf(frame, b) = t /\ PosOf(frame, b) = p
  BY BlockOfIs
<1>3. side = Side(frame, b)
  BY SideAtIs DEF side
<1> HIDE DEF b
<1>4. side \in Sides /\ o \in Blocks(frame)
  BY <1>2, <1>3, OwnerIs
<1>5. owner = PosOf(frame, o) /\ TileOf(frame, o) = t
  BY <1>2, <1>3, <1>4, LaneIs, OwnerInTile DEF owner
<1>6. ordinal = Ordinal(frame, b)
  BY <1>2, <1>3, <1>5, OwnerInTile DEF ordinal, Ordinal
<1>7. InFrame(frame, t, owner) /\ BlockOf(frame, t, owner) = o
  <2> HIDE DEF o
  <2> QED BY <1>4, <1>5, BlockInTile
<1>8. Position(frame, t, p) =
        [owner |-> PosOf(frame, o), side |-> Side(frame, b), ordinal |-> Ordinal(frame, b), qf |-> frame.qf[o],
         llf |-> {s \in 0 .. Slots - 1 : IsCorner(Side(frame, b), Ordinal(frame, b) * Slots + s)}]
  BY <1>1, <1>3, <1>5, <1>6, <1>7, Zenon
<1> QED BY <1>8, Zenon DEF Place, b

---------------------------------------------------------------------------
(* Coefficients, by block and slot.                                        *)

Slot == 0 .. Slots - 1
Value(f, c, b, slot) == f.ac[c][b * Slots + slot]
Raw(f, b, slot) == Ordinal(f, b) * Slots + slot

(* A slot's element in a plane of n blocks. *)
LEMMA SlotIs ==
  ASSUME NEW n \in Nat
  PROVE  /\ \A s \in 0 .. n * Slots - 1 : /\ s \div Slots \in 0 .. n - 1 /\ s % Slots \in Slot
                                          /\ s = (s \div Slots) * Slots + (s % Slots)
         /\ \A b \in 0 .. n - 1, i \in Slot :
              /\ b * Slots + i \in 0 .. n * Slots - 1
              /\ (b * Slots + i) % Slots = i /\ (b * Slots + i) \div Slots = b
<1>1. Slots * n = n * Slots /\ Slots \in Nat /\ Slots > 0
  BY Constants
<1> QED BY <1>1, Grid DEF Slot

(* A coefficient of a frame is an integer. *)
LEMMA ValueInt ==
  ASSUME NEW f \in Frames, NEW c \in Channel, NEW b \in Blocks(f), NEW slot \in Slot
  PROVE  Value(f, c, b, slot) \in Int
<1>1. f.bw * f.bh \in Nat
  BY FrameIs
<1> DEFINE n == f.bw * f.bh * Slots
           at == b * Slots + slot
<1>2. at \in 0 .. n - 1
  BY <1>1, SlotIs DEF Blocks
<1>3. f.ac \in [Channel -> [0 .. n - 1 -> Int]]
  BY FrameIs
<1> HIDE DEF n, at
<1>4. f.ac[c][at] \in Int
  BY <1>2, <1>3
<1> QED BY <1>4 DEF Value, at

(* A slot of a block is a position of its transform. *)
LEMMA RawIs ==
  ASSUME NEW f \in Frames, NEW b \in Blocks(f), NEW slot \in Slot
  PROVE  /\ Ordinal(f, b) \in 0 .. Covered(Side(f, b)) - 1
         /\ Raw(f, b, slot) \in Positions(Side(f, b))
         /\ Raw(f, b, slot) \div Slots = Ordinal(f, b) /\ Raw(f, b, slot) % Slots = slot
         /\ Ordinal(f, b) \div CoveredSide(Side(f, b)) = Dy(f, b)
         /\ Ordinal(f, b) % CoveredSide(Side(f, b)) = Dx(f, b)
         /\ PlaneSlot(Side(f, b), Column(f, Owner(f, b)), Row(f, Owner(f, b)), f.bw, Raw(f, b, slot)) = b * Slots + slot
         /\ \A c \in Channel : Coefficient(f, c, Owner(f, b), Raw(f, b, slot)) = Value(f, c, b, slot)
<1> DEFINE o == Owner(f, b)
           side == Side(f, b)
           m == CoveredSide(side)
           r == Raw(f, b, slot)
<1>1. o \in Blocks(f) /\ side \in Sides /\ Dx(f, b) \in 0 .. m - 1 /\ Dy(f, b) \in 0 .. m - 1
  BY OwnerIs
<1>2. m \in Nat /\ m > 0 /\ Covered(side) = m * m /\ Covered(side) \in Nat
      /\ side * side = Covered(side) * Slots
  BY <1>1, SideIs DEF Covered
<1>3. Ordinal(f, b) = Dy(f, b) * m + Dx(f, b)
  BY DEF Ordinal
<1> HIDE DEF m, side, o
<1>4. /\ Ordinal(f, b) \in 0 .. Covered(side) - 1
      /\ Ordinal(f, b) \div m = Dy(f, b) /\ Ordinal(f, b) % m = Dx(f, b)
  <2> DEFINE x == Dx(f, b)
             y == Dy(f, b)
  <2>1. x \in 0 .. m - 1 /\ y \in 0 .. m - 1 /\ Ordinal(f, b) = y * m + x
    BY <1>1, <1>3
  <2> HIDE DEF x, y
  <2>2. y * m + x \in 0 .. m * m - 1 /\ (y * m + x) % m = x /\ (y * m + x) \div m = y
    BY <1>2, <2>1, Grid
  <2> QED BY <1>2, <2>1, <2>2 DEF x, y
<1>5. r \in Positions(side) /\ r \div Slots = Ordinal(f, b) /\ r % Slots = slot
  BY <1>2, <1>4, SlotIs DEF Positions, Raw
<1>6. PlaneSlot(side, Column(f, o), Row(f, o), f.bw, r) = b * Slots + slot
  <2> HIDE DEF r
  <2> DEFINE y == Row(f, o) + Dy(f, b)
             x == Column(f, o) + Dx(f, b)
  <2>1. PlaneSlot(side, Column(f, o), Row(f, o), f.bw, r) =
          ((Row(f, o) + Dy(f, b)) * f.bw + Column(f, o) + Dx(f, b)) * Slots + slot
    BY <1>4, <1>5 DEF PlaneSlot, m
  <2>2. /\ Column(f, b) \in Int /\ Row(f, b) \in Int /\ Column(f, o) \in Int /\ Row(f, o) \in Int
        /\ b = Row(f, b) * f.bw + Column(f, b) /\ f.bw \in Int
    BY <1>1, BlockIs, FrameIs
  <2>3. x = Column(f, b) /\ y = Row(f, b)
    BY <2>2 DEF Dx, Dy, o
  <2>4. y * f.bw + Column(f, o) + Dx(f, b) = y * f.bw + x
    <3>1. y * f.bw \in Int /\ Dx(f, b) \in Int
      BY <1>1, <1>2, <2>2, <2>3
    <3> QED BY <2>2, <3>1
  <2>5. y * f.bw + Column(f, o) + Dx(f, b) = b
    BY <2>2, <2>3, <2>4
  <2> QED BY <2>1, <2>5
<1>7. ASSUME NEW c \in Channel
      PROVE  Coefficient(f, c, o, r) = Value(f, c, b, slot)
  <2> HIDE DEF r
  <2> QED BY <1>6, Zenon DEF Coefficient, Value, Column, Row, side, o, Side
<1> QED BY <1>4, <1>5, <1>6, <1>7 DEF m, side, r, o

(* A position of a transform is a slot of one of its blocks. *)
LEMMA BlockOfRaw ==
  ASSUME NEW f \in Frames, NEW o \in FirstBlocks(f), NEW raw \in Positions(f.acs[o])
  PROVE  \E b \in Blocks(f) : /\ Owner(f, b) = o /\ Raw(f, b, raw % Slots) = raw /\ raw % Slots \in Slot
                              /\ Ordinal(f, b) = raw \div Slots
<1> DEFINE side == f.acs[o]
           m == CoveredSide(side)
           q == raw \div Slots
           dx == q % m
           dy == q \div m
           b == (Row(f, o) + dy) * f.bw + (Column(f, o) + dx)
<1>1. o \in Blocks(f) /\ side \in Sides
  BY FirstOwnsItself
<1>2. m \in Nat /\ m > 0 /\ Covered(side) = m * m /\ Covered(side) \in Nat
      /\ side * side = Covered(side) * Slots
  BY <1>1, SideIs DEF Covered
<1> HIDE DEF m
<1>3. q \in 0 .. Covered(side) - 1 /\ raw % Slots \in Slot /\ raw = q * Slots + (raw % Slots)
  <2>1. raw \in 0 .. Covered(side) * Slots - 1
    BY <1>2 DEF Positions
  <2> HIDE DEF side
  <2> QED BY <1>2, <2>1, SlotIs
<1> HIDE DEF side, q
<1>4. dx \in 0 .. m - 1 /\ dy \in 0 .. m - 1 /\ q = dy * m + dx
  BY <1>2, <1>3, Grid
<1> HIDE DEF dx, dy
<1>5. b \in Blocks(f) /\ Owner(f, b) = o /\ Dx(f, b) = dx /\ Dy(f, b) = dy
  BY <1>4, OwnedIs DEF m, side
<1>6. Ordinal(f, b) = q
  <2> HIDE DEF b
  <2> QED BY <1>4, <1>5 DEF Ordinal, Side, m, side
<1> HIDE DEF b
<1>7. Raw(f, b, raw % Slots) = raw
  BY <1>3, <1>6 DEF Raw
<1> QED BY <1>3, <1>5, <1>6, <1>7 DEF q

(* The slot of a coefficient in the serial quantizer is its block's. *)
Luma(f, b, slot) == QuantizedLuma(Value(f, 1, b, slot), f.qf[Owner(f, b)], Side(f, b), Raw(f, b, slot))
StoredLuma(f, b, slot) == Narrowed(Luma(f, b, slot))
Corner(f, b, slot) == IsCorner(Side(f, b), Raw(f, b, slot))
Chroma(f, map, c, b, slot) ==
  QuantizedChroma(c, Value(f, c, b, slot), Roundtrip(Luma(f, b, slot), Side(f, b), Raw(f, b, slot)), map,
                  f.qf[Owner(f, b)], Side(f, b), Raw(f, b, slot))

LEMMA SerialAcIs ==
  ASSUME NEW f \in Frames, NEW b \in Blocks(f), NEW slot \in Slot, NEW c \in Channel, NEW maps
  PROVE  SerialAc(f, maps, c, b, slot) =
           IF Corner(f, b, slot) THEN 0 ELSE IF c = 1 THEN StoredLuma(f, b, slot)
           ELSE Chroma(f, maps[TileOf(f, b)][IF c = 0 THEN 1 ELSE 2], c, b, slot)
<1> DEFINE o == Owner(f, b)
           side == f.acs[o]
           raw == (((b \div f.bw) - (o \div f.bw)) * CoveredSide(side) + (b % f.bw) - (o % f.bw)) * Slots + slot
           v(k) == Coefficient(f, k, o, raw)
           y == QuantizedLuma(v(1), f.qf[o], side, raw)
<1>1. SerialAc(f, maps, c, b, slot) =
        IF IsCorner(side, raw) THEN 0
        ELSE IF c = 1 THEN Narrowed(y)
        ELSE QuantizedChroma(c, v(c), Roundtrip(y, side, raw),
                             maps[TileOf(f, b)][IF c = 0 THEN 1 ELSE 2], f.qf[o], side, raw)
  BY DEF SerialAc
<1>2. raw = Raw(f, b, slot)
  <2>1. /\ Column(f, b) \in Int /\ Row(f, b) \in Int /\ Column(f, o) \in Int /\ Row(f, o) \in Int
        /\ CoveredSide(side) \in Int
    BY OwnerIs, BlockIs, SideIs DEF Side
  <2> DEFINE u == (Row(f, b) - Row(f, o)) * CoveredSide(side)
  <2>2. u \in Int
    BY <2>1
  <2>3. u + Column(f, b) - Column(f, o) = u + (Column(f, b) - Column(f, o))
    BY <2>1, <2>2
  <2> QED BY <2>3, Zenon DEF Raw, Ordinal, Side, Dx, Dy, Row, Column
<1>3. \A k \in Channel : v(k) = Value(f, k, b, slot)
  <2> HIDE DEF raw
  <2> QED BY <1>2, RawIs
<1>4. 1 \in Channel
  BY DEF Channel
<1>5. v(1) = Value(f, 1, b, slot) /\ v(c) = Value(f, c, b, slot)
  BY <1>3, <1>4
<1> HIDE DEF v, raw
<1> QED BY <1>1, <1>2, <1>5, Zenon DEF Luma, StoredLuma, Corner, Chroma, Side

---------------------------------------------------------------------------
(* The staged tile.                                                        *)

(* What a warp stages. *)
Staged(f, t, c, at) ==
  IF InFrame(f, t, at \div Slots) THEN f.ac[c][BlockOf(f, t, at \div Slots) * Slots + (at % Slots)] ELSE 0

(* All warps have staged the tile. *)
Loaded(t) ==
  /\ \A c \in Channel, at \in 0 .. TileSlots - 1 : tile[t].coeffs[c][at] = Staged(frame, t, c, at)
  /\ \A p \in TilePos : tile[t].pos[p] = Position(frame, t, p)

(* The staged coefficient of a slot. *)
LEMMA StagedIs ==
  ASSUME NEW f, NEW t, NEW p \in TilePos, InFrame(f, t, p), NEW slot \in Slot, NEW c
  PROVE  /\ p * Slots + slot \in 0 .. TileSlots - 1
         /\ Staged(f, t, c, p * Slots + slot) = Value(f, c, BlockOf(f, t, p), slot)
<1>1. TilePositions \in Nat
  BY Constants
<1> DEFINE at == p * Slots + slot
<1>2. at \in 0 .. TilePositions * Slots - 1 /\ at % Slots = slot /\ at \div Slots = p
  BY <1>1, SlotIs DEF TilePos
<1> HIDE DEF at
<1>3. Staged(f, t, c, at) = Value(f, c, BlockOf(f, t, p), slot)
  BY <1>2 DEF Staged, Value
<1> QED BY <1>2, <1>3 DEF TileSlots, at

(* The slots of a position that are not coded as AC. *)
LEMMA CornersAre ==
  ASSUME frame \in Frames, NEW t \in TilesOf(frame), NEW p \in TilePos, NEW slot \in Slot
  PROVE  slot \notin Position(frame, t, p).llf <=>
           InFrame(frame, t, p) /\ ~ Corner(frame, BlockOf(frame, t, p), slot)
<1>1. CASE InFrame(frame, t, p)
  <2>1. Position(frame, t, p).llf =
          {s \in 0 .. Slots - 1 : Corner(frame, BlockOf(frame, t, p), s)}
    <3>1. Position(frame, t, p).llf = Place(frame, BlockOf(frame, t, p)).llf
      BY <1>1, PositionIs, Zenon
    <3>2. \A b : Place(frame, b).llf = {s \in 0 .. Slots - 1 : Corner(frame, b, s)}
      BY DEF Place, Corner, Raw
    <3> QED BY <3>1, <3>2
  <2> QED BY <1>1, <2>1 DEF Slot
<1>2. CASE ~ InFrame(frame, t, p)
  <2>1. Position(frame, t, p).llf = 0 .. Slots - 1
    BY <1>2, Zenon DEF Position
  <2> QED BY <1>2, <2>1 DEF Slot
<1> QED BY <1>1, <1>2

(* The cells of a tile: row, column and slot. *)
Cells == (0 .. TileSide - 1) \X (0 .. TileSide - 1) \X (0 .. Slots - 1)
At(k) == k[1] * TileSide + k[2]
LaneSlot(k) == (k[1] * Slots + k[3]) \div Lanes

(* The cells that are coded as AC, and where their coefficients are. *)
Coded(f, t) == {k \in Cells : InFrame(f, t, At(k)) /\ ~ Corner(f, BlockOf(f, t, At(k)), k[3])}
KeyOf(f, t, k) == <<Owner(f, BlockOf(f, t, At(k))), Raw(f, BlockOf(f, t, At(k)), k[3])>>

(* A cell is at a position. *)
LEMMA CellIs ==
  ASSUME NEW k \in Cells
  PROVE  /\ k = <<k[1], k[2], k[3]>> /\ k[3] \in Slot
         /\ At(k) \in TilePos /\ At(k) % TileSide = k[2] /\ At(k) \div TileSide = k[1]
<1>1. k[1] \in 0 .. TileSide - 1 /\ k[2] \in 0 .. TileSide - 1 /\ k[3] \in Slot /\ k = <<k[1], k[2], k[3]>>
  BY DEF Cells, Slot
<1> DEFINE y == k[1]
           x == k[2]
<1>2. y \in 0 .. TileSide - 1 /\ x \in 0 .. TileSide - 1
  BY <1>1
<1> HIDE DEF y, x
<1>3. y * TileSide + x \in TilePos /\ (y * TileSide + x) % TileSide = x /\ (y * TileSide + x) \div TileSide = y
  BY <1>2, PosIs
<1> QED BY <1>1, <1>3 DEF y, x, At

(* There are as many cells as slots in a tile. *)
LEMMA CellsFinite == IsFiniteSet(Cells)
<1> DEFINE g == [k \in Cells |-> At(k) * Slots + k[3]]
<1>1. TilePositions \in Nat
  BY Constants
<1>2. ASSUME NEW k \in Cells
      PROVE  /\ g[k] \in 0 .. TilePositions * Slots - 1 /\ g[k] % Slots = k[3] /\ g[k] \div Slots = At(k)
  <2> DEFINE b == At(k)
             i == k[3]
  <2>1. b \in 0 .. TilePositions - 1 /\ i \in Slot
    BY CellIs DEF TilePos
  <2>2. g[k] = b * Slots + i
    OBVIOUS
  <2> HIDE DEF b, i, g
  <2>3. /\ b * Slots + i \in 0 .. TilePositions * Slots - 1
        /\ (b * Slots + i) % Slots = i /\ (b * Slots + i) \div Slots = b
    BY <1>1, <2>1, SlotIs
  <2> QED BY <2>2, <2>3 DEF b, i
<1>3. ASSUME NEW k \in Cells, NEW j \in Cells, g[k] = g[j] PROVE k = j
  <2>1. k[3] = j[3] /\ At(k) = At(j)
    <3> HIDE DEF g
    <3> QED BY <1>2, <1>3
  <2>2. k[2] = j[2] /\ k[1] = j[1]
    BY <2>1, CellIs
  <2> QED BY <2>1, <2>2, CellIs
<1>4. g \in Injection(Cells, 0 .. TilePositions * Slots - 1)
  <2>1. g \in [Cells -> 0 .. TilePositions * Slots - 1]
    <3>1. \A k \in Cells : g[k] \in 0 .. TilePositions * Slots - 1
      BY <1>2
    <3>2. g = [k \in Cells |-> g[k]]
      OBVIOUS
    <3> HIDE DEF g
    <3> QED BY <3>1, <3>2
  <2> HIDE DEF g
  <2> QED BY <1>3, <2>1 DEF Injection, IsInjective
<1>5. IsFiniteSet(0 .. TilePositions * Slots - 1)
  <2> DEFINE n == TilePositions * Slots - 1
  <2>1. n \in Int
    BY <1>1, Constants
  <2> HIDE DEF n
  <2>2. IsFiniteSet(0 .. n)
    BY <2>1, FS_Interval
  <2> QED BY <2>2 DEF n
<1> HIDE DEF g
<1> QED BY <1>4, <1>5, FS_Injection

(* Each coefficient of the tile past the corners is in one cell. *)
LEMMA KeysAre ==
  ASSUME NEW f \in Frames, NEW t \in TilesOf(f)
  PROVE  LET S == AcOf(f, {o \in FirstBlocks(f) : TileOf(f, o) = t})
         IN  /\ \A k \in Coded(f, t) : KeyOf(f, t, k) \in S
             /\ \A k \in Coded(f, t) : \A j \in Coded(f, t) : KeyOf(f, t, k) = KeyOf(f, t, j) => k = j
             /\ \A s \in S : \E k \in Coded(f, t) : KeyOf(f, t, k) = s
<1> DEFINE O == {o \in FirstBlocks(f) : TileOf(f, o) = t}
           S == AcOf(f, O)
           B(k) == BlockOf(f, t, At(k))
<1>1. \A o \in O : \A r \in Positions(f.acs[o]) : ~ IsCorner(f.acs[o], r) => <<o, r>> \in S
  <2> SUFFICES ASSUME NEW o \in O, NEW r \in Positions(f.acs[o]), ~ IsCorner(f.acs[o], r)
               PROVE  <<o, r>> \in S
    OBVIOUS
  <2> DEFINE Keys(x) == {<<x, raw>> : raw \in {u \in Positions(f.acs[x]) : ~ IsCorner(f.acs[x], u)}}
  <2>1. <<o, r>> \in Keys(o)
    OBVIOUS
  <2>2. S = UNION {Keys(x) : x \in O}
    BY Zenon DEF AcOf
  <2> HIDE DEF Keys, S, O
  <2> QED BY <2>1, <2>2
<1>2. \A s \in S : \E o \in O : \E r \in Positions(f.acs[o]) : ~ IsCorner(f.acs[o], r) /\ s = <<o, r>>
  BY DEF AcOf
<1>3. ASSUME NEW k \in Coded(f, t)
      PROVE  /\ k \in Cells /\ InFrame(f, t, At(k)) /\ ~ Corner(f, B(k), k[3])
             /\ At(k) \in TilePos /\ k[3] \in Slot /\ B(k) \in Blocks(f)
             /\ TileOf(f, B(k)) = t /\ PosOf(f, B(k)) = At(k)
  <2>1. k \in Cells /\ InFrame(f, t, At(k)) /\ ~ Corner(f, B(k), k[3])
    BY DEF Coded
  <2>2. At(k) \in TilePos /\ k[3] \in Slot
    BY <2>1, CellIs
  <2> QED BY <2>1, <2>2, BlockOfIs
<1> HIDE DEF S
<1>4. ASSUME NEW k \in Coded(f, t) PROVE KeyOf(f, t, k) \in S
  <2> DEFINE b == B(k)
             o == Owner(f, b)
             r == Raw(f, b, k[3])
  <2>1. b \in Blocks(f) /\ k[3] \in Slot /\ TileOf(f, b) = t /\ ~ Corner(f, b, k[3])
    BY <1>3
  <2>2. KeyOf(f, t, k) = <<o, r>>
    BY DEF KeyOf
  <2> HIDE DEF b
  <2>3. o \in O
    BY <2>1, OwnerIs, OwnerInTile
  <2>4. r \in Positions(f.acs[o]) /\ ~ IsCorner(f.acs[o], r)
    BY <2>1, RawIs DEF Corner, Side
  <2> HIDE DEF o, r, O
  <2> QED BY <1>1, <2>2, <2>3, <2>4
<1>5. ASSUME NEW k \in Coded(f, t), NEW j \in Coded(f, t), KeyOf(f, t, k) = KeyOf(f, t, j)
      PROVE  k = j
  <2> DEFINE b == B(k)
             c == B(j)
  <2>1. Owner(f, b) = Owner(f, c) /\ Raw(f, b, k[3]) = Raw(f, c, j[3])
    BY <1>5 DEF KeyOf
  <2>2. b \in Blocks(f) /\ c \in Blocks(f) /\ k[3] \in Slot /\ j[3] \in Slot
    BY <1>3
  <2> HIDE DEF b, c
  <2>3. Side(f, b) = Side(f, c)
    BY <2>1 DEF Side
  <2>4. k[3] = j[3] /\ Ordinal(f, b) = Ordinal(f, c)
    BY <2>1, <2>2, RawIs
  <2>5. Dx(f, b) = Dx(f, c) /\ Dy(f, b) = Dy(f, c)
    BY <2>2, <2>3, <2>4, RawIs
  <2>6. /\ Column(f, b) \in Int /\ Row(f, b) \in Int /\ b = Row(f, b) * f.bw + Column(f, b)
        /\ Column(f, c) \in Int /\ Row(f, c) \in Int /\ c = Row(f, c) * f.bw + Column(f, c)
        /\ Column(f, Owner(f, b)) \in Int /\ Row(f, Owner(f, b)) \in Int
    BY <2>2, BlockIs, OwnerIs
  <2>7. Column(f, b) = Column(f, c) /\ Row(f, b) = Row(f, c)
    BY <2>1, <2>5, <2>6 DEF Dx, Dy
  <2>8. b = c
    BY <2>6, <2>7
  <2>9. At(k) = At(j)
    BY <1>3, <2>8 DEF b, c
  <2> QED BY <1>3, <2>4, <2>9, CellIs
<1>6. ASSUME NEW s \in S PROVE \E k \in Coded(f, t) : KeyOf(f, t, k) = s
  <2>1. PICK o \in O : \E r \in Positions(f.acs[o]) : ~ IsCorner(f.acs[o], r) /\ s = <<o, r>>
    BY <1>2
  <2>2. PICK r \in Positions(f.acs[o]) : ~ IsCorner(f.acs[o], r) /\ s = <<o, r>>
    BY <2>1
  <2>3. o \in FirstBlocks(f) /\ TileOf(f, o) = t
    OBVIOUS
  <2> HIDE DEF O
  <2>4. PICK b \in Blocks(f) : Owner(f, b) = o /\ Raw(f, b, r % Slots) = r /\ r % Slots \in Slot
    BY <2>3, BlockOfRaw
  <2> DEFINE p == PosOf(f, b)
             i == r % Slots
             k == <<p \div TileSide, p % TileSide, i>>
  <2>5. TileOf(f, b) = t
    BY <2>3, <2>4, OwnerInTile
  <2>6. p \in TilePos /\ InFrame(f, t, p) /\ BlockOf(f, t, p) = b
    BY <2>5, BlockInTile
  <2>7. p % TileSide \in 0 .. TileSide - 1 /\ p \div TileSide \in 0 .. TileSide - 1
        /\ p = (p \div TileSide) * TileSide + (p % TileSide)
    BY <2>6, PosIs
  <2>8. i \in 0 .. Slots - 1
    BY <2>4 DEF Slot
  <2> HIDE DEF p, i
  <2>9. k \in Cells /\ At(k) = p /\ k[3] = i
    BY <2>7, <2>8 DEF Cells, At
  <2>10. ~ Corner(f, b, i)
    BY <2>2, <2>4 DEF Corner, Side, i
  <2> HIDE DEF k
  <2>11. k \in Coded(f, t)
    BY <2>6, <2>9, <2>10 DEF Coded
  <2>12. KeyOf(f, t, k) = s
    BY <2>2, <2>4, <2>6, <2>9 DEF KeyOf, i
  <2> QED BY <2>11, <2>12
<1> QED BY <1>4, <1>5, <1>6 DEF S

---------------------------------------------------------------------------
(* The color maps.                                                         *)

(* Sums of the same values are the same. *)
LEMMA SumSame ==
  ASSUME NEW S, IsFiniteSet(S), NEW f, NEW g, \A x \in S : f[x] = g[x] /\ f[x] \in Int
  PROVE  SumFunctionOnSet(f, S) = SumFunctionOnSet(g, S)
<1> DEFINE h == [x \in S |-> x]
<1>1. /\ \A x \in S : h[x] \in S /\ f[x] = g[h[x]] /\ f[x] \in Int
      /\ \A x \in S : \A y \in S : h[x] = h[y] => x = y
      /\ \A t \in S : \E x \in S : h[x] = t
  OBVIOUS
<1> HIDE DEF h
<1> QED BY <1>1, SumRenamed

(* The terms of the three sums of the regression of B and X on Y. *)
Term(i, x, y, b) == IF i = 1 THEN x * y ELSE IF i = 2 THEN y * y ELSE (b - y) * y
CodedTerm(f, t, i) ==
  [k \in Coded(f, t) |-> Term(i, Value(f, 0, BlockOf(f, t, At(k)), k[3]), Value(f, 1, BlockOf(f, t, At(k)), k[3]),
                              Value(f, 2, BlockOf(f, t, At(k)), k[3]))]
SerialTerm(f, S, i) ==
  [k \in S |-> Term(i, Coefficient(f, 0, k[1], k[2]), Coefficient(f, 1, k[1], k[2]), Coefficient(f, 2, k[1], k[2]))]

(* The share of a warp's threads. *)
OfWarp(f, t, w) == {k \in Coded(f, t) : LaneSlot(k) = w}
WarpSum(f, t, w, i) == SumFunctionOnSet(CodedTerm(f, t, i), OfWarp(f, t, w))

(* A coded cell. *)
LEMMA CodedIs ==
  ASSUME NEW f \in Frames, NEW t \in TilesOf(f), NEW k \in Coded(f, t)
  PROVE  /\ k \in Cells /\ InFrame(f, t, At(k)) /\ ~ Corner(f, BlockOf(f, t, At(k)), k[3])
         /\ At(k) \in TilePos /\ k[3] \in Slot /\ BlockOf(f, t, At(k)) \in Blocks(f)
<1>1. k \in Cells /\ InFrame(f, t, At(k)) /\ ~ Corner(f, BlockOf(f, t, At(k)), k[3])
  BY DEF Coded
<1>2. At(k) \in TilePos /\ k[3] \in Slot
  BY <1>1, CellIs
<1> QED BY <1>1, <1>2, BlockOfIs

(* There are finitely many, and their terms are integers. *)
LEMMA CodedSums ==
  ASSUME NEW f \in Frames, NEW t \in TilesOf(f), NEW i
  PROVE  /\ IsFiniteSet(Coded(f, t)) /\ \A w : IsFiniteSet(OfWarp(f, t, w))
         /\ \A k \in Coded(f, t) : CodedTerm(f, t, i)[k] \in Int
<1>1. Coded(f, t) \subseteq Cells
  BY DEF Coded
<1>2. IsFiniteSet(Coded(f, t))
  BY <1>1, CellsFinite, FS_Subset
<1>3. ASSUME NEW w PROVE IsFiniteSet(OfWarp(f, t, w))
  <2>1. OfWarp(f, t, w) \subseteq Coded(f, t)
    BY DEF OfWarp
  <2> QED BY <1>2, <2>1, FS_Subset
<1>4. ASSUME NEW k \in Coded(f, t) PROVE CodedTerm(f, t, i)[k] \in Int
  <2> DEFINE b == BlockOf(f, t, At(k))
             s == k[3]
  <2>1. b \in Blocks(f) /\ s \in Slot
    BY CodedIs
  <2>2. CodedTerm(f, t, i)[k] = Term(i, Value(f, 0, b, s), Value(f, 1, b, s), Value(f, 2, b, s))
    BY DEF CodedTerm
  <2> HIDE DEF b, s
  <2>3. \A c \in Channel : Value(f, c, b, s) \in Int
    BY <2>1, ValueInt
  <2>4. Value(f, 0, b, s) \in Int /\ Value(f, 1, b, s) \in Int /\ Value(f, 2, b, s) \in Int
    BY <2>3 DEF Channel
  <2> QED BY <2>2, <2>4 DEF Term
<1> QED BY <1>2, <1>3, <1>4

(* What a warp sums in a tile that all have staged. *)
LEMMA WarpSumsIs ==
  ASSUME frame \in Frames, NEW t \in TilesOf(frame), Loaded(t), NEW w
  PROVE  WarpSums(t, w) = <<WarpSum(frame, t, w, 1), WarpSum(frame, t, w, 2), WarpSum(frame, t, w, 3)>>
<1> DEFINE mine == {k \in (0 .. TileSide - 1) \X (0 .. TileSide - 1) \X (0 .. Slots - 1) :
                      /\ (k[1] * Slots + k[3]) \div Lanes = w
                      /\ k[3] \notin tile[t].pos[k[1] * TileSide + k[2]].llf}
           v(c, k) == tile[t].coeffs[c][(k[1] * TileSide + k[2]) * Slots + k[3]]
           u(c, k) == Value(frame, c, BlockOf(frame, t, At(k)), k[3])
           f1 == [k \in mine |-> v(0, k) * v(1, k)]
           f2 == [k \in mine |-> v(1, k) * v(1, k)]
           f3 == [k \in mine |-> (v(2, k) - v(1, k)) * v(1, k)]
<1>1. WarpSums(t, w) = <<SumFunctionOnSet(f1, mine), SumFunctionOnSet(f2, mine), SumFunctionOnSet(f3, mine)>>
  BY Zenon DEF WarpSums, SumOver
<1>2. mine = OfWarp(frame, t, w)
  <2>1. \A k \in Cells : k[3] \notin tile[t].pos[At(k)].llf <=>
                           InFrame(frame, t, At(k)) /\ ~ Corner(frame, BlockOf(frame, t, At(k)), k[3])
    <3> SUFFICES ASSUME NEW k \in Cells
                 PROVE  k[3] \notin tile[t].pos[At(k)].llf <=>
                           InFrame(frame, t, At(k)) /\ ~ Corner(frame, BlockOf(frame, t, At(k)), k[3])
      OBVIOUS
    <3>1. At(k) \in TilePos /\ k[3] \in Slot
      BY CellIs
    <3>2. tile[t].pos[At(k)] = Position(frame, t, At(k))
      BY <3>1 DEF Loaded
    <3> QED BY <3>1, <3>2, CornersAre
  <2>2. mine = {k \in Cells : LaneSlot(k) = w /\ k[3] \notin tile[t].pos[At(k)].llf}
    BY Zenon DEF Cells, LaneSlot, At
  <2> HIDE DEF mine
  <2> QED BY <2>1, <2>2 DEF OfWarp, Coded
<1>3. ASSUME NEW k \in Coded(frame, t), NEW c \in Channel PROVE v(c, k) = u(c, k) /\ u(c, k) \in Int
  <2> DEFINE p == At(k)
             s == k[3]
  <2>1. p \in TilePos /\ s \in Slot /\ InFrame(frame, t, p) /\ BlockOf(frame, t, p) \in Blocks(frame)
    BY CodedIs
  <2>2. v(c, k) = tile[t].coeffs[c][p * Slots + s]
    BY DEF At
  <2> HIDE DEF p, s, v
  <2>3. v(c, k) = Value(frame, c, BlockOf(frame, t, p), s)
    BY <2>1, <2>2, StagedIs DEF Loaded
  <2> QED BY <2>1, <2>3, ValueInt DEF p, s
<1>4. 0 \in Channel /\ 1 \in Channel /\ 2 \in Channel
  BY DEF Channel
<1>5. IsFiniteSet(mine) /\ \A k \in mine : k \in Coded(frame, t)
  <2> HIDE DEF mine
  <2> QED BY <1>2, CodedSums DEF OfWarp
<1> HIDE DEF mine
<1>6. ASSUME NEW k \in mine
      PROVE  /\ f1[k] = CodedTerm(frame, t, 1)[k]
             /\ f2[k] = CodedTerm(frame, t, 2)[k]
             /\ f3[k] = CodedTerm(frame, t, 3)[k]
  <2>1. k \in Coded(frame, t)
    BY <1>5
  <2>2. v(0, k) = u(0, k) /\ v(1, k) = u(1, k) /\ v(2, k) = u(2, k)
    BY <1>3, <1>4, <2>1
  <2>3. \A i : CodedTerm(frame, t, i)[k] = Term(i, u(0, k), u(1, k), u(2, k))
    BY <2>1 DEF CodedTerm
  <2>4. /\ f1[k] = v(0, k) * v(1, k) /\ f2[k] = v(1, k) * v(1, k)
        /\ f3[k] = (v(2, k) - v(1, k)) * v(1, k)
    OBVIOUS
  <2> HIDE DEF v, u, f1, f2, f3
  <2> QED BY <2>2, <2>3, <2>4 DEF Term
<1>7. \A i : \A k \in mine : CodedTerm(frame, t, i)[k] \in Int
  BY <1>5, CodedSums
<1> HIDE DEF f1, f2, f3, v, u
<1>8. SumFunctionOnSet(f1, mine) = SumFunctionOnSet(CodedTerm(frame, t, 1), mine)
  <2>1. \A k \in mine : f1[k] = CodedTerm(frame, t, 1)[k] /\ f1[k] \in Int
    BY <1>6, <1>7
  <2> QED BY <1>5, <2>1, SumSame
<1>9. SumFunctionOnSet(f2, mine) = SumFunctionOnSet(CodedTerm(frame, t, 2), mine)
  <2>1. \A k \in mine : f2[k] = CodedTerm(frame, t, 2)[k] /\ f2[k] \in Int
    BY <1>6, <1>7
  <2> QED BY <1>5, <2>1, SumSame
<1>10. SumFunctionOnSet(f3, mine) = SumFunctionOnSet(CodedTerm(frame, t, 3), mine)
  <2>1. \A k \in mine : f3[k] = CodedTerm(frame, t, 3)[k] /\ f3[k] \in Int
    BY <1>6, <1>7
  <2> QED BY <1>5, <2>1, SumSame
<1> QED BY <1>1, <1>2, <1>8, <1>9, <1>10, Zenon DEF WarpSum

(* Each thread is of a warp. *)
LEMMA LanesIs ==
  /\ Lanes \in Nat /\ Lanes > 0 /\ Threads = Lanes * Warps
  /\ \A a \in 0 .. Threads - 1 : a \div Lanes \in Warp
<1>1. Threads \in Nat /\ Threads > 0 /\ Warps \in Nat /\ Warps > 0 /\ Threads % Warps = 0
  BY Constants
<1>2. Lanes \in Nat /\ Threads = Warps * Lanes
  BY <1>1, Quotient DEF Lanes
<1>3. Threads = Lanes * Warps
  BY <1>1, <1>2
<1>4. Lanes > 0
  <2>1. Lanes = 0 => Warps * Lanes = 0
    BY <1>1
  <2> QED BY <1>1, <1>2, <2>1
<1> QED BY <1>1, <1>2, <1>3, <1>4, Grid DEF Warp

(* Each cell is of a thread. *)
LEMMA LaneSlotIs ==
  ASSUME NEW k \in Cells
  PROVE  LaneSlot(k) \in Warp
<1> DEFINE y == k[1]
           s == k[3]
<1>1. y \in 0 .. TileSide - 1 /\ s \in Slot
  BY DEF Cells, Slot
<1>2. TileSide \in Nat
  BY Constants
<1> HIDE DEF y, s
<1>3. y * Slots + s \in 0 .. TileSide * Slots - 1
  BY <1>1, <1>2, SlotIs
<1>4. y * Slots + s \in 0 .. Threads - 1
  BY <1>3 DEF Threads
<1>5. (y * Slots + s) \div Lanes \in Warp
  <2> DEFINE a == y * Slots + s
  <2>1. a \in 0 .. Threads - 1
    BY <1>4
  <2> HIDE DEF a
  <2>2. a \div Lanes \in Warp
    BY <2>1, LanesIs
  <2> QED BY <2>2 DEF a
<1> QED BY <1>5 DEF LaneSlot, y, s

(* The coefficients of the transforms of a tile. *)
TileAc(f, t) == AcOf(f, {o \in FirstBlocks(f) : TileOf(f, o) = t})

(* The sums of the warps are those over the coefficients of the tile. *)
LEMMA TotalIs ==
  ASSUME NEW f \in Frames, NEW t \in TilesOf(f), NEW i,
         NEW sums, \A w \in Warp : sums[w] = WarpSum(f, t, w, i)
  PROVE  SumFunctionOnSet(sums, Warp) = SumFunctionOnSet(SerialTerm(f, TileAc(f, t), i), TileAc(f, t))
<1> DEFINE S == TileAc(f, t)
           C == Coded(f, t)
           term == CodedTerm(f, t, i)
           class == [k \in C |-> LaneSlot(k)]
           key == [k \in C |-> KeyOf(f, t, k)]
<1>1. IsFiniteSet(C) /\ \A k \in C : term[k] \in Int
  BY CodedSums
<1>2. \A k \in C : class[k] \in Warp
  BY CodedIs, LaneSlotIs
<1>3. IsFiniteSet(Warp)
  BY Constants, FS_Interval DEF Warp
<1>4. \A w \in Warp : sums[w] = SumFunctionOnSet(term, {k \in C : class[k] = w})
  <2> SUFFICES ASSUME NEW w \in Warp
               PROVE  sums[w] = SumFunctionOnSet(term, {k \in C : class[k] = w})
    OBVIOUS
  <2>1. {k \in C : class[k] = w} = OfWarp(f, t, w)
    BY DEF OfWarp
  <2> QED BY <2>1 DEF WarpSum
<1>5. SumFunctionOnSet(sums, Warp) = SumFunctionOnSet(term, C)
  <2> HIDE DEF C, term, class
  <2> QED BY <1>1, <1>2, <1>3, <1>4, SumClasses
<1>6. /\ \A k \in C : key[k] \in S
      /\ \A k \in C : \A j \in C : key[k] = key[j] => k = j
      /\ \A s \in S : \E k \in C : key[k] = s
  BY KeysAre DEF TileAc
<1>7. ASSUME NEW k \in C PROVE term[k] = SerialTerm(f, S, i)[key[k]]
  <2> DEFINE b == BlockOf(f, t, At(k))
             s == k[3]
             o == Owner(f, b)
             r == Raw(f, b, s)
  <2>1. key[k] = <<o, r>>
    BY DEF KeyOf
  <2>2. key[k] \in S
    BY <1>6
  <2>3. <<o, r>> \in S
    BY <2>1, <2>2
  <2>4. b \in Blocks(f) /\ s \in Slot
    BY CodedIs
  <2>5. term[k] = Term(i, Value(f, 0, b, s), Value(f, 1, b, s), Value(f, 2, b, s))
    BY DEF CodedTerm
  <2> HIDE DEF b, s
  <2>6. \A c \in Channel : Coefficient(f, c, o, r) = Value(f, c, b, s)
    BY <2>4, RawIs
  <2>7. /\ Coefficient(f, 0, o, r) = Value(f, 0, b, s) /\ Coefficient(f, 1, o, r) = Value(f, 1, b, s)
        /\ Coefficient(f, 2, o, r) = Value(f, 2, b, s)
    BY <2>6 DEF Channel
  <2> HIDE DEF o, r, S
  <2>8. SerialTerm(f, S, i)[<<o, r>>] =
          Term(i, Coefficient(f, 0, o, r), Coefficient(f, 1, o, r), Coefficient(f, 2, o, r))
    BY <2>3 DEF SerialTerm
  <2> HIDE DEF term, key
  <2> QED BY <2>1, <2>5, <2>7, <2>8
<1>8. SumFunctionOnSet(term, C) = SumFunctionOnSet(SerialTerm(f, S, i), S)
  <2> HIDE DEF C, term, key, S
  <2>1. \A k \in C : key[k] \in S /\ term[k] = SerialTerm(f, S, i)[key[k]] /\ term[k] \in Int
    BY <1>1, <1>6, <1>7
  <2> QED BY <1>1, <1>6, <2>1, SumRenamed
<1> QED BY <1>5, <1>8

(* The maps of a tile, from the sums of its warps. *)
Total(sums, i) == SumFunctionOnSet([w \in Warp |-> sums[w][i]], Warp)
MapsOf(sums) == <<MapValue(Total(sums, 1), Total(sums, 2)), MapValue(Total(sums, 3), Total(sums, 2))>>

LEMMA MapsAre ==
  ASSUME NEW f \in Frames, NEW t \in TilesOf(f),
         NEW sums, \A w \in Warp : sums[w] = <<WarpSum(f, t, w, 1), WarpSum(f, t, w, 2), WarpSum(f, t, w, 3)>>
  PROVE  MapsOf(sums) = SerialMaps(f, t)
<1> DEFINE S == TileAc(f, t)
           v(c, k) == Coefficient(f, c, k[1], k[2])
           g1 == [k \in S |-> v(0, k) * v(1, k)]
           g2 == [k \in S |-> v(1, k) * v(1, k)]
           g3 == [k \in S |-> (v(2, k) - v(1, k)) * v(1, k)]
           h(i) == [w \in Warp |-> sums[w][i]]
<1>1. SerialMaps(f, t) =
        <<MapValue(SumFunctionOnSet(g1, S), SumFunctionOnSet(g2, S)),
          MapValue(SumFunctionOnSet(g3, S), SumFunctionOnSet(g2, S))>>
  BY Zenon DEF SerialMaps, SumOver, TileAc
<1>2. \A i \in {1, 2, 3} : Total(sums, i) = SumFunctionOnSet(h(i), Warp)
  BY DEF Total
<1>3. \A i \in {1, 2, 3} : \A w \in Warp : h(i)[w] = WarpSum(f, t, w, i)
  OBVIOUS
<1>4. \A i \in {1, 2, 3} : SumFunctionOnSet(h(i), Warp) = SumFunctionOnSet(SerialTerm(f, S, i), S)
  <2> SUFFICES ASSUME NEW i \in {1, 2, 3}
               PROVE  SumFunctionOnSet(h(i), Warp) = SumFunctionOnSet(SerialTerm(f, S, i), S)
    OBVIOUS
  <2>1. \A w \in Warp : h(i)[w] = WarpSum(f, t, w, i)
    BY <1>3
  <2> HIDE DEF h
  <2> QED BY <2>1, TotalIs
<1>5. SerialTerm(f, S, 1) = g1 /\ SerialTerm(f, S, 2) = g2 /\ SerialTerm(f, S, 3) = g3
  <2> HIDE DEF S
  <2>1. SerialTerm(f, S, 1) = g1
    BY DEF SerialTerm, Term
  <2>2. SerialTerm(f, S, 2) = g2
    BY DEF SerialTerm, Term
  <2>3. SerialTerm(f, S, 3) = g3
    BY DEF SerialTerm, Term
  <2> QED BY <2>1, <2>2, <2>3
<1>6. /\ Total(sums, 1) = SumFunctionOnSet(g1, S) /\ Total(sums, 2) = SumFunctionOnSet(g2, S)
      /\ Total(sums, 3) = SumFunctionOnSet(g3, S)
  <2> HIDE DEF S, g1, g2, g3, h
  <2> QED BY <1>2, <1>4, <1>5
<1> QED BY <1>1, <1>6, Zenon DEF MapsOf

---------------------------------------------------------------------------
(* The DC.                                                                 *)

(* A coefficient of a transform where its tile has staged it. *)
LEMMA CornerIs ==
  ASSUME frame \in Frames, NEW t \in TilesOf(frame), Loaded(t),
         NEW o \in FirstBlocks(frame), TileOf(frame, o) = t, NEW raw \in Positions(frame.acs[o]), NEW c \in Channel
  PROVE  tile[t].coeffs[c][PlaneSlot(frame.acs[o], PosOf(frame, o) % TileSide, PosOf(frame, o) \div TileSide, TileSide, raw)]
           = Coefficient(frame, c, o, raw)
<1> DEFINE side == frame.acs[o]
           m == CoveredSide(side)
           lx == PosOf(frame, o) % TileSide
           ly == PosOf(frame, o) \div TileSide
           s == raw % Slots
           q == raw \div Slots
<1>1. PICK b \in Blocks(frame) : Owner(frame, b) = o /\ Raw(frame, b, s) = raw /\ s \in Slot /\ Ordinal(frame, b) = q
  BY BlockOfRaw
<1> DEFINE p == PosOf(frame, b)
<1>2. TileOf(frame, b) = t /\ Side(frame, b) = side
  BY <1>1, OwnerInTile DEF Side
<1>3. p \in TilePos /\ InFrame(frame, t, p) /\ BlockOf(frame, t, p) = b
  BY <1>1, <1>2, BlockInTile
<1>4. q \div m = Dy(frame, b) /\ q % m = Dx(frame, b)
  BY <1>1, <1>2, RawIs
<1>5. Dx(frame, b) = (p % TileSide) - lx /\ Dy(frame, b) = p \div TileSide - ly
  BY <1>1, OwnerInTile
<1>6. /\ p % TileSide \in Int /\ p \div TileSide \in Int /\ p = (p \div TileSide) * TileSide + (p % TileSide)
      /\ lx \in Int /\ ly \in Int
  <2>1. PosOf(frame, o) \in TilePos
    BY <1>1, FirstOwnsItself, BlockInTile
  <2> HIDE DEF p
  <2> QED BY <1>3, <2>1, PosIs
<1>7. PlaneSlot(side, lx, ly, TileSide, raw) = ((ly + q \div m) * TileSide + lx + (q % m)) * Slots + s
  BY DEF PlaneSlot
<1>8. PlaneSlot(side, lx, ly, TileSide, raw) = p * Slots + s
  <2> HIDE DEF p, q, m, s, lx, ly
  <2>1. ly + q \div m = p \div TileSide /\ lx + (q % m) = p % TileSide /\ q % m \in Int
    BY <1>4, <1>5, <1>6
  <2> DEFINE u == (p \div TileSide) * TileSide
  <2>2. u \in Int
    BY <1>6, Constants
  <2>3. p = u + (p % TileSide)
    BY <1>6
  <2> HIDE DEF u
  <2>4. u + lx + (q % m) = p
    BY <1>6, <2>1, <2>2, <2>3
  <2> QED BY <1>7, <2>1, <2>4 DEF u
<1>9. tile[t].coeffs[c][p * Slots + s] = Value(frame, c, b, s)
  <2> HIDE DEF p, s
  <2> QED BY <1>1, <1>3, StagedIs DEF Loaded
<1>10. Coefficient(frame, c, o, raw) = Value(frame, c, b, s)
  <2> HIDE DEF s
  <2> QED BY <1>1, RawIs
<1> QED BY <1>8, <1>9, <1>10

(* The DC of a position of a tile that all have staged. *)
LEMMA DcAtIs ==
  ASSUME frame \in Frames, NEW t \in TilesOf(frame), Loaded(t), NEW p \in TilePos, InFrame(frame, t, p)
  PROVE  DcAt(t, p) = SerialDc(frame, BlockOf(frame, t, p))
<1> DEFINE b == BlockOf(frame, t, p)
           o == Owner(frame, b)
           side == frame.acs[o]
           m == CoveredSide(side)
           x == (b % frame.bw) - (o % frame.bw)
           y == (b \div frame.bw) - (o \div frame.bw)
           lx == PosOf(frame, o) % TileSide
           ly == PosOf(frame, o) \div TileSide
           K == (0 .. m - 1) \X (0 .. m - 1)
           corner(c, k) == tile[t].coeffs[c][PlaneSlot(side, lx, ly, TileSide, k[1] * side + k[2])]
           serial(c, k) == Coefficient(frame, c, o, k[1] * side + k[2])
           F == [c \in Channel |->
                   IF m = 1 THEN tile[t].coeffs[c][p * Slots]
                   ELSE SumFunctionOnSet(
                          [k \in K |-> DcTerm(m, (p % TileSide) - lx, (p \div TileSide) - ly, k[1], k[2]) * corner(c, k)], K)]
           G == [c \in Channel |->
                   IF m = 1 THEN Coefficient(frame, c, o, 0)
                   ELSE SumFunctionOnSet([k \in K |-> DcTerm(m, x, y, k[1], k[2]) * serial(c, k)], K)]
<1>1. /\ b \in Blocks(frame) /\ TileOf(frame, b) = t /\ PosOf(frame, b) = p
  BY BlockOfIs
<1>2. tile[t].pos[p].owner = PosOf(frame, o) /\ tile[t].pos[p].side = side
  <2>1. tile[t].pos[p] = Place(frame, b)
    BY PositionIs DEF Loaded
  <2>2. Place(frame, b).owner = PosOf(frame, o) /\ Place(frame, b).side = side
    BY DEF Place, Side
  <2> QED BY <2>1, <2>2
<1>3. DcAt(t, p) = QuantizedDc(F)
  BY <1>2, Zenon DEF DcAt, SumOver
<1>4. SerialDc(frame, b) = QuantizedDc(G)
  BY Zenon DEF SerialDc, SumOver
<1> HIDE DEF b
<1>5. /\ o \in FirstBlocks(frame) /\ o \in Blocks(frame) /\ side \in Sides /\ TileOf(frame, o) = t
      /\ Dx(frame, b) \in 0 .. m - 1 /\ Dy(frame, b) \in 0 .. m - 1
  BY <1>1, OwnerIs, OwnerInTile DEF Side
<1>6. /\ m \in Nat /\ m > 0 /\ side \in Nat /\ side > 0 /\ m <= side
  <2>1. m \in {1, 2, 4} /\ side \in Nat /\ side > 0 /\ side = m * BlockDim /\ BlockDim \in Nat /\ BlockDim > 0
    BY <1>5, SideIs, Constants
  <2> HIDE DEF m, side
  <2> QED BY <2>1
<1>7. x = (p % TileSide) - lx /\ y = (p \div TileSide) - ly
  <2>1. Dx(frame, b) = x /\ Dy(frame, b) = y
    BY DEF Dx, Dy, Column, Row
  <2>2. Dx(frame, b) = (p % TileSide) - lx /\ Dy(frame, b) = (p \div TileSide) - ly
    BY <1>1, OwnerInTile
  <2> QED BY <2>1, <2>2
<1>8. ASSUME NEW c \in Channel, NEW k \in K
      PROVE  corner(c, k) = serial(c, k)
  <2> DEFINE i == k[1]
             j == k[2]
             raw == i * side + j
  <2>1. i \in 0 .. m - 1 /\ j \in 0 .. m - 1
    BY <1>8
  <2>2. raw \in Positions(side)
    <3> HIDE DEF i, j, m, side
    <3>1. i \in 0 .. side - 1 /\ j \in 0 .. side - 1
      BY <1>6, <2>1
    <3>2. i * side + j \in 0 .. side * side - 1
      BY <1>6, <3>1, Grid
    <3> QED BY <3>2 DEF Positions
  <2> HIDE DEF raw, o
  <2>3. tile[t].coeffs[c][PlaneSlot(side, lx, ly, TileSide, raw)] = Coefficient(frame, c, o, raw)
    BY <1>5, <2>2, CornerIs
  <2> QED BY <2>3 DEF raw
<1>9. ASSUME NEW c \in Channel, m = 1
      PROVE  tile[t].coeffs[c][p * Slots] = Coefficient(frame, c, o, 0)
  <2>1. 0 \in Slot
    BY Constants DEF Slot
  <2>2. p * Slots + 0 = p * Slots
    BY PosIs, Constants DEF TilePos, TilePositions
  <2>3. tile[t].coeffs[c][p * Slots + 0] = Value(frame, c, b, 0)
    BY <2>1, StagedIs DEF Loaded, b
  <2>4. Dx(frame, b) = 0 /\ Dy(frame, b) = 0
    BY <1>5, <1>9
  <2>5. Raw(frame, b, 0) = 0
    <3>1. CoveredSide(Side(frame, b)) \in Nat /\ Slots \in Nat
      BY <1>6, Constants DEF Side
    <3> QED BY <2>4, <3>1 DEF Raw, Ordinal
  <2>6. Coefficient(frame, c, o, 0) = Value(frame, c, b, 0)
    BY <1>1, <2>1, <2>5, RawIs
  <2> QED BY <2>2, <2>3, <2>6
<1>10. F = G
  <2>1. \A c \in Channel :
          [k \in K |-> DcTerm(m, (p % TileSide) - lx, (p \div TileSide) - ly, k[1], k[2]) * corner(c, k)]
            = [k \in K |-> DcTerm(m, x, y, k[1], k[2]) * serial(c, k)]
    <3> HIDE DEF K, m, x, y, lx, ly, corner, serial
    <3> QED BY <1>7, <1>8
  <2> DEFINE f1(c) == [k \in K |-> DcTerm(m, (p % TileSide) - lx, (p \div TileSide) - ly, k[1], k[2]) * corner(c, k)]
             g1(c) == [k \in K |-> DcTerm(m, x, y, k[1], k[2]) * serial(c, k)]
             f0(c) == tile[t].coeffs[c][p * Slots]
             g0(c) == Coefficient(frame, c, o, 0)
  <2>2. F = [c \in Channel |-> IF m = 1 THEN f0(c) ELSE SumFunctionOnSet(f1(c), K)]
    OBVIOUS
  <2>3. G = [c \in Channel |-> IF m = 1 THEN g0(c) ELSE SumFunctionOnSet(g1(c), K)]
    OBVIOUS
  <2>4. \A c \in Channel : f1(c) = g1(c)
    BY <2>1
  <2>5. m = 1 => \A c \in Channel : f0(c) = g0(c)
    BY <1>9
  <2> HIDE DEF F, G, K, m, f1, g1, f0, g0
  <2> QED BY <2>2, <2>3, <2>4, <2>5
<1> QED BY <1>3, <1>4, <1>10 DEF b

---------------------------------------------------------------------------
(* The shares of the warps.                                                *)

(* The warp that resolves a block, and the one that quantizes its slots. *)
BandOf(f, b) == (PosOf(f, b) \div TileSide) \div BandRows
QuantizerOf(f, b) == PosOf(f, b) % Warps

(* Each position is of a band, and each element is staged by a warp. *)
LEMMA WarpsAre ==
  /\ \A p \in TilePos : (p \div TileSide) \div BandRows \in Warp /\ p % Warps \in Warp
  /\ \A c \in Channel, at \in 0 .. TileSlots - 1 : Stages(c, at) \in Warp
<1>1. ASSUME NEW p \in TilePos
      PROVE  (p \div TileSide) \div BandRows \in Warp /\ p % Warps \in Warp
  <2>1. /\ BandRows \in Nat /\ BandRows > 0 /\ Warps \in Nat /\ Warps > 0
        /\ Bands \in Nat /\ Bands <= Warps /\ TileSide = BandRows * Bands
        /\ p \div TileSide \in 0 .. TileSide - 1 /\ p \in Nat
    BY PosIs, Constants DEF TilePos
  <2> DEFINE y == p \div TileSide
  <2>2. y \in 0 .. BandRows * Bands - 1
    BY <2>1
  <2> HIDE DEF y
  <2>3. y \div BandRows \in 0 .. Bands - 1
    BY <2>1, <2>2, Grid
  <2>4. p % Warps \in 0 .. Warps - 1
    BY <2>1, Quotient
  <2> QED BY <2>1, <2>3, <2>4 DEF Warp, y
<1>2. ASSUME NEW c \in Channel, NEW at \in 0 .. TileSlots - 1
      PROVE  Stages(c, at) \in Warp
  <2>1. /\ TileSlots \in Nat /\ HalvesPerVector \in Nat /\ HalvesPerVector > 0
        /\ Threads \in Nat /\ Threads > 0
    BY Constants
  <2> DEFINE a == (c * TileSlots + at) \div HalvesPerVector
  <2>2. a \in Nat
    <3>1. c \in Nat /\ at \in Nat
      BY <2>1 DEF Channel
    <3> DEFINE x == c * TileSlots + at
    <3>2. x \in Nat
      BY <2>1, <3>1
    <3> HIDE DEF x
    <3>3. x \div HalvesPerVector \in Nat
      BY <2>1, <3>2, Quotient
    <3> QED BY <3>3 DEF x
  <2> HIDE DEF a
  <2>3. a % Threads \in 0 .. Threads - 1
    BY <2>1, <2>2, Quotient
  <2>4. (a % Threads) \div Lanes \in Warp
    BY <2>3, LanesIs
  <2> QED BY <2>4 DEF Stages, a
<1> QED BY <1>1, <1>2

(* The blocks of a warp's share. *)
LEMMA SharesAre ==
  ASSUME frame \in Frames, NEW t \in TilesOf(frame), NEW w, NEW b \in Blocks(frame)
  PROVE  /\ \A x : x \in Quantizes(t, w) /\ BlockOf(frame, t, x) = b <=>
                     TileOf(frame, b) = t /\ QuantizerOf(frame, b) = w /\ x = PosOf(frame, b)
         /\ \A x : x \in Band(w) /\ InFrame(frame, t, x) /\ BlockOf(frame, t, x) = b <=>
                     TileOf(frame, b) = t /\ BandOf(frame, b) = w /\ x = PosOf(frame, b)
<1>1. /\ TileOf(frame, b) = t => /\ PosOf(frame, b) \in TilePos
                                 /\ InFrame(frame, t, PosOf(frame, b))
                                 /\ BlockOf(frame, t, PosOf(frame, b)) = b
  BY BlockInTile
<1>2. \A x \in TilePos : InFrame(frame, t, x) /\ BlockOf(frame, t, x) = b =>
                           TileOf(frame, b) = t /\ x = PosOf(frame, b)
  BY BlockOfIs
<1> QED BY <1>1, <1>2 DEF Quantizes, Band, TilePos, QuantizerOf, BandOf

(* A plane with the slots a warp quantized. *)
PlaneWith(new, plane, t, w, q) ==
  /\ new = [s \in DOMAIN plane |-> new[s]]
  /\ \A b \in Blocks(frame), slot \in Slot :
       new[b * Slots + slot] =
         IF TileOf(frame, b) = t /\ QuantizerOf(frame, b) = w
         THEN IF <<PosOf(frame, b), slot>> \in DOMAIN q THEN q[<<PosOf(frame, b), slot>>] ELSE 0
         ELSE plane[b * Slots + slot]

LEMMA WithPlaneIs ==
  ASSUME frame \in Frames, NEW t \in TilesOf(frame), NEW w, NEW q,
         NEW plane, DOMAIN plane = 0 .. frame.bw * frame.bh * Slots - 1
  PROVE  PlaneWith(WithPlane(plane, t, w, q), plane, t, w, q)
<1> DEFINE new == WithPlane(plane, t, w, q)
           P(b) == CHOOSE x \in Quantizes(t, w) : BlockOf(frame, t, x) = b
           N(s) == IF \E x \in Quantizes(t, w) : BlockOf(frame, t, x) = s \div Slots
                   THEN IF <<P(s \div Slots), s % Slots>> \in DOMAIN q THEN q[<<P(s \div Slots), s % Slots>>] ELSE 0
                   ELSE plane[s]
<1>1. new = [s \in DOMAIN plane |-> N(s)]
  BY TabulatedIs, Zenon DEF WithPlane
<1>2. ASSUME NEW b \in Blocks(frame), NEW slot \in Slot
      PROVE  new[b * Slots + slot] =
               IF TileOf(frame, b) = t /\ QuantizerOf(frame, b) = w
               THEN IF <<PosOf(frame, b), slot>> \in DOMAIN q THEN q[<<PosOf(frame, b), slot>>] ELSE 0
               ELSE plane[b * Slots + slot]
  <2> DEFINE s == b * Slots + slot
  <2>1. s \in DOMAIN plane /\ s \div Slots = b /\ s % Slots = slot
    <3>1. frame.bw * frame.bh \in Nat
      BY FrameIs
    <3> QED BY <3>1, SlotIs DEF Blocks
  <2> HIDE DEF s, new
  <2>2. new[s] = N(s)
    <3> HIDE DEF N
    <3> QED BY <1>1, <2>1
  <2>3. CASE TileOf(frame, b) = t /\ QuantizerOf(frame, b) = w
    <3>1. PosOf(frame, b) \in Quantizes(t, w) /\ BlockOf(frame, t, PosOf(frame, b)) = b
      BY <2>3, SharesAre
    <3>2. P(b) = PosOf(frame, b)
      <4>1. P(b) \in Quantizes(t, w) /\ BlockOf(frame, t, P(b)) = b
        BY <3>1, Zenon
      <4> HIDE DEF P
      <4>2. \A x : x \in Quantizes(t, w) /\ BlockOf(frame, t, x) = b => x = PosOf(frame, b)
        BY ONLY frame \in Frames, t \in TilesOf(frame), b \in Blocks(frame), SharesAre
      <4> QED BY ONLY <4>1, <4>2
    <3> HIDE DEF P
    <3>3. N(s) = IF <<PosOf(frame, b), slot>> \in DOMAIN q THEN q[<<PosOf(frame, b), slot>>] ELSE 0
      BY <2>1, <3>1, <3>2
    <3> QED BY <2>2, <2>3, <3>3 DEF s
  <2>4. CASE ~ (TileOf(frame, b) = t /\ QuantizerOf(frame, b) = w)
    <3>1. ~ \E x \in Quantizes(t, w) : BlockOf(frame, t, x) = b
      BY <2>4, SharesAre
    <3> HIDE DEF P
    <3>2. N(s) = plane[s]
      BY <2>1, <3>1
    <3> QED BY <2>2, <2>4, <3>2 DEF s
  <2> QED BY <2>3, <2>4
<1>3. new = [s \in DOMAIN plane |-> new[s]]
  <2> HIDE DEF N, new
  <2> QED BY <1>1
<1> QED BY <1>2, <1>3 DEF PlaneWith

---------------------------------------------------------------------------
(* What the variables hold.                                                *)

Table(f, D) == f = [x \in D |-> f[x]]
TileFields == {"coeffs", "pos", "nz", "sums", "maps", "stats"}
RegsFields == {"roundtrip", "nonzero"}
OutFields  == {"ac", "dc", "maps", "nz_exact", "nz_grid", "order_stats"}
PlaneSlots == 0 .. frame.bw * frame.bh * Slots - 1

RegsTabled ==
  /\ Table(regs, TilesOf(frame))
  /\ \A t \in TilesOf(frame) : Table(regs[t], Warp) /\ \A w \in Warp : Table(regs[t][w], RegsFields)
OutTabled ==
  /\ Table(out, OutFields) /\ Table(out.ac, Channel) /\ \A c \in Channel : Table(out.ac[c], PlaneSlots)
  /\ Table(out.dc, Blocks(frame)) /\ Table(out.maps, TilesOf(frame))

Tabled ==
  /\ frame \in Frames
  /\ region \in [TilesOf(frame) -> [Warp -> 0 .. 7]]
  /\ Table(tile, TilesOf(frame))
  /\ \A t \in TilesOf(frame) : /\ Table(tile[t], TileFields)
                               /\ DOMAIN tile[t].pos = TilePos /\ Table(tile[t].sums, Warp)
  /\ RegsTabled /\ OutTabled

(* A warp goes on past its r-th barrier. *)
Moves(t, w, r) ==
  /\ region[t][w] = r /\ \A v \in Warp : region[t][v] >= r
  /\ region' \in [TilesOf(frame) -> [Warp -> 0 .. 7]]
  /\ region'[t][w] = r + 1
  /\ \A s \in TilesOf(frame), v \in Warp : s # t \/ v # w => region'[s][v] = region[s][v]

(* Of the tiles, only t changes. *)
OnlyTile(t) ==
  /\ Table(tile', TilesOf(frame))
  /\ \A s \in TilesOf(frame) : s # t => tile'[s] = tile[s]
  /\ Table(tile'[t], TileFields)

LEMMA MovesIs ==
  ASSUME Tabled, NEW t \in TilesOf(frame), NEW w \in Warp, NEW r \in 0 .. 6,
         PassesBarrier(t, w, r), ToNextBarrier(t, w)
  PROVE  Moves(t, w, r)
<1>1. region \in [TilesOf(frame) -> [Warp -> 0 .. 7]]
  BY DEF Tabled
<1>2. region' = [region EXCEPT ![t][w] = region[t][w] + 1]
  BY DEF ToNextBarrier
<1>3. region[t][w] = r /\ \A v \in Warp : region[t][v] >= r
  BY DEF PassesBarrier
<1>4. r + 1 \in 0 .. 7
  OBVIOUS
<1> QED BY <1>1, <1>2, <1>3, <1>4 DEF Moves

---------------------------------------------------------------------------
(* What the actions do.                                                    *)

(* A warp stages its share of the coefficients and resolves its band. *)
LEMMA LoadDoes ==
  ASSUME Tabled, NEW t \in TilesOf(frame), NEW w \in Warp, LoadTile(t, w)
  PROVE  /\ Moves(t, w, 0) /\ OnlyTile(t) /\ UNCHANGED <<frame, regs, out>>
         /\ \A c \in Channel, at \in 0 .. TileSlots - 1 :
              tile'[t].coeffs[c][at] =
                IF Stages(c, at) # w THEN tile[t].coeffs[c][at] ELSE Staged(frame, t, c, at)
         /\ DOMAIN tile'[t].pos = TilePos
         /\ \A p \in TilePos : tile'[t].pos[p] = IF p \in Band(w) THEN Position(frame, t, p) ELSE tile[t].pos[p]
         /\ tile'[t].sums = tile[t].sums /\ tile'[t].maps = tile[t].maps
<1> DEFINE a == [c \in Channel |-> Tabulated([at \in 0 .. TileSlots - 1 |->
                   IF Stages(c, at) # w THEN tile[t].coeffs[c][at]
                   ELSE IF InFrame(frame, t, at \div Slots)
                   THEN frame.ac[c][BlockOf(frame, t, at \div Slots) * Slots + (at % Slots)] ELSE 0])]
           b == Tabulated([p \in DOMAIN tile[t].pos |->
                   IF p \in Band(w) THEN Position(frame, t, p) ELSE tile[t].pos[p]])
           z == [c \in Channel |-> Tabulated([p \in DOMAIN tile[t].nz[c] |->
                   IF p \in Band(w) THEN 0 ELSE tile[t].nz[c][p]])]
<1>1. tile' = [tile EXCEPT ![t].coeffs = a, ![t].pos = b, ![t].nz = z]
  BY Zenon DEF LoadTile
<1>2. PassesBarrier(t, w, 0) /\ ToNextBarrier(t, w) /\ UNCHANGED <<frame, regs, out>>
  BY DEF LoadTile
<1>3. Moves(t, w, 0)
  BY <1>2, MovesIs
<1>4. \A c \in Channel, at \in 0 .. TileSlots - 1 :
        a[c][at] = IF Stages(c, at) # w THEN tile[t].coeffs[c][at] ELSE Staged(frame, t, c, at)
  <2> DEFINE row(c) == [at \in 0 .. TileSlots - 1 |->
                         IF Stages(c, at) # w THEN tile[t].coeffs[c][at] ELSE Staged(frame, t, c, at)]
  <2>1. a = [c \in Channel |-> Tabulated(row(c))]
    BY Zenon DEF Staged
  <2>2. a = [c \in Channel |-> row(c)]
    <3> HIDE DEF a, row
    <3> QED BY <2>1, TabulatedIs
  <2> HIDE DEF a
  <2> QED BY <2>2
<1>5. b = [p \in TilePos |-> IF p \in Band(w) THEN Position(frame, t, p) ELSE tile[t].pos[p]]
  <2>1. DOMAIN tile[t].pos = TilePos
    BY DEF Tabled
  <2> QED BY <2>1, TabulatedIs
<1> HIDE DEF a, b, z
<1>6. Table(tile, TilesOf(frame)) /\ Table(tile[t], TileFields)
  BY DEF Tabled
<1>7. /\ Table(tile', TilesOf(frame)) /\ \A s \in TilesOf(frame) : s # t => tile'[s] = tile[s]
      /\ Table(tile'[t], TileFields) /\ tile'[t].coeffs = a /\ tile'[t].pos = b
      /\ tile'[t].sums = tile[t].sums /\ tile'[t].maps = tile[t].maps
  <2> DEFINE T == TilesOf(frame)
             new == [tile EXCEPT ![t].coeffs = a, ![t].pos = b, ![t].nz = z]
  <2>1. Table(tile, T) /\ t \in T
    BY <1>6
  <2> HIDE DEF T
  <2>2. /\ Table(new, T) /\ \A s \in T : s # t => new[s] = tile[s]
        /\ Table(new[t], TileFields) /\ new[t].coeffs = a /\ new[t].pos = b
        /\ new[t].sums = tile[t].sums /\ new[t].maps = tile[t].maps
    BY ONLY <1>6, <2>1 DEF Table, TileFields
  <2>3. tile' = new
    BY <1>1
  <2> HIDE DEF new
  <2> QED BY <2>2, <2>3 DEF T
<1> QED BY <1>2, <1>3, <1>4, <1>5, <1>7 DEF OnlyTile

(* The cells that a warp quantizes. *)
AcCells(t, w) == {k \in Quantizes(t, w) \X Slot : ~ Corner(frame, BlockOf(frame, t, k[1]), k[2])}

(* In a tile that all have staged, they are those past the corners. *)
LEMMA AcSlotsAre ==
  ASSUME frame \in Frames, NEW t \in TilesOf(frame), Loaded(t), NEW w
  PROVE  AcSlots(t, w) = AcCells(t, w)
<1>1. ASSUME NEW k \in Quantizes(t, w) \X Slot
      PROVE  k[2] \notin tile[t].pos[k[1]].llf <=> ~ Corner(frame, BlockOf(frame, t, k[1]), k[2])
  <2> DEFINE p == k[1]
             s == k[2]
  <2>1. p \in TilePos /\ InFrame(frame, t, p) /\ s \in Slot
    BY DEF Quantizes, TilePos
  <2> HIDE DEF p, s
  <2>2. s \notin tile[t].pos[p].llf <=> ~ Corner(frame, BlockOf(frame, t, p), s)
    BY <2>1, CornersAre DEF Loaded
  <2> QED BY <2>2 DEF p, s
<1>2. AcSlots(t, w) = {k \in Quantizes(t, w) \X Slot : k[2] \notin tile[t].pos[k[1]].llf}
  BY Zenon DEF AcSlots, Slot
<1>3. AcSlots(t, w) = {k \in Quantizes(t, w) \X Slot : ~ Corner(frame, BlockOf(frame, t, k[1]), k[2])}
  BY <1>1, <1>2
<1> QED BY <1>3, Zenon DEF AcCells

(* What the tile says of such a cell. *)
LEMMA AcCellIs ==
  ASSUME frame \in Frames, NEW t \in TilesOf(frame), Loaded(t), NEW w, NEW k \in AcCells(t, w)
  PROVE  LET b == BlockOf(frame, t, k[1])
         IN  /\ k[1] \in TilePos /\ k[2] \in Slot /\ b \in Blocks(frame) /\ ~ Corner(frame, b, k[2])
             /\ \A c \in Channel : tile[t].coeffs[c][k[1] * Slots + k[2]] = Value(frame, c, b, k[2])
             /\ tile[t].pos[k[1]].qf = frame.qf[Owner(frame, b)] /\ tile[t].pos[k[1]].side = Side(frame, b)
             /\ RawAt(t, k) = Raw(frame, b, k[2])
<1> DEFINE p == k[1]
           s == k[2]
           b == BlockOf(frame, t, p)
<1>1. p \in TilePos /\ InFrame(frame, t, p) /\ s \in Slot /\ ~ Corner(frame, b, s)
  BY DEF AcCells, Quantizes, TilePos
<1>2. RawAt(t, k) = tile[t].pos[p].ordinal * Slots + s
  BY DEF RawAt
<1> HIDE DEF p, s
<1>3. b \in Blocks(frame)
  BY <1>1, BlockOfIs
<1>4. \A c \in Channel : tile[t].coeffs[c][p * Slots + s] = Value(frame, c, b, s)
  BY <1>1, StagedIs DEF Loaded
<1>5. tile[t].pos[p] = Place(frame, b)
  BY <1>1, PositionIs DEF Loaded
<1>6. /\ Place(frame, b).qf = frame.qf[Owner(frame, b)] /\ Place(frame, b).side = Side(frame, b)
      /\ Place(frame, b).ordinal = Ordinal(frame, b)
  BY DEF Place
<1> HIDE DEF b
<1>7. RawAt(t, k) = Raw(frame, b, s)
  BY <1>2, <1>5, <1>6 DEF Raw
<1>8. tile[t].pos[p].qf = frame.qf[Owner(frame, b)] /\ tile[t].pos[p].side = Side(frame, b)
  BY <1>5, <1>6
<1> QED BY <1>1, <1>3, <1>4, <1>7, <1>8, Zenon DEF b, p, s

(* New DC values and one plane of coefficients; two planes; a map.         *)
LEMMA OutWithLuma ==
  ASSUME frame \in Frames, OutTabled, frame' = frame, NEW a, Table(a, PlaneSlots), NEW b, Table(b, Blocks(frame)),
         out' = [out EXCEPT !.ac[1] = a, !.dc = b]
  PROVE  /\ OutTabled' /\ out'.maps = out.maps /\ out'.dc = b
         /\ out'.ac[0] = out.ac[0] /\ out'.ac[1] = a /\ out'.ac[2] = out.ac[2]
<1> DEFINE new == [out EXCEPT !.ac[1] = a, !.dc = b]
<1>1. Table(out, OutFields) /\ Table(out.ac, Channel)
  BY DEF OutTabled
<1>2. /\ Table(new, OutFields) /\ Table(new.ac, Channel) /\ new.maps = out.maps /\ new.dc = b
      /\ new.ac[0] = out.ac[0] /\ new.ac[1] = a /\ new.ac[2] = out.ac[2]
  <2> DEFINE ac == [out.ac EXCEPT ![1] = a]
  <2>1. new = [out EXCEPT !.ac = [@ EXCEPT ![1] = a], !.dc = b]
    BY Zenon
  <2>2. [out EXCEPT !.ac = [@ EXCEPT ![1] = a], !.dc = b] = [out EXCEPT !.ac = ac, !.dc = b]
    BY ONLY <1>1 DEF Table, OutFields
  <2>3. Table(ac, Channel) /\ ac[0] = out.ac[0] /\ ac[1] = a /\ ac[2] = out.ac[2]
    BY ONLY <1>1 DEF Table, Channel
  <2>4. new = [out EXCEPT !.ac = ac, !.dc = b]
    BY <2>1, <2>2, Zenon
  <2> HIDE DEF new, ac
  <2>5. Table(new, OutFields) /\ new.ac = ac /\ new.maps = out.maps /\ new.dc = b
    BY ONLY <1>1, <2>4 DEF Table, OutFields
  <2> QED BY <2>3, <2>5
<1>3. out' = new
  OBVIOUS
<1> HIDE DEF new
<1>4. \A c \in Channel : c = 0 \/ c = 1 \/ c = 2
  BY DEF Channel
<1>5. OutTabled'
  BY <1>2, <1>3, <1>4 DEF OutTabled, PlaneSlots
<1> QED BY <1>2, <1>3, <1>5

LEMMA OutWithChroma ==
  ASSUME frame \in Frames, OutTabled, frame' = frame, NEW a, Table(a, PlaneSlots), NEW b, Table(b, PlaneSlots),
         out' = [out EXCEPT !.ac[0] = a, !.ac[2] = b]
  PROVE  /\ OutTabled' /\ out'.maps = out.maps /\ out'.dc = out.dc
         /\ out'.ac[0] = a /\ out'.ac[1] = out.ac[1] /\ out'.ac[2] = b
<1> DEFINE new == [out EXCEPT !.ac[0] = a, !.ac[2] = b]
<1>1. Table(out, OutFields) /\ Table(out.ac, Channel)
  BY DEF OutTabled
<1>2. /\ Table(new, OutFields) /\ Table(new.ac, Channel) /\ new.maps = out.maps /\ new.dc = out.dc
      /\ new.ac[0] = a /\ new.ac[1] = out.ac[1] /\ new.ac[2] = b
  <2> DEFINE ac == [[out.ac EXCEPT ![0] = a] EXCEPT ![2] = b]
             first == [out EXCEPT !.ac = [out.ac EXCEPT ![0] = a]]
  <2>1. new = [[out EXCEPT !.ac = [@ EXCEPT ![0] = a]] EXCEPT !.ac = [@ EXCEPT ![2] = b]]
    BY Zenon
  <2>2. [out EXCEPT !.ac = [@ EXCEPT ![0] = a]] = first
    BY ONLY <1>1 DEF Table, OutFields
  <2>3. new = [first EXCEPT !.ac = [@ EXCEPT ![2] = b]]
    BY <2>1, <2>2, Zenon
  <2>4. [first EXCEPT !.ac = [@ EXCEPT ![2] = b]] = [out EXCEPT !.ac = ac]
    BY ONLY <1>1 DEF Table, OutFields
  <2>5. Table(ac, Channel) /\ ac[0] = a /\ ac[1] = out.ac[1] /\ ac[2] = b
    BY ONLY <1>1 DEF Table, Channel
  <2>6. new = [out EXCEPT !.ac = ac]
    BY <2>3, <2>4, Zenon
  <2> HIDE DEF new, ac, first
  <2>7. Table(new, OutFields) /\ new.ac = ac /\ new.maps = out.maps /\ new.dc = out.dc
    BY ONLY <1>1, <2>6 DEF Table, OutFields
  <2> QED BY <2>5, <2>7
<1>3. out' = new
  OBVIOUS
<1> HIDE DEF new
<1>4. \A c \in Channel : c = 0 \/ c = 1 \/ c = 2
  BY DEF Channel
<1>5. OutTabled'
  BY <1>2, <1>3, <1>4 DEF OutTabled, PlaneSlots
<1> QED BY <1>2, <1>3, <1>5

LEMMA OutWithMaps ==
  ASSUME frame \in Frames, OutTabled, frame' = frame, NEW t \in TilesOf(frame), NEW a,
         out' = [out EXCEPT !.maps[t] = a]
  PROVE  /\ OutTabled' /\ out'.dc = out.dc /\ out'.ac = out.ac
         /\ out'.maps[t] = a /\ \A s \in TilesOf(frame) : s # t => out'.maps[s] = out.maps[s]
<1> DEFINE new == [out EXCEPT !.maps[t] = a]
           T == TilesOf(frame)
<1>1. Table(out, OutFields) /\ Table(out.maps, T) /\ t \in T
  BY DEF OutTabled
<1> HIDE DEF T
<1>2. /\ Table(new, OutFields) /\ Table(new.maps, T) /\ new.dc = out.dc /\ new.ac = out.ac
      /\ new.maps[t] = a /\ \A s \in T : s # t => new.maps[s] = out.maps[s]
  BY ONLY <1>1 DEF Table, OutFields
<1>3. out' = new
  OBVIOUS
<1> HIDE DEF new
<1>4. OutTabled'
  BY <1>2, <1>3 DEF OutTabled, PlaneSlots, T
<1> QED BY <1>2, <1>3, <1>4 DEF T

(* New counts leave the planes alone. *)
LEMMA OutWithCounts ==
  ASSUME frame \in Frames, OutTabled, frame' = frame, NEW a, NEW b, NEW c,
         \/ out' = [out EXCEPT !.nz_exact = a, !.nz_grid = b]
         \/ out' = [out EXCEPT !.order_stats = c]
  PROVE  OutTabled' /\ out'.dc = out.dc /\ out'.ac = out.ac /\ out'.maps = out.maps
<1>1. Table(out, OutFields)
  BY DEF OutTabled
<1>2. Table(out', OutFields) /\ out'.dc = out.dc /\ out'.ac = out.ac /\ out'.maps = out.maps
  BY <1>1 DEF Table, OutFields
<1> QED BY <1>2 DEF OutTabled, PlaneSlots

(* The plane of the values a warp quantized. *)
LEMMA PlaneOfIs ==
  ASSUME frame \in Frames, OutTabled, NEW t \in TilesOf(frame), NEW w, NEW c \in Channel,
         NEW q, DOMAIN q = AcCells(t, w)
  PROVE  /\ Table(WithPlane(out.ac[c], t, w, q), PlaneSlots)
         /\ \A b \in Blocks(frame), slot \in Slot :
              WithPlane(out.ac[c], t, w, q)[b * Slots + slot] =
                IF TileOf(frame, b) = t /\ QuantizerOf(frame, b) = w
                THEN IF Corner(frame, b, slot) THEN 0 ELSE q[<<PosOf(frame, b), slot>>]
                ELSE out.ac[c][b * Slots + slot]
<1> DEFINE old == out.ac[c]
           new == WithPlane(old, t, w, q)
<1>1. DOMAIN old = PlaneSlots
  BY DEF OutTabled, Table
<1>2. PlaneWith(new, old, t, w, q)
  <2>1. DOMAIN old = 0 .. frame.bw * frame.bh * Slots - 1
    BY <1>1 DEF PlaneSlots
  <2> HIDE DEF old
  <2> QED BY <2>1, WithPlaneIs
<1> HIDE DEF new, old
<1>3. Table(new, PlaneSlots)
  BY <1>1, <1>2 DEF PlaneWith, Table
<1>4. ASSUME NEW b \in Blocks(frame), NEW slot \in Slot
      PROVE  new[b * Slots + slot] =
                IF TileOf(frame, b) = t /\ QuantizerOf(frame, b) = w
                THEN IF Corner(frame, b, slot) THEN 0 ELSE q[<<PosOf(frame, b), slot>>]
                ELSE old[b * Slots + slot]
  <2>1. new[b * Slots + slot] =
          IF TileOf(frame, b) = t /\ QuantizerOf(frame, b) = w
          THEN IF <<PosOf(frame, b), slot>> \in DOMAIN q THEN q[<<PosOf(frame, b), slot>>] ELSE 0
          ELSE old[b * Slots + slot]
    BY <1>2 DEF PlaneWith
  <2>2. CASE TileOf(frame, b) = t /\ QuantizerOf(frame, b) = w
    <3> DEFINE k == <<PosOf(frame, b), slot>>
    <3>1. PosOf(frame, b) \in Quantizes(t, w) /\ BlockOf(frame, t, PosOf(frame, b)) = b
      BY <2>2, SharesAre
    <3>2. k \in AcCells(t, w) <=> ~ Corner(frame, b, slot)
      BY <3>1 DEF AcCells
    <3> HIDE DEF k
    <3>3. new[b * Slots + slot] = IF k \in DOMAIN q THEN q[k] ELSE 0
      BY <2>1, <2>2 DEF k
    <3> QED BY <2>2, <3>2, <3>3 DEF k
  <2>3. CASE ~ (TileOf(frame, b) = t /\ QuantizerOf(frame, b) = w)
    BY <2>1, <2>3
  <2> QED BY <2>2, <2>3
<1> QED BY <1>3, <1>4 DEF new, old

(* A warp sums, quantizes luma, and writes its share of the plane of luma  *)
(* and of the DC.                                                          *)
LEMMA LumaDoes ==
  ASSUME Tabled, NEW t \in TilesOf(frame), NEW w \in Warp, QuantizeLuma(t, w), Loaded(t)
  PROVE  /\ Moves(t, w, 1) /\ OnlyTile(t) /\ frame' = frame /\ RegsTabled' /\ OutTabled'
         /\ tile'[t].coeffs = tile[t].coeffs /\ tile'[t].pos = tile[t].pos /\ tile'[t].maps = tile[t].maps
         /\ Table(tile'[t].sums, Warp)
         /\ \A v \in Warp : tile'[t].sums[v] =
              IF v = w THEN <<WarpSum(frame, t, w, 1), WarpSum(frame, t, w, 2), WarpSum(frame, t, w, 3)>>
              ELSE tile[t].sums[v]
         /\ \A s \in TilesOf(frame), v \in Warp : s # t \/ v # w => regs'[s][v] = regs[s][v]
         /\ \A k \in AcCells(t, w) :
              LET b == BlockOf(frame, t, k[1])
              IN  regs'[t][w].roundtrip[k] =
                    Roundtrip(Luma(frame, b, k[2]), Side(frame, b), Raw(frame, b, k[2]))
         /\ out'.maps = out.maps /\ out'.ac[0] = out.ac[0] /\ out'.ac[2] = out.ac[2]
         /\ \A b \in Blocks(frame), slot \in Slot :
              out'.ac[1][b * Slots + slot] =
                IF TileOf(frame, b) = t /\ QuantizerOf(frame, b) = w
                THEN IF Corner(frame, b, slot) THEN 0 ELSE StoredLuma(frame, b, slot)
                ELSE out.ac[1][b * Slots + slot]
         /\ \A b \in Blocks(frame) :
              out'.dc[b] = IF TileOf(frame, b) = t /\ BandOf(frame, b) = w THEN SerialDc(frame, b) ELSE out.dc[b]
<1> DEFINE B(k) == BlockOf(frame, t, k[1])
           quantized(k) == QuantizedLuma(tile[t].coeffs[1][k[1] * Slots + k[2]], tile[t].pos[k[1]].qf,
                                         tile[t].pos[k[1]].side, RawAt(t, k))
           back(q) == [k \in DOMAIN q |-> Roundtrip(q[k], tile[t].pos[k[1]].side, RawAt(t, k))]
           P(b) == CHOOSE p \in Band(w) : InFrame(frame, t, p) /\ BlockOf(frame, t, p) = b
           dc == [b \in DOMAIN out.dc |->
                    IF \E p \in Band(w) : InFrame(frame, t, p) /\ BlockOf(frame, t, p) = b
                    THEN DcAt(t, P(b)) ELSE out.dc[b]]
<1>1. frame \in Frames /\ OutTabled /\ RegsTabled
  BY DEF Tabled
<1>2. PassesBarrier(t, w, 1) /\ ToNextBarrier(t, w) /\ frame' = frame
  BY DEF QuantizeLuma
<1>3. Moves(t, w, 1)
  BY <1>2, MovesIs
<1>4. PICK q : /\ q = Tabulated([k \in AcSlots(t, w) |-> quantized(k)])
               /\ tile' = [tile EXCEPT ![t].sums[w] = WarpSums(t, w),
                                       ![t].nz[1] = Counted(tile[t].nz[1], t, NonzeroAt(Stored(q)))]
               /\ regs' = [regs EXCEPT ![t][w] = [roundtrip |-> Tabulated(back(q)),
                                                  nonzero |-> {<<1, k>> : k \in NonzeroAt(q)}]]
               /\ out' = [out EXCEPT !.ac[1] = WithPlane(out.ac[1], t, w, Stored(q)), !.dc = Tabulated(dc)]
  <2> DEFINE Q == Tabulated([k \in AcSlots(t, w) |-> quantized(k)])
  <2>1. /\ tile' = [tile EXCEPT ![t].sums[w] = WarpSums(t, w),
                                ![t].nz[1] = Counted(tile[t].nz[1], t, NonzeroAt(Stored(Q)))]
        /\ regs' = [regs EXCEPT ![t][w] = [roundtrip |-> Tabulated(back(Q)),
                                           nonzero |-> {<<1, k>> : k \in NonzeroAt(Q)}]]
        /\ out' = [out EXCEPT !.ac[1] = WithPlane(out.ac[1], t, w, Stored(Q)), !.dc = Tabulated(dc)]
    BY Zenon DEF QuantizeLuma
  <2> QED BY <2>1, Zenon
<1>5. q = [k \in AcCells(t, w) |-> Luma(frame, B(k), k[2])]
  <2>1. q = [k \in AcCells(t, w) |-> quantized(k)]
    BY <1>1, <1>4, TabulatedIs, AcSlotsAre
  <2>2. ASSUME NEW k \in AcCells(t, w) PROVE quantized(k) = Luma(frame, B(k), k[2])
    <3>1. 1 \in Channel
      BY DEF Channel
    <3>2. /\ tile[t].coeffs[1][k[1] * Slots + k[2]] = Value(frame, 1, B(k), k[2])
          /\ tile[t].pos[k[1]].qf = frame.qf[Owner(frame, B(k))] /\ tile[t].pos[k[1]].side = Side(frame, B(k))
          /\ RawAt(t, k) = Raw(frame, B(k), k[2])
      BY <1>1, <3>1, AcCellIs
    <3> QED BY <3>2, Zenon DEF Luma
  <2> HIDE DEF quantized, B
  <2> QED BY <2>1, <2>2
<1>6. DOMAIN q = AcCells(t, w)
  BY <1>5
<1>7. /\ OnlyTile(t) /\ tile'[t].coeffs = tile[t].coeffs /\ tile'[t].pos = tile[t].pos
      /\ tile'[t].maps = tile[t].maps /\ Table(tile'[t].sums, Warp)
      /\ \A v \in Warp : tile'[t].sums[v] = IF v = w THEN WarpSums(t, w) ELSE tile[t].sums[v]
  <2> DEFINE T == TilesOf(frame)
             a == WarpSums(t, w)
             z == Counted(tile[t].nz[1], t, NonzeroAt(Stored(q)))
             new == [tile EXCEPT ![t].sums[w] = a, ![t].nz[1] = z]
  <2>1. Table(tile, T) /\ t \in T /\ Table(tile[t], TileFields) /\ Table(tile[t].sums, Warp)
    BY DEF Tabled
  <2>2. tile' = new
    BY <1>4
  <2> HIDE DEF T, a, z
  <2>3. /\ Table(new, T) /\ \A s \in T : s # t => new[s] = tile[s]
        /\ Table(new[t], TileFields) /\ new[t].coeffs = tile[t].coeffs /\ new[t].pos = tile[t].pos
        /\ new[t].maps = tile[t].maps
        /\ Table(new[t].sums, Warp) /\ \A v \in Warp : new[t].sums[v] = IF v = w THEN a ELSE tile[t].sums[v]
    BY ONLY <2>1, w \in Warp DEF Table, TileFields
  <2> HIDE DEF new
  <2> QED BY <2>2, <2>3 DEF T, a, OnlyTile
<1>8. WarpSums(t, w) = <<WarpSum(frame, t, w, 1), WarpSum(frame, t, w, 2), WarpSum(frame, t, w, 3)>>
  BY <1>1, WarpSumsIs
<1>9. /\ RegsTabled' /\ regs'[t][w].roundtrip = back(q)
      /\ \A s \in TilesOf(frame), v \in Warp : s # t \/ v # w => regs'[s][v] = regs[s][v]
  <2> DEFINE a == back(q)
             n == {<<1, k>> : k \in NonzeroAt(q)}
  <2>1. regs' = [regs EXCEPT ![t][w] = [roundtrip |-> a, nonzero |-> n]]
    BY <1>4, TabulatedIs
  <2> DEFINE r == [roundtrip |-> a, nonzero |-> n]
  <2> HIDE DEF a, n
  <2>2. Table(r, RegsFields) /\ r.roundtrip = a /\ regs' = [regs EXCEPT ![t][w] = r]
    BY <2>1 DEF Table, RegsFields
  <2> DEFINE T == TilesOf(frame)
             new == [regs EXCEPT ![t][w] = r]
  <2>3. /\ Table(regs, T) /\ t \in T
        /\ \A s \in T : Table(regs[s], Warp) /\ \A v \in Warp : Table(regs[s][v], RegsFields)
    BY <1>1 DEF RegsTabled
  <2>4. T = TilesOf(frame')
    BY <1>2
  <2>5. regs' = new
    BY <2>2
  <2> HIDE DEF r, T
  <2>6. /\ Table(new, T) /\ \A s \in T : Table(new[s], Warp) /\ \A v \in Warp : Table(new[s][v], RegsFields)
        /\ new[t][w] = r /\ \A s \in T, v \in Warp : s # t \/ v # w => new[s][v] = regs[s][v]
    BY ONLY <2>2, <2>3, w \in Warp DEF Table, RegsFields
  <2> HIDE DEF new
  <2>7. RegsTabled'
    BY <2>4, <2>5, <2>6 DEF RegsTabled
  <2>8. /\ regs'[t][w].roundtrip = a
        /\ \A s \in T, v \in Warp : s # t \/ v # w => regs'[s][v] = regs[s][v]
    BY <2>2, <2>5, <2>6
  <2>9. a = back(q) /\ T = TilesOf(frame)
    BY DEF a, T
  <2> HIDE DEF back
  <2> QED BY <2>7, <2>8, <2>9, Zenon
<1>10. ASSUME NEW k \in AcCells(t, w)
       PROVE  regs'[t][w].roundtrip[k] =
                Roundtrip(Luma(frame, B(k), k[2]), Side(frame, B(k)), Raw(frame, B(k), k[2]))
  <2>1. regs'[t][w].roundtrip[k] = Roundtrip(q[k], tile[t].pos[k[1]].side, RawAt(t, k))
    BY <1>6, <1>9
  <2>2. q[k] = Luma(frame, B(k), k[2])
    BY <1>5
  <2>3. tile[t].pos[k[1]].side = Side(frame, B(k)) /\ RawAt(t, k) = Raw(frame, B(k), k[2])
    BY <1>1, AcCellIs
  <2> QED BY <2>1, <2>2, <2>3, Zenon
<1> DEFINE d == Stored(q)
           plane == WithPlane(out.ac[1], t, w, d)
<1>a. DOMAIN d = AcCells(t, w) /\ \A k \in AcCells(t, w) : d[k] = StoredLuma(frame, B(k), k[2])
  <2>1. d = [k \in DOMAIN q |-> Narrowed(q[k])]
    BY TabulatedIs DEF Stored
  <2> HIDE DEF B
  <2>2. \A k \in AcCells(t, w) : q[k] = Luma(frame, B(k), k[2])
    BY <1>5
  <2> HIDE DEF d
  <2>3. DOMAIN d = AcCells(t, w) /\ \A k \in AcCells(t, w) : d[k] = Narrowed(q[k])
    BY <1>6, <2>1
  <2> QED BY <2>2, <2>3, Zenon DEF StoredLuma
<1>11. DOMAIN out.ac[1] = PlaneSlots /\ DOMAIN out.dc = Blocks(frame)
  <2>1. 1 \in Channel
    BY DEF Channel
  <2> QED BY <1>1, <2>1 DEF OutTabled, Table
<1>12. /\ Table(plane, PlaneSlots)
       /\ \A b \in Blocks(frame), slot \in Slot :
            plane[b * Slots + slot] =
              IF TileOf(frame, b) = t /\ QuantizerOf(frame, b) = w
              THEN IF Corner(frame, b, slot) THEN 0 ELSE d[<<PosOf(frame, b), slot>>]
              ELSE out.ac[1][b * Slots + slot]
  <2>1. 1 \in Channel
    BY DEF Channel
  <2> HIDE DEF d
  <2> QED BY <1>1, <1>a, <2>1, PlaneOfIs
<1>13. /\ OutTabled' /\ out'.maps = out.maps /\ out'.dc = dc
       /\ out'.ac[0] = out.ac[0] /\ out'.ac[1] = plane /\ out'.ac[2] = out.ac[2]
  <2>1. out' = [out EXCEPT !.ac[1] = plane, !.dc = dc]
    BY <1>4, TabulatedIs
  <2>2. Table(dc, Blocks(frame))
    <3>1. dc = [b \in DOMAIN out.dc |-> dc[b]]
      OBVIOUS
    <3> HIDE DEF dc
    <3> QED BY <1>11, <3>1 DEF Table
  <2> HIDE DEF plane, dc
  <2> QED BY <1>1, <1>2, <1>12, <2>1, <2>2, OutWithLuma
<1>14. \A b \in Blocks(frame), slot \in Slot :
         plane[b * Slots + slot] =
           IF TileOf(frame, b) = t /\ QuantizerOf(frame, b) = w
           THEN IF Corner(frame, b, slot) THEN 0 ELSE StoredLuma(frame, b, slot)
           ELSE out.ac[1][b * Slots + slot]
  <2>1. ASSUME NEW b \in Blocks(frame), NEW slot \in Slot,
               TileOf(frame, b) = t, QuantizerOf(frame, b) = w, ~ Corner(frame, b, slot)
        PROVE  d[<<PosOf(frame, b), slot>>] = StoredLuma(frame, b, slot)
    <3>1. PosOf(frame, b) \in Quantizes(t, w) /\ BlockOf(frame, t, PosOf(frame, b)) = b
      BY <1>1, <2>1, SharesAre
    <3>2. <<PosOf(frame, b), slot>> \in AcCells(t, w)
      BY <2>1, <3>1 DEF AcCells
    <3> HIDE DEF d
    <3> QED BY <1>a, <3>1, <3>2
  <2> HIDE DEF plane, d
  <2> QED BY <1>12, <2>1
<1>15. ASSUME NEW b \in Blocks(frame)
       PROVE  dc[b] = IF TileOf(frame, b) = t /\ BandOf(frame, b) = w THEN SerialDc(frame, b) ELSE out.dc[b]
  <2>1. dc[b] = IF \E p \in Band(w) : InFrame(frame, t, p) /\ BlockOf(frame, t, p) = b
                THEN DcAt(t, P(b)) ELSE out.dc[b]
    BY <1>11
  <2> HIDE DEF dc
  <2>2. CASE TileOf(frame, b) = t /\ BandOf(frame, b) = w
    <3>1. /\ PosOf(frame, b) \in Band(w) /\ InFrame(frame, t, PosOf(frame, b))
          /\ BlockOf(frame, t, PosOf(frame, b)) = b
      BY <1>1, <2>2, SharesAre
    <3>2. \E p \in Band(w) : InFrame(frame, t, p) /\ BlockOf(frame, t, p) = b
      BY <3>1
    <3>3. P(b) \in Band(w) /\ InFrame(frame, t, P(b)) /\ BlockOf(frame, t, P(b)) = b
      BY <3>2, Zenon
    <3> HIDE DEF P
    <3>4. P(b) \in TilePos
      BY <3>3 DEF Band, TilePos
    <3>5. DcAt(t, P(b)) = SerialDc(frame, b)
      <4> DEFINE p == P(b)
      <4>1. p \in TilePos /\ InFrame(frame, t, p) /\ BlockOf(frame, t, p) = b
        BY <3>3, <3>4
      <4> HIDE DEF p
      <4>2. DcAt(t, p) = SerialDc(frame, b)
        BY <1>1, <4>1, DcAtIs
      <4> QED BY <4>2 DEF p
    <3> QED BY <2>1, <2>2, <3>2, <3>5
  <2>3. CASE ~ (TileOf(frame, b) = t /\ BandOf(frame, b) = w)
    <3>1. ~ \E p \in Band(w) : InFrame(frame, t, p) /\ BlockOf(frame, t, p) = b
      BY <1>1, <2>3, SharesAre
    <3> HIDE DEF P
    <3> QED BY <2>1, <2>3, <3>1
  <2> QED BY <2>2, <2>3
<1> HIDE DEF plane, dc, back
<1> QED BY <1>2, <1>3, <1>7, <1>8, <1>9, <1>10, <1>13, <1>14, <1>15

(* The first warp makes the maps of the warps' sums. *)
LEMMA MapDoes ==
  ASSUME Tabled, NEW t \in TilesOf(frame), NEW w \in Warp, MapColors(t, w),
         \A v \in Warp :
           tile[t].sums[v] = <<WarpSum(frame, t, v, 1), WarpSum(frame, t, v, 2), WarpSum(frame, t, v, 3)>>
  PROVE  /\ Moves(t, w, 2) /\ OnlyTile(t) /\ UNCHANGED <<frame, regs>> /\ OutTabled'
         /\ tile'[t].coeffs = tile[t].coeffs /\ tile'[t].pos = tile[t].pos /\ tile'[t].sums = tile[t].sums
         /\ out'.dc = out.dc /\ out'.ac = out.ac
         /\ \A s \in TilesOf(frame) : s # t => out'.maps[s] = out.maps[s]
         /\ IF w = 0 THEN tile'[t].maps = SerialMaps(frame, t) /\ out'.maps[t] = SerialMaps(frame, t)
            ELSE tile'[t].maps = tile[t].maps /\ out'.maps[t] = out.maps[t]
<1> DEFINE maps == MapsOf(tile[t].sums)
<1>1. frame \in Frames /\ OutTabled
  BY DEF Tabled
<1>2. PassesBarrier(t, w, 2) /\ ToNextBarrier(t, w) /\ UNCHANGED <<frame, regs>>
  BY DEF MapColors
<1>3. Moves(t, w, 2)
  BY <1>2, MovesIs
<1>4. IF w = 0 THEN tile' = [tile EXCEPT ![t].maps = maps] /\ out' = [out EXCEPT !.maps[t] = maps]
      ELSE UNCHANGED <<tile, out>>
  BY Zenon DEF MapColors, SumOver, MapsOf, Total
<1>5. maps = SerialMaps(frame, t)
  BY <1>1, MapsAre
<1> HIDE DEF maps
<1>6. Table(tile, TilesOf(frame)) /\ Table(tile[t], TileFields)
  BY DEF Tabled
<1>7. CASE w = 0
  <2> DEFINE T == TilesOf(frame)
             new == [tile EXCEPT ![t].maps = maps]
  <2>1. Table(tile, T) /\ t \in T /\ Table(tile[t], TileFields)
    BY <1>6
  <2>2. tile' = new
    BY <1>4, <1>7
  <2> HIDE DEF T
  <2>3. /\ Table(new, T) /\ \A s \in T : s # t => new[s] = tile[s]
        /\ Table(new[t], TileFields) /\ new[t].coeffs = tile[t].coeffs /\ new[t].pos = tile[t].pos
        /\ new[t].sums = tile[t].sums /\ new[t].maps = maps
    BY ONLY <2>1 DEF Table, TileFields
  <2> HIDE DEF new
  <2>4. /\ OnlyTile(t) /\ tile'[t].coeffs = tile[t].coeffs /\ tile'[t].pos = tile[t].pos
        /\ tile'[t].sums = tile[t].sums /\ tile'[t].maps = maps
    BY <2>2, <2>3 DEF T, OnlyTile
  <2>5. /\ OutTabled' /\ out'.dc = out.dc /\ out'.ac = out.ac
        /\ out'.maps[t] = maps /\ \A s \in TilesOf(frame) : s # t => out'.maps[s] = out.maps[s]
    <3>1. out' = [out EXCEPT !.maps[t] = maps]
      BY <1>4, <1>7
    <3> QED BY ONLY <1>1, <1>2, <3>1, t \in TilesOf(frame), OutWithMaps
  <2> QED BY <1>2, <1>3, <1>5, <1>7, <2>4, <2>5
<1>8. CASE w # 0
  <2>1. tile' = tile /\ out' = out
    BY <1>4, <1>8
  <2>2. OnlyTile(t)
    BY <1>6, <2>1 DEF OnlyTile
  <2>3. OutTabled'
    BY <1>1, <1>2, <2>1 DEF OutTabled, PlaneSlots
  <2> QED BY <1>2, <1>3, <1>8, <2>1, <2>2, <2>3
<1> QED BY <1>7, <1>8

(* The counts leave the planes and what they are made of alone, but for    *)
(* the coefficients, whose buffer they reuse.                              *)
LEMMA CountsDo ==
  ASSUME Tabled, NEW t \in TilesOf(frame), NEW w \in Warp,
         WriteCounts(t, w) \/ CountOrders(t, w) \/ FlushOrders(t, w)
  PROVE  /\ Moves(t, w, 4) \/ Moves(t, w, 5) \/ Moves(t, w, 6)
         /\ OnlyTile(t) /\ UNCHANGED <<frame, regs>> /\ OutTabled'
         /\ tile'[t].pos = tile[t].pos /\ tile'[t].sums = tile[t].sums /\ tile'[t].maps = tile[t].maps
         /\ out'.dc = out.dc /\ out'.ac = out.ac /\ out'.maps = out.maps
<1> DEFINE T == TilesOf(frame)
<1>1. frame \in Frames /\ OutTabled
  BY DEF Tabled
<1>2. Table(tile, T) /\ t \in T /\ Table(tile[t], TileFields)
  BY DEF Tabled
<1>3. CASE WriteCounts(t, w)
  <2>1. PassesBarrier(t, w, 4) /\ ToNextBarrier(t, w) /\ UNCHANGED <<frame, regs>>
    BY <1>3 DEF WriteCounts
  <2>2. Moves(t, w, 4)
    BY <2>1, MovesIs
  <2>3. \E a, b : out' = [out EXCEPT !.nz_exact = a, !.nz_grid = b]
    BY <1>3, Zenon DEF WriteCounts
  <2>4. \E a, b : tile' = [tile EXCEPT ![t].stats = a, ![t].coeffs = b]
    BY <1>3, Zenon DEF WriteCounts
  <2>5. OutTabled' /\ out'.dc = out.dc /\ out'.ac = out.ac /\ out'.maps = out.maps
    BY <1>1, <2>1, <2>3, OutWithCounts
  <2>6. PICK a, b : tile' = [tile EXCEPT ![t].stats = a, ![t].coeffs = b]
    BY <2>4
  <2> DEFINE new == [tile EXCEPT ![t].stats = a, ![t].coeffs = b]
  <2> HIDE DEF T
  <2>7. /\ Table(new, T) /\ \A s \in T : s # t => new[s] = tile[s]
        /\ Table(new[t], TileFields) /\ new[t].pos = tile[t].pos
        /\ new[t].sums = tile[t].sums /\ new[t].maps = tile[t].maps
    BY ONLY <1>2 DEF Table, TileFields
  <2>8. tile' = new
    BY <2>6
  <2> HIDE DEF new
  <2> QED BY <2>1, <2>2, <2>5, <2>7, <2>8 DEF T, OnlyTile
<1>4. CASE CountOrders(t, w)
  <2>1. PassesBarrier(t, w, 5) /\ ToNextBarrier(t, w) /\ UNCHANGED <<frame, regs, out>>
    BY <1>4 DEF CountOrders
  <2>2. Moves(t, w, 5)
    BY <2>1, MovesIs
  <2>3. \E a : tile' = [tile EXCEPT ![t].stats = a]
    BY <1>4, Zenon DEF CountOrders
  <2>4. OutTabled'
    BY <1>1, <2>1 DEF OutTabled, PlaneSlots
  <2>5. PICK a : tile' = [tile EXCEPT ![t].stats = a]
    BY <2>3
  <2> DEFINE new == [tile EXCEPT ![t].stats = a]
  <2> HIDE DEF T
  <2>6. /\ Table(new, T) /\ \A s \in T : s # t => new[s] = tile[s]
        /\ Table(new[t], TileFields) /\ new[t].pos = tile[t].pos
        /\ new[t].sums = tile[t].sums /\ new[t].maps = tile[t].maps
    BY ONLY <1>2 DEF Table, TileFields
  <2>7. tile' = new
    BY <2>5
  <2> HIDE DEF new
  <2> QED BY <2>1, <2>2, <2>4, <2>6, <2>7 DEF T, OnlyTile
<1>5. CASE FlushOrders(t, w)
  <2>1. PassesBarrier(t, w, 6) /\ ToNextBarrier(t, w) /\ UNCHANGED <<frame, tile, regs>>
    BY <1>5 DEF FlushOrders
  <2>2. Moves(t, w, 6)
    BY <2>1, MovesIs
  <2>3. \E c : out' = [out EXCEPT !.order_stats = c]
    BY <1>5, Zenon DEF FlushOrders
  <2>4. OutTabled' /\ out'.dc = out.dc /\ out'.ac = out.ac /\ out'.maps = out.maps
    BY <1>1, <2>1, <2>3, OutWithCounts
  <2>5. OnlyTile(t)
    BY <1>2, <2>1 DEF OnlyTile
  <2> QED BY <2>1, <2>2, <2>4, <2>5
<1> QED BY <1>3, <1>4, <1>5

(* A warp quantizes chroma, and writes its share of the planes. *)
LEMMA ChromaDoes ==
  ASSUME Tabled, NEW t \in TilesOf(frame), NEW w \in Warp, QuantizeChroma(t, w), Loaded(t),
         tile[t].maps = SerialMaps(frame, t),
         \A k \in AcCells(t, w) :
           LET b == BlockOf(frame, t, k[1])
           IN  regs[t][w].roundtrip[k] = Roundtrip(Luma(frame, b, k[2]), Side(frame, b), Raw(frame, b, k[2]))
  PROVE  /\ Moves(t, w, 3) /\ OnlyTile(t) /\ frame' = frame /\ RegsTabled' /\ OutTabled'
         /\ tile'[t].coeffs = tile[t].coeffs /\ tile'[t].pos = tile[t].pos
         /\ tile'[t].sums = tile[t].sums /\ tile'[t].maps = tile[t].maps
         /\ regs'[t][w].roundtrip = regs[t][w].roundtrip
         /\ \A s \in TilesOf(frame), v \in Warp : s # t \/ v # w => regs'[s][v] = regs[s][v]
         /\ out'.maps = out.maps /\ out'.dc = out.dc /\ out'.ac[1] = out.ac[1]
         /\ \A c \in {0, 2} : \A b \in Blocks(frame), slot \in Slot :
              out'.ac[c][b * Slots + slot] =
                IF TileOf(frame, b) = t /\ QuantizerOf(frame, b) = w
                THEN IF Corner(frame, b, slot) THEN 0
                     ELSE Chroma(frame, SerialMaps(frame, t)[IF c = 0 THEN 1 ELSE 2], c, b, slot)
                ELSE out.ac[c][b * Slots + slot]
<1> DEFINE B(k) == BlockOf(frame, t, k[1])
           quantized(c, k) == QuantizedChroma(c, tile[t].coeffs[c][k[1] * Slots + k[2]], regs[t][w].roundtrip[k],
                                              tile[t].maps[IF c = 0 THEN 1 ELSE 2], tile[t].pos[k[1]].qf,
                                              tile[t].pos[k[1]].side, RawAt(t, k))
           q(c) == Tabulated([k \in AcSlots(t, w) |-> quantized(c, k)])
           map(c) == SerialMaps(frame, t)[IF c = 0 THEN 1 ELSE 2]
<1>1. frame \in Frames /\ OutTabled /\ RegsTabled
  BY DEF Tabled
<1>2. PassesBarrier(t, w, 3) /\ ToNextBarrier(t, w) /\ frame' = frame
  BY DEF QuantizeChroma
<1>3. Moves(t, w, 3)
  BY <1>2, MovesIs
<1>4. /\ \E a, b : tile' = [tile EXCEPT ![t].nz[0] = a, ![t].nz[2] = b]
      /\ \E n : regs' = [regs EXCEPT ![t][w].nonzero = n]
      /\ out' = [out EXCEPT !.ac[0] = WithPlane(out.ac[0], t, w, q(0)),
                            !.ac[2] = WithPlane(out.ac[2], t, w, q(2))]
  <2>1. \E x \in {q(0)}, b \in {q(2)} :
          /\ tile' = [tile EXCEPT ![t].nz[0] = Counted(tile[t].nz[0], t, NonzeroAt(x)),
                                  ![t].nz[2] = Counted(tile[t].nz[2], t, NonzeroAt(b))]
          /\ regs' = [regs EXCEPT ![t][w].nonzero =
                regs[t][w].nonzero \cup {<<0, k>> : k \in NonzeroAt(x)} \cup {<<2, k>> : k \in NonzeroAt(b)}]
          /\ out' = [out EXCEPT !.ac[0] = WithPlane(out.ac[0], t, w, x),
                                !.ac[2] = WithPlane(out.ac[2], t, w, b)]
    BY Zenon DEF QuantizeChroma
  <2> HIDE DEF q
  <2> QED BY <2>1, Zenon
<1>5. ASSUME NEW c \in {0, 2} PROVE q(c) = [k \in AcCells(t, w) |-> Chroma(frame, map(c), c, B(k), k[2])]
  <2>1. q(c) = [k \in AcCells(t, w) |-> quantized(c, k)]
    BY <1>1, TabulatedIs, AcSlotsAre
  <2>2. ASSUME NEW k \in AcCells(t, w) PROVE quantized(c, k) = Chroma(frame, map(c), c, B(k), k[2])
    <3>1. c \in Channel
      BY DEF Channel
    <3>2. /\ tile[t].coeffs[c][k[1] * Slots + k[2]] = Value(frame, c, B(k), k[2])
          /\ tile[t].pos[k[1]].qf = frame.qf[Owner(frame, B(k))] /\ tile[t].pos[k[1]].side = Side(frame, B(k))
          /\ RawAt(t, k) = Raw(frame, B(k), k[2])
      BY <1>1, <3>1, AcCellIs
    <3>3. regs[t][w].roundtrip[k] = Roundtrip(Luma(frame, B(k), k[2]), Side(frame, B(k)), Raw(frame, B(k), k[2]))
      OBVIOUS
    <3> QED BY <3>2, <3>3, Zenon DEF Chroma
  <2> HIDE DEF quantized, B, map, q
  <2> QED BY <2>1, <2>2
<1>6. /\ OnlyTile(t) /\ tile'[t].coeffs = tile[t].coeffs /\ tile'[t].pos = tile[t].pos
      /\ tile'[t].maps = tile[t].maps /\ tile'[t].sums = tile[t].sums
  <2>1. PICK a, b : tile' = [tile EXCEPT ![t].nz[0] = a, ![t].nz[2] = b]
    BY <1>4
  <2> DEFINE T == TilesOf(frame)
             new == [tile EXCEPT ![t].nz[0] = a, ![t].nz[2] = b]
  <2>2. Table(tile, T) /\ t \in T /\ Table(tile[t], TileFields)
    BY DEF Tabled
  <2>3. tile' = new
    BY <2>1
  <2> HIDE DEF T
  <2>4. /\ Table(new, T) /\ \A s \in T : s # t => new[s] = tile[s]
        /\ Table(new[t], TileFields) /\ new[t].coeffs = tile[t].coeffs /\ new[t].pos = tile[t].pos
        /\ new[t].maps = tile[t].maps /\ new[t].sums = tile[t].sums
    BY ONLY <2>2 DEF Table, TileFields
  <2> HIDE DEF new
  <2> QED BY <2>3, <2>4 DEF T, OnlyTile
<1>7. /\ RegsTabled' /\ regs'[t][w].roundtrip = regs[t][w].roundtrip
      /\ \A s \in TilesOf(frame), v \in Warp : s # t \/ v # w => regs'[s][v] = regs[s][v]
  <2>1. PICK n : regs' = [regs EXCEPT ![t][w].nonzero = n]
    BY <1>4
  <2> DEFINE T == TilesOf(frame)
             new == [regs EXCEPT ![t][w].nonzero = n]
  <2>2. /\ Table(regs, T) /\ t \in T
        /\ \A s \in T : Table(regs[s], Warp) /\ \A v \in Warp : Table(regs[s][v], RegsFields)
    BY <1>1 DEF RegsTabled
  <2>3. T = TilesOf(frame')
    BY <1>2
  <2>4. regs' = new
    BY <2>1
  <2> HIDE DEF T
  <2> DEFINE r == [regs[t][w] EXCEPT !.nonzero = n]
             row == [regs[t] EXCEPT ![w] = r]
  <2>5. Table(r, RegsFields) /\ r.roundtrip = regs[t][w].roundtrip
    <3> DEFINE old == regs[t][w]
    <3>1. Table(old, RegsFields)
      BY <2>2
    <3> HIDE DEF old
    <3>2. [old EXCEPT !.nonzero = n] = [x \in RegsFields |-> IF x = "nonzero" THEN n ELSE old[x]]
      BY ONLY <3>1 DEF Table, RegsFields
    <3>3. Table([old EXCEPT !.nonzero = n], RegsFields) /\ [old EXCEPT !.nonzero = n].roundtrip = old.roundtrip
      BY ONLY <3>2 DEF Table, RegsFields
    <3> QED BY <3>3, Zenon DEF old
  <2>6. new = [regs EXCEPT ![t] = row]
    BY Zenon
  <2> HIDE DEF r, new
  <2>7. /\ Table(row, Warp) /\ row[w] = r /\ \A v \in Warp : v # w => row[v] = regs[t][v]
    BY ONLY <2>2, w \in Warp DEF Table
  <2> HIDE DEF row
  <2>8. Table(new, T) /\ new[t] = row /\ \A s \in T : s # t => new[s] = regs[s]
    BY ONLY <2>2, <2>6 DEF Table
  <2>9. /\ Table(new, T) /\ \A s \in T : Table(new[s], Warp) /\ \A v \in Warp : Table(new[s][v], RegsFields)
        /\ new[t][w].roundtrip = regs[t][w].roundtrip
        /\ \A s \in T, v \in Warp : s # t \/ v # w => new[s][v] = regs[s][v]
    BY ONLY <2>2, <2>5, <2>7, <2>8, w \in Warp
  <2>10. RegsTabled'
    BY <2>3, <2>4, <2>9 DEF RegsTabled
  <2> QED BY <2>4, <2>9, <2>10 DEF T
<1> DEFINE plane(c) == WithPlane(out.ac[c], t, w, q(c))
<1>8. ASSUME NEW c \in {0, 2}
      PROVE  /\ Table(plane(c), PlaneSlots)
             /\ \A b \in Blocks(frame), slot \in Slot :
                  plane(c)[b * Slots + slot] =
                    IF TileOf(frame, b) = t /\ QuantizerOf(frame, b) = w
                    THEN IF Corner(frame, b, slot) THEN 0 ELSE Chroma(frame, map(c), c, b, slot)
                    ELSE out.ac[c][b * Slots + slot]
  <2> DEFINE x == q(c)
  <2>1. x = [k \in AcCells(t, w) |-> Chroma(frame, map(c), c, B(k), k[2])]
    BY <1>5
  <2>2. c \in Channel
    BY DEF Channel
  <2> HIDE DEF x, map
  <2>3. DOMAIN x = AcCells(t, w)
    BY <2>1
  <2>4. /\ Table(WithPlane(out.ac[c], t, w, x), PlaneSlots)
        /\ \A b \in Blocks(frame), slot \in Slot :
             WithPlane(out.ac[c], t, w, x)[b * Slots + slot] =
               IF TileOf(frame, b) = t /\ QuantizerOf(frame, b) = w
               THEN IF Corner(frame, b, slot) THEN 0 ELSE x[<<PosOf(frame, b), slot>>]
               ELSE out.ac[c][b * Slots + slot]
    BY <1>1, <2>2, <2>3, PlaneOfIs
  <2>5. ASSUME NEW b \in Blocks(frame), NEW slot \in Slot,
               TileOf(frame, b) = t, QuantizerOf(frame, b) = w, ~ Corner(frame, b, slot)
        PROVE  x[<<PosOf(frame, b), slot>>] = Chroma(frame, map(c), c, b, slot)
    <3>1. PosOf(frame, b) \in Quantizes(t, w) /\ BlockOf(frame, t, PosOf(frame, b)) = b
      BY <1>1, <2>5, SharesAre
    <3>2. <<PosOf(frame, b), slot>> \in AcCells(t, w)
      BY <2>5, <3>1 DEF AcCells
    <3> QED BY <2>1, <3>1, <3>2
  <2> DEFINE new == WithPlane(out.ac[c], t, w, x)
  <2>6. new = plane(c)
    BY DEF x
  <2>7. /\ Table(new, PlaneSlots)
        /\ \A b \in Blocks(frame), slot \in Slot :
             new[b * Slots + slot] =
               IF TileOf(frame, b) = t /\ QuantizerOf(frame, b) = w
               THEN IF Corner(frame, b, slot) THEN 0 ELSE Chroma(frame, map(c), c, b, slot)
               ELSE out.ac[c][b * Slots + slot]
    <3> HIDE DEF new
    <3> QED BY <2>4, <2>5 DEF new
  <2> HIDE DEF new, plane
  <2> QED BY <2>6, <2>7
<1>9. /\ OutTabled' /\ out'.maps = out.maps /\ out'.dc = out.dc
      /\ out'.ac[0] = plane(0) /\ out'.ac[1] = out.ac[1] /\ out'.ac[2] = plane(2)
  <2> DEFINE a == plane(0)
             b == plane(2)
  <2>1. out' = [out EXCEPT !.ac[0] = a, !.ac[2] = b]
    BY <1>4
  <2>2. Table(a, PlaneSlots) /\ Table(b, PlaneSlots)
    <3> HIDE DEF plane
    <3> QED BY <1>8
  <2> HIDE DEF a, b
  <2>3. /\ OutTabled' /\ out'.maps = out.maps /\ out'.dc = out.dc
        /\ out'.ac[0] = a /\ out'.ac[1] = out.ac[1] /\ out'.ac[2] = b
    BY ONLY <1>1, <1>2, <2>1, <2>2, OutWithChroma
  <2> QED BY <2>3 DEF a, b
<1>10. \A c \in {0, 2} : out'.ac[c] = plane(c)
  <2> HIDE DEF plane
  <2> QED BY <1>9
<1>11. \A c \in {0, 2} : \A b \in Blocks(frame), slot \in Slot :
         out'.ac[c][b * Slots + slot] =
           IF TileOf(frame, b) = t /\ QuantizerOf(frame, b) = w
           THEN IF Corner(frame, b, slot) THEN 0 ELSE Chroma(frame, map(c), c, b, slot)
           ELSE out.ac[c][b * Slots + slot]
  <2> HIDE DEF plane, map
  <2> QED BY <1>8, <1>10
<1> HIDE DEF plane, q
<1> QED BY <1>2, <1>3, <1>6, <1>7, <1>9, <1>11

---------------------------------------------------------------------------
(* The inductive invariant: what a warp's place between the barriers says  *)
(* of the shared memory of its tile and of the frame it writes.            *)

Barriers == \A t \in TilesOf(frame), v \in Warp, w \in Warp : region[t][v] <= region[t][w] + 1

(* Until a warp reuses the buffer, it holds what the warps have staged.    *)
StagedSoFar(t) ==
  (\A w \in Warp : region[t][w] <= 4) =>
    \A c \in Channel, at \in 0 .. TileSlots - 1 :
      region[t][Stages(c, at)] >= 1 => tile[t].coeffs[c][at] = Staged(frame, t, c, at)

PlacedSoFar(t) ==
  \A w \in Warp, p \in TilePos : region[t][w] >= 1 /\ p \in Band(w) => tile[t].pos[p] = Position(frame, t, p)

SummedSoFar(t) ==
  \A w \in Warp : region[t][w] >= 2 =>
    tile[t].sums[w] = <<WarpSum(frame, t, w, 1), WarpSum(frame, t, w, 2), WarpSum(frame, t, w, 3)>>

MappedSoFar(t) ==
  region[t][0] >= 3 => tile[t].maps = SerialMaps(frame, t) /\ out.maps[t] = SerialMaps(frame, t)

(* The value the decoder makes of a cell's luma. *)
Back(f, b, slot) == Roundtrip(Luma(f, b, slot), Side(f, b), Raw(f, b, slot))

KeptSoFar(t) ==
  \A w \in Warp : region[t][w] >= 2 =>
    \A k \in AcCells(t, w) : regs[t][w].roundtrip[k] = Back(frame, BlockOf(frame, t, k[1]), k[2])

TileInv(t) == StagedSoFar(t) /\ PlacedSoFar(t) /\ SummedSoFar(t) /\ MappedSoFar(t) /\ KeptSoFar(t)

DcWritten ==
  \A b \in Blocks(frame) :
    region[TileOf(frame, b)][BandOf(frame, b)] >= 2 => out.dc[b] = SerialDc(frame, b)

LumaWritten ==
  \A b \in Blocks(frame), slot \in Slot :
    region[TileOf(frame, b)][QuantizerOf(frame, b)] >= 2 =>
      out.ac[1][b * Slots + slot] = IF Corner(frame, b, slot) THEN 0 ELSE StoredLuma(frame, b, slot)

ChromaOf(f, c, b, slot) == Chroma(f, SerialMaps(f, TileOf(f, b))[IF c = 0 THEN 1 ELSE 2], c, b, slot)

ChromaWritten ==
  \A c \in {0, 2} : \A b \in Blocks(frame), slot \in Slot :
    region[TileOf(frame, b)][QuantizerOf(frame, b)] >= 4 =>
      out.ac[c][b * Slots + slot] = IF Corner(frame, b, slot) THEN 0 ELSE ChromaOf(frame, c, b, slot)

Inv ==
  /\ Tabled /\ Barriers /\ \A t \in TilesOf(frame) : TileInv(t)
  /\ DcWritten /\ LumaWritten /\ ChromaWritten

(* What depends on the frame only stays. *)
LEMMA SameFrame ==
  ASSUME frame' = frame
  PROVE  \A t, w : AcCells(t, w)' = AcCells(t, w)
BY DEF AcCells, Quantizes

(* A step of a warp keeps the warps of a tile within one barrier. *)
LEMMA BarriersStay ==
  ASSUME Tabled, Barriers, frame' = frame, NEW t \in TilesOf(frame), NEW w \in Warp, NEW r \in 0 .. 6,
         Moves(t, w, r)
  PROVE  /\ Barriers'
         /\ \A s \in TilesOf(frame), v \in Warp :
              /\ region[s][v] \in 0 .. 7 /\ region'[s][v] \in 0 .. 7
              /\ region[s][v] <= region'[s][v]
              /\ s # t \/ v # w => region'[s][v] = region[s][v]
<1>1. /\ region \in [TilesOf(frame) -> [Warp -> 0 .. 7]] /\ region' \in [TilesOf(frame) -> [Warp -> 0 .. 7]]
      /\ region[t][w] = r /\ region'[t][w] = r + 1 /\ \A v \in Warp : region[t][v] >= r
      /\ \A s \in TilesOf(frame), v \in Warp : s # t \/ v # w => region'[s][v] = region[s][v]
  BY DEF Tabled, Moves
<1>2. \A s \in TilesOf(frame), v \in Warp :
        /\ region[s][v] \in 0 .. 7 /\ region'[s][v] \in 0 .. 7 /\ region[s][v] <= region'[s][v]
  BY <1>1
<1>3. ASSUME NEW s \in TilesOf(frame), NEW u \in Warp, NEW v \in Warp
      PROVE  region'[s][u] <= region'[s][v] + 1
  <2>1. region[s][u] <= region[s][v] + 1
    BY DEF Barriers
  <2> QED BY <1>1, <1>2, <2>1
<1>4. Barriers'
  BY <1>3 DEF Barriers
<1> QED BY <1>1, <1>2, <1>4

(* Between their first barrier and the reuse of the buffer, all the warps  *)
(* of a tile read what they staged.                                        *)
LEMMA LoadedIs ==
  ASSUME Tabled, Barriers, NEW t \in TilesOf(frame), TileInv(t), NEW w \in Warp, region[t][w] \in 1 .. 3,
         \A v \in Warp : region[t][v] >= region[t][w]
  PROVE  Loaded(t)
<1>1. \A v \in Warp : region[t][v] \in 0 .. 7 /\ region[t][v] <= 4 /\ region[t][v] >= 1
  BY DEF Tabled, Barriers
<1>2. \A c \in Channel, at \in 0 .. TileSlots - 1 : tile[t].coeffs[c][at] = Staged(frame, t, c, at)
  BY <1>1, WarpsAre DEF TileInv, StagedSoFar
<1>3. ASSUME NEW p \in TilePos PROVE tile[t].pos[p] = Position(frame, t, p)
  <2>1. PICK v \in Warp : v = (p \div TileSide) \div BandRows
    BY WarpsAre
  <2>2. p \in Band(v)
    BY <2>1 DEF Band, TilePos
  <2> QED BY <1>1, <2>2 DEF TileInv, PlacedSoFar
<1> QED BY <1>2, <1>3 DEF Loaded

(* What the variables hold after a step of a warp. *)
LEMMA TabledAfter ==
  ASSUME Tabled, frame' = frame, NEW t \in TilesOf(frame), NEW w \in Warp, NEW r \in 0 .. 6, Moves(t, w, r),
         OnlyTile(t), DOMAIN tile'[t].pos = TilePos, Table(tile'[t].sums, Warp), RegsTabled', OutTabled'
  PROVE  Tabled'
<1>1. \A s \in TilesOf(frame) : /\ Table(tile'[s], TileFields)
                                /\ DOMAIN tile'[s].pos = TilePos /\ Table(tile'[s].sums, Warp)
  BY DEF Tabled, OnlyTile
<1>2. /\ frame \in Frames /\ region' \in [TilesOf(frame) -> [Warp -> 0 .. 7]]
      /\ Table(tile', TilesOf(frame))
  BY DEF Tabled, OnlyTile, Moves
<1> QED BY <1>1, <1>2 DEF Tabled

(* A step in one tile leaves the others alone. *)
LEMMA OtherTiles ==
  ASSUME frame' = frame, NEW s, TileInv(s), tile'[s] = tile[s], out'.maps[s] = out.maps[s], 0 \in Warp,
         \A v \in Warp : region'[s][v] = region[s][v] /\ regs'[s][v] = regs[s][v],
         \A c \in Channel, at \in 0 .. TileSlots - 1 : Stages(c, at) \in Warp
  PROVE  TileInv(s)'
<1>1. StagedSoFar(s)'
  BY DEF TileInv, StagedSoFar
<1>2. PlacedSoFar(s)'
  BY DEF TileInv, PlacedSoFar
<1>3. SummedSoFar(s)'
  BY DEF TileInv, SummedSoFar
<1>4. MappedSoFar(s)'
  BY DEF TileInv, MappedSoFar
<1>5. KeptSoFar(s)'
  BY SameFrame DEF TileInv, KeptSoFar
<1> QED BY <1>1, <1>2, <1>3, <1>4, <1>5 DEF TileInv

(* The warps that write a block. *)
LEMMA WritersAre ==
  ASSUME frame \in Frames, NEW b \in Blocks(frame)
  PROVE  TileOf(frame, b) \in TilesOf(frame) /\ BandOf(frame, b) \in Warp /\ QuantizerOf(frame, b) \in Warp
BY BlockInTile, WarpsAre DEF BandOf, QuantizerOf

(* What a step leaves of the planes, or writes to them at its turn.        *)
LEMMA DcStays ==
  ASSUME Tabled, Barriers, DcWritten, frame' = frame, NEW t \in TilesOf(frame), NEW w \in Warp, NEW r \in 0 .. 6,
         Moves(t, w, r),
         \A b \in Blocks(frame) :
           out'.dc[b] = IF r = 1 /\ TileOf(frame, b) = t /\ BandOf(frame, b) = w THEN SerialDc(frame, b)
                        ELSE out.dc[b]
  PROVE  DcWritten'
<1> SUFFICES ASSUME NEW b \in Blocks(frame), region'[TileOf(frame, b)][BandOf(frame, b)] >= 2
             PROVE  out'.dc[b] = SerialDc(frame, b)
  BY DEF DcWritten
<1>1. frame \in Frames
  BY DEF Tabled
<1>2. TileOf(frame, b) \in TilesOf(frame) /\ BandOf(frame, b) \in Warp
  BY <1>1, WritersAre
<1>3. CASE r = 1 /\ TileOf(frame, b) = t /\ BandOf(frame, b) = w
  BY <1>3
<1>4. CASE ~ (r = 1 /\ TileOf(frame, b) = t /\ BandOf(frame, b) = w)
  <2>1. region[TileOf(frame, b)][BandOf(frame, b)] >= 2
    <3>1. region[t][w] = r /\ region'[t][w] = r + 1
      BY DEF Moves
    <3> DEFINE s == TileOf(frame, b)
               v == BandOf(frame, b)
    <3>2. s # t \/ v # w => region'[s][v] = region[s][v]
      BY <1>2 DEF Moves
    <3> QED BY <1>4, <3>1, <3>2
  <2> QED BY <1>4, <2>1 DEF DcWritten
<1> QED BY <1>3, <1>4

LEMMA LumaStays ==
  ASSUME Tabled, Barriers, LumaWritten, frame' = frame, NEW t \in TilesOf(frame), NEW w \in Warp, NEW r \in 0 .. 6,
         Moves(t, w, r),
         \A b \in Blocks(frame), slot \in Slot :
           out'.ac[1][b * Slots + slot] =
             IF r = 1 /\ TileOf(frame, b) = t /\ QuantizerOf(frame, b) = w
             THEN IF Corner(frame, b, slot) THEN 0 ELSE StoredLuma(frame, b, slot)
             ELSE out.ac[1][b * Slots + slot]
  PROVE  LumaWritten'
<1> SUFFICES ASSUME NEW b \in Blocks(frame), NEW slot \in Slot,
                    region'[TileOf(frame, b)][QuantizerOf(frame, b)] >= 2
             PROVE  out'.ac[1][b * Slots + slot] = IF Corner(frame, b, slot) THEN 0 ELSE StoredLuma(frame, b, slot)
  BY DEF LumaWritten
<1>1. frame \in Frames
  BY DEF Tabled
<1>2. TileOf(frame, b) \in TilesOf(frame) /\ QuantizerOf(frame, b) \in Warp
  BY <1>1, WritersAre
<1>3. CASE r = 1 /\ TileOf(frame, b) = t /\ QuantizerOf(frame, b) = w
  BY <1>3
<1>4. CASE ~ (r = 1 /\ TileOf(frame, b) = t /\ QuantizerOf(frame, b) = w)
  <2>1. region[TileOf(frame, b)][QuantizerOf(frame, b)] >= 2
    <3>1. region[t][w] = r /\ region'[t][w] = r + 1
      BY DEF Moves
    <3> DEFINE s == TileOf(frame, b)
               v == QuantizerOf(frame, b)
    <3>2. s # t \/ v # w => region'[s][v] = region[s][v]
      BY <1>2 DEF Moves
    <3> QED BY <1>4, <3>1, <3>2
  <2> QED BY <1>4, <2>1 DEF LumaWritten
<1> QED BY <1>3, <1>4

LEMMA ChromaStays ==
  ASSUME Tabled, Barriers, ChromaWritten, frame' = frame, NEW t \in TilesOf(frame), NEW w \in Warp, NEW r \in 0 .. 6,
         Moves(t, w, r),
         \A c \in {0, 2} : \A b \in Blocks(frame), slot \in Slot :
           out'.ac[c][b * Slots + slot] =
             IF r = 3 /\ TileOf(frame, b) = t /\ QuantizerOf(frame, b) = w
             THEN IF Corner(frame, b, slot) THEN 0 ELSE ChromaOf(frame, c, b, slot)
             ELSE out.ac[c][b * Slots + slot]
  PROVE  ChromaWritten'
<1> SUFFICES ASSUME NEW c \in {0, 2}, NEW b \in Blocks(frame), NEW slot \in Slot,
                    region'[TileOf(frame, b)][QuantizerOf(frame, b)] >= 4
             PROVE  out'.ac[c][b * Slots + slot] = IF Corner(frame, b, slot) THEN 0 ELSE ChromaOf(frame, c, b, slot)
  BY DEF ChromaWritten
<1>1. frame \in Frames
  BY DEF Tabled
<1>2. TileOf(frame, b) \in TilesOf(frame) /\ QuantizerOf(frame, b) \in Warp
  BY <1>1, WritersAre
<1>3. CASE r = 3 /\ TileOf(frame, b) = t /\ QuantizerOf(frame, b) = w
  BY <1>3
<1>4. CASE ~ (r = 3 /\ TileOf(frame, b) = t /\ QuantizerOf(frame, b) = w)
  <2>1. region[TileOf(frame, b)][QuantizerOf(frame, b)] >= 4
    <3>1. region[t][w] = r /\ region'[t][w] = r + 1
      BY DEF Moves
    <3> DEFINE s == TileOf(frame, b)
               v == QuantizerOf(frame, b)
    <3>2. s # t \/ v # w => region'[s][v] = region[s][v]
      BY <1>2 DEF Moves
    <3> QED BY <1>4, <3>1, <3>2
  <2> QED BY <1>4, <2>1 DEF ChromaWritten
<1> QED BY <1>3, <1>4

(* The step of a warp that stages. *)
LEMMA LoadKeeps ==
  ASSUME Inv, NEW t \in TilesOf(frame), NEW w \in Warp, LoadTile(t, w)
  PROVE  Inv'
<1>1. Tabled /\ Barriers /\ frame \in Frames /\ TileInv(t) /\ \A s \in TilesOf(frame) : TileInv(s)
  BY DEF Inv, Tabled
<1>2. /\ Moves(t, w, 0) /\ OnlyTile(t) /\ frame' = frame /\ regs' = regs /\ out' = out
      /\ \A c \in Channel, at \in 0 .. TileSlots - 1 :
           tile'[t].coeffs[c][at] = IF Stages(c, at) # w THEN tile[t].coeffs[c][at] ELSE Staged(frame, t, c, at)
      /\ DOMAIN tile'[t].pos = TilePos
      /\ \A p \in TilePos : tile'[t].pos[p] = IF p \in Band(w) THEN Position(frame, t, p) ELSE tile[t].pos[p]
      /\ tile'[t].sums = tile[t].sums /\ tile'[t].maps = tile[t].maps
  BY <1>1, LoadDoes
<1>3. 0 \in 0 .. 6 /\ 0 \in Warp
  BY Constants DEF Warp
<1>4. RegsTabled' /\ OutTabled' /\ Table(tile'[t].sums, Warp)
  BY <1>1, <1>2 DEF Tabled, RegsTabled, OutTabled, PlaneSlots
<1>5. Tabled'
  BY <1>1, <1>2, <1>3, <1>4, TabledAfter
<1>6. /\ Barriers'
      /\ \A s \in TilesOf(frame), v \in Warp :
           /\ region[s][v] \in 0 .. 7 /\ region'[s][v] \in 0 .. 7 /\ region[s][v] <= region'[s][v]
           /\ s # t \/ v # w => region'[s][v] = region[s][v]
  BY <1>1, <1>2, <1>3, BarriersStay
<1>7. region[t][w] = 0 /\ region'[t][w] = 1
  BY <1>2 DEF Moves
<1>8. StagedSoFar(t)'
  <2> SUFFICES ASSUME \A v \in Warp : region'[t][v] <= 4,
                      NEW c \in Channel, NEW at \in 0 .. TileSlots - 1, region'[t][Stages(c, at)] >= 1
               PROVE  tile'[t].coeffs[c][at] = Staged(frame, t, c, at)
    BY <1>2 DEF StagedSoFar
  <2>1. \A v \in Warp : region[t][v] <= 4
    BY <1>6
  <2>2. Stages(c, at) \in Warp
    BY WarpsAre
  <2>3. Stages(c, at) # w => region[t][Stages(c, at)] >= 1
    BY <1>6, <2>2
  <2>4. Stages(c, at) # w => tile[t].coeffs[c][at] = Staged(frame, t, c, at)
    BY <1>1, <2>1, <2>3 DEF TileInv, StagedSoFar
  <2> QED BY <1>2, <2>4
<1>9. PlacedSoFar(t)'
  <2> SUFFICES ASSUME NEW v \in Warp, NEW p \in TilePos, region'[t][v] >= 1, p \in Band(v)
               PROVE  tile'[t].pos[p] = Position(frame, t, p)
    BY <1>2 DEF PlacedSoFar
  <2>1. v # w => region[t][v] >= 1
    BY <1>6
  <2>2. v # w => tile[t].pos[p] = Position(frame, t, p)
    BY <1>1, <2>1 DEF TileInv, PlacedSoFar
  <2> QED BY <1>2, <2>2
<1>10. \A v \in Warp, n \in 2 .. 7 : region'[t][v] >= n => region[t][v] >= n
  BY <1>6, <1>7
<1>11. SummedSoFar(t)'
  BY <1>1, <1>2, <1>10 DEF TileInv, SummedSoFar
<1>12. MappedSoFar(t)'
  BY <1>1, <1>2, <1>3, <1>10 DEF TileInv, MappedSoFar
<1>13. KeptSoFar(t)'
  BY <1>1, <1>2, <1>10, SameFrame DEF TileInv, KeptSoFar
<1>14. \A s \in TilesOf(frame) : TileInv(s)'
  <2>1. TileInv(t)'
    BY <1>8, <1>9, <1>11, <1>12, <1>13 DEF TileInv
  <2>2. ASSUME NEW s \in TilesOf(frame), s # t PROVE TileInv(s)'
    <3>1. tile'[s] = tile[s] /\ out'.maps[s] = out.maps[s]
      BY <1>2, <2>2 DEF OnlyTile
    <3>2. \A v \in Warp : region'[s][v] = region[s][v] /\ regs'[s][v] = regs[s][v]
      BY <1>2, <1>6, <2>2
    <3> QED BY <1>1, <1>2, <1>3, <3>1, <3>2, WarpsAre, OtherTiles
  <2> QED BY <2>1, <2>2
<1>15. DcWritten'
  BY <1>1, <1>2, <1>3, DcStays DEF Inv
<1>16. LumaWritten'
  BY <1>1, <1>2, <1>3, LumaStays DEF Inv
<1>17. ChromaWritten'
  BY <1>1, <1>2, <1>3, ChromaStays DEF Inv
<1> QED BY <1>2, <1>5, <1>6, <1>14, <1>15, <1>16, <1>17 DEF Inv

(* Once staged, a tile stays as it is until its buffer is reused. *)
LEMMA StagedStays ==
  ASSUME Tabled, Barriers, frame' = frame, NEW t \in TilesOf(frame), NEW w \in Warp, NEW r \in 1 .. 6,
         Moves(t, w, r), TileInv(t), tile'[t].pos = tile[t].pos,
         r <= 3 => tile'[t].coeffs = tile[t].coeffs
  PROVE  StagedSoFar(t)' /\ PlacedSoFar(t)'
<1>1. r \in 0 .. 6
  OBVIOUS
<1>2. \A s \in TilesOf(frame), v \in Warp :
        /\ region[s][v] \in 0 .. 7 /\ region'[s][v] \in 0 .. 7 /\ region[s][v] <= region'[s][v]
        /\ s # t \/ v # w => region'[s][v] = region[s][v]
  BY <1>1, BarriersStay
<1>3. region[t][w] = r /\ region'[t][w] = r + 1
  BY DEF Moves
<1>4. \A v \in Warp : region'[t][v] >= 1 => region[t][v] >= 1
  BY <1>2, <1>3
<1>5. StagedSoFar(t)'
  <2> SUFFICES ASSUME \A v \in Warp : region'[t][v] <= 4,
                      NEW c \in Channel, NEW at \in 0 .. TileSlots - 1, region'[t][Stages(c, at)] >= 1
               PROVE  tile'[t].coeffs[c][at] = Staged(frame, t, c, at)
    BY DEF StagedSoFar
  <2>1. \A v \in Warp : region[t][v] <= 4
    BY <1>2
  <2>2. region[t][Stages(c, at)] >= 1
    BY <1>4, WarpsAre
  <2>3. r <= 3
    BY <1>3
  <2> QED BY <2>1, <2>2, <2>3 DEF TileInv, StagedSoFar
<1>6. PlacedSoFar(t)'
  BY <1>4 DEF TileInv, PlacedSoFar
<1> QED BY <1>5, <1>6

(* A step keeps what is said of the tiles if it keeps what is said of its own. *)
LEMMA TilesStay ==
  ASSUME Tabled, Barriers, \A s \in TilesOf(frame) : TileInv(s), frame' = frame,
         NEW t \in TilesOf(frame), NEW w \in Warp, NEW r \in 0 .. 6, Moves(t, w, r), OnlyTile(t), TileInv(t)',
         \A s \in TilesOf(frame) : s # t => out'.maps[s] = out.maps[s],
         \A s \in TilesOf(frame), v \in Warp : s # t \/ v # w => regs'[s][v] = regs[s][v]
  PROVE  \A s \in TilesOf(frame) : TileInv(s)'
<1> SUFFICES ASSUME NEW s \in TilesOf(frame), s # t PROVE TileInv(s)'
  OBVIOUS
<1>1. tile'[s] = tile[s]
  BY DEF OnlyTile
<1>2. \A v \in Warp : region'[s][v] = region[s][v] /\ regs'[s][v] = regs[s][v]
  BY BarriersStay
<1>3. 0 \in Warp
  BY Constants DEF Warp
<1> QED BY <1>1, <1>2, <1>3, WarpsAre, OtherTiles

(* The step of a warp that quantizes luma. *)
LEMMA LumaKeeps ==
  ASSUME Inv, NEW t \in TilesOf(frame), NEW w \in Warp, QuantizeLuma(t, w)
  PROVE  Inv'
<1>1. Tabled /\ Barriers /\ frame \in Frames /\ TileInv(t) /\ \A s \in TilesOf(frame) : TileInv(s)
  BY DEF Inv, Tabled
<1>2. 1 \in 0 .. 6 /\ 1 \in 1 .. 6 /\ 0 \in Warp
  BY Constants DEF Warp
<1>3. Loaded(t)
  <2>1. region[t][w] = 1 /\ \A v \in Warp : region[t][v] >= 1
    BY DEF QuantizeLuma, PassesBarrier
  <2> QED BY <1>1, <2>1, LoadedIs
<1>4. /\ Moves(t, w, 1) /\ OnlyTile(t) /\ frame' = frame /\ RegsTabled' /\ OutTabled'
      /\ tile'[t].coeffs = tile[t].coeffs /\ tile'[t].pos = tile[t].pos /\ tile'[t].maps = tile[t].maps
      /\ Table(tile'[t].sums, Warp)
      /\ \A v \in Warp : tile'[t].sums[v] =
           IF v = w THEN <<WarpSum(frame, t, w, 1), WarpSum(frame, t, w, 2), WarpSum(frame, t, w, 3)>>
           ELSE tile[t].sums[v]
      /\ \A s \in TilesOf(frame), v \in Warp : s # t \/ v # w => regs'[s][v] = regs[s][v]
      /\ \A k \in AcCells(t, w) : regs'[t][w].roundtrip[k] = Back(frame, BlockOf(frame, t, k[1]), k[2])
      /\ out'.maps = out.maps /\ out'.ac[0] = out.ac[0] /\ out'.ac[2] = out.ac[2]
      /\ \A b \in Blocks(frame), slot \in Slot :
           out'.ac[1][b * Slots + slot] =
             IF TileOf(frame, b) = t /\ QuantizerOf(frame, b) = w
             THEN IF Corner(frame, b, slot) THEN 0 ELSE StoredLuma(frame, b, slot)
             ELSE out.ac[1][b * Slots + slot]
      /\ \A b \in Blocks(frame) :
           out'.dc[b] = IF TileOf(frame, b) = t /\ BandOf(frame, b) = w THEN SerialDc(frame, b) ELSE out.dc[b]
  BY <1>1, <1>3, LumaDoes DEF Back
<1>5. DOMAIN tile'[t].pos = TilePos
  BY <1>1, <1>4 DEF Tabled
<1>6. Tabled'
  BY <1>1, <1>2, <1>4, <1>5, TabledAfter
<1>7. /\ Barriers'
      /\ \A v \in Warp : region[t][v] \in 0 .. 7 /\ region'[t][v] \in 0 .. 7
                         /\ (v # w => region'[t][v] = region[t][v])
  BY <1>1, <1>2, <1>4, BarriersStay
<1>8. region[t][w] = 1 /\ region'[t][w] = 2
  BY <1>4 DEF Moves
<1>9. StagedSoFar(t)' /\ PlacedSoFar(t)'
  BY <1>1, <1>2, <1>4, StagedStays
<1>10. SummedSoFar(t)'
  <2> SUFFICES ASSUME NEW v \in Warp, region'[t][v] >= 2
               PROVE  tile'[t].sums[v] = <<WarpSum(frame, t, v, 1), WarpSum(frame, t, v, 2), WarpSum(frame, t, v, 3)>>
    BY <1>4 DEF SummedSoFar
  <2>1. v # w => region[t][v] >= 2
    BY <1>7
  <2> QED BY <1>1, <1>4, <2>1 DEF TileInv, SummedSoFar
<1>11. MappedSoFar(t)'
  <2>1. region'[t][0] >= 3 => region[t][0] >= 3
    BY <1>2, <1>7, <1>8
  <2> QED BY <1>1, <1>4, <2>1 DEF TileInv, MappedSoFar
<1>12. KeptSoFar(t)'
  <2> SUFFICES ASSUME NEW v \in Warp, region'[t][v] >= 2, NEW k \in AcCells(t, v)
               PROVE  regs'[t][v].roundtrip[k] = Back(frame, BlockOf(frame, t, k[1]), k[2])
    BY <1>4, SameFrame DEF KeptSoFar
  <2>1. v # w => region[t][v] >= 2 /\ regs'[t][v] = regs[t][v]
    BY <1>4, <1>7
  <2> QED BY <1>1, <1>4, <2>1 DEF TileInv, KeptSoFar
<1>13. \A s \in TilesOf(frame) : TileInv(s)'
  <2>1. TileInv(t)'
    BY <1>9, <1>10, <1>11, <1>12 DEF TileInv
  <2> QED BY <1>1, <1>2, <1>4, <2>1, TilesStay
<1>14. DcWritten'
  BY <1>1, <1>2, <1>4, DcStays DEF Inv
<1>15. LumaWritten'
  BY <1>1, <1>2, <1>4, LumaStays DEF Inv
<1>16. ChromaWritten'
  <2>1. \A c \in {0, 2} : \A b \in Blocks(frame), slot \in Slot :
          out'.ac[c][b * Slots + slot] = out.ac[c][b * Slots + slot]
    BY <1>4
  <2> QED BY <1>1, <1>2, <1>4, <2>1, ChromaStays DEF Inv
<1> QED BY <1>4, <1>6, <1>7, <1>13, <1>14, <1>15, <1>16 DEF Inv

(* The step of a warp past the barrier of the maps. *)
LEMMA MapKeeps ==
  ASSUME Inv, NEW t \in TilesOf(frame), NEW w \in Warp, MapColors(t, w)
  PROVE  Inv'
<1>1. Tabled /\ Barriers /\ frame \in Frames /\ TileInv(t) /\ \A s \in TilesOf(frame) : TileInv(s)
  BY DEF Inv, Tabled
<1>2. 2 \in 0 .. 6 /\ 2 \in 1 .. 6 /\ 0 \in Warp
  BY Constants DEF Warp
<1>3. \A v \in Warp :
        tile[t].sums[v] = <<WarpSum(frame, t, v, 1), WarpSum(frame, t, v, 2), WarpSum(frame, t, v, 3)>>
  BY <1>1 DEF MapColors, PassesBarrier, TileInv, SummedSoFar
<1>4. /\ Moves(t, w, 2) /\ OnlyTile(t) /\ frame' = frame /\ regs' = regs /\ OutTabled'
      /\ tile'[t].coeffs = tile[t].coeffs /\ tile'[t].pos = tile[t].pos /\ tile'[t].sums = tile[t].sums
      /\ out'.dc = out.dc /\ out'.ac = out.ac
      /\ \A s \in TilesOf(frame) : s # t => out'.maps[s] = out.maps[s]
      /\ IF w = 0 THEN tile'[t].maps = SerialMaps(frame, t) /\ out'.maps[t] = SerialMaps(frame, t)
         ELSE tile'[t].maps = tile[t].maps /\ out'.maps[t] = out.maps[t]
  BY <1>1, <1>3, MapDoes
<1>5. DOMAIN tile'[t].pos = TilePos /\ Table(tile'[t].sums, Warp) /\ RegsTabled'
  BY <1>1, <1>4 DEF Tabled, RegsTabled
<1>6. Tabled'
  BY <1>1, <1>2, <1>4, <1>5, TabledAfter
<1>7. /\ Barriers'
      /\ \A v \in Warp : region[t][v] \in 0 .. 7 /\ region'[t][v] \in 0 .. 7
                         /\ (v # w => region'[t][v] = region[t][v])
  BY <1>1, <1>2, <1>4, BarriersStay
<1>8. region[t][w] = 2 /\ region'[t][w] = 3
  BY <1>4 DEF Moves
<1>9. StagedSoFar(t)' /\ PlacedSoFar(t)'
  BY <1>1, <1>2, <1>4, StagedStays
<1>10. \A v \in Warp : region'[t][v] >= 2 => region[t][v] >= 2
  BY <1>7, <1>8
<1>11. SummedSoFar(t)'
  BY <1>1, <1>4, <1>10 DEF TileInv, SummedSoFar
<1>12. MappedSoFar(t)'
  <2>1. w # 0 /\ region'[t][0] >= 3 => region[t][0] >= 3
    BY <1>2, <1>7
  <2> QED BY <1>1, <1>4, <2>1 DEF TileInv, MappedSoFar
<1>13. KeptSoFar(t)'
  BY <1>1, <1>4, <1>10, SameFrame DEF TileInv, KeptSoFar
<1>14. \A s \in TilesOf(frame) : TileInv(s)'
  <2>1. TileInv(t)'
    BY <1>9, <1>11, <1>12, <1>13 DEF TileInv
  <2> QED BY <1>1, <1>2, <1>4, <2>1, TilesStay
<1>15. DcWritten'
  BY <1>1, <1>2, <1>4, DcStays DEF Inv
<1>16. LumaWritten'
  BY <1>1, <1>2, <1>4, LumaStays DEF Inv
<1>17. ChromaWritten'
  BY <1>1, <1>2, <1>4, ChromaStays DEF Inv
<1> QED BY <1>4, <1>6, <1>7, <1>14, <1>15, <1>16, <1>17 DEF Inv

(* The step of a warp that quantizes chroma. *)
LEMMA ChromaKeeps ==
  ASSUME Inv, NEW t \in TilesOf(frame), NEW w \in Warp, QuantizeChroma(t, w)
  PROVE  Inv'
<1>1. Tabled /\ Barriers /\ frame \in Frames /\ TileInv(t) /\ \A s \in TilesOf(frame) : TileInv(s)
  BY DEF Inv, Tabled
<1>2. 3 \in 0 .. 6 /\ 3 \in 1 .. 6 /\ 0 \in Warp
  BY Constants DEF Warp
<1>3. region[t][w] = 3 /\ \A v \in Warp : region[t][v] >= 3
  BY DEF QuantizeChroma, PassesBarrier
<1>4. Loaded(t)
  BY <1>1, <1>3, LoadedIs
<1>5. tile[t].maps = SerialMaps(frame, t)
  BY <1>1, <1>2, <1>3 DEF TileInv, MappedSoFar
<1>6. \A k \in AcCells(t, w) : regs[t][w].roundtrip[k] = Back(frame, BlockOf(frame, t, k[1]), k[2])
  BY <1>1, <1>3 DEF TileInv, KeptSoFar
<1>7. /\ Moves(t, w, 3) /\ OnlyTile(t) /\ frame' = frame /\ RegsTabled' /\ OutTabled'
      /\ tile'[t].coeffs = tile[t].coeffs /\ tile'[t].pos = tile[t].pos
      /\ tile'[t].sums = tile[t].sums /\ tile'[t].maps = tile[t].maps
      /\ regs'[t][w].roundtrip = regs[t][w].roundtrip
      /\ \A s \in TilesOf(frame), v \in Warp : s # t \/ v # w => regs'[s][v] = regs[s][v]
      /\ out'.maps = out.maps /\ out'.dc = out.dc /\ out'.ac[1] = out.ac[1]
      /\ \A c \in {0, 2} : \A b \in Blocks(frame), slot \in Slot :
           out'.ac[c][b * Slots + slot] =
             IF TileOf(frame, b) = t /\ QuantizerOf(frame, b) = w
             THEN IF Corner(frame, b, slot) THEN 0
                  ELSE Chroma(frame, SerialMaps(frame, t)[IF c = 0 THEN 1 ELSE 2], c, b, slot)
             ELSE out.ac[c][b * Slots + slot]
  BY <1>1, <1>4, <1>5, <1>6, ChromaDoes DEF Back
<1>8. DOMAIN tile'[t].pos = TilePos /\ Table(tile'[t].sums, Warp)
  BY <1>1, <1>7 DEF Tabled
<1>9. Tabled'
  BY <1>1, <1>2, <1>7, <1>8, TabledAfter
<1>10. /\ Barriers'
       /\ \A v \in Warp : region[t][v] \in 0 .. 7 /\ region'[t][v] \in 0 .. 7
                          /\ (v # w => region'[t][v] = region[t][v])
  BY <1>1, <1>2, <1>7, BarriersStay
<1>11. region[t][w] = 3 /\ region'[t][w] = 4
  BY <1>7 DEF Moves
<1>12. StagedSoFar(t)' /\ PlacedSoFar(t)'
  BY <1>1, <1>2, <1>7, StagedStays
<1>13. \A v \in Warp, n \in {2, 3} : region'[t][v] >= n => region[t][v] >= n
  BY <1>10, <1>11
<1>14. SummedSoFar(t)'
  BY <1>1, <1>7, <1>13 DEF TileInv, SummedSoFar
<1>15. MappedSoFar(t)'
  BY <1>1, <1>2, <1>7, <1>13 DEF TileInv, MappedSoFar
<1>16. KeptSoFar(t)'
  <2>1. \A v \in Warp : regs'[t][v].roundtrip = regs[t][v].roundtrip
    BY <1>7
  <2> QED BY <1>1, <1>7, <1>13, <2>1, SameFrame DEF TileInv, KeptSoFar
<1>17. \A s \in TilesOf(frame) : TileInv(s)'
  <2>1. TileInv(t)'
    BY <1>12, <1>14, <1>15, <1>16 DEF TileInv
  <2> QED BY <1>1, <1>2, <1>7, <2>1, TilesStay
<1>18. DcWritten'
  BY <1>1, <1>2, <1>7, DcStays DEF Inv
<1>19. LumaWritten'
  BY <1>1, <1>2, <1>7, LumaStays DEF Inv
<1>20. ChromaWritten'
  BY <1>1, <1>2, <1>7, ChromaStays DEF Inv, ChromaOf
<1> QED BY <1>7, <1>9, <1>10, <1>17, <1>18, <1>19, <1>20 DEF Inv

(* The steps of a warp that count. *)
LEMMA CountsKeep ==
  ASSUME Inv, NEW t \in TilesOf(frame), NEW w \in Warp,
         WriteCounts(t, w) \/ CountOrders(t, w) \/ FlushOrders(t, w)
  PROVE  Inv'
<1>1. Tabled /\ Barriers /\ frame \in Frames /\ TileInv(t) /\ \A s \in TilesOf(frame) : TileInv(s)
  BY DEF Inv, Tabled
<1>2. 0 \in Warp
  BY Constants DEF Warp
<1>3. /\ Moves(t, w, 4) \/ Moves(t, w, 5) \/ Moves(t, w, 6)
      /\ OnlyTile(t) /\ frame' = frame /\ regs' = regs /\ OutTabled'
      /\ tile'[t].pos = tile[t].pos /\ tile'[t].sums = tile[t].sums /\ tile'[t].maps = tile[t].maps
      /\ out'.dc = out.dc /\ out'.ac = out.ac /\ out'.maps = out.maps
  BY <1>1, CountsDo
<1>4. PICK r \in {4, 5, 6} : Moves(t, w, r)
  BY <1>3
<1>5. r \in 0 .. 6 /\ r \in 1 .. 6 /\ ~ (r <= 3) /\ r # 1 /\ r # 3
  OBVIOUS
<1>6. DOMAIN tile'[t].pos = TilePos /\ Table(tile'[t].sums, Warp) /\ RegsTabled'
  BY <1>1, <1>3 DEF Tabled, RegsTabled
<1>7. Tabled'
  BY <1>1, <1>3, <1>4, <1>5, <1>6, TabledAfter
<1>8. /\ Barriers'
      /\ \A v \in Warp : region[t][v] \in 0 .. 7 /\ region'[t][v] \in 0 .. 7
                         /\ (v # w => region'[t][v] = region[t][v])
  BY <1>1, <1>3, <1>4, <1>5, BarriersStay
<1>9. region[t][w] = r /\ region'[t][w] = r + 1
  BY <1>4 DEF Moves
<1>10. StagedSoFar(t)' /\ PlacedSoFar(t)'
  BY <1>1, <1>3, <1>4, <1>5, StagedStays
<1>11. \A v \in Warp, n \in {2, 3} : region'[t][v] >= n => region[t][v] >= n
  BY <1>8, <1>9
<1>12. SummedSoFar(t)'
  BY <1>1, <1>3, <1>11 DEF TileInv, SummedSoFar
<1>13. MappedSoFar(t)'
  BY <1>1, <1>2, <1>3, <1>11 DEF TileInv, MappedSoFar
<1>14. KeptSoFar(t)'
  BY <1>1, <1>3, <1>11, SameFrame DEF TileInv, KeptSoFar
<1>15. \A s \in TilesOf(frame) : TileInv(s)'
  <2>1. TileInv(t)'
    BY <1>10, <1>12, <1>13, <1>14 DEF TileInv
  <2> QED BY <1>1, <1>3, <1>4, <1>5, <2>1, TilesStay
<1>16. DcWritten'
  BY <1>1, <1>3, <1>4, <1>5, DcStays DEF Inv
<1>17. LumaWritten'
  BY <1>1, <1>3, <1>4, <1>5, LumaStays DEF Inv
<1>18. ChromaWritten'
  BY <1>1, <1>3, <1>4, <1>5, ChromaStays DEF Inv
<1> QED BY <1>3, <1>7, <1>8, <1>15, <1>16, <1>17, <1>18 DEF Inv

---------------------------------------------------------------------------
(* The theorem.                                                            *)

LEMMA InitInv == Init => Inv
<1> SUFFICES ASSUME Init PROVE Inv
  OBVIOUS
<1> DEFINE T == TilesOf(frame)
<1>1. /\ frame \in Frames
      /\ region = [t \in T |-> [w \in Warp |-> 0]]
      /\ tile = [t \in T |-> SharedMemory]
      /\ regs = [t \in T |-> [w \in Warp |-> [roundtrip |-> <<>>, nonzero |-> {}]]]
  BY DEF Init, TilesOf
<1>2. OutTabled
  <2> DEFINE plane == [s \in PlaneSlots |-> UNSET]
             dc == [b \in Blocks(frame) |-> <<>>]
             maps == [t \in T |-> <<UNSET, UNSET>>]
  <2>1. \E exact, grid, stats :
          out = [ac |-> [c \in Channel |-> plane], dc |-> dc, maps |-> maps,
                 nz_exact |-> exact, nz_grid |-> grid, order_stats |-> stats]
    BY Zenon DEF Init, PlaneSlots, Blocks, TilesOf
  <2>2. Table(plane, PlaneSlots) /\ Table(dc, Blocks(frame)) /\ Table(maps, T)
    BY DEF Table
  <2> DEFINE ac == [c \in Channel |-> plane]
  <2>3. Table(ac, Channel) /\ \A c \in Channel : ac[c] = plane
    BY DEF Table
  <2> HIDE DEF plane, dc, maps, ac
  <2>4. \E exact, grid, stats :
          out = [ac |-> ac, dc |-> dc, maps |-> maps,
                 nz_exact |-> exact, nz_grid |-> grid, order_stats |-> stats]
    BY <2>1 DEF ac
  <2>5. Table(out, OutFields) /\ out.ac = ac /\ out.dc = dc /\ out.maps = maps
    BY <2>4 DEF Table, OutFields
  <2> QED BY <2>2, <2>3, <2>5 DEF OutTabled
<1>3. RegsTabled
  BY <1>1 DEF RegsTabled, Table, RegsFields
<1>4. /\ Table(tile, T)
      /\ \A t \in T : Table(tile[t], TileFields) /\ DOMAIN tile[t].pos = TilePos /\ Table(tile[t].sums, Warp)
  <2>1. /\ Table(SharedMemory, TileFields) /\ DOMAIN SharedMemory.pos = TilePos
        /\ Table(SharedMemory.sums, Warp)
    BY DEF SharedMemory, Table, TileFields, TilePos
  <2>2. Table(tile, T) /\ \A t \in T : tile[t] = SharedMemory
    BY <1>1 DEF Table
  <2> QED BY <2>1, <2>2
<1>5. region \in [T -> [Warp -> 0 .. 7]] /\ \A t \in T, w \in Warp : region[t][w] = 0
  BY <1>1
<1>6. Tabled
  BY <1>1, <1>2, <1>3, <1>4, <1>5 DEF Tabled
<1>7. Barriers
  BY <1>5 DEF Barriers
<1>8. 0 \in Warp /\ \A c \in Channel, at \in 0 .. TileSlots - 1 : Stages(c, at) \in Warp
  BY Constants, WarpsAre DEF Warp
<1>9. ASSUME NEW t \in T PROVE TileInv(t)
  BY <1>5, <1>8 DEF TileInv, StagedSoFar, PlacedSoFar, SummedSoFar, MappedSoFar, KeptSoFar
<1>10. DcWritten /\ LumaWritten /\ ChromaWritten
  BY <1>1, <1>5, WritersAre DEF DcWritten, LumaWritten, ChromaWritten
<1> QED BY <1>6, <1>7, <1>9, <1>10 DEF Inv

LEMMA NextInv == Inv /\ [Next]_vars => Inv'
<1> SUFFICES ASSUME Inv, [Next]_vars PROVE Inv'
  OBVIOUS
<1>1. Tiles = TilesOf(frame)
  BY DEF Inv, Tabled, Tiles
<1>2. ASSUME NEW t \in TilesOf(frame), NEW w \in Warp,
             \/ LoadTile(t, w) \/ QuantizeLuma(t, w) \/ MapColors(t, w) \/ QuantizeChroma(t, w)
             \/ WriteCounts(t, w) \/ CountOrders(t, w) \/ FlushOrders(t, w)
      PROVE  Inv'
  <2>1. CASE LoadTile(t, w)
    BY <2>1, LoadKeeps
  <2>2. CASE QuantizeLuma(t, w)
    BY <2>2, LumaKeeps
  <2>3. CASE MapColors(t, w)
    BY <2>3, MapKeeps
  <2>4. CASE QuantizeChroma(t, w)
    BY <2>4, ChromaKeeps
  <2>5. CASE WriteCounts(t, w) \/ CountOrders(t, w) \/ FlushOrders(t, w)
    BY <2>5, CountsKeep
  <2> QED BY <1>2, <2>1, <2>2, <2>3, <2>4, <2>5
<1>3. CASE UNCHANGED vars
  <2>1. /\ frame' = frame /\ region' = region /\ tile' = tile /\ regs' = regs /\ out' = out
    BY <1>3 DEF vars
  <2>2. Tabled' /\ Barriers'
    BY <2>1 DEF Inv, Tabled, Barriers, RegsTabled, OutTabled, PlaneSlots
  <2>3. 0 \in Warp
    BY Constants DEF Warp
  <2>4. \A t \in TilesOf(frame) : TileInv(t)'
    <3> SUFFICES ASSUME NEW t \in TilesOf(frame) PROVE TileInv(t)'
      OBVIOUS
    <3>1. TileInv(t)
      BY DEF Inv
    <3> QED BY <2>1, <2>3, <3>1, WarpsAre, OtherTiles
  <2>5. DcWritten' /\ LumaWritten' /\ ChromaWritten'
    BY <2>1 DEF Inv, DcWritten, LumaWritten, ChromaWritten
  <2> QED BY <2>1, <2>2, <2>4, <2>5 DEF Inv
<1> QED BY <1>1, <1>2, <1>3, Zenon DEF Next, Terminated

(* What one thread makes of a frame, as functions. *)
LEMMA SerialIs ==
  ASSUME NEW f \in Frames
  PROVE  /\ Serial(f).maps = [t \in TilesOf(f) |-> SerialMaps(f, t)]
         /\ Serial(f).dc = [b \in Blocks(f) |-> SerialDc(f, b)]
         /\ Serial(f).ac = [c \in Channel |-> [s \in 0 .. f.bw * f.bh * Slots - 1 |->
              IF Corner(f, s \div Slots, s % Slots) THEN 0
              ELSE IF c = 1 THEN StoredLuma(f, s \div Slots, s % Slots)
              ELSE ChromaOf(f, c, s \div Slots, s % Slots)]]
<1> DEFINE maps == [t \in TilesOf(f) |-> SerialMaps(f, t)]
           dc == [b \in Blocks(f) |-> SerialDc(f, b)]
           S == 0 .. f.bw * f.bh * Slots - 1
           plane(m, c) == [s \in S |-> SerialAc(f, m, c, s \div Slots, s % Slots)]
           coded(c) == [s \in S |-> IF Corner(f, s \div Slots, s % Slots) THEN 0
                                    ELSE IF c = 1 THEN StoredLuma(f, s \div Slots, s % Slots)
                                    ELSE ChromaOf(f, c, s \div Slots, s % Slots)]
<1>1. /\ Serial(f).maps = Tabulated(maps) /\ Serial(f).dc = Tabulated(dc)
      /\ Serial(f).ac = [c \in Channel |-> Tabulated(plane(Tabulated(maps), c))]
  BY DEF Serial, TilesOf, Blocks
<1>2. Tabulated(maps) = maps /\ Tabulated(dc) = dc
  BY TabulatedIs
<1>3. ASSUME NEW c \in Channel PROVE plane(maps, c) = coded(c)
  <2>1. ASSUME NEW s \in S
        PROVE  SerialAc(f, maps, c, s \div Slots, s % Slots) =
                 IF Corner(f, s \div Slots, s % Slots) THEN 0
                 ELSE IF c = 1 THEN StoredLuma(f, s \div Slots, s % Slots)
                 ELSE ChromaOf(f, c, s \div Slots, s % Slots)
    <3> DEFINE b == s \div Slots
               slot == s % Slots
               i == IF c = 0 THEN 1 ELSE 2
    <3>1. f.bw * f.bh \in Nat
      BY FrameIs
    <3>2. b \in Blocks(f) /\ slot \in Slot
      BY <3>1, SlotIs DEF Blocks
    <3> HIDE DEF b, slot
    <3>3. SerialAc(f, maps, c, b, slot) =
            IF Corner(f, b, slot) THEN 0 ELSE IF c = 1 THEN StoredLuma(f, b, slot)
            ELSE Chroma(f, maps[TileOf(f, b)][i], c, b, slot)
      <4> HIDE DEF maps
      <4> QED BY <3>2, SerialAcIs
    <3>4. maps[TileOf(f, b)] = SerialMaps(f, TileOf(f, b))
      BY <3>2, BlockInTile
    <3>5. Chroma(f, maps[TileOf(f, b)][i], c, b, slot) = ChromaOf(f, c, b, slot)
      BY <3>4, Zenon DEF ChromaOf
    <3> QED BY <3>3, <3>5 DEF b, slot
  <2> HIDE DEF S, maps
  <2> QED BY <2>1
<1>4. \A c \in Channel : Tabulated(plane(Tabulated(maps), c)) = coded(c)
  <2> HIDE DEF maps, dc, plane, coded
  <2> QED BY <1>2, <1>3, TabulatedIs
<1>5. Serial(f).ac = [c \in Channel |-> coded(c)]
  <2> HIDE DEF maps, dc, plane, coded
  <2> QED BY <1>1, <1>4
<1> QED BY <1>1, <1>2, <1>5

(* When all the warps are done, every plane is written as one thread would. *)
LEMMA DoneIsSerial ==
  ASSUME Inv, Done
  PROVE  /\ out.maps = Serial(frame).maps /\ out.dc = Serial(frame).dc /\ out.ac = Serial(frame).ac
<1> DEFINE S == PlaneSlots
<1>1. frame \in Frames /\ OutTabled /\ Tiles = TilesOf(frame)
  BY DEF Inv, Tabled, Tiles
<1>2. \A t \in TilesOf(frame), w \in Warp : region[t][w] = 7
  BY <1>1 DEF Done
<1>3. 0 \in Warp
  BY Constants DEF Warp
<1>4. out.maps = [t \in TilesOf(frame) |-> SerialMaps(frame, t)]
  <2>1. \A t \in TilesOf(frame) : out.maps[t] = SerialMaps(frame, t)
    BY <1>2, <1>3 DEF Inv, TileInv, MappedSoFar
  <2> QED BY <1>1, <2>1 DEF OutTabled, Table
<1>5. out.dc = [b \in Blocks(frame) |-> SerialDc(frame, b)]
  <2>1. ASSUME NEW b \in Blocks(frame) PROVE out.dc[b] = SerialDc(frame, b)
    <3>1. region[TileOf(frame, b)][BandOf(frame, b)] = 7
      BY <1>1, <1>2, WritersAre
    <3> QED BY <3>1 DEF Inv, DcWritten
  <2> QED BY <1>1, <2>1 DEF OutTabled, Table
<1> DEFINE coded(c, s) == IF Corner(frame, s \div Slots, s % Slots) THEN 0
                          ELSE IF c = 1 THEN StoredLuma(frame, s \div Slots, s % Slots)
                          ELSE ChromaOf(frame, c, s \div Slots, s % Slots)
<1>6. ASSUME NEW c \in Channel, NEW s \in S PROVE out.ac[c][s] = coded(c, s)
  <2> DEFINE b == s \div Slots
             slot == s % Slots
  <2>1. b \in Blocks(frame) /\ slot \in Slot /\ s = b * Slots + slot
    <3>1. frame.bw * frame.bh \in Nat
      BY <1>1, FrameIs
    <3> QED BY <3>1, SlotIs DEF Blocks, PlaneSlots
  <2> HIDE DEF b, slot
  <2>2. region[TileOf(frame, b)][QuantizerOf(frame, b)] = 7
    BY <1>1, <1>2, <2>1, WritersAre
  <2>3. CASE c = 1
    <3>1. out.ac[1][b * Slots + slot] = IF Corner(frame, b, slot) THEN 0 ELSE StoredLuma(frame, b, slot)
      BY <2>1, <2>2 DEF Inv, LumaWritten
    <3>2. out.ac[c][s] = IF Corner(frame, b, slot) THEN 0 ELSE StoredLuma(frame, b, slot)
      BY <2>1, <2>3, <3>1
    <3> QED BY <2>3, <3>2 DEF b, slot
  <2>4. CASE c \in {0, 2}
    <3>1. out.ac[c][b * Slots + slot] = IF Corner(frame, b, slot) THEN 0 ELSE ChromaOf(frame, c, b, slot)
      BY <2>1, <2>2, <2>4 DEF Inv, ChromaWritten
    <3>2. out.ac[c][s] = IF Corner(frame, b, slot) THEN 0 ELSE ChromaOf(frame, c, b, slot)
      BY <2>1, <3>1
    <3> QED BY <2>4, <3>2 DEF b, slot
  <2> QED BY <2>3, <2>4 DEF Channel
<1>7. out.ac = [c \in Channel |-> [s \in S |-> coded(c, s)]]
  <2> HIDE DEF coded, S
  <2>1. Table(out.ac, Channel) /\ \A c \in Channel : Table(out.ac[c], S)
    BY <1>1 DEF OutTabled, S
  <2>2. \A c \in Channel : out.ac[c] = [s \in S |-> coded(c, s)]
    BY <1>6, <2>1 DEF Table
  <2> QED BY <2>1, <2>2 DEF Table
<1>8. /\ Serial(frame).maps = [t \in TilesOf(frame) |-> SerialMaps(frame, t)]
      /\ Serial(frame).dc = [b \in Blocks(frame) |-> SerialDc(frame, b)]
      /\ Serial(frame).ac = [c \in Channel |-> [s \in S |-> coded(c, s)]]
  BY <1>1, SerialIs, Zenon DEF PlaneSlots
<1> HIDE DEF coded, S
<1> QED BY <1>4, <1>5, <1>7, <1>8

(* However the warps of the quantizer's blocks interleave, they leave in    *)
(* global memory the color maps, the DC and the quantized coefficients     *)
(* that one thread makes of the frame, tile by tile and slot by slot: no   *)
(* warp reads a coefficient, a position, a sum or a map before the warp    *)
(* that makes it has passed a barrier, or after its buffer is reused.      *)
THEOREM WarpsQuantizeSerially == Spec => []QuantizedSerially
<1>1. Inv => QuantizedSerially
  <2> SUFFICES ASSUME Inv, Done
               PROVE  /\ out.maps = Serial(frame).maps /\ out.dc = Serial(frame).dc
                      /\ out.ac = Serial(frame).ac
    BY Zenon DEF QuantizedSerially
  <2> QED BY DoneIsSerial
<1> QED BY <1>1, InitInv, NextInv, PTL DEF Spec

---------------------------------------------------------------------------
(* Counting.                                                               *)

(* A set under other names has the same size. *)
LEMMA SameSize ==
  ASSUME NEW S, IsFiniteSet(S), NEW T, NEW h, \A x \in S : h[x] \in T,
         \A x \in S : \A y \in S : h[x] = h[y] => x = y,
         \A z \in T : \E x \in S : h[x] = z
  PROVE  Cardinality(T) = Cardinality(S) /\ IsFiniteSet(T)
<1> DEFINE g == [x \in S |-> h[x]]
<1>1. g \in Surjection(S, T) /\ g \in Injection(S, T)
  BY DEF Surjection, Injection, IsInjective
<1> HIDE DEF g
<1> QED BY <1>1, FS_Surjection

(* Two disjoint sets are counted one after the other. *)
LEMMA CountMore ==
  ASSUME NEW S, IsFiniteSet(S), NEW R, R \cap S = {}, IsFiniteSet(R)
  PROVE  Cardinality(S \cup R) = Cardinality(S) + Cardinality(R) /\ Cardinality(S) \in Nat /\ Cardinality(R) \in Nat
<1>1. Cardinality(S \cup R) = Cardinality(S) + Cardinality(R) - Cardinality(S \cap R)
  BY FS_Union
<1>2. S \cap R = {} /\ Cardinality({}) = 0
  BY FS_EmptySet
<1>3. Cardinality(S) \in Nat /\ Cardinality(R) \in Nat
  BY FS_CardinalityType
<1>4. Cardinality(S \cap R) = 0
  BY <1>2, Zenon
<1> QED BY <1>1, <1>3, <1>4

(* Nothing has no size. *)
LEMMA CountNone == Cardinality({}) = 0
BY FS_EmptySet

(* The pairs of one element and each of a set are as many as the set. *)
LEMMA CountPairs ==
  ASSUME NEW S, IsFiniteSet(S), NEW t
  PROVE  Cardinality({t} \X S) = Cardinality(S) /\ IsFiniteSet({t} \X S)
<1> DEFINE h == [x \in S |-> <<t, x>>]
           T == {t} \X S
<1>1. /\ \A x \in S : h[x] \in T
      /\ \A x \in S : \A y \in S : h[x] = h[y] => x = y
      /\ \A z \in T : \E x \in S : h[x] = z
  OBVIOUS
<1> HIDE DEF h, T
<1>2. Cardinality(T) = Cardinality(S) /\ IsFiniteSet(T)
  BY <1>1, SameSize
<1> QED BY <1>2 DEF T

(* A sum of natural numbers is one. *)
LEMMA SumNat ==
  ASSUME NEW S, IsFiniteSet(S), NEW f, \A x \in S : f[x] \in Nat
  PROVE  SumFunctionOnSet(f, S) \in Nat
<1> DEFINE Bad == {n \in Nat : \E T : /\ T \subseteq S /\ IsFiniteSet(T) /\ Cardinality(T) = n
                                      /\ SumFunctionOnSet(f, T) \notin Nat}
<1>1. SUFFICES ASSUME Bad # {} PROVE FALSE
  BY FS_CardinalityType
<1>2. PICK n \in Bad : \A k \in Bad : n <= k
  BY <1>1, LeastNumber
<1>3. PICK T : /\ T \subseteq S /\ IsFiniteSet(T) /\ Cardinality(T) = n
               /\ SumFunctionOnSet(f, T) \notin Nat
  BY <1>2
<1>4. T # {}
  BY <1>3, SumEmpty
<1> DEFINE v == T \ {Some(T)}
<1>5. v \subseteq S /\ IsFiniteSet(v) /\ Cardinality(v) \in Nat /\ Cardinality(v) < n
      /\ Some(T) \in T
  BY <1>3, <1>4, SomeRemoved
<1>6. Cardinality(v) \notin Bad
  BY <1>2, <1>5
<1>7. SumFunctionOnSet(f, v) \in Nat
  BY <1>5, <1>6
<1>8. f[Some(T)] \in Nat
  BY <1>3, <1>5
<1>9. SumFunctionOnSet(f, T) = f[Some(T)] + SumFunctionOnSet(f, v)
  BY <1>3, <1>4, SumUnrolled
<1> QED BY <1>3, <1>7, <1>8, <1>9

---------------------------------------------------------------------------
(* The words of the statistics.                                            *)

LEMMA SidesFinite == IsFiniteSet(Sides) /\ Cardinality(Sides) \in Nat
<1> DEFINE S == {1 * BlockDim, 2 * BlockDim, 4 * BlockDim}
<1>1. Sides \subseteq S
  BY LayoutAssumption
<1>2. IsFiniteSet(S)
  <2>1. IsFiniteSet({1 * BlockDim})
    BY FS_Singleton
  <2>2. IsFiniteSet({1 * BlockDim} \cup {2 * BlockDim})
    BY <2>1, FS_AddElement
  <2>3. IsFiniteSet(({1 * BlockDim} \cup {2 * BlockDim}) \cup {4 * BlockDim})
    BY ONLY <2>2, FS_AddElement
  <2>4. S = ({1 * BlockDim} \cup {2 * BlockDim}) \cup {4 * BlockDim}
    OBVIOUS
  <2> QED BY <2>3, <2>4
<1>3. IsFiniteSet(Sides)
  BY <1>1, <1>2, FS_Subset
<1> QED BY <1>3, FS_CardinalityType

(* The words of the sides before one, and those up to it. *)
Before(side) == {s \in Sides : s < side}
Entries(S) == SumFunctionOnSet([s \in S |-> 3 * s * s], S)

LEMMA EntriesIs ==
  ASSUME NEW S \in SUBSET Sides, NEW R \in SUBSET S
  PROVE  /\ Entries(S) \in Nat /\ Entries(R) \in Nat /\ Entries(R) <= Entries(S)
         /\ \A s \in S : s \notin R => Entries(R) + 3 * (s * s) <= Entries(S)
<1> DEFINE g == [s \in Sides |-> 3 * s * s]
           E(T) == SumFunctionOnSet(g, T)
<1>1. \A s \in Sides : g[s] \in Nat /\ g[s] \in Int /\ g[s] = 3 * (s * s)
  <2> SUFFICES ASSUME NEW s \in Sides PROVE g[s] \in Nat /\ g[s] = 3 * (s * s)
    OBVIOUS
  <2>1. s \in Nat
    BY SideIs
  <2>2. 3 * s * s = 3 * (s * s) /\ 3 * (s * s) \in Nat
    BY <2>1
  <2> QED BY <2>2
<1>2. ASSUME NEW T \in SUBSET Sides PROVE IsFiniteSet(T) /\ Entries(T) = E(T) /\ E(T) \in Nat
  <2>1. IsFiniteSet(T)
    BY SidesFinite, FS_Subset
  <2> DEFINE r == [s \in T |-> 3 * s * s]
  <2>2. \A s \in T : r[s] = g[s] /\ r[s] \in Int
    BY <1>1
  <2> HIDE DEF r, g
  <2>3. SumFunctionOnSet(r, T) = SumFunctionOnSet(g, T)
    BY <2>1, <2>2, SumSame
  <2>4. E(T) \in Nat
    BY <1>1, <2>1, SumNat
  <2> QED BY <2>1, <2>3, <2>4 DEF Entries, r
<1> HIDE DEF g
<1>3. ASSUME NEW T \in SUBSET Sides, NEW U \in SUBSET T PROVE E(U) <= E(T)
  <2> DEFINE V == T \ U
  <2>1. V \in SUBSET Sides /\ U \in SUBSET Sides /\ U \cap V = {} /\ U \cup V = T
    OBVIOUS
  <2> HIDE DEF V
  <2>2. E(U \cup V) = E(U) + E(V)
    BY <1>1, <1>2, <2>1, SumUnion
  <2>3. E(U) \in Nat /\ E(V) \in Nat
    BY <1>2, <2>1
  <2>4. E(U \cup V) = E(T)
    BY <2>1, Zenon
  <2> QED BY <2>2, <2>3, <2>4
<1>4. ASSUME NEW s \in S, s \notin R PROVE Entries(R) + 3 * (s * s) <= Entries(S)
  <2> DEFINE T == R \cup {s}
  <2>1. T \in SUBSET Sides /\ T \in SUBSET S /\ R \in SUBSET Sides
    OBVIOUS
  <2>2. E(T) = E(R) + g[s]
    BY <1>1, <1>2, <1>4, <2>1, SumAdd
  <2> HIDE DEF T
  <2>3. E(T) <= E(S)
    BY <1>3, <2>1
  <2> QED BY <1>1, <1>2, <2>1, <2>2, <2>3
<1>5. Entries(R) <= Entries(S) /\ Entries(R) \in Nat /\ Entries(S) \in Nat
  BY <1>2, <1>3
<1> QED BY <1>4, <1>5

(* The words of two sides or channels do not meet. *)
LEMMA OffsetsAre ==
  ASSUME NEW s \in Sides, NEW c \in Channel, NEW r \in Positions(s)
  PROVE  /\ OrderOffset(s, c) + r \in 0 .. OrderEntries - 1 /\ OrderEntries \in Nat
         /\ \A z \in Sides, d \in Channel : \A q \in Positions(z) :
              OrderOffset(s, c) + r = OrderOffset(z, d) + q => s = z /\ c = d /\ r = q
<1>1. /\ OrderEntries = Entries(Sides) /\ Entries(Sides) \in Nat
      /\ \A z, d : OrderOffset(z, d) = Entries(Before(z)) + d * z * z
  BY EntriesIs, Zenon DEF OrderEntries, OrderOffset, Entries, Before, SumOver
<1>2. ASSUME NEW z \in Sides, NEW d \in Channel, NEW q \in Positions(z)
      PROVE  /\ z * z \in Nat /\ z * z > 0 /\ Entries(Before(z)) \in Nat
             /\ OrderOffset(z, d) + q = Entries(Before(z)) + ((z * z) * d + q)
             /\ (z * z) * d + q \in 0 .. 3 * (z * z) - 1 /\ q \in 0 .. z * z - 1
             /\ z \notin Before(z) /\ z \in Nat
  <2>1. z \in Nat /\ z > 0
    BY SideIs
  <2>2. z * z \in Nat /\ z * z > 0 /\ d * z * z = (z * z) * d
    BY <2>1 DEF Channel
  <2>3. q \in 0 .. z * z - 1 /\ z \notin Before(z)
    BY <2>1 DEF Positions, Before
  <2>4. Entries(Before(z)) \in Nat
    BY EntriesIs DEF Before
  <2> DEFINE n == z * z
  <2>5. OrderOffset(z, d) = Entries(Before(z)) + n * d
    BY <1>1, <2>2
  <2>6. n \in Nat /\ n > 0 /\ q \in 0 .. n - 1
    BY <2>2, <2>3
  <2> HIDE DEF n
  <2>7. n * d + q \in 0 .. 3 * n - 1 /\ n * d \in Nat
    BY <2>6 DEF Channel
  <2>8. OrderOffset(z, d) + q = Entries(Before(z)) + (n * d + q)
    BY <2>4, <2>5, <2>6, <2>7
  <2> QED BY <2>1, <2>2, <2>3, <2>4, <2>7, <2>8 DEF n
<1>3. ASSUME NEW z \in Sides PROVE Entries(Before(z)) + 3 * (z * z) <= Entries(Sides)
  <2>1. z \notin Before(z)
    BY SideIs DEF Before
  <2> QED BY <2>1, EntriesIs DEF Before
<1>4. ASSUME NEW z \in Sides, NEW y \in Sides, z < y PROVE Entries(Before(z)) + 3 * (z * z) <= Entries(Before(y))
  <2>1. Before(y) \in SUBSET Sides /\ Before(z) \in SUBSET Before(y) /\ z \in Before(y) /\ z \notin Before(z)
    BY <1>4, SideIs DEF Before
  <2> QED BY <2>1, EntriesIs
<1>5. OrderOffset(s, c) + r \in 0 .. OrderEntries - 1
  <2> DEFINE n == s * s
             e == Entries(Before(s))
             x == n * c + r
  <2>1. e \in Nat /\ n \in Nat /\ x \in 0 .. 3 * n - 1 /\ OrderOffset(s, c) + r = e + x /\ e + 3 * n <= Entries(Sides)
    BY <1>2, <1>3
  <2> HIDE DEF n, e, x
  <2> QED BY <1>1, <2>1
<1>6. ASSUME NEW z \in Sides, NEW d \in Channel, NEW q \in Positions(z),
             OrderOffset(s, c) + r = OrderOffset(z, d) + q
      PROVE  s = z /\ c = d /\ r = q
  <2> DEFINE n == s * s
             m == z * z
             e == Entries(Before(s))
             g == Entries(Before(z))
             x == n * c + r
             y == m * d + q
  <2>1. e \in Nat /\ n \in Nat /\ x \in 0 .. 3 * n - 1 /\ OrderOffset(s, c) + r = e + x /\ s \in Nat
        /\ n > 0 /\ r \in 0 .. n - 1
    BY <1>2
  <2>2. g \in Nat /\ m \in Nat /\ y \in 0 .. 3 * m - 1 /\ OrderOffset(z, d) + q = g + y /\ z \in Nat
        /\ q \in 0 .. m - 1
    BY <1>2
  <2>3. (s < z => e + 3 * n <= g) /\ (z < s => g + 3 * m <= e)
    BY <1>4
  <2>4. s = z
    <3> HIDE DEF n, m, e, g, x, y
    <3> QED BY <1>6, <2>1, <2>2, <2>3
  <2>5. n * c + r = n * d + q /\ q \in 0 .. n - 1
    <3>1. e = g /\ m = n
      BY <2>4
    <3>2. x = y
      <4> HIDE DEF n, m, e, g, x, y
      <4> QED BY <1>6, <2>1, <2>2, <3>1
    <3> QED BY <2>2, <3>1, <3>2
  <2> HIDE DEF n
  <2>6. c = d /\ r = q
    BY <2>1, <2>5, Digits DEF Channel
  <2> QED BY <2>4, <2>6
<1> QED BY <1>1, <1>5, <1>6

(* The words that count the transforms of a side. *)
LEMMA IndicesAre ==
  ASSUME NEW s \in Sides
  PROVE  /\ SideIndex(s) \in 0 .. Cardinality(Sides) - 1
         /\ \A z \in Sides : SideIndex(s) = SideIndex(z) => s = z
<1>1. ASSUME NEW z \in Sides PROVE Before(z) \in SUBSET Sides /\ IsFiniteSet(Before(z)) /\ z \in Nat
                                  /\ SideIndex(z) = Cardinality(Before(z)) /\ Cardinality(Before(z)) \in Nat
  <2>1. Before(z) \in SUBSET Sides
    BY DEF Before
  <2>2. IsFiniteSet(Before(z))
    BY <2>1, SidesFinite, FS_Subset
  <2> QED BY <2>1, <2>2, FS_CardinalityType, SideIs DEF SideIndex, Before
<1>2. ASSUME NEW T, IsFiniteSet(T), NEW U \in SUBSET T, NEW x \in T, x \notin U
      PROVE  Cardinality(U) < Cardinality(T)
  <2>1. Cardinality(U) <= Cardinality(T) /\ Cardinality(U) # Cardinality(T) /\ IsFiniteSet(U)
    BY <1>2, FS_Subset
  <2>2. Cardinality(U) \in Nat /\ Cardinality(T) \in Nat
    BY <1>2, <2>1, FS_CardinalityType
  <2> QED BY <2>1, <2>2
<1>3. SideIndex(s) \in 0 .. Cardinality(Sides) - 1
  <2>1. s \notin Before(s)
    BY SideIs DEF Before
  <2> QED BY <1>1, <1>2, <2>1, SidesFinite
<1>4. ASSUME NEW z \in Sides, NEW y \in Sides, z < y PROVE SideIndex(z) < SideIndex(y)
  <2>1. Before(z) \in SUBSET Before(y) /\ z \in Before(y) /\ z \notin Before(z)
    BY <1>4, SideIs DEF Before
  <2> QED BY <1>1, <1>2, <2>1
<1>5. ASSUME NEW z \in Sides, SideIndex(s) = SideIndex(z) PROVE s = z
  BY <1>1, <1>4, <1>5
<1> QED BY <1>3, <1>5

---------------------------------------------------------------------------
(* Counts.  A cell of a tile is a position and a slot; a non-zero of it is *)
(* a channel and a cell.                                                   *)

TileCells == TilePos \X Slot
Word == 0 .. StatsWords - 1

(* The warps of a tile that have come to a barrier. *)
Reached(t, n) == {u \in Warp : region[t][u] >= n}

(* The warp that resolves a position, and the warp that zeroes and flushes *)
(* a word of the statistics.                                               *)
Resolver(p) == (p \div TileSide) \div BandRows
Zeroer(i)   == (i % Threads) \div Lanes

(* The slot of a block in the planes when its warp has quantized it.       *)
Final(f, c, b, slot) ==
  IF Corner(f, b, slot) THEN 0 ELSE IF c = 1 THEN StoredLuma(f, b, slot) ELSE ChromaOf(f, c, b, slot)

(* The value its warp flags for the statistics, before it is narrowed.     *)
Flag(f, c, b, slot) ==
  IF Corner(f, b, slot) THEN 0 ELSE IF c = 1 THEN Luma(f, b, slot) ELSE ChromaOf(f, c, b, slot)

(* The cells of a tile that are not zero, the position that counts them,   *)
(* the word that does; the first blocks, and the word that counts them.    *)
NonzeroCells(f, t, c) ==
  {k \in TileCells : InFrame(f, t, k[1]) /\ Final(f, c, BlockOf(f, t, k[1]), k[2]) # 0}
FlaggedCells(f, t, c) ==
  {k \in TileCells : InFrame(f, t, k[1]) /\ Flag(f, c, BlockOf(f, t, k[1]), k[2]) # 0}
OwnerPos(f, t, p) == PosOf(f, Owner(f, BlockOf(f, t, p)))
WordOf(f, t, c, k) == OrderOffset(Side(f, BlockOf(f, t, k[1])), c) + Raw(f, BlockOf(f, t, k[1]), k[2])
FirstPos(f, t) == {p \in TilePos : InFrame(f, t, p) /\ OwnerPos(f, t, p) = p}
EntryOf(f, t, p) == OrderEntries + SideIndex(Side(f, BlockOf(f, t, p)))

(* What the warps W of a tile have found so far. *)
Tally(f, t, c, W, p) == {k \in NonzeroCells(f, t, c) : k[1] % Warps \in W /\ OwnerPos(f, t, k[1]) = p}
Found(f, t, C, W) == {n \in C \X TileCells : n[2] \in FlaggedCells(f, t, n[1]) /\ n[2][1] % Warps \in W}
Hits(f, t, W, i)   == {n \in Found(f, t, Channel, W) : WordOf(f, t, n[1], n[2]) = i}
Firsts(f, t, W, i) == {p \in FirstPos(f, t) : Resolver(p) \in W /\ EntryOf(f, t, p) = i}

(* The barrier after the quantization of a channel. *)
Turn(c) == IF c = 1 THEN 2 ELSE 4

CountsTabled ==
  /\ \A t \in TilesOf(frame) : /\ Table(tile[t].nz, Channel) /\ \A c \in Channel : DOMAIN tile[t].nz[c] = TilePos
                               /\ DOMAIN tile[t].stats = Word
  /\ Table(out.nz_exact, Channel) /\ Table(out.nz_grid, Channel) /\ DOMAIN out.order_stats = Word
  /\ \A c \in Channel : DOMAIN out.nz_exact[c] = Blocks(frame) /\ DOMAIN out.nz_grid[c] = Blocks(frame)

CountedSoFar(t) ==
  \A c \in Channel, p \in TilePos :
    region[t][Resolver(p)] >= 1 => tile[t].nz[c][p] = Cardinality(Tally(frame, t, c, Reached(t, Turn(c)), p))

FoundSoFar(t) ==
  \A w \in Warp : region[t][w] >= 2 =>
    regs[t][w].nonzero = Found(frame, t, IF region[t][w] >= 4 THEN Channel ELSE {1}, {w})

StatsSoFar(t) ==
  \A i \in Word : region[t][Zeroer(i)] >= 5 =>
    tile[t].stats[i] = Cardinality(Firsts(frame, t, Reached(t, 6), i)) + Cardinality(Hits(frame, t, Reached(t, 6), i))

CountInv(t) == CountedSoFar(t) /\ FoundSoFar(t) /\ StatsSoFar(t)

(* The non-zeros of a block's transform. *)
NonzerosOf(f, c, b) == Cardinality(Tally(f, TileOf(f, b), c, Warp, PosOf(f, Owner(f, b))))
GridOf(f, c, b) == (NonzerosOf(f, c, b) + Covered(Side(f, b)) - 1) \div 2^Log2Covered(Side(f, b))

CountsWritten ==
  \A c \in Channel, b \in Blocks(frame) : region[TileOf(frame, b)][BandOf(frame, b)] >= 5 =>
    /\ out.nz_exact[c][b] = IF Owner(frame, b) = b THEN NonzerosOf(frame, c, b) ELSE 0
    /\ out.nz_grid[c][b] = GridOf(frame, c, b)

(* The tiles that have flushed a word, and what they have counted in it. *)
Flushed(i) == {t \in TilesOf(frame) : region[t][Zeroer(i)] >= 7}
AllHits(f, T, i) == {m \in T \X (Channel \X TileCells) : m[2] \in Hits(f, m[1], Warp, i)}
AllFirsts(f, T, i) == {m \in T \X TilePos : m[2] \in Firsts(f, m[1], Warp, i)}

OrdersWritten ==
  \A i \in Word :
    out.order_stats[i] =
      Cardinality(AllFirsts(frame, Flushed(i), i)) + Cardinality(AllHits(frame, Flushed(i), i))

CountsInv ==
  CountsTabled /\ CountsWritten /\ OrdersWritten /\ \A t \in TilesOf(frame) : CountInv(t)

(* What is counted is finite. *)
LEMMA CountsFinite ==
  ASSUME NEW f, NEW t, NEW W
  PROVE  /\ IsFiniteSet(TileCells) /\ IsFiniteSet(TilePos) /\ IsFiniteSet(Channel \X TileCells)
         /\ \A c, p : IsFiniteSet(Tally(f, t, c, W, p))
         /\ \A i : IsFiniteSet(Hits(f, t, W, i)) /\ IsFiniteSet(Firsts(f, t, W, i))
<1>1. IsFiniteSet(TilePos) /\ IsFiniteSet(Slot) /\ IsFiniteSet(Channel)
  <2>1. TilePositions - 1 \in Int /\ Slots - 1 \in Int /\ 0 \in Int /\ 2 \in Int
    BY Constants
  <2> QED BY <2>1, FS_Interval DEF TilePos, Slot, Channel
<1>2. IsFiniteSet(TileCells)
  BY <1>1, FS_Product DEF TileCells
<1>3. IsFiniteSet(Channel \X TileCells)
  BY <1>1, <1>2, FS_Product
<1>4. ASSUME NEW c, NEW p PROVE IsFiniteSet(Tally(f, t, c, W, p))
  <2>1. Tally(f, t, c, W, p) \in SUBSET TileCells
    BY DEF Tally, NonzeroCells
  <2> QED BY <1>2, <2>1, FS_Subset
<1>5. ASSUME NEW i PROVE IsFiniteSet(Hits(f, t, W, i)) /\ IsFiniteSet(Firsts(f, t, W, i))
  <2>1. Hits(f, t, W, i) \in SUBSET (Channel \X TileCells) /\ Firsts(f, t, W, i) \in SUBSET TilePos
    BY DEF Hits, Found, Firsts, FirstPos
  <2> QED BY <1>1, <1>3, <2>1, FS_Subset
<1> QED BY <1>1, <1>2, <1>3, <1>4, <1>5

(* No warp has found anything. *)
LEMMA CountsNone ==
  ASSUME NEW f, NEW t
  PROVE  /\ \A c, p : Cardinality(Tally(f, t, c, {}, p)) = 0
         /\ \A i : Cardinality(Hits(f, t, {}, i)) = 0 /\ Cardinality(Firsts(f, t, {}, i)) = 0
<1>1. \A c, p : Tally(f, t, c, {}, p) = {}
  BY DEF Tally
<1>2. \A i : Hits(f, t, {}, i) = {} /\ Firsts(f, t, {}, i) = {}
  BY DEF Hits, Found, Firsts
<1> QED BY <1>1, <1>2, CountNone

(* One warp more finds its own. *)
LEMMA TallyAdd ==
  ASSUME NEW f, NEW t, NEW W, NEW w, w \notin W, NEW c, NEW p
  PROVE  Cardinality(Tally(f, t, c, W \cup {w}, p)) =
           Cardinality(Tally(f, t, c, W, p)) + Cardinality(Tally(f, t, c, {w}, p))
<1> DEFINE S == Tally(f, t, c, W, p)
           R == Tally(f, t, c, {w}, p)
           A == Tally(f, t, c, W \cup {w}, p)
<1>1. A = S \cup R /\ R \cap S = {}
  BY DEF Tally
<1>2. IsFiniteSet(S) /\ IsFiniteSet(R)
  BY CountsFinite
<1> HIDE DEF S, R, A
<1>3. Cardinality(S \cup R) = Cardinality(S) + Cardinality(R)
  BY <1>1, <1>2, CountMore
<1>4. Cardinality(A) = Cardinality(S) + Cardinality(R)
  BY <1>1, <1>3, Zenon
<1> QED BY <1>4 DEF S, R, A

LEMMA HitsAdd ==
  ASSUME NEW f, NEW t, NEW W, NEW w, w \notin W, NEW i
  PROVE  Cardinality(Hits(f, t, W \cup {w}, i)) =
           Cardinality(Hits(f, t, W, i)) + Cardinality(Hits(f, t, {w}, i))
<1> DEFINE S == Hits(f, t, W, i)
           R == Hits(f, t, {w}, i)
           A == Hits(f, t, W \cup {w}, i)
<1>1. A = S \cup R /\ R \cap S = {}
  BY DEF Hits, Found
<1>2. IsFiniteSet(S) /\ IsFiniteSet(R)
  BY CountsFinite
<1> HIDE DEF S, R, A
<1>3. Cardinality(S \cup R) = Cardinality(S) + Cardinality(R)
  BY <1>1, <1>2, CountMore
<1>4. Cardinality(A) = Cardinality(S) + Cardinality(R)
  BY <1>1, <1>3, Zenon
<1> QED BY <1>4 DEF S, R, A

LEMMA FirstsAdd ==
  ASSUME NEW f, NEW t, NEW W, NEW w, w \notin W, NEW i
  PROVE  Cardinality(Firsts(f, t, W \cup {w}, i)) =
           Cardinality(Firsts(f, t, W, i)) + Cardinality(Firsts(f, t, {w}, i))
<1> DEFINE S == Firsts(f, t, W, i)
           R == Firsts(f, t, {w}, i)
           A == Firsts(f, t, W \cup {w}, i)
<1>1. A = S \cup R /\ R \cap S = {}
  BY DEF Firsts
<1>2. IsFiniteSet(S) /\ IsFiniteSet(R)
  BY CountsFinite
<1> HIDE DEF S, R, A
<1>3. Cardinality(S \cup R) = Cardinality(S) + Cardinality(R)
  BY <1>1, <1>2, CountMore
<1>4. Cardinality(A) = Cardinality(S) + Cardinality(R)
  BY <1>1, <1>3, Zenon
<1> QED BY <1>4 DEF S, R, A

(* The warps of positions and words. *)
LEMMA ResolversAre ==
  /\ \A p \in TilePos : Resolver(p) \in Warp /\ p % Warps \in Warp
                        /\ \A w : p \in Band(w) <=> Resolver(p) = w
  /\ \A i \in Word : Zeroer(i) \in Warp
  /\ \A w, i : ZeroesWord(w, i) <=> Zeroer(i) = w
<1>1. ASSUME NEW i \in Word PROVE Zeroer(i) \in Warp
  <2>1. i \in Nat /\ Threads \in Nat /\ Threads > 0
    BY Constants DEF Word
  <2>2. i % Threads \in 0 .. Threads - 1
    BY <2>1, Quotient
  <2> QED BY <2>2, LanesIs DEF Zeroer
<1> QED BY <1>1, WarpsAre DEF Resolver, Band, TilePos, ZeroesWord, Zeroer

(* What a resolved position says. *)
LEMMA ResolvedIs ==
  ASSUME frame \in Frames, NEW t \in TilesOf(frame), NEW p \in TilePos, InFrame(frame, t, p),
         tile[t].pos[p] = Position(frame, t, p)
  PROVE  LET b == BlockOf(frame, t, p)
         IN  /\ b \in Blocks(frame) /\ TileOf(frame, b) = t /\ PosOf(frame, b) = p
             /\ Owner(frame, b) \in Blocks(frame) /\ Side(frame, b) \in Sides
             /\ TileOf(frame, Owner(frame, b)) = t
             /\ OwnerPos(frame, t, p) = PosOf(frame, Owner(frame, b)) /\ OwnerPos(frame, t, p) \in TilePos
             /\ tile[t].pos[p].owner = OwnerPos(frame, t, p) /\ CountedAt(t, p) = OwnerPos(frame, t, p)
             /\ tile[t].pos[p].side = Side(frame, b)
             /\ FirstBlock(t, p) <=> p \in FirstPos(frame, t)
             /\ FirstBlock(t, p) <=> Owner(frame, b) = b
             /\ OrderEntries + SideIndex(tile[t].pos[p].side) = EntryOf(frame, t, p)
             /\ \A slot \in Slot : \A c : StatsWord(t, c, <<p, slot>>) = WordOf(frame, t, c, <<p, slot>>)
<1> DEFINE b == BlockOf(frame, t, p)
           o == Owner(frame, b)
<1>1. b \in Blocks(frame) /\ TileOf(frame, b) = t /\ PosOf(frame, b) = p
  BY BlockOfIs
<1>2. tile[t].pos[p] = Place(frame, b)
  BY PositionIs
<1> HIDE DEF b
<1>3. o \in Blocks(frame) /\ Side(frame, b) \in Sides /\ TileOf(frame, o) = t
  BY <1>1, OwnerIs, OwnerInTile
<1> HIDE DEF o
<1>4. PosOf(frame, o) \in TilePos /\ BlockOf(frame, t, PosOf(frame, o)) = o
  BY <1>3, BlockInTile
<1>5. OwnerPos(frame, t, p) = PosOf(frame, o)
  BY DEF OwnerPos, o, b
<1>6. /\ tile[t].pos[p].owner = PosOf(frame, o) /\ tile[t].pos[p].side = Side(frame, b)
      /\ tile[t].pos[p].ordinal = Ordinal(frame, b)
  BY <1>2 DEF Place, o
<1>7. PosOf(frame, o) = p <=> o = b
  BY <1>1, <1>4 DEF b
<1>8. FirstBlock(t, p) <=> PosOf(frame, o) = p
  BY <1>6 DEF FirstBlock
<1>9. p \in FirstPos(frame, t) <=> PosOf(frame, o) = p
  BY <1>5 DEF FirstPos
<1>10. ASSUME NEW slot \in Slot, NEW c
       PROVE  StatsWord(t, c, <<p, slot>>) = WordOf(frame, t, c, <<p, slot>>)
  BY <1>6 DEF StatsWord, WordOf, RawAt, Raw, b
<1>11. EntryOf(frame, t, p) = OrderEntries + SideIndex(tile[t].pos[p].side)
  BY <1>6 DEF EntryOf, b
<1>12. CountedAt(t, p) = PosOf(frame, o)
  BY <1>6 DEF CountedAt
<1> QED BY <1>1, <1>3, <1>4, <1>5, <1>6, <1>7, <1>8, <1>9, <1>10, <1>11, <1>12, Zenon DEF b, o

(* The warps that have come to a barrier after a step of one. *)
LEMMA ReachedAfter ==
  ASSUME Tabled, Barriers, frame' = frame, NEW t \in TilesOf(frame), NEW w \in Warp, NEW r \in 0 .. 6,
         Moves(t, w, r)
  PROVE  /\ w \notin Reached(t, r + 1) /\ Reached(t, r + 1)' = Reached(t, r + 1) \cup {w}
         /\ \A n \in 0 .. 7 : /\ n # r + 1 => Reached(t, n)' = Reached(t, n)
                              /\ n <= r => Reached(t, n) = Warp
                              /\ n > r + 1 => Reached(t, n) = {}
         /\ \A s \in TilesOf(frame) : s # t => \A n \in 0 .. 7 : Reached(s, n)' = Reached(s, n)
<1>1. /\ region[t][w] = r /\ region'[t][w] = r + 1 /\ \A v \in Warp : region[t][v] >= r
      /\ \A s \in TilesOf(frame), v \in Warp : s # t \/ v # w => region'[s][v] = region[s][v]
  BY DEF Moves
<1>2. \A s \in TilesOf(frame), v \in Warp : region[s][v] \in 0 .. 7
  BY DEF Tabled
<1>3. \A v \in Warp : region[t][v] <= r + 1
  BY <1>1 DEF Barriers
<1> QED BY <1>1, <1>2, <1>3 DEF Reached

---------------------------------------------------------------------------
(* What a step does to the counts, by the barrier the warp has come to.    *)

CountsMove(t, w, r) ==
  /\ CountsTabled'
  /\ \A c \in Channel, p \in TilePos :
       tile'[t].nz[c][p] =
         IF r = 0 /\ Resolver(p) = w THEN 0
         ELSE IF r + 1 = Turn(c) THEN tile[t].nz[c][p] + Cardinality(Tally(frame, t, c, {w}, p))
         ELSE tile[t].nz[c][p]
  /\ \A s \in TilesOf(frame), v \in Warp :
       regs'[s][v].nonzero =
         IF s = t /\ v = w /\ r \in {1, 3} THEN Found(frame, t, IF r = 3 THEN Channel ELSE {1}, {w})
         ELSE regs[s][v].nonzero
  /\ \A i \in Word :
       tile'[t].stats[i] =
         IF r = 4 /\ Zeroer(i) = w THEN 0
         ELSE IF r = 5
         THEN tile[t].stats[i] + Cardinality(Firsts(frame, t, {w}, i)) + Cardinality(Hits(frame, t, {w}, i))
         ELSE tile[t].stats[i]
  /\ \A c \in Channel, b \in Blocks(frame) :
       IF r = 4 /\ TileOf(frame, b) = t /\ BandOf(frame, b) = w
       THEN /\ out'.nz_exact[c][b] = IF Owner(frame, b) = b THEN NonzerosOf(frame, c, b) ELSE 0
            /\ out'.nz_grid[c][b] = GridOf(frame, c, b)
       ELSE out'.nz_exact[c][b] = out.nz_exact[c][b] /\ out'.nz_grid[c][b] = out.nz_grid[c][b]
  /\ \A i \in Word :
       out'.order_stats[i] =
         IF r = 6 /\ Zeroer(i) = w
         THEN out.order_stats[i] + Cardinality(Firsts(frame, t, Warp, i)) + Cardinality(Hits(frame, t, Warp, i))
         ELSE out.order_stats[i]

LEMMA CountedStays ==
  ASSUME Tabled, Barriers, frame' = frame, NEW t \in TilesOf(frame), NEW w \in Warp, NEW r \in 0 .. 6,
         Moves(t, w, r), CountsMove(t, w, r), CountedSoFar(t)
  PROVE  CountedSoFar(t)'
<1> SUFFICES ASSUME NEW c \in Channel, NEW p \in TilePos, region'[t][Resolver(p)] >= 1
             PROVE  tile'[t].nz[c][p] = Cardinality(Tally(frame, t, c, Reached(t, Turn(c))', p))
  BY DEF CountedSoFar
<1> DEFINE R == Reached(t, Turn(c))
           Size(W) == Cardinality(Tally(frame, t, c, W, p))
<1>1. Turn(c) \in {2, 4} /\ Turn(c) \in 0 .. 7
  BY DEF Turn
<1>2. /\ r + 1 = Turn(c) => w \notin R /\ R' = R \cup {w}
      /\ r + 1 # Turn(c) => R' = R
      /\ r = 0 => R = {}
  BY <1>1, ReachedAfter
<1>3. Resolver(p) \in Warp
  BY ResolversAre
<1>4. region[t][w] = r /\ region'[t][w] = r + 1 /\ \A v \in Warp : v # w => region'[t][v] = region[t][v]
  BY DEF Moves
<1>5. tile'[t].nz[c][p] =
        IF r = 0 /\ Resolver(p) = w THEN 0
        ELSE IF r + 1 = Turn(c) THEN tile[t].nz[c][p] + Size({w}) ELSE tile[t].nz[c][p]
  BY DEF CountsMove
<1>6. CASE r = 0 /\ Resolver(p) = w
  <2>1. R' = {}
    BY <1>1, <1>2, <1>6
  <2>2. Size({}) = 0
    BY CountsNone
  <2> HIDE DEF Size
  <2>3. Size(R') = 0
    BY <2>1, <2>2
  <2> QED BY <1>5, <1>6, <2>3 DEF Size
<1>7. CASE ~ (r = 0 /\ Resolver(p) = w)
  <2>1. region[t][Resolver(p)] >= 1
    BY <1>3, <1>4, <1>7
  <2>2. tile[t].nz[c][p] = Size(R)
    BY <2>1 DEF CountedSoFar
  <2>3. CASE r + 1 = Turn(c)
    <3>1. Size(R \cup {w}) = Size(R) + Size({w})
      <4>1. w \notin R
        BY <1>2, <2>3
      <4> HIDE DEF R
      <4> QED BY <4>1, TallyAdd
    <3>2. R' = R \cup {w}
      BY <1>2, <2>3
    <3> HIDE DEF Size, R
    <3>3. tile'[t].nz[c][p] = Size(R')
      BY <1>5, <1>7, <2>2, <2>3, <3>1, <3>2
    <3> QED BY <3>3 DEF Size, R
  <2>4. CASE r + 1 # Turn(c)
    <3>1. R' = R
      BY <1>2, <2>4
    <3> HIDE DEF Size, R
    <3>2. tile'[t].nz[c][p] = Size(R')
      BY <1>5, <1>7, <2>2, <2>4, <3>1
    <3> QED BY <3>2 DEF Size, R
  <2> QED BY <2>3, <2>4
<1> QED BY <1>6, <1>7

LEMMA FoundStays ==
  ASSUME Tabled, Barriers, frame' = frame, NEW t \in TilesOf(frame), NEW w \in Warp, NEW r \in 0 .. 6,
         Moves(t, w, r), CountsMove(t, w, r), FoundSoFar(t)
  PROVE  FoundSoFar(t)'
<1> SUFFICES ASSUME NEW v \in Warp, region'[t][v] >= 2
             PROVE  regs'[t][v].nonzero = Found(frame, t, IF region'[t][v] >= 4 THEN Channel ELSE {1}, {v})
  BY DEF FoundSoFar
<1>1. region[t][w] = r /\ region'[t][w] = r + 1 /\ \A u \in Warp : u # w => region'[t][u] = region[t][u]
  BY DEF Moves
<1>2. regs'[t][v].nonzero =
        IF v = w /\ r \in {1, 3} THEN Found(frame, t, IF r = 3 THEN Channel ELSE {1}, {w}) ELSE regs[t][v].nonzero
  BY DEF CountsMove
<1>3. region[t][v] >= 2 => regs[t][v].nonzero = Found(frame, t, IF region[t][v] >= 4 THEN Channel ELSE {1}, {v})
  BY DEF FoundSoFar
<1>4. region[t][v] \in 0 .. 7
  BY DEF Tabled
<1>5. CASE v = w /\ r = 1
  <2>1. ~ (region'[t][v] >= 4)
    BY <1>1, <1>5
  <2> QED BY <1>2, <1>5, <2>1
<1>6. CASE v = w /\ r = 3
  <2>1. region'[t][v] >= 4
    BY <1>1, <1>6
  <2> QED BY <1>2, <1>6, <2>1
<1>7. CASE ~ (v = w /\ r \in {1, 3})
  <2>1. region[t][v] >= 2 /\ (region'[t][v] >= 4 <=> region[t][v] >= 4)
    BY <1>1, <1>4, <1>7
  <2> QED BY <1>2, <1>3, <1>7, <2>1
<1> QED BY <1>5, <1>6, <1>7

LEMMA StatsStay ==
  ASSUME Tabled, Barriers, frame' = frame, NEW t \in TilesOf(frame), NEW w \in Warp, NEW r \in 0 .. 6,
         Moves(t, w, r), CountsMove(t, w, r), StatsSoFar(t)
  PROVE  StatsSoFar(t)'
<1> SUFFICES ASSUME NEW i \in Word, region'[t][Zeroer(i)] >= 5
             PROVE  tile'[t].stats[i] = Cardinality(Firsts(frame, t, Reached(t, 6)', i))
                                        + Cardinality(Hits(frame, t, Reached(t, 6)', i))
  BY DEF StatsSoFar
<1> DEFINE R == Reached(t, 6)
           F(W) == Cardinality(Firsts(frame, t, W, i))
           H(W) == Cardinality(Hits(frame, t, W, i))
<1>1. /\ r = 5 => w \notin R /\ R' = R \cup {w}
      /\ r # 5 => R' = R
      /\ r = 4 => R = {}
  BY ReachedAfter
<1>2. Zeroer(i) \in Warp
  BY ResolversAre
<1>3. region[t][w] = r /\ region'[t][w] = r + 1 /\ \A v \in Warp : v # w => region'[t][v] = region[t][v]
  BY DEF Moves
<1>4. region[t][Zeroer(i)] >= 5 => tile[t].stats[i] = F(R) + H(R)
  BY DEF StatsSoFar
<1>5. tile'[t].stats[i] = IF r = 4 /\ Zeroer(i) = w THEN 0
                          ELSE IF r = 5 THEN tile[t].stats[i] + F({w}) + H({w}) ELSE tile[t].stats[i]
  BY DEF CountsMove
<1>6. \A V : F(V) \in Nat /\ H(V) \in Nat
  BY CountsFinite, FS_CardinalityType
<1>7. F({}) = 0 /\ H({}) = 0 /\ (w \notin R => F(R \cup {w}) = F(R) + F({w}) /\ H(R \cup {w}) = H(R) + H({w}))
  <2>1. F({}) = 0 /\ H({}) = 0
    BY CountsNone
  <2>2. w \notin R => F(R \cup {w}) = F(R) + F({w}) /\ H(R \cup {w}) = H(R) + H({w})
    <3> HIDE DEF R
    <3> QED BY HitsAdd, FirstsAdd
  <2> QED BY <2>1, <2>2
<1>8. tile'[t].stats[i] = F(R') + H(R')
  <2> HIDE DEF F, H, R
  <2>1. CASE r = 4 /\ Zeroer(i) = w
    BY <1>1, <1>5, <1>7, <2>1
  <2>2. CASE r = 5
    <3>1. F(R') = F(R) + F({w}) /\ H(R') = H(R) + H({w})
      BY <1>1, <1>7, <2>2
    <3>2. tile[t].stats[i] = F(R) + H(R)
      BY <1>2, <1>3, <1>4, <2>2
    <3> QED BY <1>5, <1>6, <2>2, <3>1, <3>2
  <2>3. CASE r # 5 /\ ~ (r = 4 /\ Zeroer(i) = w)
    <3>1. region[t][Zeroer(i)] >= 5
      BY <1>2, <1>3, <2>3
    <3> QED BY <1>1, <1>4, <1>5, <2>3, <3>1
  <2> QED BY <2>1, <2>2, <2>3
<1> QED BY <1>8

LEMMA CountsWrittenStay ==
  ASSUME Tabled, Barriers, frame' = frame, NEW t \in TilesOf(frame), NEW w \in Warp, NEW r \in 0 .. 6,
         Moves(t, w, r), CountsMove(t, w, r), CountsWritten
  PROVE  CountsWritten'
<1> SUFFICES ASSUME NEW c \in Channel, NEW b \in Blocks(frame), region'[TileOf(frame, b)][BandOf(frame, b)] >= 5
             PROVE  /\ out'.nz_exact[c][b] = IF Owner(frame, b) = b THEN NonzerosOf(frame, c, b) ELSE 0
                    /\ out'.nz_grid[c][b] = GridOf(frame, c, b)
  BY DEF CountsWritten
<1> DEFINE s == TileOf(frame, b)
           v == BandOf(frame, b)
<1>1. frame \in Frames
  BY DEF Tabled
<1>2. s \in TilesOf(frame) /\ v \in Warp
  BY <1>1, WritersAre
<1>3. /\ region[t][w] = r /\ region'[t][w] = r + 1
      /\ s # t \/ v # w => region'[s][v] = region[s][v]
  BY <1>2 DEF Moves
<1>4. IF r = 4 /\ s = t /\ v = w
      THEN /\ out'.nz_exact[c][b] = IF Owner(frame, b) = b THEN NonzerosOf(frame, c, b) ELSE 0
           /\ out'.nz_grid[c][b] = GridOf(frame, c, b)
      ELSE out'.nz_exact[c][b] = out.nz_exact[c][b] /\ out'.nz_grid[c][b] = out.nz_grid[c][b]
  BY DEF CountsMove
<1>5. region[s][v] >= 5 =>
        /\ out.nz_exact[c][b] = IF Owner(frame, b) = b THEN NonzerosOf(frame, c, b) ELSE 0
        /\ out.nz_grid[c][b] = GridOf(frame, c, b)
  BY DEF CountsWritten
<1>6. CASE r = 4 /\ s = t /\ v = w
  BY <1>4, <1>6
<1>7. CASE ~ (r = 4 /\ s = t /\ v = w)
  <2>1. region[s][v] >= 5
    BY <1>3, <1>7
  <2> QED BY <1>4, <1>5, <1>7, <2>1
<1> QED BY <1>6, <1>7

(* A tile more has flushed what it has counted. *)
LEMMA AllAdd ==
  ASSUME NEW f, NEW T, IsFiniteSet(T), NEW t, t \notin T, NEW i
  PROVE  /\ Cardinality(AllHits(f, T \cup {t}, i)) =
              Cardinality(AllHits(f, T, i)) + Cardinality(Hits(f, t, Warp, i))
         /\ Cardinality(AllFirsts(f, T \cup {t}, i)) =
              Cardinality(AllFirsts(f, T, i)) + Cardinality(Firsts(f, t, Warp, i))
         /\ Cardinality(AllHits(f, T, i)) \in Nat /\ Cardinality(AllFirsts(f, T, i)) \in Nat
<1> DEFINE S == AllHits(f, T, i)
           R == {t} \X Hits(f, t, Warp, i)
           A == AllHits(f, T \cup {t}, i)
           U == AllFirsts(f, T, i)
           Q == {t} \X Firsts(f, t, Warp, i)
           B == AllFirsts(f, T \cup {t}, i)
<1>1. A = S \cup R /\ R \cap S = {}
  <2>1. Hits(f, t, Warp, i) \subseteq Channel \X TileCells
    BY DEF Hits, Found
  <2> QED BY <2>1 DEF AllHits
<1>2. B = U \cup Q /\ Q \cap U = {}
  <2>1. Firsts(f, t, Warp, i) \subseteq TilePos
    BY DEF Firsts, FirstPos
  <2> QED BY <2>1 DEF AllFirsts
<1>3. IsFiniteSet(S) /\ IsFiniteSet(U)
  <2>1. IsFiniteSet(T \X (Channel \X TileCells)) /\ IsFiniteSet(T \X TilePos)
    BY CountsFinite, FS_Product
  <2>2. S \in SUBSET (T \X (Channel \X TileCells)) /\ U \in SUBSET (T \X TilePos)
    BY DEF AllHits, AllFirsts
  <2> HIDE DEF S, U
  <2> QED BY <2>1, <2>2, FS_Subset
<1>4. /\ Cardinality(R) = Cardinality(Hits(f, t, Warp, i)) /\ IsFiniteSet(R)
      /\ Cardinality(Q) = Cardinality(Firsts(f, t, Warp, i)) /\ IsFiniteSet(Q)
  BY CountsFinite, CountPairs
<1> HIDE DEF S, R, A, U, Q, B
<1>5. /\ Cardinality(A) = Cardinality(S) + Cardinality(R) /\ Cardinality(S) \in Nat
      /\ Cardinality(B) = Cardinality(U) + Cardinality(Q) /\ Cardinality(U) \in Nat
  <2>1. Cardinality(S \cup R) = Cardinality(S) + Cardinality(R) /\ Cardinality(S) \in Nat
    BY <1>1, <1>3, <1>4, CountMore
  <2>2. Cardinality(U \cup Q) = Cardinality(U) + Cardinality(Q) /\ Cardinality(U) \in Nat
    BY <1>2, <1>3, <1>4, CountMore
  <2> QED BY <1>1, <1>2, <2>1, <2>2, Zenon
<1> QED BY <1>4, <1>5 DEF S, R, A, U, Q, B

LEMMA OrdersStay ==
  ASSUME Tabled, Barriers, frame' = frame, NEW t \in TilesOf(frame), NEW w \in Warp, NEW r \in 0 .. 6,
         Moves(t, w, r), CountsMove(t, w, r), OrdersWritten
  PROVE  OrdersWritten'
<1> SUFFICES ASSUME NEW i \in Word
             PROVE  out'.order_stats[i] = Cardinality(AllFirsts(frame, Flushed(i)', i))
                                          + Cardinality(AllHits(frame, Flushed(i)', i))
  BY DEF OrdersWritten
<1> DEFINE T == Flushed(i)
           F(S) == Cardinality(AllFirsts(frame, S, i))
           H(S) == Cardinality(AllHits(frame, S, i))
           F1 == Cardinality(Firsts(frame, t, Warp, i))
           H1 == Cardinality(Hits(frame, t, Warp, i))
<1>1. /\ region[t][w] = r /\ region'[t][w] = r + 1
      /\ \A s \in TilesOf(frame), v \in Warp : s # t \/ v # w => region'[s][v] = region[s][v]
  BY DEF Moves
<1>2. Zeroer(i) \in Warp /\ \A s \in TilesOf(frame) : region[s][Zeroer(i)] \in 0 .. 7
  BY ResolversAre DEF Tabled
<1>3. out.order_stats[i] = F(T) + H(T)
  BY DEF OrdersWritten
<1>4. out'.order_stats[i] = IF r = 6 /\ Zeroer(i) = w THEN out.order_stats[i] + F1 + H1 ELSE out.order_stats[i]
  BY DEF CountsMove
<1>5. CASE r = 6 /\ Zeroer(i) = w
  <2>1. T' = T \cup {t} /\ t \notin T
    BY <1>1, <1>2, <1>5 DEF Flushed
  <2>2. IsFiniteSet(T)
    <3>1. T \in SUBSET TilesOf(frame)
      BY DEF Flushed
    <3>2. IsFiniteSet(TilesOf(frame))
      <4>1. NumTiles(frame) \in Int
        BY TileIs DEF NumTiles, Tabled
      <4> QED BY <4>1, FS_Interval DEF TilesOf
    <3> QED BY <3>1, <3>2, FS_Subset
  <2>3. F(T \cup {t}) = F(T) + F1 /\ H(T \cup {t}) = H(T) + H1 /\ F(T) \in Nat /\ H(T) \in Nat
    <3> HIDE DEF T
    <3>1. t \notin T /\ IsFiniteSet(T)
      BY <2>1, <2>2
    <3>2. /\ Cardinality(AllHits(frame, T \cup {t}, i)) =
                Cardinality(AllHits(frame, T, i)) + Cardinality(Hits(frame, t, Warp, i))
          /\ Cardinality(AllFirsts(frame, T \cup {t}, i)) =
                Cardinality(AllFirsts(frame, T, i)) + Cardinality(Firsts(frame, t, Warp, i))
          /\ Cardinality(AllHits(frame, T, i)) \in Nat /\ Cardinality(AllFirsts(frame, T, i)) \in Nat
      BY ONLY <3>1, AllAdd
    <3> QED BY <3>2
  <2>4. F1 \in Nat /\ H1 \in Nat
    BY CountsFinite, FS_CardinalityType
  <2> HIDE DEF T, F, H, F1, H1
  <2>5. out'.order_stats[i] = F(T') + H(T')
    BY <1>3, <1>4, <1>5, <2>1, <2>3, <2>4
  <2> QED BY <2>5 DEF T, F, H
<1>6. CASE ~ (r = 6 /\ Zeroer(i) = w)
  <2>1. T' = T
    BY <1>1, <1>2, <1>6 DEF Flushed
  <2> HIDE DEF T, F, H, F1, H1
  <2>2. out'.order_stats[i] = F(T') + H(T')
    BY <1>3, <1>4, <1>6, <2>1
  <2> QED BY <2>2 DEF T, F, H
<1> QED BY <1>5, <1>6

(* A step that does this keeps the invariant. *)
LEMMA CountsStay ==
  ASSUME Tabled, Barriers, CountsInv, frame' = frame, NEW t \in TilesOf(frame), NEW w \in Warp, NEW r \in 0 .. 6,
         Moves(t, w, r), OnlyTile(t), CountsMove(t, w, r)
  PROVE  CountsInv'
<1>1. CountsTabled' /\ CountsWritten' /\ OrdersWritten'
  BY CountsWrittenStay, OrdersStay DEF CountsInv, CountsMove
<1>2. CountInv(t)'
  BY CountedStays, FoundStays, StatsStay DEF CountsInv, CountInv
<1>3. ASSUME NEW s \in TilesOf(frame), s # t PROVE CountInv(s)'
  <2>1. CountedSoFar(s) /\ FoundSoFar(s) /\ StatsSoFar(s)
    BY DEF CountsInv, CountInv
  <2>2. tile'[s] = tile[s] /\ \A v \in Warp : region'[s][v] = region[s][v] /\ regs'[s][v].nonzero = regs[s][v].nonzero
    BY <1>3 DEF OnlyTile, Moves, CountsMove
  <2>3. \A n \in 0 .. 7 : Reached(s, n)' = Reached(s, n)
    BY <1>3, ReachedAfter
  <2>4. CountedSoFar(s)'
    <3> SUFFICES ASSUME NEW c \in Channel, NEW p \in TilePos, region'[s][Resolver(p)] >= 1
                 PROVE  tile'[s].nz[c][p] = Cardinality(Tally(frame, s, c, Reached(s, Turn(c))', p))
      BY DEF CountedSoFar
    <3>1. Turn(c) \in 0 .. 7
      BY DEF Turn
    <3>2. Reached(s, Turn(c))' = Reached(s, Turn(c)) /\ region[s][Resolver(p)] >= 1
      BY <2>2, <2>3, <3>1, ResolversAre
    <3>3. tile[s].nz[c][p] = Cardinality(Tally(frame, s, c, Reached(s, Turn(c)), p))
      BY <2>1, <3>2 DEF CountedSoFar
    <3> QED BY <2>2, <3>2, <3>3
  <2>5. FoundSoFar(s)'
    BY <2>1, <2>2 DEF FoundSoFar
  <2>6. StatsSoFar(s)'
    <3> SUFFICES ASSUME NEW i \in Word, region'[s][Zeroer(i)] >= 5
                 PROVE  tile'[s].stats[i] = Cardinality(Firsts(frame, s, Reached(s, 6)', i))
                                            + Cardinality(Hits(frame, s, Reached(s, 6)', i))
      BY DEF StatsSoFar
    <3>1. Reached(s, 6)' = Reached(s, 6) /\ region[s][Zeroer(i)] >= 5
      BY <2>2, <2>3, ResolversAre
    <3>2. tile[s].stats[i] = Cardinality(Firsts(frame, s, Reached(s, 6), i))
                             + Cardinality(Hits(frame, s, Reached(s, 6), i))
      BY <2>1, <3>1 DEF StatsSoFar
    <3> QED BY <2>2, <3>1, <3>2
  <2> QED BY <2>4, <2>5, <2>6 DEF CountInv
<1> QED BY <1>1, <1>2, <1>3 DEF CountsInv

---------------------------------------------------------------------------
(* What each action does to the counts.                                    *)

(* Once all its warps have come to the first barrier, a tile is resolved.  *)
Resolved(t) == \A p \in TilePos : tile[t].pos[p] = Position(frame, t, p)

LEMMA ResolvedAfter ==
  ASSUME Tabled, NEW t \in TilesOf(frame), TileInv(t), \A v \in Warp : region[t][v] >= 1
  PROVE  Resolved(t)
<1> SUFFICES ASSUME NEW p \in TilePos PROVE tile[t].pos[p] = Position(frame, t, p)
  BY DEF Resolved
<1>1. Resolver(p) \in Warp /\ p \in Band(Resolver(p))
  BY ResolversAre
<1> QED BY <1>1 DEF TileInv, PlacedSoFar

(* The counts in global memory stay. *)
SameCounts ==
  out'.nz_exact = out.nz_exact /\ out'.nz_grid = out.nz_grid /\ out'.order_stats = out.order_stats

LEMMA PlanesKeepCounts ==
  ASSUME Table(out, OutFields), NEW a, NEW b, NEW t,
         \/ out' = [out EXCEPT !.ac[1] = a, !.dc = b]
         \/ out' = [out EXCEPT !.ac[0] = a, !.ac[2] = b]
         \/ out' = [out EXCEPT !.maps[t] = a]
  PROVE  SameCounts
<1>1. CASE out' = [out EXCEPT !.ac[1] = a, !.dc = b]
  BY <1>1 DEF Table, OutFields, SameCounts
<1>2. CASE out' = [out EXCEPT !.ac[0] = a, !.ac[2] = b]
  <2> DEFINE first == [out EXCEPT !.ac = [out.ac EXCEPT ![0] = a]]
             x == [out.ac EXCEPT ![0] = a]
  <2>1. out' = [[out EXCEPT !.ac = [@ EXCEPT ![0] = a]] EXCEPT !.ac = [@ EXCEPT ![2] = b]]
    BY <1>2, Zenon
  <2>2. [out EXCEPT !.ac = [@ EXCEPT ![0] = a]] = first
    BY DEF Table, OutFields
  <2>3. out' = [first EXCEPT !.ac = [@ EXCEPT ![2] = b]]
    BY <2>1, <2>2, Zenon
  <2>4. first = [out EXCEPT !.ac = x]
    OBVIOUS
  <2> HIDE DEF first, x
  <2>5. Table(first, OutFields) /\ first.nz_exact = out.nz_exact /\ first.nz_grid = out.nz_grid
        /\ first.order_stats = out.order_stats
    BY <2>4 DEF Table, OutFields
  <2> QED BY ONLY <2>3, <2>5 DEF Table, OutFields, SameCounts
<1>3. CASE out' = [out EXCEPT !.maps[t] = a]
  BY <1>3 DEF Table, OutFields, SameCounts
<1> QED BY <1>1, <1>2, <1>3

(* The counts are tables after a step. *)
LEMMA CountsTabledAfter ==
  ASSUME CountsTabled, frame' = frame, NEW t \in TilesOf(frame), OnlyTile(t),
         Table(tile'[t].nz, Channel), \A c \in Channel : DOMAIN tile'[t].nz[c] = TilePos,
         DOMAIN tile'[t].stats = Word,
         Table(out'.nz_exact, Channel), Table(out'.nz_grid, Channel), DOMAIN out'.order_stats = Word,
         \A c \in Channel : DOMAIN out'.nz_exact[c] = Blocks(frame) /\ DOMAIN out'.nz_grid[c] = Blocks(frame)
  PROVE  CountsTabled'
<1>1. ASSUME NEW s \in TilesOf(frame)
      PROVE  /\ Table(tile'[s].nz, Channel) /\ \A c \in Channel : DOMAIN tile'[s].nz[c] = TilePos
             /\ DOMAIN tile'[s].stats = Word
  BY DEF OnlyTile, CountsTabled
<1> QED BY <1>1 DEF CountsTabled

(* The non-zeros a warp counts and flags among the values of its cells. *)
Mine(t, w, c) == {k \in NonzeroCells(frame, t, c) : k[1] % Warps = w}
MineFlagged(t, w, c) == {k \in FlaggedCells(frame, t, c) : k[1] % Warps = w}

(* Of chroma they are the same. *)
LEMMA ChromaFlagged ==
  ASSUME NEW f, NEW t, NEW c, c # 1
  PROVE  /\ \A b, slot : Flag(f, c, b, slot) = Final(f, c, b, slot)
         /\ FlaggedCells(f, t, c) = NonzeroCells(f, t, c)
<1>1. \A b, slot : Flag(f, c, b, slot) = Final(f, c, b, slot)
  BY Zenon DEF Flag, Final
<1> QED BY <1>1, Zenon DEF FlaggedCells, NonzeroCells

LEMMA NonzerosAre ==
  ASSUME frame \in Frames, NEW t \in TilesOf(frame), NEW w, NEW c \in Channel,
         NEW q, q = [k \in AcCells(t, w) |-> Final(frame, c, BlockOf(frame, t, k[1]), k[2])]
  PROVE  NonzeroAt(q) = Mine(t, w, c)
<1>1. \A k : k \in AcCells(t, w) <=>
        /\ k \in TileCells /\ k[1] % Warps = w /\ InFrame(frame, t, k[1])
        /\ ~ Corner(frame, BlockOf(frame, t, k[1]), k[2])
  BY DEF AcCells, Quantizes, TileCells, TilePos
<1>2. \A b, s : Final(frame, c, b, s) # 0 => ~ Corner(frame, b, s)
  BY DEF Final
<1>3. NonzeroAt(q) = {k \in AcCells(t, w) : Final(frame, c, BlockOf(frame, t, k[1]), k[2]) # 0}
  BY DEF NonzeroAt
<1> QED BY <1>1, <1>2, <1>3 DEF Mine, NonzeroCells

LEMMA FlaggedAre ==
  ASSUME frame \in Frames, NEW t \in TilesOf(frame), NEW w, NEW c \in Channel,
         NEW q, q = [k \in AcCells(t, w) |-> Flag(frame, c, BlockOf(frame, t, k[1]), k[2])]
  PROVE  NonzeroAt(q) = MineFlagged(t, w, c)
<1>1. \A k : k \in AcCells(t, w) <=>
        /\ k \in TileCells /\ k[1] % Warps = w /\ InFrame(frame, t, k[1])
        /\ ~ Corner(frame, BlockOf(frame, t, k[1]), k[2])
  BY DEF AcCells, Quantizes, TileCells, TilePos
<1>2. \A b, s : Flag(frame, c, b, s) # 0 => ~ Corner(frame, b, s)
  BY DEF Flag
<1>3. NonzeroAt(q) = {k \in AcCells(t, w) : Flag(frame, c, BlockOf(frame, t, k[1]), k[2]) # 0}
  BY DEF NonzeroAt
<1> QED BY <1>1, <1>2, <1>3 DEF MineFlagged, FlaggedCells

(* They are counted at the position of their owner. *)
LEMMA CountedIs ==
  ASSUME frame \in Frames, NEW t \in TilesOf(frame), Resolved(t), NEW w, NEW c \in Channel,
         NEW nz, DOMAIN nz = TilePos
  PROVE  /\ DOMAIN Counted(nz, t, Mine(t, w, c)) = TilePos
         /\ \A p \in TilePos :
              Counted(nz, t, Mine(t, w, c))[p] = nz[p] + Cardinality(Tally(frame, t, c, {w}, p))
<1> DEFINE N == Mine(t, w, c)
           S(p) == {k \in N : CountedAt(t, k[1]) = p}
<1>1. Counted(nz, t, N) = [p \in TilePos |-> nz[p] + Cardinality(S(p))]
  BY TabulatedIs DEF Counted
<1>2. ASSUME NEW p \in TilePos PROVE S(p) = Tally(frame, t, c, {w}, p)
  <2>1. ASSUME NEW k \in NonzeroCells(frame, t, c) PROVE CountedAt(t, k[1]) = OwnerPos(frame, t, k[1])
    <3>1. k[1] \in TilePos /\ InFrame(frame, t, k[1])
      BY DEF NonzeroCells, TileCells
    <3> QED BY <3>1, ResolvedIs DEF Resolved
  <2> QED BY <2>1 DEF Tally, Mine
<1> HIDE DEF S, N
<1>3. /\ DOMAIN Counted(nz, t, N) = TilePos
      /\ \A p \in TilePos : Counted(nz, t, N)[p] = nz[p] + Cardinality(Tally(frame, t, c, {w}, p))
  BY <1>1, <1>2
<1> QED BY <1>3 DEF N

LEMMA LoadMove ==
  ASSUME Tabled, CountsTabled, NEW t \in TilesOf(frame), NEW w \in Warp, LoadTile(t, w)
  PROVE  CountsMove(t, w, 0)
<1> DEFINE zero(c) == [p \in DOMAIN tile[t].nz[c] |-> IF p \in Band(w) THEN 0 ELSE tile[t].nz[c][p]]
           z == [c \in Channel |-> Tabulated(zero(c))]
           T == TilesOf(frame)
<1>1. \E a, b : tile' = [tile EXCEPT ![t].coeffs = a, ![t].pos = b, ![t].nz = z]
  BY Zenon DEF LoadTile
<1>2. frame' = frame /\ regs' = regs /\ out' = out /\ OnlyTile(t)
  BY LoadDoes
<1>3. PICK a, b : tile' = [tile EXCEPT ![t].coeffs = a, ![t].pos = b, ![t].nz = z]
  BY <1>1
<1>4. Table(z, Channel) /\ \A c \in Channel : z[c] = zero(c)
  <2> HIDE DEF zero
  <2> QED BY TabulatedIs DEF Table
<1>5. \A c \in Channel : DOMAIN tile[t].nz[c] = TilePos
  BY DEF CountsTabled
<1>6. /\ Table(z, Channel) /\ \A c \in Channel : DOMAIN z[c] = TilePos
      /\ \A c \in Channel, p \in TilePos : z[c][p] = IF Resolver(p) = w THEN 0 ELSE tile[t].nz[c][p]
  <2> HIDE DEF z
  <2> QED BY <1>4, <1>5, ResolversAre
<1> HIDE DEF z
<1>7. tile'[t].nz = z /\ tile'[t].stats = tile[t].stats
  <2>1. Table(tile, T) /\ t \in T /\ Table(tile[t], TileFields)
    BY DEF Tabled
  <2> HIDE DEF T
  <2> QED BY ONLY <1>3, <2>1 DEF Table, TileFields
<1>8. CountsTabled'
  <2>1. /\ DOMAIN tile'[t].stats = Word /\ Table(out'.nz_exact, Channel) /\ Table(out'.nz_grid, Channel)
        /\ DOMAIN out'.order_stats = Word
        /\ \A c \in Channel : DOMAIN out'.nz_exact[c] = Blocks(frame) /\ DOMAIN out'.nz_grid[c] = Blocks(frame)
    BY <1>2, <1>7 DEF CountsTabled
  <2> QED BY <1>2, <1>6, <1>7, <2>1, CountsTabledAfter
<1>9. \A c \in Channel : 0 + 1 # Turn(c)
  BY DEF Turn
<1> QED BY <1>2, <1>6, <1>7, <1>8, <1>9 DEF CountsMove

LEMMA MapMove ==
  ASSUME Tabled, CountsTabled, NEW t \in TilesOf(frame), NEW w \in Warp, MapColors(t, w), OnlyTile(t)
  PROVE  CountsMove(t, w, 2)
<1> DEFINE T == TilesOf(frame)
<1>1. frame' = frame /\ regs' = regs
  BY DEF MapColors
<1>2. \/ tile' = tile /\ out' = out
      \/ \E maps : tile' = [tile EXCEPT ![t].maps = maps] /\ out' = [out EXCEPT !.maps[t] = maps]
  BY Zenon DEF MapColors
<1>3. SameCounts
  <2>1. Table(out, OutFields)
    BY DEF Tabled, OutTabled
  <2> QED BY <1>2, <2>1, PlanesKeepCounts DEF SameCounts
<1>4. tile'[t].nz = tile[t].nz /\ tile'[t].stats = tile[t].stats
  <2>1. Table(tile, T) /\ t \in T /\ Table(tile[t], TileFields)
    BY DEF Tabled
  <2> HIDE DEF T
  <2> QED BY ONLY <1>2, <2>1 DEF Table, TileFields
<1>5. CountsTabled'
  <2>1. /\ Table(tile'[t].nz, Channel) /\ \A c \in Channel : DOMAIN tile'[t].nz[c] = TilePos
        /\ DOMAIN tile'[t].stats = Word /\ Table(out'.nz_exact, Channel) /\ Table(out'.nz_grid, Channel)
        /\ DOMAIN out'.order_stats = Word
        /\ \A c \in Channel : DOMAIN out'.nz_exact[c] = Blocks(frame) /\ DOMAIN out'.nz_grid[c] = Blocks(frame)
    BY <1>3, <1>4 DEF CountsTabled, SameCounts
  <2> QED BY <1>1, <2>1, CountsTabledAfter
<1>6. \A c \in Channel : 2 + 1 # Turn(c)
  BY DEF Turn
<1> QED BY <1>1, <1>3, <1>4, <1>5, <1>6 DEF CountsMove, SameCounts

LEMMA LumaMove ==
  ASSUME Tabled, CountsTabled, NEW t \in TilesOf(frame), NEW w \in Warp, QuantizeLuma(t, w), Loaded(t),
         OnlyTile(t), \A s \in TilesOf(frame), v \in Warp : s # t \/ v # w => regs'[s][v] = regs[s][v]
  PROVE  CountsMove(t, w, 1)
<1> DEFINE T == TilesOf(frame)
           B(k) == BlockOf(frame, t, k[1])
           quantized(k) == QuantizedLuma(tile[t].coeffs[1][k[1] * Slots + k[2]], tile[t].pos[k[1]].qf,
                                         tile[t].pos[k[1]].side, RawAt(t, k))
<1>1. frame \in Frames /\ RegsTabled /\ frame' = frame /\ Table(out, OutFields) /\ Resolved(t)
  BY DEF Tabled, OutTabled, QuantizeLuma, Loaded, Resolved
<1>2. \E q : /\ q = Tabulated([k \in AcSlots(t, w) |-> quantized(k)])
             /\ \E a : tile' = [tile EXCEPT ![t].sums[w] = a, ![t].nz[1] = Counted(tile[t].nz[1], t, NonzeroAt(Stored(q)))]
             /\ \E a : regs' = [regs EXCEPT ![t][w] = [roundtrip |-> a, nonzero |-> {<<1, k>> : k \in NonzeroAt(q)}]]
             /\ \E a, b : out' = [out EXCEPT !.ac[1] = a, !.dc = b]
  <2> DEFINE Q == Tabulated([k \in AcSlots(t, w) |-> quantized(k)])
  <2>1. /\ \E a : tile' = [tile EXCEPT ![t].sums[w] = a, ![t].nz[1] = Counted(tile[t].nz[1], t, NonzeroAt(Stored(Q)))]
        /\ \E a : regs' = [regs EXCEPT ![t][w] = [roundtrip |-> a, nonzero |-> {<<1, k>> : k \in NonzeroAt(Q)}]]
        /\ \E a, b : out' = [out EXCEPT !.ac[1] = a, !.dc = b]
    BY Zenon DEF QuantizeLuma
  <2> QED BY <2>1, Zenon
<1>3. PICK q : /\ q = Tabulated([k \in AcSlots(t, w) |-> quantized(k)])
               /\ \E a : tile' = [tile EXCEPT ![t].sums[w] = a, ![t].nz[1] = Counted(tile[t].nz[1], t, NonzeroAt(Stored(q)))]
               /\ \E a : regs' = [regs EXCEPT ![t][w] = [roundtrip |-> a, nonzero |-> {<<1, k>> : k \in NonzeroAt(q)}]]
               /\ \E a, b : out' = [out EXCEPT !.ac[1] = a, !.dc = b]
  BY <1>2
<1>4. /\ q = [k \in AcCells(t, w) |-> Flag(frame, 1, B(k), k[2])]
      /\ Stored(q) = [k \in AcCells(t, w) |-> Final(frame, 1, B(k), k[2])]
  <2>1. q = [k \in AcCells(t, w) |-> quantized(k)]
    BY <1>1, <1>3, TabulatedIs, AcSlotsAre
  <2>2. ASSUME NEW k \in AcCells(t, w)
        PROVE  quantized(k) = Flag(frame, 1, B(k), k[2]) /\ Narrowed(quantized(k)) = Final(frame, 1, B(k), k[2])
    <3>1. 1 \in Channel
      BY DEF Channel
    <3>2. /\ tile[t].coeffs[1][k[1] * Slots + k[2]] = Value(frame, 1, B(k), k[2])
          /\ tile[t].pos[k[1]].qf = frame.qf[Owner(frame, B(k))] /\ tile[t].pos[k[1]].side = Side(frame, B(k))
          /\ RawAt(t, k) = Raw(frame, B(k), k[2]) /\ ~ Corner(frame, B(k), k[2])
      BY <1>1, <3>1, AcCellIs
    <3>3. quantized(k) = Luma(frame, B(k), k[2])
      BY <3>2, Zenon DEF Luma
    <3> HIDE DEF quantized, B
    <3>4. Narrowed(quantized(k)) = StoredLuma(frame, B(k), k[2])
      BY <3>3, Zenon DEF StoredLuma
    <3>5. Flag(frame, 1, B(k), k[2]) = Luma(frame, B(k), k[2])
          /\ Final(frame, 1, B(k), k[2]) = StoredLuma(frame, B(k), k[2])
      BY <3>2, Zenon DEF Flag, Final
    <3> QED BY <3>3, <3>4, <3>5, Zenon
  <2>3. Stored(q) = [k \in DOMAIN q |-> Narrowed(q[k])]
    BY TabulatedIs, Zenon DEF Stored
  <2> HIDE DEF quantized, B
  <2>4. q = [k \in AcCells(t, w) |-> Flag(frame, 1, B(k), k[2])]
    BY <2>1, <2>2
  <2>5. Stored(q) = [k \in AcCells(t, w) |-> Narrowed(q[k])]
    <3>1. DOMAIN q = AcCells(t, w)
      BY <2>1
    <3> QED BY <2>3, <3>1, Zenon
  <2>6. \A k \in AcCells(t, w) : Narrowed(q[k]) = Final(frame, 1, B(k), k[2])
    <3> SUFFICES ASSUME NEW k \in AcCells(t, w) PROVE Narrowed(q[k]) = Final(frame, 1, B(k), k[2])
      OBVIOUS
    <3>1. q[k] = quantized(k)
      BY <2>1
    <3> QED BY <2>2, <3>1, Zenon
  <2>7. Stored(q) = [k \in AcCells(t, w) |-> Final(frame, 1, B(k), k[2])]
    BY <2>5, <2>6
  <2> QED BY <2>4, <2>7
<1> DEFINE N == Mine(t, w, 1)
           z == Counted(tile[t].nz[1], t, N)
<1>5. NonzeroAt(Stored(q)) = N /\ NonzeroAt(q) = MineFlagged(t, w, 1)
  <2> DEFINE c == 1
             d == Stored(q)
  <2>1. /\ c \in Channel /\ q = [k \in AcCells(t, w) |-> Flag(frame, c, BlockOf(frame, t, k[1]), k[2])]
        /\ d = [k \in AcCells(t, w) |-> Final(frame, c, BlockOf(frame, t, k[1]), k[2])]
    BY <1>4 DEF Channel
  <2> HIDE DEF c, d
  <2>2. NonzeroAt(q) = MineFlagged(t, w, c)
    BY <1>1, <2>1, FlaggedAre
  <2>3. NonzeroAt(d) = Mine(t, w, c)
    BY <1>1, <2>1, NonzerosAre
  <2> QED BY <2>2, <2>3, Zenon DEF c, d
<1>6. /\ DOMAIN z = TilePos
      /\ \A p \in TilePos : z[p] = tile[t].nz[1][p] + Cardinality(Tally(frame, t, 1, {w}, p))
  <2>1. 1 \in Channel /\ DOMAIN tile[t].nz[1] = TilePos
    BY DEF Channel, CountsTabled
  <2> DEFINE nz == tile[t].nz[1]
             c == 1
  <2>2. c \in Channel /\ DOMAIN nz = TilePos
    BY <2>1
  <2> HIDE DEF nz, c
  <2>3. /\ DOMAIN Counted(nz, t, Mine(t, w, c)) = TilePos
        /\ \A p \in TilePos :
             Counted(nz, t, Mine(t, w, c))[p] = nz[p] + Cardinality(Tally(frame, t, c, {w}, p))
    BY <1>1, <2>2, CountedIs
  <2> QED BY <2>3 DEF nz, c
<1>7. /\ Table(tile'[t].nz, Channel) /\ tile'[t].nz[0] = tile[t].nz[0] /\ tile'[t].nz[1] = z
      /\ tile'[t].nz[2] = tile[t].nz[2] /\ tile'[t].stats = tile[t].stats
  <2>1. Table(tile, T) /\ t \in T /\ Table(tile[t], TileFields) /\ Table(tile[t].nz, Channel)
    BY DEF Tabled, CountsTabled
  <2>2. \E a : tile' = [tile EXCEPT ![t].sums[w] = a, ![t].nz[1] = z]
    BY <1>3, <1>5, Zenon
  <2>3. 0 \in Channel /\ 1 \in Channel /\ 2 \in Channel
    BY DEF Channel
  <2> HIDE DEF T, z
  <2>4. PICK a : tile' = [tile EXCEPT ![t].sums[w] = a, ![t].nz[1] = z]
    BY <2>2
  <2> DEFINE row == [tile[t] EXCEPT !.sums[w] = a, !.nz[1] = z]
             nz == [tile[t].nz EXCEPT ![1] = z]
  <2>5. Table(nz, Channel) /\ nz[0] = tile[t].nz[0] /\ nz[1] = z /\ nz[2] = tile[t].nz[2]
    BY ONLY <2>1, <2>3 DEF Table
  <2>6. row.nz = nz /\ row.stats = tile[t].stats
    BY ONLY <2>1 DEF Table, TileFields
  <2>7. tile'[t] = row
    <3>1. tile' = [tile EXCEPT ![t] = row]
      BY <2>4, Zenon
    <3> HIDE DEF row
    <3> QED BY <2>1, <3>1 DEF Table
  <2> HIDE DEF row, nz
  <2> QED BY <2>5, <2>6, <2>7
<1> HIDE DEF z
<1>8. \A c \in Channel : DOMAIN tile'[t].nz[c] = TilePos
  BY <1>6, <1>7 DEF Channel, CountsTabled
<1>9. \A c \in Channel, p \in TilePos :
        tile'[t].nz[c][p] = IF 1 + 1 = Turn(c) THEN tile[t].nz[c][p] + Cardinality(Tally(frame, t, c, {w}, p))
                            ELSE tile[t].nz[c][p]
  <2> SUFFICES ASSUME NEW c \in Channel, NEW p \in TilePos
               PROVE  tile'[t].nz[c][p] =
                        IF 1 + 1 = Turn(c) THEN tile[t].nz[c][p] + Cardinality(Tally(frame, t, c, {w}, p))
                        ELSE tile[t].nz[c][p]
    OBVIOUS
  <2>1. CASE c = 1
    BY <1>6, <1>7, <2>1 DEF Turn
  <2>2. CASE c # 1
    BY <1>7, <2>2 DEF Channel, Turn
  <2> QED BY <2>1, <2>2
<1>10. regs'[t][w].nonzero = Found(frame, t, {1}, {w})
  <2> DEFINE n == {<<1, k>> : k \in NonzeroAt(q)}
  <2>1. n = Found(frame, t, {1}, {w})
    <3> DEFINE M == MineFlagged(t, w, 1)
    <3>1. n = {<<1, k>> : k \in M}
      BY <1>5
    <3>2. FlaggedCells(frame, t, 1) \subseteq TileCells
      BY DEF FlaggedCells
    <3>5. \A k : k \in M <=> k \in FlaggedCells(frame, t, 1) /\ k[1] % Warps = w
      BY DEF MineFlagged
    <3> HIDE DEF n, M
    <3>3. \A m : m \in n <=> \E k \in M : m = <<1, k>>
      BY <3>1
    <3>4. \A m : m \in Found(frame, t, {1}, {w}) <=> \E k \in M : m = <<1, k>>
      BY <3>2, <3>5 DEF Found
    <3> QED BY <3>3, <3>4
  <2>2. PICK a : regs' = [regs EXCEPT ![t][w] = [roundtrip |-> a, nonzero |-> n]]
    BY <1>3
  <2> DEFINE r == [roundtrip |-> a, nonzero |-> n]
  <2>3. r.nonzero = n
    OBVIOUS
  <2>4. Table(regs, T) /\ t \in T /\ Table(regs[t], Warp)
    BY <1>1 DEF RegsTabled
  <2> HIDE DEF r, n, T
  <2>5. regs'[t][w] = r
    BY <2>2, <2>4 DEF Table, r
  <2> QED BY <2>1, <2>3, <2>5
<1>11. SameCounts
  BY <1>1, <1>3, PlanesKeepCounts
<1>12. CountsTabled'
  <2>1. /\ DOMAIN tile'[t].stats = Word /\ Table(out'.nz_exact, Channel) /\ Table(out'.nz_grid, Channel)
        /\ DOMAIN out'.order_stats = Word
        /\ \A c \in Channel : DOMAIN out'.nz_exact[c] = Blocks(frame) /\ DOMAIN out'.nz_grid[c] = Blocks(frame)
    BY <1>7, <1>11 DEF CountsTabled, SameCounts
  <2> QED BY <1>1, <1>7, <1>8, <2>1, CountsTabledAfter
<1>13. \A s \in TilesOf(frame), v \in Warp :
         regs'[s][v].nonzero = IF s = t /\ v = w THEN Found(frame, t, {1}, {w}) ELSE regs[s][v].nonzero
  BY <1>10
<1>14. 1 # 0 /\ 1 # 3 /\ 1 # 4 /\ 1 # 5 /\ 1 # 6 /\ 1 \in {1, 3}
  OBVIOUS
<1> HIDE DEF N
<1> QED BY <1>7, <1>9, <1>11, <1>12, <1>13, <1>14 DEF CountsMove, SameCounts

LEMMA ChromaMove ==
  ASSUME Tabled, CountsTabled, NEW t \in TilesOf(frame), NEW w \in Warp, QuantizeChroma(t, w), Loaded(t),
         tile[t].maps = SerialMaps(frame, t),
         \A k \in AcCells(t, w) : regs[t][w].roundtrip[k] = Back(frame, BlockOf(frame, t, k[1]), k[2]),
         regs[t][w].nonzero = Found(frame, t, {1}, {w}),
         OnlyTile(t), \A s \in TilesOf(frame), v \in Warp : s # t \/ v # w => regs'[s][v] = regs[s][v]
  PROVE  CountsMove(t, w, 3)
<1> DEFINE T == TilesOf(frame)
           B(k) == BlockOf(frame, t, k[1])
           quantized(c, k) == QuantizedChroma(c, tile[t].coeffs[c][k[1] * Slots + k[2]], regs[t][w].roundtrip[k],
                                              tile[t].maps[IF c = 0 THEN 1 ELSE 2], tile[t].pos[k[1]].qf,
                                              tile[t].pos[k[1]].side, RawAt(t, k))
           q(c) == Tabulated([k \in AcSlots(t, w) |-> quantized(c, k)])
<1>1. frame \in Frames /\ RegsTabled /\ frame' = frame /\ Table(out, OutFields) /\ Resolved(t)
  BY DEF Tabled, OutTabled, QuantizeChroma, Loaded, Resolved
<1>2. /\ tile' = [tile EXCEPT ![t].nz[0] = Counted(tile[t].nz[0], t, NonzeroAt(q(0))),
                              ![t].nz[2] = Counted(tile[t].nz[2], t, NonzeroAt(q(2)))]
      /\ regs' = [regs EXCEPT ![t][w].nonzero =
            regs[t][w].nonzero \cup {<<0, k>> : k \in NonzeroAt(q(0))} \cup {<<2, k>> : k \in NonzeroAt(q(2))}]
      /\ \E a, b : out' = [out EXCEPT !.ac[0] = a, !.ac[2] = b]
  <2>1. \E x \in {q(0)}, b \in {q(2)} :
          /\ tile' = [tile EXCEPT ![t].nz[0] = Counted(tile[t].nz[0], t, NonzeroAt(x)),
                                  ![t].nz[2] = Counted(tile[t].nz[2], t, NonzeroAt(b))]
          /\ regs' = [regs EXCEPT ![t][w].nonzero =
                regs[t][w].nonzero \cup {<<0, k>> : k \in NonzeroAt(x)} \cup {<<2, k>> : k \in NonzeroAt(b)}]
          /\ out' = [out EXCEPT !.ac[0] = WithPlane(out.ac[0], t, w, x),
                                !.ac[2] = WithPlane(out.ac[2], t, w, b)]
    BY Zenon DEF QuantizeChroma
  <2> HIDE DEF q
  <2> QED BY <2>1, Zenon
<1>3. ASSUME NEW c \in {0, 2} PROVE NonzeroAt(q(c)) = Mine(t, w, c)
  <2>1. q(c) = [k \in AcCells(t, w) |-> quantized(c, k)]
    BY <1>1, TabulatedIs, AcSlotsAre
  <2>2. c \in Channel /\ c # 1
    BY DEF Channel
  <2>3. ASSUME NEW k \in AcCells(t, w) PROVE quantized(c, k) = Final(frame, c, B(k), k[2])
    <3>1. /\ tile[t].coeffs[c][k[1] * Slots + k[2]] = Value(frame, c, B(k), k[2])
          /\ tile[t].pos[k[1]].qf = frame.qf[Owner(frame, B(k))] /\ tile[t].pos[k[1]].side = Side(frame, B(k))
          /\ RawAt(t, k) = Raw(frame, B(k), k[2]) /\ ~ Corner(frame, B(k), k[2])
          /\ k[1] \in TilePos
      BY <1>1, <2>2, AcCellIs
    <3>2. regs[t][w].roundtrip[k] = Roundtrip(Luma(frame, B(k), k[2]), Side(frame, B(k)), Raw(frame, B(k), k[2]))
      BY DEF Back
    <3>3. TileOf(frame, B(k)) = t
      <4>1. InFrame(frame, t, k[1])
        BY DEF AcCells, Quantizes
      <4> QED BY <1>1, <3>1, <4>1, BlockOfIs
    <3>4. quantized(c, k) = ChromaOf(frame, c, B(k), k[2])
      BY <3>1, <3>2, <3>3, Zenon DEF Chroma, ChromaOf
    <3> QED BY <2>2, <3>1, <3>4, Zenon DEF Final
  <2> DEFINE x == q(c)
  <2>4. x = [k \in AcCells(t, w) |-> Final(frame, c, B(k), k[2])]
    <3> HIDE DEF quantized, B, q
    <3> QED BY <2>1, <2>3
  <2> HIDE DEF x, q
  <2>5. NonzeroAt(x) = Mine(t, w, c)
    BY <1>1, <2>2, <2>4, NonzerosAre
  <2> QED BY <2>5 DEF x
<1> DEFINE z(c) == Counted(tile[t].nz[c], t, Mine(t, w, c))
<1>4. ASSUME NEW c \in Channel
      PROVE  /\ DOMAIN z(c) = TilePos
             /\ \A p \in TilePos : z(c)[p] = tile[t].nz[c][p] + Cardinality(Tally(frame, t, c, {w}, p))
  <2> DEFINE nz == tile[t].nz[c]
  <2>1. DOMAIN nz = TilePos
    BY DEF CountsTabled
  <2> HIDE DEF nz
  <2>2. /\ DOMAIN Counted(nz, t, Mine(t, w, c)) = TilePos
        /\ \A p \in TilePos :
             Counted(nz, t, Mine(t, w, c))[p] = nz[p] + Cardinality(Tally(frame, t, c, {w}, p))
    BY ONLY <1>1, <2>1, t \in TilesOf(frame), c \in Channel, CountedIs
  <2> QED BY <2>2 DEF nz
<1>5. /\ tile' = [tile EXCEPT ![t].nz[0] = z(0), ![t].nz[2] = z(2)]
      /\ regs' = [regs EXCEPT ![t][w].nonzero =
            regs[t][w].nonzero \cup {<<0, k>> : k \in Mine(t, w, 0)} \cup {<<2, k>> : k \in Mine(t, w, 2)}]
  <2>1. NonzeroAt(q(0)) = Mine(t, w, 0) /\ NonzeroAt(q(2)) = Mine(t, w, 2)
    <3> HIDE DEF q
    <3> QED BY <1>3
  <2> HIDE DEF q
  <2> QED BY <1>2, <2>1, Zenon
<1> HIDE DEF q, z
<1>6. /\ Table(tile'[t].nz, Channel) /\ tile'[t].nz[0] = z(0) /\ tile'[t].nz[1] = tile[t].nz[1]
      /\ tile'[t].nz[2] = z(2) /\ tile'[t].stats = tile[t].stats
  <2> DEFINE a == z(0)
             b == z(2)
  <2>1. Table(tile, T) /\ t \in T /\ Table(tile[t], TileFields) /\ Table(tile[t].nz, Channel)
    BY DEF Tabled, CountsTabled
  <2>2. 0 \in Channel /\ 1 \in Channel /\ 2 \in Channel
    BY DEF Channel
  <2>3. tile' = [tile EXCEPT ![t].nz[0] = a, ![t].nz[2] = b]
    BY <1>5
  <2> HIDE DEF T, a, b
  <2> DEFINE row == [tile[t] EXCEPT !.nz[0] = a, !.nz[2] = b]
             nz == [[tile[t].nz EXCEPT ![0] = a] EXCEPT ![2] = b]
  <2>4. Table(nz, Channel) /\ nz[0] = a /\ nz[1] = tile[t].nz[1] /\ nz[2] = b
    BY ONLY <2>1, <2>2 DEF Table
  <2>5. row.nz = nz /\ row.stats = tile[t].stats
    BY ONLY <2>1 DEF Table, TileFields
  <2>6. tile'[t] = row
    <3>1. tile' = [tile EXCEPT ![t] = row]
      BY <2>3, Zenon
    <3> HIDE DEF row
    <3> QED BY <2>1, <3>1 DEF Table
  <2> HIDE DEF row, nz
  <2> QED BY <2>4, <2>5, <2>6 DEF a, b
<1>7. \A c \in Channel : DOMAIN tile'[t].nz[c] = TilePos
  BY <1>4, <1>6 DEF Channel, CountsTabled
<1>8. \A c \in Channel, p \in TilePos :
        tile'[t].nz[c][p] = IF 3 + 1 = Turn(c) THEN tile[t].nz[c][p] + Cardinality(Tally(frame, t, c, {w}, p))
                            ELSE tile[t].nz[c][p]
  <2> SUFFICES ASSUME NEW c \in Channel, NEW p \in TilePos
               PROVE  tile'[t].nz[c][p] =
                        IF 3 + 1 = Turn(c) THEN tile[t].nz[c][p] + Cardinality(Tally(frame, t, c, {w}, p))
                        ELSE tile[t].nz[c][p]
    OBVIOUS
  <2>1. CASE c = 1
    BY <1>6, <2>1 DEF Turn
  <2>2. CASE c # 1
    <3>1. tile'[t].nz[c] = z(c)
      BY <1>6, <2>2 DEF Channel
    <3>2. z(c)[p] = tile[t].nz[c][p] + Cardinality(Tally(frame, t, c, {w}, p))
      BY <1>4
    <3>3. 3 + 1 = Turn(c)
      BY <2>2 DEF Turn
    <3> QED BY <3>1, <3>2, <3>3, Zenon
  <2> QED BY <2>1, <2>2
<1>9. regs'[t][w].nonzero = Found(frame, t, Channel, {w})
  <2> DEFINE n == regs[t][w].nonzero \cup {<<0, k>> : k \in Mine(t, w, 0)} \cup {<<2, k>> : k \in Mine(t, w, 2)}
  <2>1. n = Found(frame, t, Channel, {w})
    <3>1. \A c, k : k \in MineFlagged(t, w, c) <=> k \in FlaggedCells(frame, t, c) /\ k[1] % Warps = w
      BY DEF MineFlagged
    <3>2. \A c : FlaggedCells(frame, t, c) \subseteq TileCells
      BY DEF FlaggedCells
    <3>a. MineFlagged(t, w, 0) = Mine(t, w, 0) /\ MineFlagged(t, w, 2) = Mine(t, w, 2)
      <4>1. FlaggedCells(frame, t, 0) = NonzeroCells(frame, t, 0) /\ FlaggedCells(frame, t, 2) = NonzeroCells(frame, t, 2)
        BY ChromaFlagged
      <4> QED BY <4>1, Zenon DEF Mine, MineFlagged
    <3>3. \A c \in Channel : c = 0 \/ c = 1 \/ c = 2
      BY DEF Channel
    <3>4. 0 \in Channel /\ 1 \in Channel /\ 2 \in Channel
      BY DEF Channel
    <3>5. \A m : m \in Found(frame, t, {1}, {w}) <=> \E k \in MineFlagged(t, w, 1) : m = <<1, k>>
      BY <3>1, <3>2 DEF Found
    <3>6. \A m : m \in Found(frame, t, Channel, {w}) <=> \E c \in Channel : \E k \in MineFlagged(t, w, c) : m = <<c, k>>
      BY <3>1, <3>2 DEF Found
    <3>7. \A m : m \in n <=> \/ \E k \in MineFlagged(t, w, 0) : m = <<0, k>>
                             \/ \E k \in MineFlagged(t, w, 1) : m = <<1, k>>
                             \/ \E k \in MineFlagged(t, w, 2) : m = <<2, k>>
      BY <3>5, <3>a
    <3> HIDE DEF n
    <3>8. \A m : m \in n <=> m \in Found(frame, t, Channel, {w})
      BY ONLY <3>3, <3>4, <3>6, <3>7
    <3> QED BY <3>8
  <2>2. regs' = [regs EXCEPT ![t][w].nonzero = n]
    BY <1>5
  <2>3. Table(regs, T) /\ t \in T /\ Table(regs[t], Warp) /\ Table(regs[t][w], RegsFields)
    BY <1>1 DEF RegsTabled
  <2> HIDE DEF n, T
  <2>4. regs'[t][w].nonzero = n
    BY ONLY <2>2, <2>3, w \in Warp DEF Table, RegsFields
  <2> QED BY <2>1, <2>4
<1>10. SameCounts
  BY <1>1, <1>2, PlanesKeepCounts
<1>11. CountsTabled'
  <2>1. /\ DOMAIN tile'[t].stats = Word /\ Table(out'.nz_exact, Channel) /\ Table(out'.nz_grid, Channel)
        /\ DOMAIN out'.order_stats = Word
        /\ \A c \in Channel : DOMAIN out'.nz_exact[c] = Blocks(frame) /\ DOMAIN out'.nz_grid[c] = Blocks(frame)
    BY <1>6, <1>10 DEF CountsTabled, SameCounts
  <2> QED BY <1>1, <1>6, <1>7, <2>1, CountsTabledAfter
<1>12. \A s \in TilesOf(frame), v \in Warp :
         regs'[s][v].nonzero = IF s = t /\ v = w THEN Found(frame, t, Channel, {w}) ELSE regs[s][v].nonzero
  BY <1>9
<1>13. 3 # 0 /\ 3 # 1 /\ 3 # 4 /\ 3 # 5 /\ 3 # 6 /\ 3 \in {1, 3}
  OBVIOUS
<1> QED BY <1>6, <1>8, <1>10, <1>11, <1>12, <1>13 DEF CountsMove, SameCounts

(* The non-zeros counted at a block's owner, when all have counted theirs. *)
LEMMA CountedOwner ==
  ASSUME frame \in Frames, NEW t \in TilesOf(frame), Resolved(t), CountedSoFar(t), \A v \in Warp : region[t][v] \in 4 .. 7,
         NEW b \in Blocks(frame), TileOf(frame, b) = t, NEW c \in Channel
  PROVE  LET p == PosOf(frame, b)
         IN  /\ p \in TilePos /\ InFrame(frame, t, p) /\ BlockOf(frame, t, p) = b
             /\ tile[t].nz[c][tile[t].pos[p].owner] = NonzerosOf(frame, c, b)
             /\ tile[t].pos[p].side = Side(frame, b)
             /\ FirstBlock(t, p) <=> Owner(frame, b) = b
<1> DEFINE p == PosOf(frame, b)
           o == PosOf(frame, Owner(frame, b))
<1>1. p \in TilePos /\ InFrame(frame, t, p) /\ BlockOf(frame, t, p) = b
  BY BlockInTile
<1> HIDE DEF p
<1>2. /\ OwnerPos(frame, t, p) = PosOf(frame, Owner(frame, b)) /\ OwnerPos(frame, t, p) \in TilePos
      /\ tile[t].pos[p].owner = OwnerPos(frame, t, p) /\ tile[t].pos[p].side = Side(frame, b)
      /\ FirstBlock(t, p) <=> Owner(frame, b) = b
  BY <1>1, ResolvedIs DEF Resolved
<1> HIDE DEF o
<1>3. tile[t].pos[p].owner = o /\ o \in TilePos
  BY <1>2 DEF o
<1>4. region[t][Resolver(o)] >= 1
  BY <1>3, ResolversAre
<1>5. Reached(t, Turn(c)) = Warp
  BY DEF Reached, Turn
<1>6. tile[t].nz[c][o] = Cardinality(Tally(frame, t, c, Warp, o))
  BY <1>3, <1>4, <1>5 DEF CountedSoFar
<1>7. tile[t].nz[c][tile[t].pos[p].owner] = NonzerosOf(frame, c, b)
  BY <1>3, <1>6 DEF NonzerosOf, o
<1> QED BY <1>1, <1>2, <1>7 DEF p

LEMMA WriteMove ==
  ASSUME Tabled, CountsTabled, NEW t \in TilesOf(frame), NEW w \in Warp, WriteCounts(t, w), OnlyTile(t),
         Resolved(t), CountedSoFar(t)
  PROVE  CountsMove(t, w, 4)
<1> DEFINE T == TilesOf(frame)
           nz(c, p) == tile[t].nz[c][tile[t].pos[p].owner]
           exact(c, p) == IF FirstBlock(t, p) THEN nz(c, p) ELSE 0
           grid(c, p) == (nz(c, p) + Covered(tile[t].pos[p].side) - 1) \div 2^Log2Covered(tile[t].pos[p].side)
           Mine4(b) == \E p \in Band(w) : InFrame(frame, t, p) /\ BlockOf(frame, t, p) = b
           P(b) == CHOOSE p \in Band(w) : InFrame(frame, t, p) /\ BlockOf(frame, t, p) = b
           e(c) == [b \in DOMAIN out.nz_exact[c] |-> IF Mine4(b) THEN exact(c, P(b)) ELSE out.nz_exact[c][b]]
           g(c) == [b \in DOMAIN out.nz_grid[c] |-> IF Mine4(b) THEN grid(c, P(b)) ELSE out.nz_grid[c][b]]
           E == [c \in Channel |-> Tabulated(e(c))]
           G == [c \in Channel |-> Tabulated(g(c))]
           s == [i \in DOMAIN tile[t].stats |-> IF ZeroesWord(w, i) THEN 0 ELSE tile[t].stats[i]]
<1>1. frame \in Frames /\ Table(out, OutFields) /\ frame' = frame /\ regs' = regs
      /\ \A v \in Warp : region[t][v] \in 4 .. 7
  <2>1. \A v \in Warp : region[t][v] \in 0 .. 7
    BY DEF Tabled
  <2>2. \A v \in Warp : region[t][v] >= 4
    BY Zenon DEF WriteCounts, PassesBarrier
  <2>3. frame \in Frames /\ Table(out, OutFields) /\ frame' = frame /\ regs' = regs
    BY Zenon DEF Tabled, OutTabled, WriteCounts
  <2> QED BY <2>1, <2>2, <2>3
<1>2. out' = [out EXCEPT !.nz_exact = E, !.nz_grid = G]
  BY Zenon DEF WriteCounts, CountsOf
<1>3. \E a : tile' = [tile EXCEPT ![t].stats = Tabulated(s), ![t].coeffs = a]
  BY Zenon DEF WriteCounts
<1>4. /\ Table(E, Channel) /\ Table(G, Channel) /\ \A c \in Channel : E[c] = e(c) /\ G[c] = g(c)
  <2> HIDE DEF e, g
  <2> QED BY TabulatedIs DEF Table
<1>5. ASSUME NEW c \in Channel
      PROVE  DOMAIN e(c) = Blocks(frame) /\ DOMAIN g(c) = Blocks(frame)
  BY DEF CountsTabled
<1>6. ASSUME NEW c \in Channel, NEW b \in Blocks(frame)
      PROVE  IF TileOf(frame, b) = t /\ BandOf(frame, b) = w
             THEN /\ e(c)[b] = IF Owner(frame, b) = b THEN NonzerosOf(frame, c, b) ELSE 0
                  /\ g(c)[b] = GridOf(frame, c, b)
             ELSE e(c)[b] = out.nz_exact[c][b] /\ g(c)[b] = out.nz_grid[c][b]
  <2>1. /\ e(c)[b] = IF Mine4(b) THEN exact(c, P(b)) ELSE out.nz_exact[c][b]
        /\ g(c)[b] = IF Mine4(b) THEN grid(c, P(b)) ELSE out.nz_grid[c][b]
    BY DEF CountsTabled
  <2> HIDE DEF e, g
  <2>2. CASE TileOf(frame, b) = t /\ BandOf(frame, b) = w
    <3> DEFINE p == PosOf(frame, b)
    <3>1. p \in Band(w) /\ InFrame(frame, t, p) /\ BlockOf(frame, t, p) = b
      BY <1>1, <2>2, SharesAre
    <3>2. P(b) \in Band(w) /\ InFrame(frame, t, P(b)) /\ BlockOf(frame, t, P(b)) = b
      BY <3>1, Zenon
    <3>3. Mine4(b)
      BY <3>1
    <3> HIDE DEF P
    <3>4. P(b) = p
      BY <1>1, <3>2, SharesAre
    <3>5. /\ nz(c, p) = NonzerosOf(frame, c, b) /\ tile[t].pos[p].side = Side(frame, b)
          /\ FirstBlock(t, p) <=> Owner(frame, b) = b
      BY <1>1, <2>2, CountedOwner
    <3> HIDE DEF p, nz
    <3>6. exact(c, p) = IF Owner(frame, b) = b THEN NonzerosOf(frame, c, b) ELSE 0
      BY <3>5
    <3>7. grid(c, p) = GridOf(frame, c, b)
      BY <3>5, Zenon DEF GridOf
    <3> HIDE DEF exact, grid, Mine4
    <3> QED BY <2>1, <2>2, <3>3, <3>4, <3>6, <3>7
  <2>3. CASE ~ (TileOf(frame, b) = t /\ BandOf(frame, b) = w)
    <3>1. ~ Mine4(b)
      BY <1>1, <2>3, SharesAre
    <3> HIDE DEF exact, grid, P, Mine4
    <3> QED BY <2>1, <2>3, <3>1
  <2> QED BY <2>2, <2>3
<1> HIDE DEF e, g, E, G, s
<1>7. out'.nz_exact = E /\ out'.nz_grid = G /\ out'.order_stats = out.order_stats
  BY <1>1, <1>2 DEF Table, OutFields
<1>8. tile'[t].nz = tile[t].nz /\ tile'[t].stats = s
  <2>1. Table(tile, T) /\ t \in T /\ Table(tile[t], TileFields)
    BY DEF Tabled
  <2>2. \E a : tile' = [tile EXCEPT ![t].stats = s, ![t].coeffs = a]
    BY <1>3, TabulatedIs, Zenon
  <2> HIDE DEF T
  <2> QED BY ONLY <2>1, <2>2 DEF Table, TileFields
<1>9. DOMAIN s = Word /\ \A i \in Word : s[i] = IF Zeroer(i) = w THEN 0 ELSE tile[t].stats[i]
  BY ResolversAre DEF s, CountsTabled
<1>10. CountsTabled'
  <2>1. /\ Table(tile'[t].nz, Channel) /\ \A c \in Channel : DOMAIN tile'[t].nz[c] = TilePos
        /\ DOMAIN tile'[t].stats = Word /\ Table(out'.nz_exact, Channel) /\ Table(out'.nz_grid, Channel)
        /\ DOMAIN out'.order_stats = Word
        /\ \A c \in Channel : DOMAIN out'.nz_exact[c] = Blocks(frame) /\ DOMAIN out'.nz_grid[c] = Blocks(frame)
    BY <1>4, <1>5, <1>7, <1>8, <1>9 DEF CountsTabled
  <2> QED BY <1>1, <2>1, CountsTabledAfter
<1>11. \A c \in Channel, b \in Blocks(frame) :
         IF TileOf(frame, b) = t /\ BandOf(frame, b) = w
         THEN /\ out'.nz_exact[c][b] = IF Owner(frame, b) = b THEN NonzerosOf(frame, c, b) ELSE 0
              /\ out'.nz_grid[c][b] = GridOf(frame, c, b)
         ELSE out'.nz_exact[c][b] = out.nz_exact[c][b] /\ out'.nz_grid[c][b] = out.nz_grid[c][b]
  BY <1>4, <1>6, <1>7
<1>12. \A c \in Channel : 4 + 1 # Turn(c)
  BY DEF Turn
<1>13. 4 # 0 /\ 4 # 5 /\ 4 # 6 /\ 4 \notin {1, 3}
  OBVIOUS
<1> QED BY <1>1, <1>7, <1>8, <1>9, <1>10, <1>11, <1>12, <1>13 DEF CountsMove

LEMMA OrdersMove ==
  ASSUME Tabled, CountsTabled, NEW t \in TilesOf(frame), NEW w \in Warp, CountOrders(t, w), OnlyTile(t),
         Resolved(t), regs[t][w].nonzero = Found(frame, t, Channel, {w})
  PROVE  CountsMove(t, w, 5)
<1> DEFINE T == TilesOf(frame)
           blocks(i) == {p \in Band(w) : FirstBlock(t, p) /\ OrderEntries + SideIndex(tile[t].pos[p].side) = i}
           hits(i) == {n \in regs[t][w].nonzero : StatsWord(t, n[1], n[2]) = i}
           s == [i \in DOMAIN tile[t].stats |->
                  tile[t].stats[i] + Cardinality(blocks(i)) + Cardinality(hits(i))]
<1>1. frame \in Frames /\ frame' = frame /\ regs' = regs /\ out' = out
  BY DEF Tabled, CountOrders
<1>2. tile' = [tile EXCEPT ![t].stats = s]
  <2>1. tile' = [tile EXCEPT ![t].stats = Tabulated(s)]
    BY Zenon DEF CountOrders
  <2> HIDE DEF s
  <2> QED BY <2>1, TabulatedIs, Zenon
<1>3. ASSUME NEW p \in TilePos, InFrame(frame, t, p)
      PROVE  /\ FirstBlock(t, p) <=> p \in FirstPos(frame, t)
             /\ OrderEntries + SideIndex(tile[t].pos[p].side) = EntryOf(frame, t, p)
             /\ \A slot \in Slot : \A c : StatsWord(t, c, <<p, slot>>) = WordOf(frame, t, c, <<p, slot>>)
  BY <1>1, <1>3, ResolvedIs DEF Resolved
<1>4. ASSUME NEW i PROVE blocks(i) = Firsts(frame, t, {w}, i)
  <2>1. \A p : p \in Band(w) <=> p \in TilePos /\ Resolver(p) = w
    BY ResolversAre DEF Band, TilePos
  <2>2. \A p : FirstBlock(t, p) => InFrame(frame, t, p)
    BY DEF FirstBlock
  <2>3. FirstPos(frame, t) \subseteq TilePos /\ \A p \in FirstPos(frame, t) : InFrame(frame, t, p)
    BY DEF FirstPos
  <2> QED BY <1>3, <2>1, <2>2, <2>3 DEF Firsts
<1>5. ASSUME NEW i PROVE hits(i) = Hits(frame, t, {w}, i)
  <2>1. ASSUME NEW n \in Found(frame, t, Channel, {w})
        PROVE  StatsWord(t, n[1], n[2]) = WordOf(frame, t, n[1], n[2])
    <3> DEFINE k == n[2]
    <3>1. k \in TileCells /\ InFrame(frame, t, k[1])
      BY DEF Found, FlaggedCells
    <3> HIDE DEF k
    <3>2. k[1] \in TilePos /\ k[2] \in Slot /\ k = <<k[1], k[2]>>
      BY <3>1 DEF TileCells
    <3>3. StatsWord(t, n[1], <<k[1], k[2]>>) = WordOf(frame, t, n[1], <<k[1], k[2]>>)
      BY <1>3, <3>1, <3>2
    <3>4. StatsWord(t, n[1], k) = WordOf(frame, t, n[1], k)
      BY <3>2, <3>3, Zenon
    <3> QED BY <3>4 DEF k
  <2> QED BY <2>1 DEF Hits
<1> HIDE DEF blocks, hits
<1>6. DOMAIN s = Word /\ \A i \in Word : s[i] = tile[t].stats[i] + Cardinality(Firsts(frame, t, {w}, i))
                                                + Cardinality(Hits(frame, t, {w}, i))
  BY <1>4, <1>5 DEF CountsTabled
<1> HIDE DEF s
<1>7. tile'[t].nz = tile[t].nz /\ tile'[t].stats = s
  <2>1. Table(tile, T) /\ t \in T /\ Table(tile[t], TileFields)
    BY DEF Tabled
  <2> HIDE DEF T
  <2> QED BY ONLY <1>2, <2>1 DEF Table, TileFields
<1>8. CountsTabled'
  <2>1. /\ Table(tile'[t].nz, Channel) /\ \A c \in Channel : DOMAIN tile'[t].nz[c] = TilePos
        /\ DOMAIN tile'[t].stats = Word /\ Table(out'.nz_exact, Channel) /\ Table(out'.nz_grid, Channel)
        /\ DOMAIN out'.order_stats = Word
        /\ \A c \in Channel : DOMAIN out'.nz_exact[c] = Blocks(frame) /\ DOMAIN out'.nz_grid[c] = Blocks(frame)
    BY <1>1, <1>6, <1>7 DEF CountsTabled
  <2> QED BY <1>1, <2>1, CountsTabledAfter
<1>9. \A c \in Channel : 5 + 1 # Turn(c)
  BY DEF Turn
<1>10. 5 # 0 /\ 5 # 4 /\ 5 # 6 /\ 5 \notin {1, 3}
  OBVIOUS
<1> QED BY <1>1, <1>6, <1>7, <1>8, <1>9, <1>10 DEF CountsMove

(* The statistics are counts. *)
LEMMA OrdersInt ==
  ASSUME Tabled, OrdersWritten, NEW i \in Word
  PROVE  out.order_stats[i] \in Nat
<1> DEFINE F == Flushed(i)
<1>1. IsFiniteSet(F)
  <2>1. F \in SUBSET TilesOf(frame)
    BY DEF Flushed
  <2>2. IsFiniteSet(TilesOf(frame))
    <3>1. NumTiles(frame) \in Int
      BY TileIs DEF NumTiles, Tabled
    <3> QED BY <3>1, FS_Interval DEF TilesOf
  <2> QED BY <2>1, <2>2, FS_Subset
<1>2. IsFiniteSet(F \X (Channel \X TileCells)) /\ IsFiniteSet(F \X TilePos)
  BY <1>1, CountsFinite, FS_Product
<1>3. AllHits(frame, F, i) \in SUBSET (F \X (Channel \X TileCells)) /\ AllFirsts(frame, F, i) \in SUBSET (F \X TilePos)
  BY DEF AllHits, AllFirsts
<1>4. Cardinality(AllHits(frame, F, i)) \in Nat /\ Cardinality(AllFirsts(frame, F, i)) \in Nat
  BY <1>2, <1>3, FS_Subset, FS_CardinalityType
<1> QED BY <1>4 DEF OrdersWritten

LEMMA FlushMove ==
  ASSUME Tabled, CountsTabled, NEW t \in TilesOf(frame), NEW w \in Warp, FlushOrders(t, w), OnlyTile(t),
         StatsSoFar(t), OrdersWritten
  PROVE  CountsMove(t, w, 6)
<1> DEFINE s == [i \in DOMAIN out.order_stats |->
                  out.order_stats[i] + IF ZeroesWord(w, i) THEN tile[t].stats[i] ELSE 0]
<1>1. frame' = frame /\ regs' = regs /\ tile' = tile /\ Table(out, OutFields)
  BY DEF Tabled, OutTabled, FlushOrders
<1>2. out' = [out EXCEPT !.order_stats = s]
  <2>1. out' = [out EXCEPT !.order_stats = Tabulated(s)]
    BY Zenon DEF FlushOrders
  <2> HIDE DEF s
  <2> QED BY <2>1, TabulatedIs, Zenon
<1>3. \A v \in Warp : region[t][v] \in 6 .. 7
  <2>1. \A v \in Warp : region[t][v] \in 0 .. 7
    BY DEF Tabled
  <2>2. \A v \in Warp : region[t][v] >= 6
    BY Zenon DEF FlushOrders, PassesBarrier
  <2> QED BY <2>1, <2>2
<1>4. DOMAIN s = Word
      /\ \A i \in Word : s[i] = out.order_stats[i] + IF Zeroer(i) = w THEN tile[t].stats[i] ELSE 0
  BY ResolversAre DEF CountsTabled
<1> HIDE DEF s
<1>5. ASSUME NEW i \in Word
      PROVE  s[i] = IF Zeroer(i) = w
                    THEN out.order_stats[i] + Cardinality(Firsts(frame, t, Warp, i)) + Cardinality(Hits(frame, t, Warp, i))
                    ELSE out.order_stats[i]
  <2> DEFINE n == out.order_stats[i]
             F == Cardinality(Firsts(frame, t, Warp, i))
             H == Cardinality(Hits(frame, t, Warp, i))
  <2>1. n \in Nat
    BY OrdersInt
  <2>2. F \in Nat /\ H \in Nat
    BY CountsFinite, FS_CardinalityType
  <2>3. tile[t].stats[i] = F + H
    <3>1. Reached(t, 6) = Warp /\ region[t][Zeroer(i)] >= 5
      BY <1>3, ResolversAre DEF Reached
    <3> QED BY <3>1 DEF StatsSoFar
  <2>4. s[i] = n + IF Zeroer(i) = w THEN tile[t].stats[i] ELSE 0
    BY <1>4
  <2> HIDE DEF n, F, H
  <2>5. s[i] = IF Zeroer(i) = w THEN n + F + H ELSE n
    BY <2>1, <2>2, <2>3, <2>4
  <2> QED BY <2>5 DEF n, F, H
<1>6. out'.nz_exact = out.nz_exact /\ out'.nz_grid = out.nz_grid /\ out'.order_stats = s
  BY <1>1, <1>2 DEF Table, OutFields
<1>7. CountsTabled'
  BY <1>1, <1>4, <1>6 DEF CountsTabled
<1>8. \A c \in Channel : 6 + 1 # Turn(c)
  BY DEF Turn
<1>9. 6 # 0 /\ 6 # 4 /\ 6 # 5 /\ 6 \notin {1, 3}
  OBVIOUS
<1> QED BY <1>1, <1>5, <1>6, <1>7, <1>8, <1>9 DEF CountsMove

---------------------------------------------------------------------------
(* The counts are what has been found, in every state.                     *)

LEMMA CountsInitInv == Init => CountsInv
<1> SUFFICES ASSUME Init PROVE CountsInv
  OBVIOUS
<1> DEFINE T == TilesOf(frame)
<1>1. /\ frame \in Frames
      /\ region = [t \in T |-> [w \in Warp |-> 0]] /\ tile = [t \in T |-> SharedMemory]
  BY DEF Init, TilesOf
<1>2. \A t \in T, w \in Warp : region[t][w] = 0
  BY <1>1
<1>3. /\ Table(out.nz_exact, Channel) /\ Table(out.nz_grid, Channel)
      /\ \A c \in Channel : DOMAIN out.nz_exact[c] = Blocks(frame) /\ DOMAIN out.nz_grid[c] = Blocks(frame)
      /\ out.order_stats = [i \in Word |-> 0]
  <2> DEFINE nz == [c \in Channel |-> [b \in Blocks(frame) |-> UNSET]]
             stats == [i \in Word |-> 0]
  <2>1. \E ac, dc, maps :
          out = [ac |-> ac, dc |-> dc, maps |-> maps, nz_exact |-> nz, nz_grid |-> nz, order_stats |-> stats]
    BY Zenon DEF Init, Blocks, Word
  <2>2. Table(nz, Channel) /\ \A c \in Channel : DOMAIN nz[c] = Blocks(frame)
    BY DEF Table
  <2> HIDE DEF nz, stats
  <2>3. out.nz_exact = nz /\ out.nz_grid = nz /\ out.order_stats = stats
    BY <2>1
  <2> QED BY <2>2, <2>3 DEF stats
<1>4. CountsTabled
  <2> DEFINE nz == [c \in Channel |-> [p \in TilePos |-> UNSET]]
             stats == [i \in Word |-> UNSET]
  <2>1. SharedMemory.nz = nz /\ SharedMemory.stats = stats
    BY DEF SharedMemory, TilePos, Word
  <2>2. Table(nz, Channel) /\ (\A c \in Channel : DOMAIN nz[c] = TilePos) /\ DOMAIN stats = Word
    BY DEF Table
  <2> HIDE DEF nz, stats
  <2>3. \A t \in T : tile[t].nz = nz /\ tile[t].stats = stats
    BY <1>1, <2>1
  <2> QED BY <1>3, <2>2, <2>3 DEF CountsTabled
<1>5. CountsWritten
  BY <1>1, <1>2, WritersAre DEF CountsWritten
<1>6. OrdersWritten
  <2> SUFFICES ASSUME NEW i \in Word
               PROVE  out.order_stats[i] = Cardinality(AllFirsts(frame, Flushed(i), i))
                                           + Cardinality(AllHits(frame, Flushed(i), i))
    BY DEF OrdersWritten
  <2>1. Flushed(i) = {}
    BY <1>2, ResolversAre DEF Flushed
  <2>2. AllFirsts(frame, Flushed(i), i) = {} /\ AllHits(frame, Flushed(i), i) = {}
    BY <2>1 DEF AllFirsts, AllHits
  <2>3. Cardinality(AllFirsts(frame, Flushed(i), i)) = 0 /\ Cardinality(AllHits(frame, Flushed(i), i)) = 0
    BY <2>2, CountNone
  <2>4. out.order_stats[i] = 0
    BY <1>3
  <2> QED BY <2>3, <2>4
<1>7. ASSUME NEW t \in T PROVE CountInv(t)
  BY <1>2, ResolversAre DEF CountInv, CountedSoFar, FoundSoFar, StatsSoFar
<1> QED BY <1>4, <1>5, <1>6, <1>7 DEF CountsInv

LEMMA CountsNextInv == Inv /\ CountsInv /\ [Next]_vars => CountsInv'
<1> SUFFICES ASSUME Inv, CountsInv, [Next]_vars PROVE CountsInv'
  OBVIOUS
<1>1. Tabled /\ Barriers /\ frame \in Frames /\ Tiles = TilesOf(frame) /\ CountsTabled /\ OrdersWritten
  BY DEF Inv, Tabled, Tiles, CountsInv
<1>2. ASSUME NEW t \in TilesOf(frame), NEW w \in Warp,
             \/ LoadTile(t, w) \/ QuantizeLuma(t, w) \/ MapColors(t, w) \/ QuantizeChroma(t, w)
             \/ WriteCounts(t, w) \/ CountOrders(t, w) \/ FlushOrders(t, w)
      PROVE  CountsInv'
  <2>1. TileInv(t) /\ CountedSoFar(t) /\ FoundSoFar(t) /\ StatsSoFar(t)
    BY DEF Inv, CountsInv, CountInv
  <2>2. \A r \in 0 .. 6 : PassesBarrier(t, w, r) =>
          /\ region[t][w] = r /\ \A v \in Warp : region[t][v] \in r .. 7
          /\ r \in 1 .. 3 => Loaded(t)
          /\ r >= 1 => Resolved(t)
    <3> SUFFICES ASSUME NEW r \in 0 .. 6, PassesBarrier(t, w, r)
                 PROVE  /\ region[t][w] = r /\ \A v \in Warp : region[t][v] \in r .. 7
                        /\ r \in 1 .. 3 => Loaded(t)
                        /\ r >= 1 => Resolved(t)
      OBVIOUS
    <3>1. region[t][w] = r /\ \A v \in Warp : region[t][v] >= r
      BY DEF PassesBarrier
    <3>2. \A v \in Warp : region[t][v] \in r .. 7
      BY <1>1, <3>1 DEF Tabled
    <3>3. r \in 1 .. 3 => Loaded(t)
      BY <1>1, <2>1, <3>1, LoadedIs
    <3>4. r >= 1 => Resolved(t)
      <4>1. r >= 1 => \A v \in Warp : region[t][v] >= 1
        BY <3>2
      <4> QED BY <1>1, <2>1, <4>1, ResolvedAfter
    <3> QED BY <3>1, <3>2, <3>3, <3>4
  <2>3. CASE LoadTile(t, w)
    <3>1. Moves(t, w, 0) /\ OnlyTile(t) /\ frame' = frame
      BY <1>1, <2>3, LoadDoes
    <3>2. CountsMove(t, w, 0)
      BY <1>1, <2>3, LoadMove
    <3>3. 0 \in 0 .. 6
      OBVIOUS
    <3> QED BY <1>1, <3>1, <3>2, <3>3, CountsStay
  <2>4. CASE QuantizeLuma(t, w)
    <3>1. Loaded(t)
      <4>1. PassesBarrier(t, w, 1)
        BY <2>4, Zenon DEF QuantizeLuma
      <4>2. 1 \in 0 .. 6 /\ 1 \in 1 .. 3
        OBVIOUS
      <4> QED BY <2>2, <4>1, <4>2
    <3>2. /\ Moves(t, w, 1) /\ OnlyTile(t) /\ frame' = frame
          /\ \A s \in TilesOf(frame), v \in Warp : s # t \/ v # w => regs'[s][v] = regs[s][v]
      BY <1>1, <2>4, <3>1, LumaDoes
    <3>3. CountsMove(t, w, 1)
      BY <1>1, <2>4, <3>1, <3>2, LumaMove
    <3>4. 1 \in 0 .. 6
      OBVIOUS
    <3> QED BY <1>1, <3>2, <3>3, <3>4, CountsStay
  <2>5. CASE MapColors(t, w)
    <3>1. \A v \in Warp :
            tile[t].sums[v] = <<WarpSum(frame, t, v, 1), WarpSum(frame, t, v, 2), WarpSum(frame, t, v, 3)>>
      BY <2>1, <2>5 DEF MapColors, PassesBarrier, TileInv, SummedSoFar
    <3>2. Moves(t, w, 2) /\ OnlyTile(t) /\ frame' = frame
      BY <1>1, <2>5, <3>1, MapDoes
    <3>3. CountsMove(t, w, 2)
      BY <1>1, <2>5, <3>2, MapMove
    <3>4. 2 \in 0 .. 6
      OBVIOUS
    <3> QED BY <1>1, <3>2, <3>3, <3>4, CountsStay
  <2>6. CASE QuantizeChroma(t, w)
    <3>1. PassesBarrier(t, w, 3)
      BY <2>6, Zenon DEF QuantizeChroma
    <3>2. Loaded(t) /\ region[t][w] = 3 /\ \A v \in Warp : region[t][v] >= 3
      BY <2>2, <3>1 DEF PassesBarrier
    <3>3. tile[t].maps = SerialMaps(frame, t)
      <4>1. 0 \in Warp
        BY Constants DEF Warp
      <4> QED BY <2>1, <3>2, <4>1 DEF TileInv, MappedSoFar
    <3>4. \A k \in AcCells(t, w) : regs[t][w].roundtrip[k] = Back(frame, BlockOf(frame, t, k[1]), k[2])
      BY <2>1, <3>2 DEF TileInv, KeptSoFar
    <3>5. regs[t][w].nonzero = Found(frame, t, {1}, {w})
      BY <2>1, <3>2 DEF FoundSoFar
    <3>6. /\ Moves(t, w, 3) /\ OnlyTile(t) /\ frame' = frame
          /\ \A s \in TilesOf(frame), v \in Warp : s # t \/ v # w => regs'[s][v] = regs[s][v]
      BY <1>1, <2>6, <3>2, <3>3, <3>4, ChromaDoes DEF Back
    <3>7. CountsMove(t, w, 3)
      BY <1>1, <2>6, <3>2, <3>3, <3>4, <3>5, <3>6, ChromaMove
    <3>8. 3 \in 0 .. 6
      OBVIOUS
    <3> QED BY <1>1, <3>6, <3>7, <3>8, CountsStay
  <2>7. CASE WriteCounts(t, w) \/ CountOrders(t, w) \/ FlushOrders(t, w)
    <3>1. OnlyTile(t) /\ frame' = frame
      BY <1>1, <2>7, CountsDo
    <3>2. 4 \in 0 .. 6 /\ 5 \in 0 .. 6 /\ 6 \in 0 .. 6
      OBVIOUS
    <3>3. CASE WriteCounts(t, w)
      <4>1. PassesBarrier(t, w, 4) /\ ToNextBarrier(t, w)
        BY <3>3, Zenon DEF WriteCounts
      <4>2. Moves(t, w, 4) /\ Resolved(t)
        BY <1>1, <2>2, <3>2, <4>1, MovesIs
      <4>3. CountsMove(t, w, 4)
        BY <1>1, <2>1, <3>1, <3>3, <4>2, WriteMove
      <4> QED BY <1>1, <3>1, <3>2, <4>2, <4>3, CountsStay
    <3>4. CASE CountOrders(t, w)
      <4>1. PassesBarrier(t, w, 5) /\ ToNextBarrier(t, w)
        BY <3>4, Zenon DEF CountOrders
      <4>2. Moves(t, w, 5) /\ Resolved(t) /\ region[t][w] = 5
        BY <1>1, <2>2, <3>2, <4>1, MovesIs
      <4>3. regs[t][w].nonzero = Found(frame, t, Channel, {w})
        BY <2>1, <4>2 DEF FoundSoFar
      <4>4. CountsMove(t, w, 5)
        BY <1>1, <3>1, <3>4, <4>2, <4>3, OrdersMove
      <4> QED BY <1>1, <3>1, <3>2, <4>2, <4>4, CountsStay
    <3>5. CASE FlushOrders(t, w)
      <4>1. PassesBarrier(t, w, 6) /\ ToNextBarrier(t, w)
        BY <3>5, Zenon DEF FlushOrders
      <4>2. Moves(t, w, 6)
        BY <1>1, <3>2, <4>1, MovesIs
      <4>3. CountsMove(t, w, 6)
        BY <1>1, <2>1, <3>1, <3>5, FlushMove
      <4> QED BY <1>1, <3>1, <3>2, <4>2, <4>3, CountsStay
    <3> QED BY <2>7, <3>3, <3>4, <3>5
  <2> QED BY <1>2, <2>3, <2>4, <2>5, <2>6, <2>7
<1>3. CASE UNCHANGED vars
  <2>1. frame' = frame /\ region' = region /\ tile' = tile /\ regs' = regs /\ out' = out
    BY <1>3 DEF vars
  <2>2. CountsTabled' /\ CountsWritten' /\ OrdersWritten'
    BY <2>1 DEF CountsInv, CountsTabled, CountsWritten, OrdersWritten, Flushed
  <2>3. \A t \in TilesOf(frame) : CountInv(t)'
    <3> SUFFICES ASSUME NEW t \in TilesOf(frame) PROVE CountInv(t)'
      OBVIOUS
    <3>1. CountInv(t) /\ \A n : Reached(t, n)' = Reached(t, n)
      BY <2>1 DEF CountsInv, Reached
    <3> QED BY <2>1, <3>1 DEF CountInv, CountedSoFar, FoundSoFar, StatsSoFar
  <2> QED BY <2>1, <2>2, <2>3 DEF CountsInv
<1> QED BY <1>1, <1>2, <1>3, Zenon DEF Next, Terminated

---------------------------------------------------------------------------
(* What is counted, against the coefficients written.                      *)

(* The fields of a frame. *)
LEMMA FrameFields ==
  ASSUME NEW f \in Frames
  PROVE  DOMAIN f = {"bw", "bh", "acs", "qf", "ac"}
BY FramesAssumption

(* Every slot holds what its warp quantized. *)
LEMMA WrittenIs ==
  ASSUME Inv, Done, NEW c \in Channel, NEW b \in Blocks(frame), NEW slot \in Slot
  PROVE  out.ac[c][b * Slots + slot] = Final(frame, c, b, slot)
<1>1. region[TileOf(frame, b)][QuantizerOf(frame, b)] = 7
  <2>1. frame \in Frames /\ Tiles = TilesOf(frame)
    BY DEF Inv, Tabled, Tiles
  <2> QED BY <2>1, WritersAre DEF Done
<1>2. CASE c = 1
  BY <1>1, <1>2 DEF Inv, LumaWritten, Final
<1>3. CASE c \in {0, 2}
  <2>1. out.ac[c][b * Slots + slot] = IF Corner(frame, b, slot) THEN 0 ELSE ChromaOf(frame, c, b, slot)
    BY <1>1, <1>3 DEF Inv, ChromaWritten
  <2> QED BY <1>3, <2>1 DEF Final
<1> QED BY <1>2, <1>3 DEF Channel

(* The frame with the coefficients written. *)
Written == [frame EXCEPT !.ac = out.ac]

LEMMA WrittenFrame ==
  ASSUME frame \in Frames
  PROVE  /\ Written.bw = frame.bw /\ Written.bh = frame.bh /\ Written.acs = frame.acs /\ Written.ac = out.ac
         /\ FirstBlocks(Written) = FirstBlocks(frame)
         /\ \A b \in Blocks(frame) : Owner(Written, b) = Owner(frame, b)
         /\ \A c \in Channel, b \in Blocks(frame) : \A slot \in Slot :
              Coefficient(Written, c, Owner(frame, b), Raw(frame, b, slot)) = out.ac[c][b * Slots + slot]
<1> DEFINE g == Written
<1>1. g.bw = frame.bw /\ g.bh = frame.bh /\ g.acs = frame.acs /\ g.ac = out.ac
  BY FrameFields DEF Written
<1> HIDE DEF g
<1>2. FirstBlocks(g) = FirstBlocks(frame) /\ \A o, b : Covers(g, o, b) <=> Covers(frame, o, b)
  BY <1>1 DEF FirstBlocks, Covers
<1>3. ASSUME NEW b \in Blocks(frame) PROVE Owner(g, b) = Owner(frame, b)
  <2>1. Owner(frame, b) \in FirstBlocks(frame) /\ \A o \in FirstBlocks(frame) : Covers(frame, o, b) => o = Owner(frame, b)
    BY OwnerIs
  <2>2. \E o \in FirstBlocks(frame) : Covers(frame, o, b)
    BY FrameIs DEF Blocks
  <2>3. \E o \in FirstBlocks(g) : Covers(g, o, b)
    BY <1>2, <2>2
  <2>4. Owner(g, b) \in FirstBlocks(g) /\ Covers(g, Owner(g, b), b)
    BY <2>3, Zenon DEF Owner
  <2> QED BY <1>2, <2>1, <2>4
<1>4. ASSUME NEW c \in Channel, NEW b \in Blocks(frame), NEW slot \in Slot
      PROVE  Coefficient(g, c, Owner(frame, b), Raw(frame, b, slot)) = out.ac[c][b * Slots + slot]
  <2>1. PlaneSlot(Side(frame, b), Column(frame, Owner(frame, b)), Row(frame, Owner(frame, b)), frame.bw,
                  Raw(frame, b, slot)) = b * Slots + slot
    BY RawIs
  <2> QED BY <1>1, <2>1, Zenon DEF Coefficient, Side, Column, Row
<1> QED BY <1>1, <1>2, <1>3, <1>4 DEF g

(* A block of a transform, by its place in it. *)
LEMMA OrdinalTells ==
  ASSUME NEW f \in Frames, NEW b \in Blocks(f), NEW a \in Blocks(f), NEW slot \in Slot, NEW s \in Slot,
         Owner(f, a) = Owner(f, b), Raw(f, a, s) = Raw(f, b, slot)
  PROVE  a = b /\ s = slot
<1>1. s = slot /\ Ordinal(f, a) = Ordinal(f, b)
  BY RawIs
<1>2. Side(f, a) = Side(f, b)
  BY DEF Side
<1>3. Dy(f, a) = Dy(f, b) /\ Dx(f, a) = Dx(f, b)
  <2>1. /\ Ordinal(f, a) \div CoveredSide(Side(f, a)) = Dy(f, a) /\ Ordinal(f, a) % CoveredSide(Side(f, a)) = Dx(f, a)
        /\ Ordinal(f, b) \div CoveredSide(Side(f, b)) = Dy(f, b) /\ Ordinal(f, b) % CoveredSide(Side(f, b)) = Dx(f, b)
    BY RawIs
  <2> QED BY <1>1, <1>2, <2>1, Zenon
<1> DEFINE o == Owner(f, b)
<1>4. /\ Column(f, a) - Column(f, o) = Column(f, b) - Column(f, o)
      /\ Row(f, a) - Row(f, o) = Row(f, b) - Row(f, o)
  BY <1>3, Zenon DEF Dx, Dy
<1>5. o \in Blocks(f)
  BY OwnerIs
<1> HIDE DEF o
<1>6. /\ Column(f, a) \in Int /\ Row(f, a) \in Int /\ Column(f, b) \in Int /\ Row(f, b) \in Int
      /\ Column(f, o) \in Int /\ Row(f, o) \in Int
      /\ a = Row(f, a) * f.bw + Column(f, a) /\ b = Row(f, b) * f.bw + Column(f, b)
  BY <1>5, BlockIs
<1>7. Column(f, a) = Column(f, b) /\ Row(f, a) = Row(f, b)
  BY <1>4, <1>6
<1> QED BY <1>1, <1>6, <1>7, Zenon

(* A cell of a tile, as a slot of a block. *)
LEMMA CellOfBlock ==
  ASSUME NEW f \in Frames, NEW t \in TilesOf(f), NEW k \in TileCells, InFrame(f, t, k[1])
  PROVE  LET b == BlockOf(f, t, k[1])
         IN  /\ b \in Blocks(f) /\ TileOf(f, b) = t /\ PosOf(f, b) = k[1] /\ k[2] \in Slot
             /\ k = <<PosOf(f, b), k[2]>> /\ k[1] % Warps \in Warp
             /\ Owner(f, b) \in FirstBlocks(f) /\ Owner(f, b) \in Blocks(f) /\ TileOf(f, Owner(f, b)) = t
             /\ Side(f, b) \in Sides /\ Raw(f, b, k[2]) \in Positions(Side(f, b))
             /\ OwnerPos(f, t, k[1]) = PosOf(f, Owner(f, b))
<1> DEFINE b == BlockOf(f, t, k[1])
<1>1. k[1] \in TilePos /\ k[2] \in Slot /\ k = <<k[1], k[2]>>
  BY DEF TileCells
<1>2. b \in Blocks(f) /\ TileOf(f, b) = t /\ PosOf(f, b) = k[1]
  BY <1>1, BlockOfIs
<1>3. OwnerPos(f, t, k[1]) = PosOf(f, Owner(f, b))
  BY DEF OwnerPos
<1> HIDE DEF b
<1>4. Owner(f, b) \in FirstBlocks(f) /\ Owner(f, b) \in Blocks(f) /\ TileOf(f, Owner(f, b)) = t /\ Side(f, b) \in Sides
  BY <1>2, OwnerIs, OwnerInTile
<1>5. Raw(f, b, k[2]) \in Positions(Side(f, b))
  BY <1>1, <1>2, RawIs
<1>6. k[1] % Warps \in Warp
  BY <1>1, WarpsAre
<1> QED BY <1>1, <1>2, <1>3, <1>4, <1>5, <1>6, Zenon DEF b

LEMMA BlockCell ==
  ASSUME NEW f \in Frames, NEW b \in Blocks(f), NEW slot \in Slot
  PROVE  LET t == TileOf(f, b)
             k == <<PosOf(f, b), slot>>
         IN  /\ t \in TilesOf(f) /\ k \in TileCells /\ k[1] \in TilePos /\ InFrame(f, t, k[1]) /\ BlockOf(f, t, k[1]) = b
             /\ TileOf(f, Owner(f, b)) = t /\ BlockOf(f, t, PosOf(f, Owner(f, b))) = Owner(f, b)
             /\ k[1] % Warps \in Warp /\ OwnerPos(f, t, k[1]) = PosOf(f, Owner(f, b)) /\ Resolver(k[1]) \in Warp
<1> DEFINE t == TileOf(f, b)
           k == <<PosOf(f, b), slot>>
<1>1. /\ t \in TilesOf(f) /\ PosOf(f, b) \in TilePos /\ InFrame(f, t, PosOf(f, b)) /\ BlockOf(f, t, PosOf(f, b)) = b
  BY BlockInTile
<1>2. Owner(f, b) \in Blocks(f) /\ TileOf(f, Owner(f, b)) = t
  BY OwnerIs, OwnerInTile
<1>3. BlockOf(f, t, PosOf(f, Owner(f, b))) = Owner(f, b)
  BY <1>2, BlockInTile
<1> HIDE DEF t
<1>4. k \in TileCells /\ k[1] = PosOf(f, b)
  BY <1>1 DEF TileCells
<1> HIDE DEF k
<1>5. k[1] % Warps \in Warp /\ Resolver(k[1]) \in Warp
  BY <1>1, <1>4, ResolversAre
<1>6. OwnerPos(f, t, k[1]) = PosOf(f, Owner(f, b))
  BY <1>1, <1>4 DEF OwnerPos
<1> QED BY <1>1, <1>2, <1>3, <1>4, <1>5, <1>6, Zenon DEF t, k

(* The non-zeros of a transform, and the transforms a word counts, as they *)
(* are written.                                                            *)
NonzeroRaws(c, o) == {r \in Positions(frame.acs[o]) : Coefficient(Written, c, o, r) # 0}
Transforms(side) == {o \in FirstBlocks(frame) : frame.acs[o] = side}
NonzeroTransforms(side, c, r) == {o \in FirstBlocks(frame) : frame.acs[o] = side /\ Coefficient(Written, c, o, r) # 0}

LEMMA CellWritten ==
  ASSUME Inv, Done, NEW c \in Channel, NEW b \in Blocks(frame), NEW slot \in Slot
  PROVE  Coefficient(Written, c, Owner(frame, b), Raw(frame, b, slot)) = Final(frame, c, b, slot)
<1>1. frame \in Frames
  BY DEF Inv, Tabled
<1>2. out.ac[c][b * Slots + slot] = Final(frame, c, b, slot)
  BY WrittenIs
<1>3. Coefficient(Written, c, Owner(frame, b), Raw(frame, b, slot)) = out.ac[c][b * Slots + slot]
  BY <1>1, WrittenFrame
<1> QED BY <1>2, <1>3, Zenon

(* The non-zeros counted at a first block are those of its transform. *)
LEMMA TallyWritten ==
  ASSUME Inv, Done, NEW c \in Channel, NEW o \in FirstBlocks(frame)
  PROVE  Cardinality(NonzeroRaws(c, o)) = Cardinality(Tally(frame, TileOf(frame, o), c, Warp, PosOf(frame, o)))
<1> DEFINE t == TileOf(frame, o)
           p == PosOf(frame, o)
           S == Tally(frame, t, c, Warp, p)
           R == NonzeroRaws(c, o)
           B(k) == BlockOf(frame, t, k[1])
           h == [k \in TileCells |-> Raw(frame, B(k), k[2])]
<1>1. frame \in Frames /\ o \in Blocks(frame) /\ frame.acs[o] \in Sides /\ Owner(frame, o) = o
  BY FirstOwnsItself DEF Inv, Tabled
<1>2. t \in TilesOf(frame) /\ BlockOf(frame, t, p) = o
  BY <1>1, BlockInTile
<1>3. IsFiniteSet(S)
  BY CountsFinite
<1> HIDE DEF t, p
<1>4. ASSUME NEW k \in S
      PROVE  /\ k \in TileCells /\ B(k) \in Blocks(frame) /\ PosOf(frame, B(k)) = k[1] /\ k[2] \in Slot
             /\ k = <<PosOf(frame, B(k)), k[2]>> /\ Owner(frame, B(k)) = o
             /\ h[k] = Raw(frame, B(k), k[2]) /\ h[k] \in R
  <2>1. k \in TileCells /\ InFrame(frame, t, k[1]) /\ Final(frame, c, B(k), k[2]) # 0 /\ OwnerPos(frame, t, k[1]) = p
    BY DEF Tally, NonzeroCells
  <2>2. h[k] = Raw(frame, B(k), k[2])
    BY <2>1
  <2> HIDE DEF h
  <2> DEFINE b == B(k)
  <2>3. /\ b \in Blocks(frame) /\ PosOf(frame, b) = k[1] /\ k[2] \in Slot /\ k = <<PosOf(frame, b), k[2]>>
        /\ Owner(frame, b) \in Blocks(frame) /\ TileOf(frame, Owner(frame, b)) = t
        /\ Raw(frame, b, k[2]) \in Positions(Side(frame, b)) /\ PosOf(frame, Owner(frame, b)) = p
    BY <1>1, <1>2, <2>1, CellOfBlock
  <2> HIDE DEF b
  <2>4. Owner(frame, b) = o
    <3>1. BlockOf(frame, TileOf(frame, Owner(frame, b)), PosOf(frame, Owner(frame, b))) = Owner(frame, b)
      BY <1>1, <2>3, BlockInTile
    <3> QED BY <1>2, <2>3, <3>1, Zenon
  <2>5. Coefficient(Written, c, o, Raw(frame, b, k[2])) = Final(frame, c, b, k[2])
    BY <2>3, <2>4, CellWritten
  <2>6. Raw(frame, b, k[2]) \in R
    <3>1. Coefficient(Written, c, o, Raw(frame, b, k[2])) # 0 /\ Raw(frame, b, k[2]) \in Positions(frame.acs[o])
      BY <2>1, <2>3, <2>4, <2>5, Zenon DEF b, Side
    <3> QED BY <3>1 DEF NonzeroRaws
  <2> QED BY <2>1, <2>2, <2>3, <2>4, <2>6, Zenon DEF b
<1>5. ASSUME NEW k \in S, NEW l \in S, h[k] = h[l] PROVE k = l
  <2> DEFINE b == B(k)
             a == B(l)
  <2>1. /\ b \in Blocks(frame) /\ k[2] \in Slot /\ k = <<PosOf(frame, b), k[2]>> /\ Owner(frame, b) = o
        /\ a \in Blocks(frame) /\ l[2] \in Slot /\ l = <<PosOf(frame, a), l[2]>> /\ Owner(frame, a) = o
        /\ h[k] = Raw(frame, b, k[2]) /\ h[l] = Raw(frame, a, l[2])
    BY <1>4, Zenon
  <2> HIDE DEF h, a, b
  <2>2. Raw(frame, a, l[2]) = Raw(frame, b, k[2]) /\ Owner(frame, a) = Owner(frame, b)
    BY <1>5, <2>1, Zenon
  <2> DEFINE x == k[2]
             y == l[2]
  <2>3. /\ b \in Blocks(frame) /\ a \in Blocks(frame) /\ x \in Slot /\ y \in Slot
        /\ Owner(frame, a) = Owner(frame, b) /\ Raw(frame, a, y) = Raw(frame, b, x)
    BY <2>1, <2>2, Zenon
  <2> HIDE DEF x, y
  <2>4. a = b /\ y = x
    BY <1>1, <2>3, OrdinalTells
  <2>5. a = b /\ l[2] = k[2]
    BY <2>4, Zenon DEF x, y
  <2> QED BY <2>1, <2>5, Zenon
<1>6. ASSUME NEW r \in R PROVE \E k \in S : h[k] = r
  <2> HIDE DEF h
  <2>1. r \in Positions(frame.acs[o]) /\ Coefficient(Written, c, o, r) # 0
    BY DEF NonzeroRaws
  <2>2. PICK b \in Blocks(frame) : Owner(frame, b) = o /\ Raw(frame, b, r % Slots) = r /\ r % Slots \in Slot
    BY <1>1, <2>1, BlockOfRaw
  <2> DEFINE slot == r % Slots
             k == <<PosOf(frame, b), slot>>
  <2>3. slot \in Slot /\ Raw(frame, b, slot) = r
    BY <2>2
  <2> HIDE DEF slot
  <2>4. /\ k \in TileCells /\ InFrame(frame, TileOf(frame, b), k[1]) /\ BlockOf(frame, TileOf(frame, b), k[1]) = b
        /\ TileOf(frame, Owner(frame, b)) = TileOf(frame, b) /\ k[1] % Warps \in Warp
        /\ OwnerPos(frame, TileOf(frame, b), k[1]) = PosOf(frame, Owner(frame, b)) /\ k[2] = slot
    BY <1>1, <2>3, BlockCell
  <2> HIDE DEF k
  <2>5. TileOf(frame, b) = t /\ PosOf(frame, Owner(frame, b)) = p
    BY <2>2, <2>4, Zenon DEF t, p
  <2>6. Final(frame, c, b, slot) # 0
    <3>1. Coefficient(Written, c, Owner(frame, b), Raw(frame, b, slot)) = Final(frame, c, b, slot)
      BY <2>3, CellWritten
    <3> QED BY <2>1, <2>2, <2>3, <3>1, Zenon
  <2>7. B(k) = b
    BY <2>4, <2>5, Zenon
  <2>8. k \in S
    BY <2>4, <2>5, <2>6, <2>7 DEF Tally, NonzeroCells
  <2>9. h[k] = r
    BY <2>3, <2>4, <2>7 DEF h
  <2> QED BY <2>8, <2>9
<1> HIDE DEF S, R, h
<1>7. Cardinality(R) = Cardinality(S)
  BY <1>3, <1>4, <1>5, <1>6, SameSize
<1> QED BY <1>7 DEF R, S, t, p

(* What a word of the statistics counts when every tile has flushed it. *)
LEMMA HitIs ==
  ASSUME Inv, NEW i, NEW m \in AllHits(frame, TilesOf(frame), i)
  PROVE  LET t == m[1]
             c == m[2][1]
             k == m[2][2]
             b == BlockOf(frame, t, k[1])
         IN  /\ c \in Channel /\ t \in TilesOf(frame) /\ b \in Blocks(frame) /\ TileOf(frame, b) = t
             /\ k[2] \in Slot /\ m = <<TileOf(frame, b), <<c, <<PosOf(frame, b), k[2]>>>>>>
             /\ Flag(frame, c, b, k[2]) # 0 /\ Side(frame, b) \in Sides
             /\ Raw(frame, b, k[2]) \in Positions(Side(frame, b))
             /\ i = OrderOffset(Side(frame, b), c) + Raw(frame, b, k[2])
<1> DEFINE t == m[1]
           n == m[2]
           c == n[1]
           k == n[2]
           b == BlockOf(frame, t, k[1])
<1>1. t \in TilesOf(frame) /\ n \in Channel \X TileCells /\ n \in Hits(frame, t, Warp, i) /\ m = <<t, n>>
  BY DEF AllHits
<1> HIDE DEF t, n
<1>2. /\ c \in Channel /\ k \in TileCells /\ n = <<c, k>> /\ k \in FlaggedCells(frame, t, c)
      /\ WordOf(frame, t, c, k) = i
  BY <1>1 DEF Hits, Found
<1> HIDE DEF c, k
<1>3. InFrame(frame, t, k[1]) /\ Flag(frame, c, b, k[2]) # 0
  BY <1>2 DEF FlaggedCells
<1>4. i = OrderOffset(Side(frame, b), c) + Raw(frame, b, k[2])
  BY <1>2 DEF WordOf
<1>5. frame \in Frames
  BY DEF Inv, Tabled
<1>6. /\ b \in Blocks(frame) /\ TileOf(frame, b) = t /\ k[2] \in Slot /\ k = <<PosOf(frame, b), k[2]>>
      /\ Side(frame, b) \in Sides /\ Raw(frame, b, k[2]) \in Positions(Side(frame, b))
  BY <1>1, <1>2, <1>3, <1>5, CellOfBlock
<1> HIDE DEF b
<1>7. m = <<TileOf(frame, b), <<c, <<PosOf(frame, b), k[2]>>>>>>
  BY <1>1, <1>2, <1>6, Zenon
<1> QED BY <1>1, <1>2, <1>3, <1>4, <1>6, <1>7, Zenon DEF t, n, c, k, b

LEMMA EntryIs ==
  ASSUME Inv, NEW i, NEW m \in AllFirsts(frame, TilesOf(frame), i)
  PROVE  LET o == BlockOf(frame, m[1], m[2])
         IN  /\ o \in FirstBlocks(frame) /\ m = <<TileOf(frame, o), PosOf(frame, o)>>
             /\ frame.acs[o] \in Sides /\ i = OrderEntries + SideIndex(frame.acs[o])
<1> DEFINE t == m[1]
           p == m[2]
           o == BlockOf(frame, t, p)
<1>1. t \in TilesOf(frame) /\ p \in TilePos /\ p \in Firsts(frame, t, Warp, i) /\ m = <<t, p>>
  BY DEF AllFirsts
<1> HIDE DEF t, p
<1>2. InFrame(frame, t, p) /\ OwnerPos(frame, t, p) = p /\ EntryOf(frame, t, p) = i
  BY <1>1 DEF Firsts, FirstPos
<1>3. frame \in Frames
  BY DEF Inv, Tabled
<1>4. o \in Blocks(frame) /\ TileOf(frame, o) = t /\ PosOf(frame, o) = p
  BY <1>1, <1>2, <1>3, BlockOfIs
<1>5. /\ Owner(frame, o) \in FirstBlocks(frame) /\ Owner(frame, o) \in Blocks(frame)
      /\ TileOf(frame, Owner(frame, o)) = t /\ Side(frame, o) \in Sides
  BY <1>3, <1>4, OwnerIs, OwnerInTile
<1>6. Owner(frame, o) = o
  <2>1. PosOf(frame, Owner(frame, o)) = p
    BY <1>2 DEF OwnerPos
  <2>2. BlockOf(frame, TileOf(frame, Owner(frame, o)), PosOf(frame, Owner(frame, o))) = Owner(frame, o)
    BY <1>3, <1>5, BlockInTile
  <2> QED BY <1>5, <2>1, <2>2, Zenon
<1>7. i = OrderEntries + SideIndex(Side(frame, o))
  BY <1>2 DEF EntryOf
<1>8. Side(frame, o) = frame.acs[o]
  BY <1>6, Zenon DEF Side
<1> HIDE DEF o
<1> QED BY <1>1, <1>4, <1>5, <1>6, <1>7, <1>8, Zenon DEF t, p, o

LEMMA TilesFinite ==
  ASSUME frame \in Frames
  PROVE  IsFiniteSet(TilesOf(frame)) /\ \A i : /\ IsFiniteSet(AllHits(frame, TilesOf(frame), i))
                                               /\ IsFiniteSet(AllFirsts(frame, TilesOf(frame), i))
<1> DEFINE T == TilesOf(frame)
<1>1. IsFiniteSet(T)
  <2>1. NumTiles(frame) \in Int
    BY TileIs DEF NumTiles
  <2> QED BY <2>1, FS_Interval DEF TilesOf
<1> HIDE DEF T
<1>2. IsFiniteSet(T \X (Channel \X TileCells)) /\ IsFiniteSet(T \X TilePos)
  BY <1>1, CountsFinite, FS_Product
<1>3. ASSUME NEW i
      PROVE  AllHits(frame, T, i) \in SUBSET (T \X (Channel \X TileCells)) /\ AllFirsts(frame, T, i) \in SUBSET (T \X TilePos)
  BY DEF AllHits, AllFirsts
<1>4. \A i : IsFiniteSet(AllHits(frame, T, i)) /\ IsFiniteSet(AllFirsts(frame, T, i))
  BY <1>2, <1>3, FS_Subset
<1> QED BY <1>1, <1>4 DEF T

(* The word of a side counts its transforms, and nothing else. *)
LEMMA EntriesWritten ==
  ASSUME Inv, NEW side \in Sides, NEW i, i = OrderEntries + SideIndex(side)
  PROVE  /\ Cardinality(AllFirsts(frame, TilesOf(frame), i)) = Cardinality(Transforms(side))
         /\ Cardinality(AllHits(frame, TilesOf(frame), i)) = 0
<1> DEFINE S == AllFirsts(frame, TilesOf(frame), i)
           H == AllHits(frame, TilesOf(frame), i)
           R == Transforms(side)
           h == [m \in S |-> BlockOf(frame, m[1], m[2])]
<1>1. frame \in Frames /\ IsFiniteSet(S)
  BY TilesFinite DEF Inv, Tabled
<1>2. OrderEntries \in Int /\ SideIndex(side) \in Nat
      /\ \A z \in Sides : SideIndex(z) \in Nat /\ (SideIndex(side) = SideIndex(z) => side = z)
  <2>1. 0 \in Positions(side) /\ 0 \in Channel
    BY SideIs DEF Positions, Channel
  <2>2. OrderEntries \in Nat
    BY <2>1, OffsetsAre
  <2> QED BY <2>2, IndicesAre, SidesFinite
<1>3. ASSUME NEW m \in S
      PROVE  h[m] \in R /\ m = <<TileOf(frame, h[m]), PosOf(frame, h[m])>>
  <2> DEFINE o == BlockOf(frame, m[1], m[2])
  <2>1. h[m] = o
    OBVIOUS
  <2>2. /\ o \in FirstBlocks(frame) /\ m = <<TileOf(frame, o), PosOf(frame, o)>>
        /\ frame.acs[o] \in Sides /\ i = OrderEntries + SideIndex(frame.acs[o])
    BY EntryIs
  <2> HIDE DEF o, h
  <2>3. frame.acs[o] = side
    BY <1>2, <2>2
  <2> QED BY <2>1, <2>2, <2>3 DEF Transforms
<1>4. ASSUME NEW m \in S, NEW n \in S, h[m] = h[n] PROVE m = n
  <2> HIDE DEF h
  <2> QED BY <1>3, <1>4, Zenon
<1>5. ASSUME NEW o \in R PROVE \E m \in S : h[m] = o
  <2> DEFINE t == TileOf(frame, o)
             p == PosOf(frame, o)
             m == <<t, p>>
  <2>1. o \in FirstBlocks(frame) /\ o \in Blocks(frame) /\ Owner(frame, o) = o /\ frame.acs[o] = side
    BY <1>1, FirstOwnsItself DEF Transforms
  <2>2. t \in TilesOf(frame) /\ p \in TilePos /\ InFrame(frame, t, p) /\ BlockOf(frame, t, p) = o
    BY <1>1, <2>1, BlockInTile
  <2>3. OwnerPos(frame, t, p) = p /\ EntryOf(frame, t, p) = i
    <3> HIDE DEF t
    <3>1. OwnerPos(frame, t, p) = p
      BY <2>1, <2>2, Zenon DEF OwnerPos
    <3>2. Side(frame, BlockOf(frame, t, p)) = side
      BY <2>1, <2>2, Zenon DEF Side
    <3> QED BY <3>1, <3>2 DEF EntryOf
  <2> HIDE DEF t, p
  <2>4. Resolver(p) \in Warp
    BY <2>2, ResolversAre
  <2>5. m \in S
    <3>1. p \in Firsts(frame, t, Warp, i)
      BY <2>2, <2>3, <2>4 DEF Firsts, FirstPos
    <3> QED BY <2>2, <3>1 DEF AllFirsts
  <2>6. h[m] = o
    <3> HIDE DEF S
    <3> QED BY <2>2, <2>5
  <2> QED BY <2>5, <2>6
<1>6. H = {}
  <2> SUFFICES ASSUME NEW m \in H PROVE FALSE
    OBVIOUS
  <2> DEFINE c == m[2][1]
             b == BlockOf(frame, m[1], m[2][2][1])
             s == Side(frame, b)
             r == Raw(frame, b, m[2][2][2])
  <2>1. c \in Channel /\ s \in Sides /\ r \in Positions(s) /\ i = OrderOffset(s, c) + r
    BY HitIs
  <2> HIDE DEF c, b, s, r
  <2>2. OrderOffset(s, c) + r \in 0 .. OrderEntries - 1
    BY <2>1, OffsetsAre
  <2> QED BY <1>2, <2>1, <2>2
<1> HIDE DEF S, H, R, h
<1>7. Cardinality(R) = Cardinality(S)
  BY <1>1, <1>3, <1>4, <1>5, SameSize
<1>8. Cardinality(H) = 0
  BY <1>6, CountNone, Zenon
<1> QED BY <1>7, <1>8 DEF S, H, R

(* Nothing is narrowed to nothing. *)
LEMMA NarrowedNone == Narrowed(0) = 0
<1> DEFINE n == Int16Values
           h == n \div 2
<1>1. n \in Nat /\ n > 0
  BY QuantizeAssumption
<1> HIDE DEF n
<1>2. h \in 0 .. n - 1
  BY <1>1
<1> HIDE DEF h
<1>3. (0 + h) % n = h
  <2> DEFINE q == 0
  <2>1. q \in Nat /\ n * q = 0
    BY <1>1
  <2> HIDE DEF q
  <2>2. (n * q + h) % n = h
    BY <1>1, <1>2, <2>1, DigitsOf
  <2> QED BY <2>1, <2>2
<1> QED BY <1>2, <1>3 DEF Narrowed, h, n

(* Where no luma coefficient is narrowed to zero, what is flagged is what  *)
(* is not zero when it is written.                                         *)
LEMMA FlagIsKept ==
  ASSUME frame \in Frames, NEW side, NEW d \in Channel, NEW r, d = 1 => LumaKept(side, r),
         NEW b \in Blocks(frame), NEW slot \in Slot, Side(frame, b) = side, Raw(frame, b, slot) = r
  PROVE  Flag(frame, d, b, slot) # 0 <=> Final(frame, d, b, slot) # 0
<1>1. CASE d # 1
  BY <1>1, ChromaFlagged
<1>2. CASE Corner(frame, b, slot)
  BY <1>2, Zenon DEF Flag, Final
<1>3. CASE d = 1 /\ ~Corner(frame, b, slot)
  <2> DEFINE o == Owner(frame, b)
             y == Luma(frame, b, slot)
  <2>1. o \in FirstBlocks(frame) /\ frame.acs[o] = side
    BY OwnerIs DEF Side
  <2>2. ~IsCorner(side, r)
    BY <1>3, Zenon DEF Corner
  <2>3. y = QuantizedLuma(Coefficient(frame, 1, o, r), frame.qf[o], side, r)
    <3>1. Coefficient(frame, d, Owner(frame, b), Raw(frame, b, slot)) = Value(frame, d, b, slot)
      BY RawIs
    <3> QED BY <1>3, <3>1, Zenon DEF Luma
  <2> HIDE DEF o, y
  <2>4. Narrowed(y) = 0 => y = 0
    BY <1>3, <2>1, <2>2, <2>3, Zenon DEF LumaKept
  <2>5. Narrowed(0) = 0
    BY NarrowedNone
  <2>6. Flag(frame, d, b, slot) = y /\ Final(frame, d, b, slot) = Narrowed(y)
    BY <1>3, Zenon DEF Flag, Final, StoredLuma, y
  <2> QED BY <2>4, <2>5, <2>6, Zenon
<1> QED BY <1>1, <1>2, <1>3

(* The word of a position counts the transforms of its side with a         *)
(* non-zero there, and nothing else.                                       *)
LEMMA HitsWritten ==
  ASSUME Inv, Done, NEW side \in Sides, NEW d \in Channel, NEW r \in Positions(side),
         NEW i, i = OrderOffset(side, d) + r, d = 1 => LumaKept(side, r)
  PROVE  /\ Cardinality(AllHits(frame, TilesOf(frame), i)) =
              IF IsCorner(side, r) THEN 0 ELSE Cardinality(NonzeroTransforms(side, d, r))
         /\ Cardinality(AllFirsts(frame, TilesOf(frame), i)) = 0
<1> DEFINE S == AllHits(frame, TilesOf(frame), i)
           F == AllFirsts(frame, TilesOf(frame), i)
           R == NonzeroTransforms(side, d, r)
           B(m) == BlockOf(frame, m[1], m[2][2][1])
           h == [m \in S |-> Owner(frame, B(m))]
<1>1. frame \in Frames /\ IsFiniteSet(S)
  BY TilesFinite DEF Inv, Tabled
<1>2. i \in 0 .. OrderEntries - 1 /\ OrderEntries \in Nat
  BY OffsetsAre
<1>3. ASSUME NEW m \in S
      PROVE  /\ B(m) \in Blocks(frame) /\ Side(frame, B(m)) = side /\ m[2][2][2] \in Slot
             /\ m = <<TileOf(frame, B(m)), <<d, <<PosOf(frame, B(m)), m[2][2][2]>>>>>>
             /\ Flag(frame, d, B(m), m[2][2][2]) # 0 /\ Raw(frame, B(m), m[2][2][2]) = r
  <2> DEFINE b == B(m)
             c == m[2][1]
             slot == m[2][2][2]
             s == Side(frame, b)
             q == Raw(frame, b, slot)
  <2>1. /\ c \in Channel /\ b \in Blocks(frame) /\ slot \in Slot
        /\ m = <<TileOf(frame, b), <<c, <<PosOf(frame, b), slot>>>>>> /\ Flag(frame, c, b, slot) # 0
        /\ s \in Sides /\ q \in Positions(s) /\ i = OrderOffset(s, c) + q
    BY HitIs
  <2> HIDE DEF b, c, slot, s, q
  <2>2. side = s /\ d = c /\ r = q
    BY <2>1, OffsetsAre
  <2> QED BY <2>1, <2>2, Zenon DEF b, slot, s, q
<1>4. ASSUME NEW m \in S
      PROVE  h[m] \in R /\ h[m] = Owner(frame, B(m)) /\ ~IsCorner(side, r)
  <2> DEFINE b == B(m)
             slot == m[2][2][2]
  <2>1. h[m] = Owner(frame, b)
    OBVIOUS
  <2>2. /\ b \in Blocks(frame) /\ Side(frame, b) = side /\ slot \in Slot
        /\ Flag(frame, d, b, slot) # 0 /\ Raw(frame, b, slot) = r
    BY <1>3
  <2> HIDE DEF b, slot, h
  <2>3. Owner(frame, b) \in FirstBlocks(frame)
    BY <1>1, <2>2, OwnerIs
  <2>4. Coefficient(Written, d, Owner(frame, b), Raw(frame, b, slot)) = Final(frame, d, b, slot)
    BY <2>2, CellWritten
  <2>a. Final(frame, d, b, slot) # 0
    BY <1>1, <2>2, FlagIsKept
  <2>5. Coefficient(Written, d, Owner(frame, b), r) # 0 /\ frame.acs[Owner(frame, b)] = side
    BY <2>2, <2>4, <2>a, Zenon DEF Side
  <2>6. ~IsCorner(side, r)
    <3>1. ~Corner(frame, b, slot)
      BY <2>2 DEF Flag
    <3> QED BY <2>2, <3>1, Zenon DEF Corner
  <2>7. Owner(frame, b) \in R
    BY <2>3, <2>5 DEF NonzeroTransforms
  <2> QED BY <2>1, <2>6, <2>7, Zenon DEF b
<1>5. ASSUME NEW m \in S, NEW n \in S, h[m] = h[n] PROVE m = n
  <2> DEFINE b == B(m)
             x == m[2][2][2]
             a == B(n)
             y == n[2][2][2]
  <2>1. /\ b \in Blocks(frame) /\ x \in Slot /\ m = <<TileOf(frame, b), <<d, <<PosOf(frame, b), x>>>>>>
        /\ Raw(frame, b, x) = r
    BY <1>3
  <2>2. /\ a \in Blocks(frame) /\ y \in Slot /\ n = <<TileOf(frame, a), <<d, <<PosOf(frame, a), y>>>>>>
        /\ Raw(frame, a, y) = r
    BY <1>3
  <2>3. Owner(frame, a) = Owner(frame, b)
    <3> HIDE DEF h
    <3> QED BY <1>4, <1>5, Zenon
  <2> HIDE DEF b, x, a, y, h
  <2>4. Raw(frame, a, y) = Raw(frame, b, x)
    BY <2>1, <2>2
  <2>5. a = b /\ y = x
    BY <1>1, <2>1, <2>2, <2>3, <2>4, OrdinalTells
  <2> QED BY <2>1, <2>2, <2>5, Zenon
<1>6. ASSUME NEW o \in R, ~IsCorner(side, r) PROVE \E m \in S : h[m] = o
  <2>1. o \in FirstBlocks(frame) /\ frame.acs[o] = side /\ Coefficient(Written, d, o, r) # 0
    BY DEF NonzeroTransforms
  <2>2. PICK b \in Blocks(frame) : Owner(frame, b) = o /\ Raw(frame, b, r % Slots) = r /\ r % Slots \in Slot
    BY <1>1, <2>1, BlockOfRaw
  <2> DEFINE slot == r % Slots
             t == TileOf(frame, b)
             k == <<PosOf(frame, b), slot>>
             n == <<d, k>>
             m == <<t, n>>
  <2>3. slot \in Slot /\ Raw(frame, b, slot) = r
    BY <2>2
  <2> HIDE DEF slot
  <2>4. /\ t \in TilesOf(frame) /\ k \in TileCells /\ InFrame(frame, t, k[1]) /\ BlockOf(frame, t, k[1]) = b
        /\ k[1] % Warps \in Warp /\ k[2] = slot
    BY <1>1, <2>3, BlockCell
  <2> HIDE DEF k, t
  <2>5. Final(frame, d, b, slot) # 0
    <3>1. Coefficient(Written, d, Owner(frame, b), Raw(frame, b, slot)) = Final(frame, d, b, slot)
      BY <2>3, CellWritten
    <3> QED BY <2>1, <2>2, <2>3, <3>1, Zenon
  <2>6. k \in FlaggedCells(frame, t, d)
    <3>1. Side(frame, b) = side
      BY <2>1, <2>2, Zenon DEF Side
    <3>2. Flag(frame, d, b, slot) # 0
      BY <1>1, <2>3, <2>5, <3>1, FlagIsKept
    <3> QED BY <2>4, <3>2 DEF FlaggedCells
  <2>7. WordOf(frame, t, d, k) = i
    <3>1. Side(frame, b) = side
      BY <2>1, <2>2, Zenon DEF Side
    <3>2. WordOf(frame, t, d, k) = OrderOffset(Side(frame, b), d) + Raw(frame, b, slot)
      BY <2>4, Zenon DEF WordOf
    <3> QED BY <2>3, <3>1, <3>2
  <2>8. m \in S
    <3>1. n \in Hits(frame, t, Warp, i) /\ n \in Channel \X TileCells
      BY <2>4, <2>6, <2>7 DEF Hits, Found
    <3> QED BY <2>4, <3>1 DEF AllHits
  <2>9. B(m) = b
    BY <2>4
  <2>10. h[m] = o
    <3> HIDE DEF S, m, B
    <3> QED BY <2>2, <2>8, <2>9
  <2> QED BY <2>8, <2>10
<1>7. F = {}
  <2> SUFFICES ASSUME NEW m \in F PROVE FALSE
    OBVIOUS
  <2> DEFINE s == frame.acs[BlockOf(frame, m[1], m[2])]
  <2>1. s \in Sides /\ i = OrderEntries + SideIndex(s)
    BY EntryIs
  <2> HIDE DEF s
  <2>2. SideIndex(s) \in Nat
    BY <2>1, IndicesAre, SidesFinite
  <2> QED BY <1>2, <2>1, <2>2
<1>8. Cardinality(F) = 0
  BY <1>7, CountNone, Zenon
<1>9. CASE IsCorner(side, r)
  <2>1. S = {}
    BY <1>4, <1>9
  <2>2. Cardinality(S) = 0
    BY <2>1, CountNone, Zenon
  <2> QED BY <1>8, <1>9, <2>2
<1>10. CASE ~IsCorner(side, r)
  <2> HIDE DEF S, F, R, h
  <2>1. Cardinality(R) = Cardinality(S)
    BY <1>1, <1>4, <1>5, <1>6, <1>10, SameSize
  <2> QED BY <1>8, <1>10, <2>1 DEF S, F, R
<1> QED BY <1>9, <1>10

(* The counts of a block are those of its transform. *)
LEMMA BlockCountsWritten ==
  ASSUME Inv, CountsInv, Done, NEW b \in Blocks(frame), NEW c \in Channel, NEW nz,
         nz = Cardinality(NonzeroRaws(c, Owner(frame, b)))
  PROVE  /\ out.nz_exact[c][b] = IF b = Owner(frame, b) THEN nz ELSE 0
         /\ out.nz_grid[c][b] = CeilDiv(nz, Covered(frame.acs[Owner(frame, b)]))
<1> DEFINE o == Owner(frame, b)
           side == Side(frame, b)
           n == NonzerosOf(frame, c, b)
<1>1. frame \in Frames /\ Tiles = TilesOf(frame)
  BY DEF Inv, Tabled, Tiles
<1>2. region[TileOf(frame, b)][BandOf(frame, b)] = 7
  BY <1>1, WritersAre DEF Done
<1>3. /\ out.nz_exact[c][b] = IF o = b THEN n ELSE 0
      /\ out.nz_grid[c][b] = GridOf(frame, c, b)
  BY <1>2 DEF CountsInv, CountsWritten
<1>4. o \in FirstBlocks(frame) /\ TileOf(frame, o) = TileOf(frame, b) /\ side \in Sides
  BY <1>1, OwnerIs, OwnerInTile
<1> HIDE DEF o
<1>5. n = nz
  <2>1. Cardinality(NonzeroRaws(c, o)) = Cardinality(Tally(frame, TileOf(frame, o), c, Warp, PosOf(frame, o)))
    BY <1>4, TallyWritten
  <2>2. n = Cardinality(Tally(frame, TileOf(frame, b), c, Warp, PosOf(frame, o)))
    BY Zenon DEF NonzerosOf, o
  <2>3. nz = Cardinality(NonzeroRaws(c, o))
    BY Zenon DEF o
  <2> QED BY <1>4, <2>1, <2>2, <2>3, Zenon
<1>6. 2^Log2Covered(side) = Covered(side)
  <2>1. CoveredSide(side) \in {1, 2, 4}
    BY <1>4, SideIs
  <2>2. CASE CoveredSide(side) = 1
    BY <2>2 DEF Log2Covered, Covered
  <2>3. CASE CoveredSide(side) = 2
    BY <2>3 DEF Log2Covered, Covered
  <2>4. CASE CoveredSide(side) = 4
    BY <2>4 DEF Log2Covered, Covered
  <2> QED BY <2>1, <2>2, <2>3, <2>4
<1>7. GridOf(frame, c, b) = CeilDiv(nz, Covered(side))
  BY <1>5, <1>6 DEF GridOf, CeilDiv
<1> QED BY <1>3, <1>5, <1>7 DEF o, Side

(* The statistics are those of the orders of what is written. *)
LEMMA OrderStatsAre ==
  ASSUME frame \in Frames
  PROVE  /\ \A side \in Sides : OrderStats(Written).blocks[side] = Cardinality(Transforms(side))
         /\ \A side \in Sides, c \in Channel : \A r \in Positions(side) :
              OrderStats(Written).nonzeros[<<side, c>>][r] =
                IF IsCorner(side, r) THEN 0 ELSE Cardinality(NonzeroTransforms(side, c, r))
<1> DEFINE g == Written
           count(s, c, r) == Cardinality({b \in FirstBlocks(g) : g.acs[b] = s /\ Coefficient(g, c, b, r) # 0})
           row(s, c) == [r \in Positions(s) |-> IF IsCorner(s, r) THEN 0 ELSE count(s, c, r)]
           of(s) == Cardinality({b \in FirstBlocks(g) : g.acs[b] = s})
           blocks == [s \in Sides |-> of(s)]
           table == [t \in Sides \X Channel |-> Tabulated(row(t[1], t[2]))]
<1>1. OrderStats(g) = [nonzeros |-> Tabulated(table), blocks |-> Tabulated(blocks)]
  BY Zenon DEF OrderStats
<1>2. g.acs = frame.acs /\ FirstBlocks(g) = FirstBlocks(frame)
  BY WrittenFrame
<1>3. ASSUME NEW s PROVE of(s) = Cardinality(Transforms(s))
  BY <1>2, Zenon DEF Transforms
<1>4. ASSUME NEW s, NEW c, NEW r PROVE count(s, c, r) = Cardinality(NonzeroTransforms(s, c, r))
  BY <1>2, Zenon DEF NonzeroTransforms
<1> HIDE DEF g, count, of
<1>5. OrderStats(g).nonzeros = table /\ OrderStats(g).blocks = blocks
  <2>1. Tabulated(table) = table /\ Tabulated(blocks) = blocks
    BY TabulatedIs, Zenon
  <2> HIDE DEF table, blocks
  <2> QED BY <1>1, <2>1
<1>6. ASSUME NEW s \in Sides PROVE OrderStats(g).blocks[s] = Cardinality(Transforms(s))
  BY <1>3, <1>5
<1>7. ASSUME NEW s \in Sides, NEW c \in Channel, NEW r \in Positions(s)
      PROVE  OrderStats(g).nonzeros[<<s, c>>][r] = IF IsCorner(s, r) THEN 0 ELSE Cardinality(NonzeroTransforms(s, c, r))
  <2>1. table[<<s, c>>] = Tabulated(row(s, c))
    <3> HIDE DEF row
    <3> QED OBVIOUS
  <2>2. Tabulated(row(s, c)) = row(s, c)
    BY TabulatedIs, Zenon
  <2>3. row(s, c)[r] = IF IsCorner(s, r) THEN 0 ELSE count(s, c, r)
    OBVIOUS
  <2> HIDE DEF table, row
  <2>4. OrderStats(g).nonzeros[<<s, c>>][r] = IF IsCorner(s, r) THEN 0 ELSE count(s, c, r)
    BY <1>5, <2>1, <2>2, <2>3, Zenon
  <2> QED BY <1>4, <2>4
<1> QED BY <1>6, <1>7 DEF g

LEMMA StatsWritten ==
  ASSUME Inv, CountsInv, Done, NEW side \in Sides
  PROVE  /\ out.order_stats[OrderEntries + SideIndex(side)] = OrderStats(Written).blocks[side]
         /\ \A c \in Channel, r \in Positions(side) : (c = 1 => LumaKept(side, r)) =>
              out.order_stats[OrderOffset(side, c) + r] = OrderStats(Written).nonzeros[<<side, c>>][r]
<1> DEFINE T == TilesOf(frame)
<1>1. frame \in Frames /\ Tiles = T
  BY DEF Inv, Tabled, Tiles
<1>2. ASSUME NEW i \in Word
      PROVE  out.order_stats[i] = Cardinality(AllFirsts(frame, T, i)) + Cardinality(AllHits(frame, T, i))
  <2>1. \A t \in T, w \in Warp : region[t][w] = 7
    BY <1>1 DEF Done
  <2>2. Zeroer(i) \in Warp
    BY ResolversAre
  <2>3. Flushed(i) = T
    <3>1. \A t \in T : region[t][Zeroer(i)] >= 7
      BY <2>1, <2>2
    <3> HIDE DEF T
    <3> QED BY <3>1 DEF Flushed, T
  <2>4. out.order_stats[i] =
          Cardinality(AllFirsts(frame, Flushed(i), i)) + Cardinality(AllHits(frame, Flushed(i), i))
    BY DEF CountsInv, OrdersWritten
  <2> QED BY <2>3, <2>4, Zenon
<1>3. ASSUME NEW i PROVE /\ Cardinality(AllHits(frame, T, i)) \in Nat /\ Cardinality(AllFirsts(frame, T, i)) \in Nat
  BY <1>1, TilesFinite, FS_CardinalityType
<1>4. OrderEntries \in Nat /\ SideIndex(side) \in 0 .. Cardinality(Sides) - 1 /\ Cardinality(Sides) \in Nat
  <2>1. 0 \in Positions(side) /\ 0 \in Channel
    BY SideIs DEF Positions, Channel
  <2> QED BY <2>1, OffsetsAre, IndicesAre, SidesFinite
<1>5. out.order_stats[OrderEntries + SideIndex(side)] = OrderStats(Written).blocks[side]
  <2> DEFINE i == OrderEntries + SideIndex(side)
  <2>1. i \in Word
    BY <1>4 DEF Word, StatsWords
  <2>2. /\ Cardinality(AllFirsts(frame, T, i)) = Cardinality(Transforms(side))
        /\ Cardinality(AllHits(frame, T, i)) = 0
    BY EntriesWritten
  <2>3. OrderStats(Written).blocks[side] = Cardinality(Transforms(side))
    BY <1>1, OrderStatsAre
  <2> HIDE DEF i, T
  <2>4. out.order_stats[i] = Cardinality(Transforms(side))
    BY <1>2, <1>3, <2>1, <2>2
  <2> QED BY <2>3, <2>4 DEF i
<1>6. ASSUME NEW c \in Channel, NEW r \in Positions(side), c = 1 => LumaKept(side, r)
      PROVE  out.order_stats[OrderOffset(side, c) + r] = OrderStats(Written).nonzeros[<<side, c>>][r]
  <2> DEFINE i == OrderOffset(side, c) + r
             n == IF IsCorner(side, r) THEN 0 ELSE Cardinality(NonzeroTransforms(side, c, r))
  <2>1. i \in 0 .. OrderEntries - 1
    BY OffsetsAre
  <2>2. i \in Word
    <3> HIDE DEF i
    <3> QED BY <1>4, <2>1 DEF Word, StatsWords
  <2>3. Cardinality(AllHits(frame, T, i)) = n /\ Cardinality(AllFirsts(frame, T, i)) = 0
    BY <1>6, HitsWritten
  <2>4. OrderStats(Written).nonzeros[<<side, c>>][r] = n
    BY <1>1, OrderStatsAre
  <2> HIDE DEF i, n, T
  <2>5. out.order_stats[i] = n
    BY <1>2, <1>3, <2>2, <2>3
  <2> QED BY <2>4, <2>5 DEF i
<1> QED BY <1>5, <1>6

(* However the warps and tiles interleave, the non-zeros of every           *)
(* transform are counted at its first block and nowhere else, each block   *)
(* it covers holds its share of them, and the statistics of the            *)
(* coefficient orders are those of the coefficients the tiles have written *)
(* (quantize_tile): no warp counts at a position before the warp that      *)
(* zeroes the count has passed the first barrier, flushes a word of the    *)
(* statistics before every warp has counted in it, or reads what the       *)
(* buffer of the coefficients held before it was reused. Where narrowing   *)
(* makes a luma coefficient zero, the statistics count it and the blocks   *)
(* do not.                                                                 *)
THEOREM CountsAreOfCoefficients == Spec => []CountsMatchCoefficients
<1>1. Inv /\ CountsInv => CountsMatchCoefficients
  <2> SUFFICES ASSUME Inv, CountsInv, Done PROVE CountsMatchCoefficients
    BY Zenon DEF CountsMatchCoefficients
  <2> DEFINE g == Written
             stats == OrderStats(g)
             nz(f, c, o) == Cardinality({r \in Positions(f.acs[o]) : Coefficient(f, c, o, r) # 0})
             counts(f, b, o) == \A c \in Channel :
               /\ out.nz_exact[c][b] = IF b = o THEN nz(f, c, o) ELSE 0
               /\ out.nz_grid[c][b] = CeilDiv(nz(f, c, o), Covered(f.acs[o]))
             words(s) == \A side \in Sides :
               /\ out.order_stats[OrderEntries + SideIndex(side)] = s.blocks[side]
               /\ \A c \in Channel, r \in Positions(side) : (c = 1 => LumaKept(side, r)) =>
                    out.order_stats[OrderOffset(side, c) + r] = s.nonzeros[<<side, c>>][r]
  <2>1. frame \in Frames
    BY DEF Inv, Tabled
  <2>2. /\ g.bw = frame.bw /\ g.bh = frame.bh /\ g.acs = frame.acs
        /\ \A b \in Blocks(frame) : Owner(g, b) = Owner(frame, b)
    BY <2>1, WrittenFrame
  <2>3. 0 .. g.bw * g.bh - 1 = Blocks(frame)
    BY <2>2 DEF Blocks
  <2>4. ASSUME NEW b \in 0 .. g.bw * g.bh - 1 PROVE counts(g, b, Owner(g, b))
    <3> DEFINE o == Owner(frame, b)
    <3>1. b \in Blocks(frame) /\ Owner(g, b) = o
      BY <2>2, <2>3
    <3>2. \A c \in Channel : nz(g, c, o) = Cardinality(NonzeroRaws(c, o))
      BY <2>2, Zenon DEF NonzeroRaws
    <3>3. ASSUME NEW c \in Channel
          PROVE  /\ out.nz_exact[c][b] = IF b = o THEN nz(g, c, o) ELSE 0
                 /\ out.nz_grid[c][b] = CeilDiv(nz(g, c, o), Covered(g.acs[o]))
      <4> HIDE DEF nz, g
      <4>1. nz(g, c, o) = Cardinality(NonzeroRaws(c, o))
        BY <3>2, Zenon
      <4>2. /\ out.nz_exact[c][b] = IF b = o THEN nz(g, c, o) ELSE 0
            /\ out.nz_grid[c][b] = CeilDiv(nz(g, c, o), Covered(frame.acs[o]))
        BY <3>1, <4>1, BlockCountsWritten
      <4> QED BY <2>2, <4>2, Zenon
    <3> HIDE DEF nz, g, o
    <3>4. counts(g, b, o)
      BY <3>3
    <3> QED BY <3>1, <3>4, Zenon
  <2>5. words(stats)
    <3>1. ASSUME NEW side \in Sides
          PROVE  /\ out.order_stats[OrderEntries + SideIndex(side)] = stats.blocks[side]
                 /\ \A c \in Channel, r \in Positions(side) : (c = 1 => LumaKept(side, r)) =>
                      out.order_stats[OrderOffset(side, c) + r] = stats.nonzeros[<<side, c>>][r]
      BY StatsWritten
    <3> HIDE DEF stats
    <3> QED BY <3>1
  <2>6. \A b \in 0 .. g.bw * g.bh - 1 : \E o \in {Owner(g, b)} : counts(g, b, o)
    <3> HIDE DEF g, counts
    <3> QED BY <2>4
  <2>7. \E f \in {g} : \E s \in {OrderStats(f)} :
          (\A b \in 0 .. f.bw * f.bh - 1 : \E o \in {Owner(f, b)} : counts(f, b, o)) /\ words(s)
    <3> HIDE DEF g, counts, words
    <3> QED BY <2>5, <2>6, Zenon DEF stats
  <2> QED BY <2>7, Zenon DEF CountsMatchCoefficients, Written
<1> QED BY <1>1, InitInv, NextInv, CountsInitInv, CountsNextInv, PTL DEF Spec
=============================================================================
