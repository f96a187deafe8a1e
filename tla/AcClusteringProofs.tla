------------------------ MODULE AcClusteringProofs ------------------------
(***************************************************************************)
(* The device's clustering is the reference's, and its output codes every  *)
(* token, for every number of blocks, contexts and clusters and every      *)
(* input within the bounds AcClustering assumes.                           *)
(*                                                                         *)
(* The first parts are about the operators: sums over finite sets, the     *)
(* largest, the smallest and the n-th of a set, logarithms, and what the   *)
(* reference computes. Then come the device's computations with the values *)
(* the invariant gives them: the shares of the list, the refill and the    *)
(* numbers of the clusters. Last is the invariant. Its control part says   *)
(* that the barriers keep the blocks together; the other part says what is *)
(* in the memory they share as a function of the progress of each context, *)
(* so that a block past a barrier reads the whole of an iteration.         *)
(***************************************************************************)
EXTENDS AcClustering, FiniteSetTheorems, FunctionTheorems,
        WellFoundedInduction, TLAPS

---------------------------------------------------------------------------
(* The least-number principle.  Induction on a number n is the application *)
(* of this lemma to the set of the counterexamples.                        *)
LEMMA Least ==
  ASSUME NEW S, S \subseteq Nat, S # {}
  PROVE  \E m \in S : \A n \in S : m <= n
<1>1. PICK m \in S : \A n \in S : ~ (<<n, m>> \in OpToRel(<, Nat))
  BY NatLessThanWellFounded, WFMin
<1>2. \A n \in S : ~ (n < m)
  BY <1>1 DEF OpToRel
<1> QED BY <1>2

---------------------------------------------------------------------------
(* Sums.  SumFunctionOnSet(f, S) takes an element of S after the other, by *)
(* CHOOSE; that the function it is defined by exists is proved by taking   *)
(* the smallest set it would not exist for.                                *)

Some(s) == CHOOSE x \in s : TRUE
Running(g, f, S) ==
  g = [s \in SUBSET S |-> IF s = {} THEN 0 ELSE f[Some(s)] + g[s \ {Some(s)}]]

(* A sum is the value of its running sum for the whole set. *)
LEMMA SumIsRunning ==
  ASSUME NEW f, NEW S
  PROVE  SumFunctionOnSet(f, S) = (CHOOSE g : Running(g, f, S))[S]
BY Zenon DEF SumFunctionOnSet, FoldFunctionOnSet, MapThenFoldSet, Running, Some

(* Removing the chosen element leaves a smaller finite set. *)
LEMMA SomeRemoved ==
  ASSUME NEW s, IsFiniteSet(s), s # {}
  PROVE  /\ Some(s) \in s
         /\ IsFiniteSet(s \ {Some(s)})
         /\ Cardinality(s) \in Nat /\ Cardinality(s \ {Some(s)}) \in Nat
         /\ Cardinality(s \ {Some(s)}) < Cardinality(s)
<1>1. Some(s) \in s
  BY DEF Some
<1>2. IsFiniteSet(s \ {Some(s)}) /\ Cardinality(s \ {Some(s)}) = Cardinality(s) - 1
  BY <1>1, FS_RemoveElement
<1>3. Cardinality(s) \in Nat /\ Cardinality(s \ {Some(s)}) \in Nat
  BY <1>2, FS_CardinalityType
<1> QED BY <1>1, <1>2, <1>3

(* Two running sums agree on the sets they share. *)
LEMMA RunningUnique ==
  ASSUME NEW f, NEW S, NEW T, NEW g, NEW h, Running(g, f, S), Running(h, f, T),
         NEW s, s \subseteq S, s \subseteq T, IsFiniteSet(s)
  PROVE  g[s] = h[s]
<1> DEFINE Bad == {n \in Nat : \E u : /\ u \subseteq S /\ u \subseteq T /\ IsFiniteSet(u)
                                      /\ Cardinality(u) = n /\ g[u] # h[u]}
<1>1. SUFFICES ASSUME Bad # {} PROVE FALSE
  BY FS_CardinalityType
<1>2. PICK n \in Bad : \A k \in Bad : n <= k
  BY <1>1, Least
<1>3. PICK u : /\ u \subseteq S /\ u \subseteq T /\ IsFiniteSet(u)
               /\ Cardinality(u) = n /\ g[u] # h[u]
  BY <1>2
<1>4. /\ g[u] = IF u = {} THEN 0 ELSE f[Some(u)] + g[u \ {Some(u)}]
      /\ h[u] = IF u = {} THEN 0 ELSE f[Some(u)] + h[u \ {Some(u)}]
  BY <1>3 DEF Running
<1>5. u # {}
  BY <1>3, <1>4
<1> DEFINE v == u \ {Some(u)}
<1>6. v \subseteq S /\ v \subseteq T /\ IsFiniteSet(v) /\ Cardinality(v) \in Nat /\ Cardinality(v) < n
  BY <1>3, <1>5, SomeRemoved
<1>7. Cardinality(v) \notin Bad
  <2>1. n \in Nat
    BY <1>2
  <2> HIDE DEF Bad, v
  <2> QED BY <1>2, <1>6, <2>1
<1>8. g[v] = h[v]
  BY <1>6, <1>7
<1> QED BY <1>3, <1>4, <1>5, <1>8

(* A finite set has a running sum. *)
LEMMA RunningExists ==
  ASSUME NEW f, NEW S, IsFiniteSet(S)
  PROVE  \E g : Running(g, f, S)
<1> DEFINE Bad == {n \in Nat : \E T : IsFiniteSet(T) /\ Cardinality(T) = n /\ ~ \E g : Running(g, f, T)}
<1>1. SUFFICES ASSUME Bad # {} PROVE FALSE
  BY FS_CardinalityType
<1>2. PICK n \in Bad : \A k \in Bad : n <= k
  BY <1>1, Least
<1>3. PICK T : IsFiniteSet(T) /\ Cardinality(T) = n /\ ~ \E g : Running(g, f, T)
  BY <1>2
<1> DEFINE G(s) == CHOOSE g : Running(g, f, s)
           g == [s \in SUBSET T |-> IF s = {} THEN 0
                                    ELSE f[Some(s)] + G(s \ {Some(s)})[s \ {Some(s)}]]
<1>4. ASSUME NEW s \in SUBSET T, s # {}
      PROVE  /\ s \ {Some(s)} \in SUBSET T
             /\ IsFiniteSet(s \ {Some(s)})
             /\ Running(G(s \ {Some(s)}), f, s \ {Some(s)})
  <2>1. IsFiniteSet(s) /\ Cardinality(s) <= n
    BY <1>3, FS_Subset
  <2>2. s \ {Some(s)} \in SUBSET T
    OBVIOUS
  <2>3. IsFiniteSet(s \ {Some(s)}) /\ Cardinality(s \ {Some(s)}) \in Nat
        /\ Cardinality(s \ {Some(s)}) < n
    BY <2>1, <1>4, SomeRemoved, <1>2
  <2>4. Cardinality(s \ {Some(s)}) \notin Bad
    BY <1>2, <2>3
  <2>5. \E r : Running(r, f, s \ {Some(s)})
    BY <2>3, <2>4
  <2> QED BY <2>2, <2>3, <2>5, Zenon
<1>5. ASSUME NEW s \in SUBSET T, s # {}
      PROVE  g[s \ {Some(s)}] = G(s \ {Some(s)})[s \ {Some(s)}]
  <2> DEFINE v == s \ {Some(s)}
  <2>1. v \in SUBSET T /\ IsFiniteSet(v) /\ Running(G(v), f, v)
    BY <1>4, <1>5
  <2>2. G(v)[v] = IF v = {} THEN 0 ELSE f[Some(v)] + G(v)[v \ {Some(v)}]
    <3> HIDE DEF v, G
    <3> QED BY <2>1 DEF Running
  <2>3. CASE v = {}
    BY <2>1, <2>2, <2>3
  <2>4. CASE v # {}
    <3> DEFINE w == v \ {Some(v)}
    <3>1. w \in SUBSET T /\ IsFiniteSet(w) /\ Running(G(w), f, w) /\ w \subseteq v
      BY <1>4, <2>1, <2>4
    <3>2. G(v)[w] = G(w)[w]
      <4> HIDE DEF v, w, G
      <4> QED BY <2>1, <3>1, RunningUnique
    <3>3. g[v] = f[Some(v)] + G(w)[w]
      BY <2>1, <2>4
    <3> QED BY <2>2, <2>4, <3>2, <3>3
  <2> QED BY <2>3, <2>4
<1>6. Running(g, f, T)
  <2>1. g = [s \in SUBSET T |-> IF s = {} THEN 0 ELSE f[Some(s)] + g[s \ {Some(s)}]]
    <3> DEFINE k(s) == G(s \ {Some(s)})[s \ {Some(s)}]
    <3>1. \A s \in SUBSET T : s # {} => g[s \ {Some(s)}] = k(s)
      BY <1>5
    <3>2. g = [s \in SUBSET T |-> IF s = {} THEN 0 ELSE f[Some(s)] + k(s)]
      OBVIOUS
    <3> HIDE DEF g, k, G
    <3> QED BY <3>1, <3>2
  <2> HIDE DEF g
  <2> QED BY <2>1 DEF Running
<1> QED BY <1>3, <1>6

(* The definition of a sum, unrolled. *)
LEMMA SumUnrolled ==
  ASSUME NEW f, NEW S, IsFiniteSet(S)
  PROVE  SumFunctionOnSet(f, S) =
           IF S = {} THEN 0 ELSE f[Some(S)] + SumFunctionOnSet(f, S \ {Some(S)})
<1> DEFINE G(s) == CHOOSE g : Running(g, f, s)
<1>1. Running(G(S), f, S)
  BY RunningExists, Zenon
<1>2. SumFunctionOnSet(f, S) = G(S)[S]
  BY SumIsRunning, Zenon
<1>3. G(S)[S] = IF S = {} THEN 0 ELSE f[Some(S)] + G(S)[S \ {Some(S)}]
  <2> HIDE DEF G
  <2> QED BY <1>1 DEF Running
<1>4. CASE S # {}
  <2> DEFINE T == S \ {Some(S)}
  <2>1. IsFiniteSet(T) /\ T \subseteq S
    BY <1>4, SomeRemoved
  <2>2. Running(G(T), f, T)
    BY <2>1, RunningExists, Zenon
  <2>3. G(S)[T] = G(T)[T]
    <3> HIDE DEF G, T
    <3> QED BY <1>1, <2>1, <2>2, RunningUnique
  <2>4. SumFunctionOnSet(f, T) = G(T)[T]
    BY SumIsRunning, Zenon
  <2> QED BY <1>2, <1>3, <1>4, <2>3, <2>4
<1> QED BY <1>2, <1>3, <1>4

(* An empty sum is 0. *)
LEMMA SumEmpty == \A f : SumFunctionOnSet(f, {}) = 0
BY SumUnrolled, FS_EmptySet

(* A sum of integers is an integer. *)
LEMMA SumInt ==
  ASSUME NEW S, IsFiniteSet(S), NEW f, \A x \in S : f[x] \in Int
  PROVE  SumFunctionOnSet(f, S) \in Int
<1> DEFINE Bad == {n \in Nat : \E T : /\ T \subseteq S /\ IsFiniteSet(T) /\ Cardinality(T) = n
                                      /\ SumFunctionOnSet(f, T) \notin Int}
<1>1. SUFFICES ASSUME Bad # {} PROVE FALSE
  BY FS_CardinalityType
<1>2. PICK n \in Bad : \A k \in Bad : n <= k
  BY <1>1, Least
<1>3. PICK T : /\ T \subseteq S /\ IsFiniteSet(T) /\ Cardinality(T) = n
               /\ SumFunctionOnSet(f, T) \notin Int
  BY <1>2
<1>4. T # {}
  BY <1>3, SumEmpty
<1> DEFINE v == T \ {Some(T)}
<1>5. v \subseteq S /\ IsFiniteSet(v) /\ Cardinality(v) \in Nat /\ Cardinality(v) < n
      /\ Some(T) \in T
  BY <1>3, <1>4, SomeRemoved
<1>6. Cardinality(v) \notin Bad
  BY <1>2, <1>5
<1>7. SumFunctionOnSet(f, v) \in Int
  BY <1>5, <1>6
<1>8. f[Some(T)] \in Int
  BY <1>3, <1>5
<1>9. SumFunctionOnSet(f, T) = f[Some(T)] + SumFunctionOnSet(f, v)
  BY <1>3, <1>4, SumUnrolled
<1> QED BY <1>3, <1>7, <1>8, <1>9

(* A sum of integers may take any of its elements first. *)
LEMMA SumRemove ==
  ASSUME NEW S, IsFiniteSet(S), NEW f, \A y \in S : f[y] \in Int, NEW x \in S
  PROVE  SumFunctionOnSet(f, S) = f[x] + SumFunctionOnSet(f, S \ {x})
<1> DEFINE Wrong(T) == \E y \in T : SumFunctionOnSet(f, T) # f[y] + SumFunctionOnSet(f, T \ {y})
           Bad == {n \in Nat : \E T : /\ T \subseteq S /\ IsFiniteSet(T) /\ Cardinality(T) = n
                                      /\ Wrong(T)}
<1>1. SUFFICES ASSUME Bad # {} PROVE FALSE
  BY FS_CardinalityType
<1>2. PICK n \in Bad : \A k \in Bad : n <= k
  BY <1>1, Least
<1>3. PICK T : T \subseteq S /\ IsFiniteSet(T) /\ Cardinality(T) = n /\ Wrong(T)
  BY <1>2
<1>4. PICK y \in T : SumFunctionOnSet(f, T) # f[y] + SumFunctionOnSet(f, T \ {y})
  BY <1>3
<1> DEFINE p == Some(T)
           u == T \ {p}
           v == T \ {y}
           w == T \ {p, y}
<1>5. p \in T /\ IsFiniteSet(u) /\ Cardinality(u) \in Nat /\ Cardinality(u) < n
  BY <1>3, <1>4, SomeRemoved
<1>6. IsFiniteSet(v) /\ Cardinality(v) \in Nat /\ Cardinality(v) < n
  <2>1. IsFiniteSet(v) /\ Cardinality(v) = Cardinality(T) - 1
    BY <1>3, <1>4, FS_RemoveElement
  <2> QED BY <1>3, <2>1, FS_CardinalityType
<1>7. SumFunctionOnSet(f, T) = f[p] + SumFunctionOnSet(f, u)
  BY <1>3, <1>4, SumUnrolled
<1>8. p # y
  BY <1>4, <1>7
<1>9. ~ Wrong(u) /\ ~ Wrong(v)
  <2>1. Cardinality(u) \notin Bad /\ Cardinality(v) \notin Bad
    <3>1. n \in Nat
      BY <1>2
    <3> HIDE DEF Bad, u, v
    <3> QED BY <1>2, <1>5, <1>6, <3>1
  <2> QED BY <2>1, <1>3, <1>5, <1>6
<1>10. y \in u /\ p \in v /\ u \ {y} = w /\ v \ {p} = w /\ IsFiniteSet(w) /\ w \subseteq S
  BY <1>3, <1>4, <1>5, <1>8, FS_Subset
<1>11. SumFunctionOnSet(f, u) = f[y] + SumFunctionOnSet(f, w)
  BY <1>9, <1>10
<1>12. SumFunctionOnSet(f, v) = f[p] + SumFunctionOnSet(f, w)
  BY <1>9, <1>10
<1>13. SumFunctionOnSet(f, w) \in Int /\ f[p] \in Int /\ f[y] \in Int
  BY <1>3, <1>4, <1>5, <1>10, SumInt
<1> QED BY <1>4, <1>7, <1>11, <1>12, <1>13

(* One element more adds its value. *)
LEMMA SumAdd ==
  ASSUME NEW S, IsFiniteSet(S), NEW x, x \notin S, NEW f, \A y \in S \cup {x} : f[y] \in Int
  PROVE  SumFunctionOnSet(f, S \cup {x}) = SumFunctionOnSet(f, S) + f[x]
<1> DEFINE more == S \cup {x}
<1>1. IsFiniteSet(more)
  BY FS_AddElement
<1>2. more \ {x} = S /\ x \in more
  OBVIOUS
<1>3. \A y \in more : f[y] \in Int
  OBVIOUS
<1>4. SumFunctionOnSet(f, S) \in Int /\ f[x] \in Int
  BY SumInt
<1> HIDE DEF more
<1>5. SumFunctionOnSet(f, more) = f[x] + SumFunctionOnSet(f, more \ {x})
  BY <1>1, <1>2, <1>3, SumRemove
<1>6. SumFunctionOnSet(f, more \ {x}) = SumFunctionOnSet(f, S)
  BY <1>2, Zenon
<1>7. SumFunctionOnSet(f, more) = SumFunctionOnSet(f, S) + f[x]
  BY <1>4, <1>5, <1>6
<1> QED BY <1>7 DEF more

(* A sum of naturals is a natural no less than any of them. *)
LEMMA SumNat ==
  ASSUME NEW S, IsFiniteSet(S), NEW f, \A x \in S : f[x] \in Nat
  PROVE  /\ SumFunctionOnSet(f, S) \in Nat
         /\ \A x \in S : f[x] <= SumFunctionOnSet(f, S)
<1> DEFINE Bad == {n \in Nat : \E T : /\ T \subseteq S /\ IsFiniteSet(T) /\ Cardinality(T) = n
                                      /\ SumFunctionOnSet(f, T) \notin Nat}
<1>1. Bad = {}
  <2>1. SUFFICES ASSUME Bad # {} PROVE FALSE
    OBVIOUS
  <2>2. PICK n \in Bad : \A k \in Bad : n <= k
    BY <2>1, Least
  <2>3. PICK T : /\ T \subseteq S /\ IsFiniteSet(T) /\ Cardinality(T) = n
                 /\ SumFunctionOnSet(f, T) \notin Nat
    BY <2>2
  <2>4. T # {}
    BY <2>3, SumEmpty
  <2> DEFINE v == T \ {Some(T)}
  <2>5. v \subseteq S /\ IsFiniteSet(v) /\ Cardinality(v) \in Nat /\ Cardinality(v) < n
        /\ Some(T) \in T
    BY <2>3, <2>4, SomeRemoved
  <2>6. Cardinality(v) \notin Bad
    BY <2>2, <2>5
  <2>7. SumFunctionOnSet(f, v) \in Nat
    BY <2>5, <2>6
  <2>8. f[Some(T)] \in Nat
    BY <2>3, <2>5
  <2>9. SumFunctionOnSet(f, T) = f[Some(T)] + SumFunctionOnSet(f, v)
    BY <2>3, <2>4, SumUnrolled
  <2> QED BY <2>3, <2>7, <2>8, <2>9
<1>2. \A T : T \subseteq S => SumFunctionOnSet(f, T) \in Nat
  <2>1. SUFFICES ASSUME NEW T, T \subseteq S PROVE SumFunctionOnSet(f, T) \in Nat
    OBVIOUS
  <2>2. IsFiniteSet(T) /\ Cardinality(T) \in Nat
    BY <2>1, FS_Subset, FS_CardinalityType
  <2> QED BY <1>1, <2>1, <2>2
<1>3. ASSUME NEW x \in S PROVE f[x] <= SumFunctionOnSet(f, S)
  <2>1. SumFunctionOnSet(f, S) = f[x] + SumFunctionOnSet(f, S \ {x})
    BY SumRemove
  <2>2. SumFunctionOnSet(f, S \ {x}) \in Nat /\ f[x] \in Nat
    BY <1>2
  <2> QED BY <2>1, <2>2
<1> QED BY <1>2, <1>3

(* Only the values on the set count, and larger values make larger sums. *)
LEMMA SumMonotonic ==
  ASSUME NEW S, IsFiniteSet(S), NEW f, NEW g,
         \A x \in S : f[x] \in Int /\ g[x] \in Int /\ f[x] <= g[x]
  PROVE  SumFunctionOnSet(f, S) <= SumFunctionOnSet(g, S)
<1> DEFINE Bad == {n \in Nat : \E T : /\ T \subseteq S /\ IsFiniteSet(T) /\ Cardinality(T) = n
                                      /\ ~ (SumFunctionOnSet(f, T) <= SumFunctionOnSet(g, T))}
<1>1. SUFFICES ASSUME Bad # {} PROVE FALSE
  BY FS_CardinalityType
<1>2. PICK n \in Bad : \A k \in Bad : n <= k
  BY <1>1, Least
<1>3. PICK T : /\ T \subseteq S /\ IsFiniteSet(T) /\ Cardinality(T) = n
               /\ ~ (SumFunctionOnSet(f, T) <= SumFunctionOnSet(g, T))
  BY <1>2
<1>4. T # {}
  BY <1>3, SumEmpty
<1> DEFINE v == T \ {Some(T)}
<1>5. v \subseteq S /\ IsFiniteSet(v) /\ Cardinality(v) \in Nat /\ Cardinality(v) < n
      /\ Some(T) \in T
  BY <1>3, <1>4, SomeRemoved
<1>6. Cardinality(v) \notin Bad
  BY <1>2, <1>5
<1>7. SumFunctionOnSet(f, v) <= SumFunctionOnSet(g, v)
  BY <1>5, <1>6
<1>8. SumFunctionOnSet(f, v) \in Int /\ SumFunctionOnSet(g, v) \in Int
  BY <1>5, SumInt
<1>9. f[Some(T)] \in Int /\ g[Some(T)] \in Int /\ f[Some(T)] <= g[Some(T)]
  BY <1>3, <1>5
<1>10. /\ SumFunctionOnSet(f, T) = f[Some(T)] + SumFunctionOnSet(f, v)
       /\ SumFunctionOnSet(g, T) = g[Some(T)] + SumFunctionOnSet(g, v)
  BY <1>3, <1>4, SumUnrolled
<1> QED BY <1>3, <1>7, <1>8, <1>9, <1>10

(* Naturals added on more elements make larger sums. *)
LEMMA SumSubset ==
  ASSUME NEW S, IsFiniteSet(S), NEW f, \A x \in S : f[x] \in Nat, NEW T, T \subseteq S
  PROVE  SumFunctionOnSet(f, T) <= SumFunctionOnSet(f, S)
<1> DEFINE Bad == {n \in Nat : \E U : /\ T \subseteq U /\ U \subseteq S /\ Cardinality(U) = n
                                      /\ ~ (SumFunctionOnSet(f, T) <= SumFunctionOnSet(f, U))}
<1>1. SUFFICES ASSUME Bad # {} PROVE FALSE
  BY FS_CardinalityType
<1>2. PICK n \in Bad : \A k \in Bad : n <= k
  BY <1>1, Least
<1>3. PICK U : /\ T \subseteq U /\ U \subseteq S /\ Cardinality(U) = n
               /\ ~ (SumFunctionOnSet(f, T) <= SumFunctionOnSet(f, U))
  BY <1>2
<1>4. IsFiniteSet(U) /\ IsFiniteSet(T)
  BY <1>3, FS_Subset
<1>5. SumFunctionOnSet(f, T) \in Nat /\ SumFunctionOnSet(f, U) \in Nat
  BY <1>3, <1>4, SumNat
<1>6. PICK x \in U : x \notin T
  <2>1. T # U
    BY <1>3, <1>5
  <2> QED BY <2>1, <1>3
<1> DEFINE v == U \ {x}
<1>7. IsFiniteSet(v) /\ Cardinality(v) \in Nat /\ Cardinality(v) = n - 1
  BY <1>3, <1>4, <1>6, FS_RemoveElement, FS_CardinalityType
<1>8. Cardinality(v) \notin Bad
  BY <1>2, <1>7
<1>9. SumFunctionOnSet(f, T) <= SumFunctionOnSet(f, v)
  BY <1>3, <1>6, <1>7, <1>8
<1>10. SumFunctionOnSet(f, U) = f[x] + SumFunctionOnSet(f, v)
  BY <1>3, <1>4, <1>6, SumRemove
<1>11. SumFunctionOnSet(f, v) \in Nat /\ f[x] \in Nat
  BY <1>3, <1>6, <1>7, SumNat
<1> QED BY <1>3, <1>5, <1>9, <1>10, <1>11

(* Equal values make equal sums. *)
LEMMA SumEqual ==
  ASSUME NEW S, IsFiniteSet(S), NEW f, NEW g, \A x \in S : f[x] \in Int /\ f[x] = g[x]
  PROVE  SumFunctionOnSet(f, S) = SumFunctionOnSet(g, S)
<1>1. SumFunctionOnSet(f, S) <= SumFunctionOnSet(g, S)
  BY SumMonotonic
<1>2. SumFunctionOnSet(g, S) <= SumFunctionOnSet(f, S)
  BY SumMonotonic
<1>3. SumFunctionOnSet(f, S) \in Int /\ SumFunctionOnSet(g, S) \in Int
  BY SumInt
<1> QED BY <1>1, <1>2, <1>3

(* Where one element counts one more, the sum is one larger. *)
LEMMA SumIncremented ==
  ASSUME NEW S, IsFiniteSet(S), NEW f \in [S -> Nat], NEW x \in S
  PROVE  SumFunctionOnSet([f EXCEPT ![x] = @ + 1], S) = SumFunctionOnSet(f, S) + 1
<1> DEFINE g == [f EXCEPT ![x] = @ + 1]
           v == S \ {x}
<1>1. g \in [S -> Nat] /\ g[x] = f[x] + 1 /\ \A y \in v : g[y] = f[y]
  OBVIOUS
<1>2. IsFiniteSet(v)
  BY FS_Subset
<1> HIDE DEF g
<1>3. SumFunctionOnSet(g, S) = g[x] + SumFunctionOnSet(g, v)
  BY <1>1, SumRemove
<1>4. SumFunctionOnSet(f, S) = f[x] + SumFunctionOnSet(f, v)
  BY SumRemove
<1>5. SumFunctionOnSet(f, v) = SumFunctionOnSet(g, v)
  BY <1>1, <1>2, SumEqual
<1>6. SumFunctionOnSet(f, v) \in Int /\ f[x] \in Int
  BY <1>2, SumInt
<1>7. SumFunctionOnSet(g, S) = SumFunctionOnSet(f, S) + 1
  BY <1>1, <1>3, <1>4, <1>5, <1>6
<1> QED BY <1>7 DEF g

(* A sum of numbers up to k, one of them less, is less than k each. *)
LEMMA SumBelow ==
  ASSUME NEW S, IsFiniteSet(S), NEW f, NEW k \in Nat, NEW x \in S,
         \A y \in S : f[y] \in Nat /\ f[y] <= k, f[x] < k
  PROVE  SumFunctionOnSet(f, S) < k * Cardinality(S)
<1> DEFINE Bad == {n \in Nat : \E T : /\ T \subseteq S /\ IsFiniteSet(T) /\ Cardinality(T) = n
                                      /\ ~ (SumFunctionOnSet(f, T) <= k * Cardinality(T))}
<1>1. Bad = {}
  <2>1. SUFFICES ASSUME Bad # {} PROVE FALSE
    OBVIOUS
  <2>2. PICK n \in Bad : \A m \in Bad : n <= m
    BY <2>1, Least
  <2>3. PICK T : /\ T \subseteq S /\ IsFiniteSet(T) /\ Cardinality(T) = n
                 /\ ~ (SumFunctionOnSet(f, T) <= k * Cardinality(T))
    BY <2>2
  <2>4. T # {}
    BY <2>3, SumEmpty, FS_EmptySet
  <2> DEFINE v == T \ {Some(T)}
  <2>5. v \subseteq S /\ Some(T) \in T
    BY <2>3, <2>4, SomeRemoved
  <2>6. IsFiniteSet(v) /\ Cardinality(v) \in Nat /\ Cardinality(v) = n - 1
    BY <2>3, <2>5, FS_RemoveElement, FS_CardinalityType
  <2>7. Cardinality(v) \notin Bad
    BY <2>2, <2>6
  <2>8. SumFunctionOnSet(f, v) <= k * Cardinality(v)
    BY <2>5, <2>6, <2>7
  <2>9. f[Some(T)] \in Nat /\ f[Some(T)] <= k
    BY <2>3, <2>5
  <2>10. SumFunctionOnSet(f, T) = f[Some(T)] + SumFunctionOnSet(f, v)
    BY <2>3, <2>4, SumUnrolled
  <2>11. SumFunctionOnSet(f, v) \in Nat
    BY <2>5, <2>6, SumNat
  <2>12. k * n = k * (n - 1) + k
    BY <2>2
  <2> QED BY <2>3, <2>6, <2>8, <2>9, <2>10, <2>11, <2>12
<1> DEFINE v == S \ {x}
<1>2. IsFiniteSet(v) /\ Cardinality(v) \in Nat /\ Cardinality(v) = Cardinality(S) - 1
      /\ Cardinality(S) \in Nat
  BY FS_RemoveElement, FS_CardinalityType
<1>3. SumFunctionOnSet(f, v) <= k * Cardinality(v)
  BY <1>1, <1>2
<1>4. SumFunctionOnSet(f, S) = f[x] + SumFunctionOnSet(f, v)
  BY SumRemove
<1>5. SumFunctionOnSet(f, v) \in Nat /\ f[x] \in Nat
  BY <1>2, SumNat
<1>6. k * Cardinality(S) = k * (Cardinality(S) - 1) + k
  BY <1>2
<1> QED BY <1>2, <1>3, <1>4, <1>5, <1>6

(* A sum of zeros is zero. *)
LEMMA SumZero ==
  ASSUME NEW S, IsFiniteSet(S), NEW f, \A x \in S : f[x] = 0
  PROVE  SumFunctionOnSet(f, S) = 0
<1> DEFINE Bad == {n \in Nat : \E T \in SUBSET S : /\ Cardinality(T) = n
                                                 /\ SumFunctionOnSet(f, T) # 0}
<1>1. SUFFICES ASSUME Bad # {} PROVE FALSE
  <2>1. Cardinality(S) \in Nat /\ S \in SUBSET S
    BY FS_CardinalityType
  <2> QED BY <2>1
<1>2. PICK n \in Bad : \A k \in Bad : n <= k
  BY <1>1, Least
<1>3. PICK T \in SUBSET S : Cardinality(T) = n /\ SumFunctionOnSet(f, T) # 0
  BY <1>2
<1>4. IsFiniteSet(T)
  BY FS_Subset
<1>5. T # {} /\ n \in Nat
  BY <1>2, <1>3, SumEmpty
<1> DEFINE v == T \ {Some(T)}
<1>6. Some(T) \in T /\ IsFiniteSet(v) /\ Cardinality(v) \in Nat /\ Cardinality(v) < n
  BY <1>3, <1>4, <1>5, SomeRemoved
<1>7. Cardinality(v) \notin Bad
  <2> HIDE DEF Bad, v
  <2> QED BY <1>2, <1>5, <1>6
<1>8. SumFunctionOnSet(f, v) = 0
  BY <1>6, <1>7
<1>9. f[Some(T)] = 0
  BY <1>6
<1>10. SumFunctionOnSet(f, T) = f[Some(T)] + SumFunctionOnSet(f, v)
  BY <1>4, <1>5, SumUnrolled
<1> QED BY <1>3, <1>8, <1>9, <1>10

---------------------------------------------------------------------------
(* Largest and smallest elements, and the elements of a set in their order.*)

(* Sets whose elements correspond one to one are of one size. *)
LEMMA SameSize ==
  ASSUME NEW S, NEW T, IsFiniteSet(S), NEW f \in [S -> T],
         \A x \in S : \A y \in S : f[x] = f[y] => x = y,
         \A t \in T : \E x \in S : f[x] = t
  PROVE  IsFiniteSet(T) /\ Cardinality(T) = Cardinality(S)
<1>1. f \in Bijection(S, T)
  BY Fun_IsBij
<1>2. ExistsBijection(S, T)
  BY <1>1, Fun_ExistsBij
<1> QED BY <1>2, FS_Bijection

(* A finite set of integers has a largest element. *)
LEMMA LargestExists ==
  ASSUME NEW S, IsFiniteSet(S), S # {}, S \subseteq Int
  PROVE  \E x \in S : \A y \in S : x >= y
<1> DEFINE Good(T) == \E x \in T : \A y \in T : x >= y
           Bad == {n \in Nat : \E T : /\ T \subseteq S /\ IsFiniteSet(T) /\ T # {}
                                      /\ Cardinality(T) = n /\ ~ Good(T)}
<1>1. SUFFICES ASSUME Bad # {} PROVE FALSE
  BY FS_CardinalityType
<1>2. PICK n \in Bad : \A k \in Bad : n <= k
  BY <1>1, Least
<1>3. PICK T : T \subseteq S /\ IsFiniteSet(T) /\ T # {} /\ Cardinality(T) = n /\ ~ Good(T)
  BY <1>2
<1>4. PICK x \in T : TRUE
  BY <1>3
<1> DEFINE v == T \ {x}
<1>5. v \subseteq S /\ IsFiniteSet(v) /\ Cardinality(v) \in Nat /\ Cardinality(v) = n - 1
  BY <1>3, <1>4, FS_RemoveElement, FS_CardinalityType
<1>6. v # {}
  BY <1>3, <1>4
<1>7. Good(v)
  <2>1. n \in Nat
    BY <1>2
  <2>2. Cardinality(v) \notin Bad
    <3> HIDE DEF Bad, v
    <3> QED BY <1>2, <1>5, <2>1
  <2> QED BY <1>5, <1>6, <2>2
<1>8. PICK y \in v : \A z \in v : y >= z
  BY <1>7
<1>9. T \subseteq Int
  BY <1>3
<1>10. CASE x >= y
  <2>1. \A z \in T : x >= z
    BY <1>4, <1>8, <1>9, <1>10
  <2> QED BY <1>3, <1>4, <2>1
<1>11. CASE y >= x
  <2>1. \A z \in T : y >= z
    BY <1>4, <1>8, <1>9, <1>11
  <2> QED BY <1>3, <1>8, <2>1
<1> QED BY <1>4, <1>8, <1>9, <1>10, <1>11

(* Max is in the set, and no element is larger. *)
LEMMA MaxIs ==
  ASSUME NEW S, IsFiniteSet(S), S # {}, S \subseteq Int
  PROVE  Max(S) \in S /\ \A y \in S : Max(S) >= y
BY LargestExists DEF Max

(* The largest element is Max. *)
LEMMA MaxUnique ==
  ASSUME NEW S, S \subseteq Int, NEW x \in S, \A y \in S : x >= y
  PROVE  Max(S) = x
<1>1. Max(S) \in S /\ \A y \in S : Max(S) >= y
  BY DEF Max
<1>2. Max(S) >= x /\ x >= Max(S) /\ x \in Int /\ Max(S) \in Int
  BY <1>1
<1> QED BY <1>2

(* One more element: the larger of it and the maximum. *)
LEMMA MaxAdd ==
  ASSUME NEW S, IsFiniteSet(S), S # {}, S \subseteq Int, NEW k \in Int
  PROVE  Max(S \cup {k}) = Max({Max(S), k})
<1>1. Max(S) \in S /\ (\A y \in S : Max(S) >= y) /\ Max(S) \in Int
  BY MaxIs
<1>2. CASE Max(S) >= k
  <2>1. Max(S \cup {k}) = Max(S)
    <3>1. \A y \in S \cup {k} : Max(S) >= y
      BY <1>1, <1>2
    <3> QED BY <1>1, <3>1, MaxUnique
  <2>2. Max({Max(S), k}) = Max(S)
    <3>1. \A y \in {Max(S), k} : Max(S) >= y
      BY <1>1, <1>2
    <3> QED BY <1>1, <3>1, MaxUnique
  <2> QED BY <2>1, <2>2
<1>3. CASE k > Max(S)
  <2>1. Max(S \cup {k}) = k
    <3>1. \A y \in S \cup {k} : k >= y
      BY <1>1, <1>3
    <3> QED BY <3>1, MaxUnique
  <2>2. Max({Max(S), k}) = k
    <3>1. \A y \in {Max(S), k} : k >= y
      BY <1>1, <1>3
    <3> QED BY <1>1, <3>1, MaxUnique
  <2> QED BY <2>1, <2>2
<1> QED BY <1>1, <1>2, <1>3

(* A finite set of integers has a smallest element. *)
LEMMA SmallestExists ==
  ASSUME NEW S, IsFiniteSet(S), S # {}, S \subseteq Int
  PROVE  \E x \in S : \A y \in S : x <= y
<1> DEFINE neg == [x \in S |-> 0 - x]
           T == {neg[x] : x \in S}
<1>0. \A x \in S : x \in Int /\ neg[x] \in Int /\ neg[x] = 0 - x
  OBVIOUS
<1>1. T \subseteq Int /\ T # {}
  <2> HIDE DEF neg
  <2> QED BY <1>0
<1>2. IsFiniteSet(T)
  <2>1. \A x \in S : \A y \in S : neg[x] = neg[y] => x = y
    <3> HIDE DEF neg
    <3> QED BY <1>0
  <2>2. neg \in [S -> T] /\ \A t \in T : \E x \in S : neg[x] = t
    OBVIOUS
  <2> HIDE DEF neg, T
  <2> QED BY <2>1, <2>2, SameSize
<1>3. PICK t \in T : \A u \in T : t >= u
  <2> HIDE DEF T
  <2> QED BY <1>1, <1>2, LargestExists
<1>4. PICK x \in S : t = 0 - x
  BY <1>3
<1>5. ASSUME NEW y \in S PROVE x <= y
  <2>1. 0 - y \in T
    OBVIOUS
  <2>2. t >= 0 - y
    BY <1>3, <2>1
  <2> QED BY <1>4, <2>2
<1> QED BY <1>5

(* Min is in the set, and no element is smaller. *)
LEMMA MinIs ==
  ASSUME NEW S, IsFiniteSet(S), S # {}, S \subseteq Int
  PROVE  Min(S) \in S /\ \A y \in S : Min(S) <= y
BY SmallestExists DEF Min

(* The smallest element is Min. *)
LEMMA MinUnique ==
  ASSUME NEW S, S \subseteq Int, NEW x \in S, \A y \in S : x <= y
  PROVE  Min(S) = x
<1>1. Min(S) \in S /\ \A y \in S : Min(S) <= y
  BY DEF Min
<1>2. Min(S) >= x /\ x >= Min(S) /\ x \in Int /\ Min(S) \in Int
  BY <1>1
<1> QED BY <1>2

(* One more element: the smaller of it and the minimum. *)
LEMMA MinAdd ==
  ASSUME NEW S, IsFiniteSet(S), S # {}, S \subseteq Int, NEW k \in Int
  PROVE  Min(S \cup {k}) = Min({Min(S), k})
<1>1. Min(S) \in S /\ (\A y \in S : Min(S) <= y) /\ Min(S) \in Int
  BY MinIs
<1>2. CASE Min(S) <= k
  <2>1. Min(S \cup {k}) = Min(S)
    <3>1. \A y \in S \cup {k} : Min(S) <= y
      BY <1>1, <1>2
    <3> QED BY <1>1, <3>1, MinUnique
  <2>2. Min({Min(S), k}) = Min(S)
    <3>1. \A y \in {Min(S), k} : Min(S) <= y
      BY <1>1, <1>2
    <3> QED BY <1>1, <3>1, MinUnique
  <2> QED BY <2>1, <2>2
<1>3. CASE k < Min(S)
  <2>1. Min(S \cup {k}) = k
    <3>1. \A y \in S \cup {k} : k <= y
      BY <1>1, <1>3
    <3> QED BY <3>1, MinUnique
  <2>2. Min({Min(S), k}) = k
    <3>1. \A y \in {Min(S), k} : k <= y
      BY <1>1, <1>3
    <3> QED BY <1>1, <3>1, MinUnique
  <2> QED BY <2>1, <2>2
<1> QED BY <1>1, <1>2, <1>3

Below(S, x) == {y \in S : y < x}

(* The elements below are a part of a finite set. *)
LEMMA BelowFinite ==
  ASSUME NEW S, IsFiniteSet(S), NEW x
  PROVE  IsFiniteSet(Below(S, x)) /\ Cardinality(Below(S, x)) \in Nat
BY FS_Subset, FS_CardinalityType DEF Below

(* An element has fewer below it than there are, and than a larger one. *)
LEMMA BelowGrows ==
  ASSUME NEW S, IsFiniteSet(S), S \subseteq Int, NEW x \in S
  PROVE  /\ Cardinality(Below(S, x)) < Cardinality(S) /\ Cardinality(S) \in Nat
         /\ \A y \in S : x < y => Cardinality(Below(S, x)) < Cardinality(Below(S, y))
<1>0. x \in Int /\ x \notin Below(S, x)
  BY DEF Below
<1>1. ASSUME NEW T, IsFiniteSet(T), Below(S, x) \subseteq T, x \in T
      PROVE  Cardinality(Below(S, x)) < Cardinality(T)
  <2>1. /\ Cardinality(Below(S, x)) <= Cardinality(T)
        /\ Cardinality(T) = Cardinality(Below(S, x)) => T = Below(S, x)
    BY <1>1, FS_Subset
  <2>2. Cardinality(T) # Cardinality(Below(S, x))
    BY <1>0, <1>1, <2>1
  <2>3. Cardinality(T) \in Nat /\ Cardinality(Below(S, x)) \in Nat
    BY <1>1, FS_CardinalityType, BelowFinite
  <2> QED BY <2>1, <2>2, <2>3
<1>2. Cardinality(Below(S, x)) < Cardinality(S) /\ Cardinality(S) \in Nat
  BY <1>1, FS_CardinalityType DEF Below
<1>3. ASSUME NEW y \in S, x < y PROVE Cardinality(Below(S, x)) < Cardinality(Below(S, y))
  <2>1. \A z \in S : z < x => z < y
    <3>1. TAKE z \in S
    <3>2. z \in Int /\ x \in Int /\ y \in Int /\ x < y
      BY <1>3
    <3> QED BY <3>2
  <2>2. Below(S, x) \subseteq Below(S, y) /\ x \in Below(S, y)
    BY <1>3, <2>1 DEF Below
  <2> QED BY <1>1, <2>2, BelowFinite
<1> QED BY <1>2, <1>3

(* There is an element with n elements below it, if n is less than the     *)
(* size of the set.                                                        *)
LEMMA NthExists ==
  ASSUME NEW S, IsFiniteSet(S), S \subseteq Int, NEW n \in 0 .. Cardinality(S) - 1
  PROVE  \E x \in S : Cardinality(Below(S, x)) = n
<1> DEFINE Good(T) == \A k \in 0 .. Cardinality(T) - 1 : \E x \in T : Cardinality(Below(T, x)) = k
           Bad == {m \in Nat : \E T : /\ T \subseteq S /\ IsFiniteSet(T)
                                      /\ Cardinality(T) = m /\ ~ Good(T)}
<1>1. SUFFICES ASSUME Bad # {} PROVE FALSE
  BY FS_CardinalityType
<1>2. PICK m \in Bad : \A k \in Bad : m <= k
  BY <1>1, Least
<1>3. PICK T : T \subseteq S /\ IsFiniteSet(T) /\ Cardinality(T) = m /\ ~ Good(T)
  BY <1>2
<1>4. PICK k \in 0 .. m - 1 : ~ \E x \in T : Cardinality(Below(T, x)) = k
  BY <1>3
<1>5. T # {} /\ m \in Nat /\ T \subseteq Int
  BY <1>2, <1>3, <1>4, FS_EmptySet
<1>6. PICK x \in T : \A y \in T : x >= y
  BY <1>3, <1>5, LargestExists
<1> DEFINE v == T \ {x}
<1>7. v \subseteq S /\ IsFiniteSet(v) /\ Cardinality(v) \in Nat /\ Cardinality(v) = m - 1
  BY <1>3, <1>6, FS_RemoveElement, FS_CardinalityType
<1>8. Good(v)
  <2>1. Cardinality(v) \notin Bad
    <3> HIDE DEF Bad, v
    <3> QED BY <1>2, <1>5, <1>7
  <2> QED BY <1>7, <2>1
<1>9. ASSUME NEW y \in v PROVE Below(T, y) = Below(v, y)
  BY <1>5, <1>6, <1>9 DEF Below
<1>10. Below(T, x) = v
  <2>1. \A y \in T : y < x <=> y # x
    <3>1. TAKE y \in T
    <3>2. y \in Int /\ x \in Int /\ x >= y
      BY <1>5, <1>6
    <3> QED BY <3>2
  <2> QED BY <2>1 DEF Below
<1>11. CASE k = m - 1
  BY <1>4, <1>6, <1>7, <1>10, <1>11
<1>12. CASE k # m - 1
  <2>1. k \in 0 .. Cardinality(v) - 1
    BY <1>4, <1>5, <1>7, <1>12
  <2>2. PICK y \in v : Cardinality(Below(v, y)) = k
    BY <1>8, <2>1
  <2> QED BY <1>4, <1>9, <2>2
<1> QED BY <1>11, <1>12

(* Nth is that element. *)
LEMMA NthIs ==
  ASSUME NEW S, IsFiniteSet(S), S \subseteq Int, NEW n \in 0 .. Cardinality(S) - 1
  PROVE  Nth(S, n) \in S /\ Cardinality(Below(S, Nth(S, n))) = n
<1>1. Nth(S, n) = CHOOSE x \in S : Cardinality(Below(S, x)) = n
  BY DEF Nth, Below
<1>2. \E x \in S : Cardinality(Below(S, x)) = n
  BY NthExists
<1> QED BY <1>1, <1>2, Zenon

(* Elements with as many below them are one. *)
LEMMA BelowInjective ==
  ASSUME NEW S, IsFiniteSet(S), S \subseteq Int, NEW x \in S, NEW y \in S,
         Cardinality(Below(S, x)) = Cardinality(Below(S, y))
  PROVE  x = y
<1>1. x \in Int /\ y \in Int /\ Cardinality(Below(S, x)) \in Nat
  BY BelowFinite
<1>2. /\ x < y => Cardinality(Below(S, x)) < Cardinality(Below(S, y))
      /\ y < x => Cardinality(Below(S, y)) < Cardinality(Below(S, x))
  BY BelowGrows
<1> QED BY <1>1, <1>2

(* An element is the one of its place. *)
LEMMA NthOfPlace ==
  ASSUME NEW S, IsFiniteSet(S), S \subseteq Int, NEW x \in S
  PROVE  Nth(S, Cardinality(Below(S, x))) = x
<1> DEFINE n == Cardinality(Below(S, x))
<1>1. n \in 0 .. Cardinality(S) - 1
  <2>1. Cardinality(Below(S, x)) < Cardinality(S) /\ Cardinality(S) \in Nat
    BY BelowGrows
  <2>2. Cardinality(Below(S, x)) \in Nat
    BY BelowFinite
  <2> QED BY <2>1, <2>2
<1>2. Nth(S, n) \in S /\ Cardinality(Below(S, Nth(S, n))) = n
  <2> HIDE DEF n
  <2> QED BY <1>1, NthIs
<1> QED BY <1>2, BelowInjective

(* A table of a function is the function. *)
LEMMA TabulatedIs == \A f : Tabulated(f) = f
BY DEF Tabulated

---------------------------------------------------------------------------
(* Powers of two and logarithms.                                           *)

(* g has the first n powers of two. *)
Doubling(g, n) == /\ g \in [0 .. n -> Nat]
                  /\ g[0] = 1
                  /\ \A i \in 1 .. n : g[i] = 2 * g[i - 1]

(* The first powers exist, however many. *)
LEMMA DoublingExists == \A n \in Nat : \E g : Doubling(g, n)
<1> DEFINE Bad == {n \in Nat : ~ \E g : Doubling(g, n)}
<1>1. SUFFICES ASSUME Bad # {} PROVE FALSE
  OBVIOUS
<1>2. PICK m \in Bad : \A n \in Bad : m <= n
  BY <1>1, Least
<1>3. m # 0
  <2>1. Doubling([i \in 0 .. 0 |-> 1], 0)
    BY DEF Doubling
  <2> QED BY <2>1
<1>4. m \in Nat /\ m >= 1 /\ m - 1 \in Nat /\ m - 1 \notin Bad
  BY <1>2, <1>3
<1>5. PICK g : Doubling(g, m - 1)
  BY <1>4
<1> DEFINE longer == [i \in 0 .. m |-> IF i = m THEN 2 * g[m - 1] ELSE g[i]]
<1>6. longer \in [0 .. m -> Nat] /\ longer[0] = 1
  BY <1>4, <1>5 DEF Doubling
<1>7. ASSUME NEW i \in 1 .. m PROVE longer[i] = 2 * longer[i - 1]
  <2>1. i \in 0 .. m /\ i - 1 \in 0 .. m /\ i - 1 # m
    BY <1>4
  <2>2. longer[i - 1] = g[i - 1]
    BY <2>1
  <2>3. CASE i = m
    BY <2>1, <2>2, <2>3
  <2>4. CASE i # m
    <3>1. i \in 1 .. m - 1
      BY <1>4, <2>4
    <3>2. longer[i] = g[i] /\ g[i] = 2 * g[i - 1]
      BY <1>5, <2>1, <2>4, <3>1 DEF Doubling
    <3> QED BY <2>2, <3>2
  <2> QED BY <2>3, <2>4
<1>8. Doubling(longer, m)
  BY <1>6, <1>7 DEF Doubling
<1> QED BY <1>2, <1>8

(* There is one way to double. *)
LEMMA DoublingUnique ==
  ASSUME NEW m \in Nat, NEW n \in Nat, NEW f, NEW g, Doubling(f, m), Doubling(g, n),
         NEW k \in Nat, k <= m, k <= n
  PROVE  f[k] = g[k]
<1> DEFINE Bad == {i \in Nat : i <= m /\ i <= n /\ f[i] # g[i]}
<1>1. SUFFICES ASSUME Bad # {} PROVE FALSE
  OBVIOUS
<1>2. PICK i \in Bad : \A j \in Bad : i <= j
  BY <1>1, Least
<1>3. i # 0
  BY <1>2 DEF Doubling
<1>4. i \in 1 .. m /\ i \in 1 .. n /\ i - 1 \in Nat /\ i - 1 \notin Bad
  BY <1>2, <1>3
<1>5. f[i - 1] = g[i - 1]
  BY <1>4
<1>6. f[i] = 2 * f[i - 1] /\ g[i] = 2 * g[i - 1]
  BY <1>4 DEF Doubling
<1> QED BY <1>2, <1>5, <1>6

(* Pow2 is what its definition says. *)
LEMMA Pow2Is ==
  /\ Pow2[0] = 1
  /\ \A n \in Nat : Pow2[n] \in Nat /\ Pow2[n] >= 1 /\ Pow2[n + 1] = 2 * Pow2[n]
<1> DEFINE D(n) == CHOOSE g : Doubling(g, n)
           f == [n \in Nat |-> D(n)[n]]
           Equation(p) == p = [n \in Nat |-> IF n = 0 THEN 1 ELSE 2 * p[n - 1]]
<1>1. \A n \in Nat : Doubling(D(n), n)
  BY DoublingExists, Zenon
<1>2. ASSUME NEW n \in Nat PROVE f[n] = IF n = 0 THEN 1 ELSE 2 * f[n - 1]
  <2>0. f[n] = D(n)[n]
    BY Zenon
  <2> HIDE DEF D
  <2>1. CASE n = 0
    BY <1>1, <2>0, <2>1 DEF Doubling
  <2>2. CASE n # 0
    <3>1. n - 1 \in Nat /\ n \in 1 .. n /\ n - 1 <= n
      BY <2>2
    <3>2. f[n - 1] = D(n - 1)[n - 1]
      BY <3>1
    <3>3. D(n)[n] = 2 * D(n)[n - 1]
      BY <1>1, <3>1 DEF Doubling
    <3>4. D(n)[n - 1] = D(n - 1)[n - 1]
      <4>1. Doubling(D(n), n) /\ Doubling(D(n - 1), n - 1)
        BY <1>1, <3>1
      <4> QED BY <3>1, <4>1, DoublingUnique
    <3> QED BY <2>0, <2>2, <3>2, <3>3, <3>4
  <2> QED BY <2>1, <2>2
<1>3. Equation(f)
  <2>1. f = [n \in Nat |-> f[n]]
    OBVIOUS
  <2> HIDE DEF f
  <2> QED BY <1>2, <2>1
<1>4. Pow2 = CHOOSE p : Equation(p)
  BY Zenon DEF Pow2
<1>5. Equation(Pow2)
  <2> HIDE DEF f
  <2> QED BY <1>3, <1>4, Zenon
<1>6. Pow2[0] = 1 /\ \A n \in Nat : Pow2[n + 1] = 2 * Pow2[n]
  <2>1. \A n \in Nat : Pow2[n] = IF n = 0 THEN 1 ELSE 2 * Pow2[n - 1]
    BY <1>5
  <2>2. ASSUME NEW n \in Nat PROVE Pow2[n + 1] = 2 * Pow2[n]
    <3>1. n + 1 \in Nat /\ n + 1 # 0 /\ (n + 1) - 1 = n
      OBVIOUS
    <3>2. Pow2[n + 1] = 2 * Pow2[(n + 1) - 1]
      BY <2>1, <3>1
    <3> QED BY <3>1, <3>2
  <2> QED BY <2>1, <2>2
<1> DEFINE Bad == {n \in Nat : ~ (Pow2[n] \in Nat /\ Pow2[n] >= 1)}
<1>7. Bad = {}
  <2>1. SUFFICES ASSUME Bad # {} PROVE FALSE
    OBVIOUS
  <2>2. PICK m \in Bad : \A n \in Bad : m <= n
    BY <2>1, Least
  <2>3. m # 0
    BY <1>6, <2>2
  <2>4. m - 1 \in Nat /\ m - 1 \notin Bad /\ (m - 1) + 1 = m
    BY <2>2, <2>3
  <2>5. Pow2[m] = 2 * Pow2[m - 1]
    BY <1>6, <2>4
  <2> QED BY <2>2, <2>4, <2>5
<1> QED BY <1>6, <1>7

(* The power of a sum is the product of the powers. *)
LEMMA Pow2Plus ==
  ASSUME NEW m \in Nat, NEW n \in Nat
  PROVE  Pow2[m + n] = Pow2[m] * Pow2[n]
<1> DEFINE Bad == {k \in Nat : Pow2[m + k] # Pow2[m] * Pow2[k]}
<1>1. SUFFICES ASSUME Bad # {} PROVE FALSE
  OBVIOUS
<1>2. PICK k \in Bad : \A j \in Bad : k <= j
  BY <1>1, Least
<1>3. k # 0
  <2>1. Pow2[m + 0] = Pow2[m] * Pow2[0]
    BY Pow2Is
  <2> QED BY <1>2, <2>1
<1>4. k - 1 \in Nat /\ k - 1 \notin Bad /\ (k - 1) + 1 = k /\ m + k = (m + (k - 1)) + 1
      /\ m + (k - 1) \in Nat
  BY <1>2, <1>3
<1>5. Pow2[k] = 2 * Pow2[k - 1] /\ Pow2[m + k] = 2 * Pow2[m + (k - 1)]
  BY <1>4, Pow2Is
<1>6. Pow2[m + (k - 1)] = Pow2[m] * Pow2[k - 1]
  BY <1>4
<1>7. Pow2[m] \in Nat /\ Pow2[k - 1] \in Nat
  BY <1>4, Pow2Is
<1>8. \A p \in Nat, q \in Nat : 2 * (p * q) = p * (2 * q)
  OBVIOUS
<1> QED BY <1>2, <1>5, <1>6, <1>7, <1>8

(* FloorLog2 is the position of the highest bit. *)
LEMMA FloorLog2Is ==
  ASSUME NEW x \in Nat, x >= 1, x < Pow2[30]
  PROVE  /\ FloorLog2(x) \in 0 .. 30
         /\ Pow2[FloorLog2(x)] <= x /\ x < Pow2[FloorLog2(x) + 1]
<1> DEFINE Over == {n \in Nat : x < Pow2[n]}
<1>1. 30 \in Over /\ Over \subseteq Nat
  OBVIOUS
<1>2. PICK k \in Over : \A n \in Over : k <= n
  BY <1>1, Least
<1>3. k # 0
  BY <1>2, Pow2Is
<1>4. k \in Nat /\ k <= 30 /\ k - 1 \in 0 .. 30 /\ k - 1 \notin Over /\ (k - 1) + 1 = k
  BY <1>1, <1>2, <1>3
<1>5. Pow2[k - 1] <= x /\ x < Pow2[(k - 1) + 1]
  BY <1>2, <1>4, Pow2Is
<1>6. \E e \in 0 .. 30 : Pow2[e] <= x /\ x < Pow2[e + 1]
  BY <1>4, <1>5
<1>7. FloorLog2(x) = CHOOSE e \in 0 .. 30 : Pow2[e] <= x /\ x < Pow2[e + 1]
  BY DEF FloorLog2
<1> QED BY <1>6, <1>7, Zenon

(* The quotient of a product by a factor is less than the other factor. *)
LEMMA QuotientLess ==
  ASSUME NEW x \in Nat, NEW y \in Nat \ {0}, NEW z \in Nat, x < y * z
  PROVE  x \div y \in Nat /\ x \div y < z
OBVIOUS

(* A logarithm finds its place in the table. *)
LEMMA FixedLog2Int ==
  ASSUME NEW x \in Nat, x >= 1, x < Pow2[30]
  PROVE  FixedLog2(x) \in Int
<1> DEFINE e    == FloorLog2(x)
           p    == Pow2[e]
           q    == Pow2[TableBits + RemBits]
           r    == Pow2[RemBits]
           frac == ((x - p) * q) \div p
           idx  == frac \div r
<1>1. e \in Nat /\ p <= x /\ x < 2 * p
  <2>1. e \in 0 .. 30 /\ p <= x /\ x < Pow2[e + 1]
    BY FloorLog2Is
  <2> HIDE DEF e
  <2>2. e \in Nat
    BY <2>1
  <2>3. Pow2[e + 1] = 2 * Pow2[e]
    BY <2>2, Pow2Is
  <2> QED BY <2>1, <2>2, <2>3
<1>2. /\ p \in Nat \ {0} /\ q \in Nat \ {0} /\ r \in Nat \ {0} /\ Pow2[TableBits] \in Nat \ {0}
      /\ q = Pow2[TableBits] * r
  <2>1. TableBits \in Nat /\ RemBits \in Nat /\ TableBits + RemBits \in Nat
    BY CostAssumption
  <2>2. \A n \in Nat : Pow2[n] \in Nat \ {0}
    <3>1. TAKE n \in Nat
    <3>2. Pow2[n] \in Nat /\ Pow2[n] >= 1
      BY Pow2Is
    <3> QED BY <3>2
  <2>3. q = Pow2[TableBits] * r
    BY <2>1, Pow2Plus
  <2> HIDE DEF e
  <2> QED BY <1>1, <2>1, <2>2, <2>3
<1>3. frac \in Nat /\ frac < q
  <2>1. x - p \in Nat /\ x - p < p
    BY <1>1, <1>2
  <2>2. \A d \in Nat, b \in Nat \ {0}, a \in Nat \ {0} : d < b => d * a \in Nat /\ d * a < b * a
    OBVIOUS
  <2>3. (x - p) * q \in Nat /\ (x - p) * q < p * q
    <3> HIDE DEF p, q
    <3> QED BY <1>2, <2>1, <2>2
  <2> HIDE DEF p, q
  <2> QED BY <1>2, <2>3, QuotientLess
<1>4. idx \in Nat /\ idx < Pow2[TableBits]
  <2>1. \A a \in Nat, b \in Nat : a * b = b * a
    OBVIOUS
  <2>2. frac < r * Pow2[TableBits]
    <3> HIDE DEF frac, r, q
    <3> QED BY <1>2, <1>3, <2>1
  <2> HIDE DEF frac, r
  <2> QED BY <1>2, <1>3, <2>2, QuotientLess
<1>5. Log2Table[idx] \in Nat /\ Log2Table[idx + 1] \in Nat
  <2>1. idx \in 0 .. Pow2[TableBits] /\ idx + 1 \in 0 .. Pow2[TableBits]
    <3> HIDE DEF idx
    <3> QED BY <1>2, <1>4
  <2> HIDE DEF idx
  <2> QED BY <2>1, CostAssumption
<1>6. frac % r \in Nat
  <2> HIDE DEF frac, r
  <2> QED BY <1>2, <1>3
<1>7. Pow2[FracBits] \in Nat
  BY CostAssumption, Pow2Is
<1>8. \A d \in Int, a \in Nat, b \in Nat \ {0} : (d * a) \div b \in Int
  OBVIOUS
<1>9. FixedLog2(x) = e * Pow2[FracBits] + Log2Table[idx]
        + ((Log2Table[idx + 1] - Log2Table[idx]) * (frac % r)) \div r
  BY DEF FixedLog2
<1>10. Log2Table[idx + 1] - Log2Table[idx] \in Int
  <2> HIDE DEF idx
  <2> QED BY <1>5
<1>11. ((Log2Table[idx + 1] - Log2Table[idx]) * (frac % r)) \div r \in Int
  <2> HIDE DEF idx, frac, r
  <2> QED BY <1>2, <1>6, <1>8, <1>10
<1>12. e * Pow2[FracBits] \in Int
  <2> HIDE DEF e
  <2> QED BY <1>1, <1>7
<1> HIDE DEF e, idx, frac, r
<1> QED BY <1>5, <1>9, <1>11, <1>12

---------------------------------------------------------------------------
(* Histograms and their costs.                                             *)

(* Blocks, contexts, clusters and symbols are finite sets of numbers. *)
LEMMA DomainsFinite ==
  /\ IsFiniteSet(Block) /\ IsFiniteSet(Context) /\ IsFiniteSet(Cluster) /\ IsFiniteSet(Symbol)
  /\ Block \subseteq Nat /\ Context \subseteq Nat /\ Cluster \subseteq Nat /\ Symbol \subseteq Nat
  /\ Cardinality(Block) = NumBlocks
<1>1. NumBlocks \in Nat \ {0} /\ NumContexts \in Nat /\ NumClusters \in Nat /\ AlphabetSize \in Nat
  BY ClusteringAssumption
<1>2. /\ Block = 0 .. NumBlocks - 1 /\ Context = 0 .. NumContexts - 1
      /\ Cluster = 0 .. NumClusters - 1 /\ Symbol = 0 .. AlphabetSize - 1
  BY DEF Block, Context, Cluster, Symbol
<1>3. ASSUME NEW n \in Nat PROVE IsFiniteSet(0 .. n - 1) /\ Cardinality(0 .. n - 1) = n
  BY FS_Interval
<1>4. \A n \in Nat : 0 .. n - 1 \subseteq Nat
  OBVIOUS
<1> QED BY <1>1, <1>2, <1>3, <1>4

(* A histogram's total is no less than any of its bins. *)
LEMMA TotalNat ==
  ASSUME NEW h \in [Symbol -> Nat]
  PROVE  Total(h) \in Nat /\ \A s \in Symbol : h[s] <= Total(h)
BY SumNat, DomainsFinite DEF Total

(* A larger histogram has a larger total. *)
LEMMA TotalGrows ==
  ASSUME NEW h \in [Symbol -> Nat], NEW g \in [Symbol -> Nat], \A s \in Symbol : h[s] <= g[s]
  PROVE  Total(h) <= Total(g)
<1>1. \A s \in Symbol : h[s] \in Int /\ g[s] \in Int /\ h[s] <= g[s]
  OBVIOUS
<1>2. SumFunctionOnSet(h, Symbol) <= SumFunctionOnSet(g, Symbol)
  BY <1>1, SumMonotonic, DomainsFinite
<1> QED BY <1>2 DEF Total

(* Without tokens there is no total. *)
LEMMA ZeroTotal == Zero \in [Symbol -> Nat] /\ Total(Zero) = 0 /\ \A h : SumOf(h, {}) = Zero
<1>1. Total(Zero) = 0
  BY DomainsFinite, SumZero DEF Total, Zero
<1>2. \A h : SumOf(h, {}) = Zero
  BY SumEmpty DEF SumOf, Zero
<1> QED BY <1>1, <1>2 DEF Zero

(* The histogram of a set of contexts: its bins are no less than those of  *)
(* its contexts, and its tokens leave room for a logarithm.                *)
LEMMA SumOfIs ==
  ASSUME NEW h \in Inputs, NEW T \in SUBSET Context
  PROVE  /\ SumOf(h, T) \in [Symbol -> Nat]
         /\ 2 * Total(SumOf(h, T)) + AlphabetSize < Pow2[30]
         /\ \A c \in T : /\ h[c] \in [Symbol -> Nat]
                         /\ \A s \in Symbol : h[c][s] <= SumOf(h, T)[s]
                         /\ Total(h[c]) <= Total(SumOf(h, T))
<1> DEFINE Bins(s) == [c \in Context |-> h[c][s]]
<1>1. /\ h \in [Context -> [Symbol -> Nat]]
      /\ 2 * Total(SumOf(h, Context)) + AlphabetSize < Pow2[30]
  BY TokensAssumption
<1>2. \A s \in Symbol : Bins(s) \in [Context -> Nat]
  BY <1>1
<1>3. \A U \in SUBSET Context : IsFiniteSet(U)
  BY FS_Subset, DomainsFinite
<1>4. \A U \in SUBSET Context : \A s \in Symbol : SumOf(h, U)[s] = SumFunctionOnSet(Bins(s), U)
  BY DEF SumOf
<1>5. ASSUME NEW U \in SUBSET Context, NEW s \in Symbol
      PROVE  /\ SumOf(h, U)[s] \in Nat
             /\ \A c \in U : h[c][s] <= SumOf(h, U)[s]
             /\ SumOf(h, U)[s] <= SumOf(h, Context)[s]
  <2>1. \A c \in Context : Bins(s)[c] \in Nat /\ Bins(s)[c] = h[c][s]
    BY <1>1
  <2> HIDE DEF Bins
  <2>2. SumFunctionOnSet(Bins(s), U) \in Nat
        /\ \A c \in U : Bins(s)[c] <= SumFunctionOnSet(Bins(s), U)
    BY <1>3, <2>1, SumNat
  <2>3. SumFunctionOnSet(Bins(s), U) <= SumFunctionOnSet(Bins(s), Context)
    BY <1>3, <2>1, SumSubset
  <2> QED BY <1>4, <2>1, <2>2, <2>3
<1>6. \A U \in SUBSET Context : SumOf(h, U) \in [Symbol -> Nat]
  <2>1. \A U \in SUBSET Context : SumOf(h, U) = [s \in Symbol |-> SumOf(h, U)[s]]
    BY DEF SumOf
  <2> QED BY <1>5, <2>1
<1>7. Total(SumOf(h, T)) <= Total(SumOf(h, Context))
  BY <1>5, <1>6, TotalGrows
<1>8. 2 * Total(SumOf(h, T)) + AlphabetSize < Pow2[30]
  <2>1. Total(SumOf(h, T)) \in Nat /\ Total(SumOf(h, Context)) \in Nat
    BY <1>6, TotalNat
  <2>2. AlphabetSize \in Nat /\ Pow2[30] \in Nat
    BY ClusteringAssumption, Pow2Is
  <2> QED BY <1>1, <1>7, <2>1, <2>2
<1>9. ASSUME NEW c \in T
      PROVE  /\ h[c] \in [Symbol -> Nat]
             /\ \A s \in Symbol : h[c][s] <= SumOf(h, T)[s]
             /\ Total(h[c]) <= Total(SumOf(h, T))
  <2>1. h[c] \in [Symbol -> Nat]
    BY <1>1
  <2>2. \A s \in Symbol : h[c][s] <= SumOf(h, T)[s]
    BY <1>5
  <2>3. Total(h[c]) <= Total(SumOf(h, T))
    BY <1>6, <2>1, <2>2, TotalGrows
  <2> QED BY <2>1, <2>2, <2>3
<1> QED BY <1>6, <1>8, <1>9

(* The alphabet of a frame is that of its contexts, or smaller. *)
LEMMA AlphabetIn ==
  ASSUME NEW h \in Inputs
  PROVE  Alphabet(h) \in 0 .. AlphabetSize
<1> DEFINE used == {s \in Symbol : \E c \in Context : h[c][s] # 0}
           ends == {0} \cup {s + 1 : s \in used}
<1>1. AlphabetSize \in Nat
  BY ClusteringAssumption
<1>2. ends \subseteq 0 .. AlphabetSize
  BY <1>1 DEF Symbol
<1>3. IsFiniteSet(ends)
  <2>1. IsFiniteSet(0 .. AlphabetSize)
    BY <1>1, FS_Interval
  <2> HIDE DEF ends
  <2> QED BY <1>2, <2>1, FS_Subset
<1>4. Max(ends) \in ends
  <2>1. ends # {} /\ ends \subseteq Int
    BY <1>1, <1>2
  <2> HIDE DEF ends
  <2> QED BY <1>3, <2>1, MaxIs
<1> QED BY <1>2, <1>4 DEF Alphabet

(* The price of coding a histogram with a cluster that has tokens. *)
LEMMA CodingCostInt ==
  ASSUME NEW h \in [Symbol -> Nat], NEW g \in [Symbol -> Nat], NEW a \in 0 .. AlphabetSize,
         2 * Total(g) + AlphabetSize < Pow2[30], Total(g) # 0
  PROVE  CodingCost(h, g, a) \in Int
<1> DEFINE used == {s \in Symbol : h[s] # 0}
           price == [s \in Symbol |-> h[s] * FixedLog2(2 * g[s] + 1)]
<1>1. /\ Total(h) \in Nat /\ Total(g) \in Nat /\ AlphabetSize \in Nat /\ a \in Nat
      /\ a <= AlphabetSize /\ Pow2[30] \in Nat
  BY TotalNat, ClusteringAssumption, Pow2Is
<1>2. FixedLog2(2 * Total(g) + a) \in Int
  <2>1. /\ 2 * Total(g) + a \in Nat /\ 2 * Total(g) + a >= 1
        /\ 2 * Total(g) + a < Pow2[30]
    BY <1>1
  <2> QED BY <2>1, FixedLog2Int
<1>3. ASSUME NEW s \in Symbol PROVE price[s] \in Int
  <2>1. g[s] \in Nat /\ g[s] <= Total(g) /\ AlphabetSize >= 1
    <3>1. g[s] \in Nat /\ g[s] <= Total(g)
      BY TotalNat
    <3>2. AlphabetSize >= 1
      BY <1>1 DEF Symbol
    <3> QED BY <3>1, <3>2
  <2>2. /\ 2 * g[s] + 1 \in Nat /\ 2 * g[s] + 1 >= 1
        /\ 2 * g[s] + 1 < Pow2[30]
    <3>1. g[s] \in Nat /\ 2 * g[s] + 1 <= 2 * Total(g) + AlphabetSize
      BY <1>1, <2>1
    <3> QED BY <1>1, <3>1
  <2>3. FixedLog2(2 * g[s] + 1) \in Int
    BY <2>2, FixedLog2Int
  <2>4. h[s] \in Int
    OBVIOUS
  <2> QED BY <2>3, <2>4
<1>4. SumFunctionOnSet(price, used) \in Int
  <2>1. IsFiniteSet(used) /\ used \subseteq Symbol
    BY FS_Subset, DomainsFinite
  <2> HIDE DEF price, used
  <2> QED BY <1>3, <2>1, SumInt
<1>5. CodingCost(h, g, a) = Total(h) * FixedLog2(2 * Total(g) + a) - SumFunctionOnSet(price, used)
  BY DEF CodingCost
<1>6. Total(h) * FixedLog2(2 * Total(g) + a) \in Int
  BY <1>1, <1>2
<1> HIDE DEF price, used
<1> QED BY <1>4, <1>5, <1>6

(* The size of a histogram coded with its own distribution. *)
LEMMA EntropyInt ==
  ASSUME NEW h \in [Symbol -> Nat], Total(h) # 0, Total(h) < Pow2[30]
  PROVE  Entropy(h) \in Int
<1> DEFINE used == {s \in Symbol : h[s] # 0}
           price == [s \in Symbol |-> h[s] * FixedLog2(h[s])]
<1>1. Total(h) \in Nat /\ Pow2[30] \in Nat
  BY TotalNat, Pow2Is
<1>2. FixedLog2(Total(h)) \in Int
  BY <1>1, FixedLog2Int
<1>3. ASSUME NEW s \in used PROVE price[s] \in Int
  <2>1. h[s] \in Nat /\ h[s] <= Total(h) /\ h[s] # 0
    BY TotalNat
  <2>2. h[s] >= 1 /\ h[s] < Pow2[30]
    BY <1>1, <2>1
  <2>3. FixedLog2(h[s]) \in Int
    BY <2>1, <2>2, FixedLog2Int
  <2>4. price[s] = h[s] * FixedLog2(h[s])
    OBVIOUS
  <2> QED BY <2>1, <2>3, <2>4
<1>4. SumFunctionOnSet(price, used) \in Int
  <2>1. IsFiniteSet(used)
    BY FS_Subset, DomainsFinite
  <2> HIDE DEF price, used
  <2> QED BY <1>3, <2>1, SumInt
<1>5. Entropy(h) = Total(h) * FixedLog2(Total(h)) - SumFunctionOnSet(price, used)
  BY DEF Entropy
<1>6. Total(h) * FixedLog2(Total(h)) \in Int
  BY <1>1, <1>2
<1> HIDE DEF price, used
<1> QED BY <1>4, <1>5, <1>6

(* What a context loses in a cluster that has tokens is a natural. *)
LEMMA RefillExcessNat ==
  ASSUME NEW h \in [Symbol -> Nat], NEW g \in [Symbol -> Nat], NEW a \in 0 .. AlphabetSize,
         2 * Total(g) + AlphabetSize < Pow2[30], Total(g) # 0,
         Total(h) # 0, Total(h) <= Total(g)
  PROVE  RefillExcess(h, g, a) \in Nat
<1> DEFINE d == CodingCost(h, g, a) - Entropy(h)
<1>1. Total(h) < Pow2[30]
  BY TotalNat, ClusteringAssumption, Pow2Is
<1>2. d \in Int
  <2>1. CodingCost(h, g, a) \in Int /\ Entropy(h) \in Int
    BY <1>1, CodingCostInt, EntropyInt
  <2> QED BY <2>1
<1>3. Max({0, d}) \in Nat
  <2>1. IsFiniteSet({0, d})
    <3>1. IsFiniteSet({0} \cup {d}) /\ {0} \cup {d} = {0, d}
      BY FS_Singleton, FS_AddElement
    <3> QED BY <3>1
  <2> HIDE DEF d
  <2>2. Max({0, d}) \in {0, d} /\ Max({0, d}) >= 0
    BY <1>2, <2>1, MaxIs
  <2> QED BY <1>2, <2>2
<1>4. Pow2[FracBits - ExcessBits] \in Nat \ {0}
  <2>1. FracBits - ExcessBits \in Nat
    BY CostAssumption
  <2>2. Pow2[FracBits - ExcessBits] \in Nat /\ Pow2[FracBits - ExcessBits] >= 1
    BY <2>1, Pow2Is
  <2> QED BY <2>2
<1>5. \A x \in Nat, y \in Nat \ {0} : x \div y \in Nat
  OBVIOUS
<1>6. RefillExcess(h, g, a) = Max({0, d}) \div Pow2[FracBits - ExcessBits]
  BY DEF RefillExcess
<1> HIDE DEF d
<1> QED BY <1>3, <1>4, <1>5, <1>6

(* A key is positive and names its context. *)
LEMMA RefillKeyIs ==
  ASSUME NEW e \in Nat, NEW c \in Context
  PROVE  /\ RefillKey(e, c) \in Nat /\ RefillKey(e, c) > 0
         /\ RefillKeyContext(RefillKey(e, c)) = c
<1> DEFINE n == NumContexts
<1>1. n \in Nat /\ c \in Nat /\ c < n
  BY ClusteringAssumption DEF Context
<1>2. \A x \in Nat, m \in Nat, r \in Nat : r < m + 1 => (x * (m + 1) + r) % (m + 1) = r
  OBVIOUS
<1>3. n - c \in Nat /\ n - c < n + 1 /\ n - c > 0
  BY <1>1
<1>4. (e * (n + 1) + (n - c)) % (n + 1) = n - c
  BY <1>1, <1>2, <1>3
<1>5. e * (n + 1) \in Nat
  BY <1>1
<1> HIDE DEF n
<1> QED BY <1>1, <1>3, <1>4, <1>5 DEF RefillKey, RefillKeyContext, n

---------------------------------------------------------------------------
(* The reference: an iteration.                                            *)

(* The contexts with tokens that an assignment puts in cluster j. *)
Members(h, a, j) == {c \in Active(h) : a[c] = j}

(* The contexts with tokens are finitely many numbers, and have tokens. *)
LEMMA ActiveIs ==
  ASSUME NEW h \in Inputs
  PROVE  /\ Active(h) \subseteq Context /\ Active(h) \subseteq Nat /\ IsFiniteSet(Active(h))
         /\ \A c \in Context : h[c] \in [Symbol -> Nat]
         /\ \A c \in Active(h) : Total(h[c]) \in Nat /\ Total(h[c]) >= 1
<1>1. Active(h) \subseteq Context
  BY DEF Active
<1>2. \A c \in Context : h[c] \in [Symbol -> Nat]
  BY TokensAssumption
<1>3. ASSUME NEW c \in Active(h) PROVE Total(h[c]) \in Nat /\ Total(h[c]) >= 1
  <2>1. Total(h[c]) \in Nat
    BY <1>1, <1>2, TotalNat
  <2>2. Total(h[c]) # 0
    BY DEF Active
  <2> QED BY <2>1, <2>2
<1>4. Active(h) \subseteq Nat /\ IsFiniteSet(Active(h))
  BY <1>1, DomainsFinite, FS_Subset
<1> QED BY <1>1, <1>2, <1>3, <1>4

(* A cluster's histogram is the sum of its members. *)
LEMMA ClusterHistogramsAre ==
  ASSUME NEW h, NEW a
  PROVE  ClusterHistograms(h, a) = [j \in Cluster |-> SumOf(h, Members(h, a, j))]
BY TabulatedIs DEF ClusterHistograms, Members

(* The histograms of the clusters are histograms, small enough for their   *)
(* costs; a cluster has tokens when it has members.                        *)
LEMMA HistogramsTyped ==
  ASSUME NEW h \in Inputs, NEW a, NEW j \in Cluster
  PROVE  /\ ClusterHistograms(h, a) \in [Cluster -> [Symbol -> Nat]]
         /\ ClusterHistograms(h, a)[j] = SumOf(h, Members(h, a, j))
         /\ ClusterHistograms(h, a)[j] \in [Symbol -> Nat]
         /\ 2 * Total(ClusterHistograms(h, a)[j]) + AlphabetSize < Pow2[30]
         /\ Total(ClusterHistograms(h, a)[j]) \in Nat
         /\ \A c \in Members(h, a, j) : Total(h[c]) <= Total(ClusterHistograms(h, a)[j])
         /\ Total(ClusterHistograms(h, a)[j]) = 0 <=> Members(h, a, j) = {}
<1>1. \A k \in Cluster : ClusterHistograms(h, a)[k] = SumOf(h, Members(h, a, k))
  BY ClusterHistogramsAre
<1>2. \A k : Members(h, a, k) \in SUBSET Context
  BY ActiveIs DEF Members
<1>3. \A k \in Cluster : ClusterHistograms(h, a)[k] \in [Symbol -> Nat]
  BY <1>1, <1>2, SumOfIs
<1>4. ClusterHistograms(h, a) \in [Cluster -> [Symbol -> Nat]]
  <2>1. ClusterHistograms(h, a) = [k \in Cluster |-> ClusterHistograms(h, a)[k]]
    BY ClusterHistogramsAre
  <2> QED BY <1>3, <2>1
<1>5. Total(ClusterHistograms(h, a)[j]) \in Nat
  BY <1>3, TotalNat
<1>6. /\ 2 * Total(ClusterHistograms(h, a)[j]) + AlphabetSize < Pow2[30]
      /\ \A c \in Members(h, a, j) : Total(h[c]) <= Total(ClusterHistograms(h, a)[j])
  BY <1>1, <1>2, SumOfIs
<1>7. ASSUME Members(h, a, j) = {} PROVE Total(ClusterHistograms(h, a)[j]) = 0
  BY <1>1, <1>7, ZeroTotal
<1>8. ASSUME NEW c \in Members(h, a, j) PROVE Total(ClusterHistograms(h, a)[j]) # 0
  <2>1. Total(h[c]) \in Nat /\ Total(h[c]) >= 1
    BY ActiveIs DEF Members
  <2> QED BY <1>5, <1>6, <2>1
<1> QED BY <1>1, <1>3, <1>4, <1>5, <1>6, <1>7, <1>8

(* A context with tokens has a cheapest cluster. *)
LEMMA CheapestIn ==
  ASSUME NEW h \in Inputs, NEW a \in [Context -> Cluster], NEW c \in Active(h)
  PROVE  Cheapest(h[c], ClusterHistograms(h, a), Alphabet(h)) \in Cluster
<1> DEFINE H == ClusterHistograms(h, a)
           used == {j \in Cluster : Total(H[j]) # 0}
           price == [j \in used |-> CodingCost(h[c], H[j], Alphabet(h)) * NumClusters + j]
           prices == {price[j] : j \in used}
<1>1. c \in Context /\ h[c] \in [Symbol -> Nat] /\ a[c] \in Cluster
  BY ActiveIs
<1>2. a[c] \in used
  <2>1. c \in Members(h, a, a[c])
    BY DEF Members
  <2> QED BY <1>1, <2>1, HistogramsTyped
<1>3. IsFiniteSet(used) /\ used \subseteq Cluster
  BY FS_Subset, DomainsFinite
<1>4. ASSUME NEW j \in used
      PROVE  CodingCost(h[c], H[j], Alphabet(h)) \in Int /\ j \in Cluster /\ j \in Nat
  <2>1. j \in Cluster /\ Total(H[j]) # 0 /\ j \in Nat
    BY DomainsFinite
  <2>2. H[j] \in [Symbol -> Nat] /\ 2 * Total(H[j]) + AlphabetSize < Pow2[30]
    BY <2>1, HistogramsTyped
  <2>3. Alphabet(h) \in 0 .. AlphabetSize
    BY AlphabetIn
  <2> HIDE DEF H
  <2> QED BY <1>1, <2>1, <2>2, <2>3, CodingCostInt
<1>5. NumClusters \in Nat \ {0}
  BY ClusteringAssumption
<1>6. ASSUME NEW j \in used PROVE price[j] \in Int /\ price[j] % NumClusters = j
  <2>1. price[j] = CodingCost(h[c], H[j], Alphabet(h)) * NumClusters + j
    BY Zenon
  <2>2. \A x \in Int, n \in Nat \ {0}, r \in Nat :
          r < n => x * n + r \in Int /\ (x * n + r) % n = r
    OBVIOUS
  <2>3. j < NumClusters
    BY <1>4, <1>5 DEF Cluster
  <2> HIDE DEF price, used, H
  <2> QED BY <1>4, <1>5, <2>1, <2>2, <2>3
<1>7. IsFiniteSet(prices)
  <2>1. \A x \in used : \A y \in used : price[x] = price[y] => x = y
    BY <1>6
  <2>2. price \in [used -> prices] /\ \A t \in prices : \E x \in used : price[x] = t
    BY Zenon
  <2> HIDE DEF price, used, prices
  <2> QED BY <1>3, <2>1, <2>2, SameSize
<1>8. prices # {} /\ prices \subseteq Int
  <2> HIDE DEF price, used
  <2> QED BY <1>2, <1>6
<1>9. Min(prices) \in prices
  <2> HIDE DEF prices
  <2> QED BY <1>7, <1>8, MinIs
<1>10. PICK j \in used : Min(prices) = price[j]
  BY <1>9, Zenon
<1>11. Min(prices) % NumClusters \in Cluster
  <2> HIDE DEF prices, price, used
  <2> QED BY <1>4, <1>6, <1>10
<1>12. prices = {CodingCost(h[c], H[k], Alphabet(h)) * NumClusters + k : k \in used}
  OBVIOUS
<1>13. Cheapest(h[c], H, Alphabet(h)) = Min(prices) % NumClusters
  <2> HIDE DEF price, prices
  <2> QED BY <1>12 DEF Cheapest
<1> QED BY <1>11, <1>13

---------------------------------------------------------------------------
(* The reference: the refill.  ClusterKey is the key of a cluster's        *)
(* nominee, Movers the clusters whose nominee is moved, Moved their        *)
(* contexts and Target the empty clusters they go to.                      *)

KeyOf(h, a, c) == RefillKey(RefillExcess(h[c], ClusterHistograms(h, a)[a[c]], Alphabet(h)), c)
ClusterKey(h, a, j) == Max({0} \cup {KeyOf(h, a, c) : c \in Members(h, a, j)})
KeyRank(h, a, j) == Cardinality({k \in Cluster : ClusterKey(h, a, k) > ClusterKey(h, a, j)})
Nominating(h, a) == {j \in Cluster : ClusterKey(h, a, j) # 0}
Vacant(h, a) == EmptyClusters(ClusterHistograms(h, a))
Movers(h, a) == {j \in Nominating(h, a) : KeyRank(h, a, j) < Cardinality(Vacant(h, a))}
Moved(h, a, j) == RefillKeyContext(ClusterKey(h, a, j))
Target(h, a, j) == Nth(Vacant(h, a), KeyRank(h, a, j))

(* The key of a context with tokens is positive and names it. *)
LEMMA KeyOfIs ==
  ASSUME NEW h \in Inputs, NEW a \in [Context -> Cluster], NEW c \in Active(h)
  PROVE  /\ KeyOf(h, a, c) \in Nat /\ KeyOf(h, a, c) > 0
         /\ RefillKeyContext(KeyOf(h, a, c)) = c
<1> DEFINE H == ClusterHistograms(h, a)
<1>1. /\ c \in Context /\ h[c] \in [Symbol -> Nat] /\ a[c] \in Cluster
      /\ Total(h[c]) # 0
  BY ActiveIs
<1>2. c \in Members(h, a, a[c])
  BY DEF Members
<1>3. /\ H[a[c]] \in [Symbol -> Nat] /\ 2 * Total(H[a[c]]) + AlphabetSize < Pow2[30]
      /\ Total(H[a[c]]) # 0 /\ Total(h[c]) <= Total(H[a[c]])
  BY <1>1, <1>2, HistogramsTyped
<1>4. RefillExcess(h[c], H[a[c]], Alphabet(h)) \in Nat
  <2> HIDE DEF H
  <2> QED BY <1>1, <1>3, AlphabetIn, RefillExcessNat
<1> QED BY <1>1, <1>4, RefillKeyIs DEF KeyOf

(* The keys of some contexts with tokens, as a finite set of naturals. *)
LEMMA KeysFinite ==
  ASSUME NEW h \in Inputs, NEW a \in [Context -> Cluster], NEW T \in SUBSET Active(h)
  PROVE  /\ IsFiniteSet({KeyOf(h, a, c) : c \in T}) /\ {KeyOf(h, a, c) : c \in T} \subseteq Nat
         /\ IsFiniteSet({0} \cup {KeyOf(h, a, c) : c \in T})
         /\ {0} \cup {KeyOf(h, a, c) : c \in T} \subseteq Nat
<1> DEFINE key == [c \in T |-> KeyOf(h, a, c)]
           keys == {KeyOf(h, a, c) : c \in T}
<1>1. \A c \in T : KeyOf(h, a, c) \in Nat /\ RefillKeyContext(KeyOf(h, a, c)) = c
  BY KeyOfIs
<1>2. \A x \in T : \A y \in T : key[x] = key[y] => x = y
  BY <1>1, Zenon
<1>3. key \in [T -> keys] /\ \A t \in keys : \E x \in T : key[x] = t
  BY Zenon
<1>4. IsFiniteSet(T)
  BY ActiveIs, FS_Subset
<1>5. IsFiniteSet(keys)
  <2> HIDE DEF key, keys
  <2> QED BY <1>2, <1>3, <1>4, SameSize
<1>6. keys \subseteq Nat
  BY <1>1
<1>7. IsFiniteSet({0} \cup keys)
  <2>1. IsFiniteSet(keys \cup {0}) /\ keys \cup {0} = {0} \cup keys
    <3> HIDE DEF keys
    <3> QED BY <1>5, FS_AddElement
  <2> QED BY <2>1
<1> QED BY <1>5, <1>6, <1>7

(* A cluster with members nominates one of them, one without none. *)
LEMMA ClusterKeyIs ==
  ASSUME NEW h \in Inputs, NEW a \in [Context -> Cluster], NEW j \in Cluster
  PROVE  /\ ClusterKey(h, a, j) \in Nat
         /\ Members(h, a, j) = {} <=> ClusterKey(h, a, j) = 0
         /\ Members(h, a, j) # {} =>
              /\ Moved(h, a, j) \in Members(h, a, j)
              /\ ClusterKey(h, a, j) = Max({KeyOf(h, a, c) : c \in Members(h, a, j)})
<1> DEFINE M == Members(h, a, j)
           keys == {KeyOf(h, a, c) : c \in M}
<1>1. M \in SUBSET Active(h)
  BY DEF Members
<1>2. /\ IsFiniteSet(keys) /\ keys \subseteq Nat
      /\ IsFiniteSet({0} \cup keys) /\ {0} \cup keys \subseteq Nat
  <2> HIDE DEF M
  <2> QED BY <1>1, KeysFinite
<1>3. /\ ClusterKey(h, a, j) \in {0} \cup keys
      /\ \A k \in {0} \cup keys : ClusterKey(h, a, j) >= k
  <2>1. Max({0} \cup keys) \in {0} \cup keys /\ \A k \in {0} \cup keys : Max({0} \cup keys) >= k
    <3>1. {0} \cup keys # {} /\ {0} \cup keys \subseteq Int
      BY <1>2
    <3> HIDE DEF keys
    <3> QED BY <1>2, <3>1, MaxIs
  <2> QED BY <2>1 DEF ClusterKey
<1>4. ClusterKey(h, a, j) \in Nat
  BY <1>2, <1>3
<1>5. CASE M = {}
  <2>1. keys = {}
    BY <1>5
  <2> QED BY <1>3, <1>4, <1>5, <2>1
<1>6. CASE M # {}
  <2>1. PICK c \in M : TRUE
    BY <1>6
  <2>2. KeyOf(h, a, c) \in keys /\ KeyOf(h, a, c) > 0 /\ KeyOf(h, a, c) \in Nat
    BY <1>1, <2>1, KeyOfIs
  <2>3. ClusterKey(h, a, j) \in keys
    <3> HIDE DEF keys
    <3> QED BY <1>3, <1>4, <2>2
  <2>4. PICK d \in M : ClusterKey(h, a, j) = KeyOf(h, a, d)
    BY <2>3
  <2>5. RefillKeyContext(KeyOf(h, a, d)) = d /\ KeyOf(h, a, d) > 0 /\ KeyOf(h, a, d) \in Nat
    BY <1>1, KeyOfIs
  <2>6. Moved(h, a, j) = d
    BY <2>4, <2>5 DEF Moved
  <2>7. Max(keys) = ClusterKey(h, a, j)
    <3>1. \A k \in keys : ClusterKey(h, a, j) >= k
      BY <1>3
    <3>2. keys \subseteq Int
      BY <1>2
    <3> HIDE DEF keys
    <3> QED BY <2>3, <3>1, <3>2, MaxUnique
  <2>8. ClusterKey(h, a, j) # 0
    BY <2>4, <2>5
  <2> QED BY <1>4, <1>6, <2>4, <2>6, <2>7, <2>8
<1> QED BY <1>5, <1>6

(* The clusters with members are those that nominate; the others are empty.*)
LEMMA NominatingAre ==
  ASSUME NEW h \in Inputs, NEW a \in [Context -> Cluster]
  PROVE  /\ Nominating(h, a) = {a[c] : c \in Active(h)}
         /\ Nominating(h, a) = {j \in Cluster : Members(h, a, j) # {}}
         /\ Vacant(h, a) = {j \in Cluster : Members(h, a, j) = {}}
         /\ IsFiniteSet(Nominating(h, a)) /\ IsFiniteSet(Vacant(h, a))
         /\ Vacant(h, a) \subseteq Int
<1>1. Nominating(h, a) = {j \in Cluster : Members(h, a, j) # {}}
  BY ClusterKeyIs DEF Nominating
<1>2. Vacant(h, a) = {j \in Cluster : Members(h, a, j) = {}}
  BY HistogramsTyped DEF Vacant, EmptyClusters
<1>3. \A c \in Active(h) : a[c] \in Cluster /\ c \in Members(h, a, a[c])
  BY ActiveIs DEF Members
<1>4. \A j : \A c \in Members(h, a, j) : c \in Active(h) /\ a[c] = j
  BY DEF Members
<1>5. {j \in Cluster : Members(h, a, j) # {}} = {a[c] : c \in Active(h)}
  BY <1>3, <1>4
<1>6. IsFiniteSet(Nominating(h, a)) /\ IsFiniteSet(Vacant(h, a)) /\ Vacant(h, a) \subseteq Int
  <2>1. Nominating(h, a) \subseteq Cluster /\ Vacant(h, a) \subseteq Cluster
    BY <1>1, <1>2
  <2>2. IsFiniteSet(Cluster) /\ Cluster \subseteq Int
    BY DomainsFinite
  <2>3. \A S \in SUBSET Cluster : IsFiniteSet(S)
    BY <2>2, FS_Subset
  <2> QED BY <2>1, <2>2, <2>3
<1> QED BY <1>1, <1>2, <1>5, <1>6

(* The reference takes the keys of the clusters with members. *)
LEMMA NomineeKeysAre ==
  ASSUME NEW h \in Inputs, NEW a \in [Context -> Cluster]
  PROVE  NomineeKeys(h, a) = {ClusterKey(h, a, j) : j \in Nominating(h, a)}
<1>1. NomineeKeys(h, a) = {Max({KeyOf(h, a, c) : c \in Members(h, a, j)}) : j \in {a[c] : c \in Active(h)}}
  BY DEF NomineeKeys, KeyOf, Members
<1>2. {a[c] : c \in Active(h)} = Nominating(h, a)
  BY NominatingAre
<1>3. \A j \in Nominating(h, a) :
         Max({KeyOf(h, a, c) : c \in Members(h, a, j)}) = ClusterKey(h, a, j)
  BY NominatingAre, ClusterKeyIs
<1>4. NomineeKeys(h, a) = {Max({KeyOf(h, a, c) : c \in Members(h, a, j)}) : j \in Nominating(h, a)}
  BY <1>1, <1>2
<1> QED BY <1>3, <1>4

(* Two clusters do not nominate with the same key. *)
LEMMA ClusterKeyInjective ==
  ASSUME NEW h \in Inputs, NEW a \in [Context -> Cluster],
         NEW j \in Nominating(h, a), NEW k \in Nominating(h, a),
         ClusterKey(h, a, j) = ClusterKey(h, a, k)
  PROVE  j = k
<1>1. Moved(h, a, j) \in Members(h, a, j) /\ Moved(h, a, k) \in Members(h, a, k)
  <2>1. \A i \in Nominating(h, a) : i \in Cluster /\ Members(h, a, i) # {}
    BY NominatingAre
  <2> QED BY <2>1, ClusterKeyIs
<1>2. Moved(h, a, j) = Moved(h, a, k)
  BY DEF Moved
<1> QED BY <1>1, <1>2 DEF Members

(* A cluster's rank among the nominees is that of its key. *)
LEMMA KeyRankIs ==
  ASSUME NEW h \in Inputs, NEW a \in [Context -> Cluster], NEW j \in Nominating(h, a)
  PROVE  /\ KeyRank(h, a, j) \in Nat
         /\ KeyRank(h, a, j) = Cardinality({l \in NomineeKeys(h, a) : l > ClusterKey(h, a, j)})
         /\ KeyRank(h, a, j) < Cardinality(Nominating(h, a))
         /\ \A k \in Nominating(h, a) :
              ClusterKey(h, a, k) > ClusterKey(h, a, j) => KeyRank(h, a, k) < KeyRank(h, a, j)
<1> DEFINE K(i) == ClusterKey(h, a, i)
           N == Nominating(h, a)
           S(i) == {k \in Cluster : K(k) > K(i)}
           T == {l \in NomineeKeys(h, a) : l > K(j)}
<1>1. \A k \in Cluster : K(k) \in Nat
  BY ClusterKeyIs
<1>2. N \subseteq Cluster /\ j \in N /\ IsFiniteSet(N) /\ \A k \in Cluster : k \in N <=> K(k) # 0
  BY NominatingAre DEF Nominating
<1>3. \A i \in N : S(i) \subseteq N /\ i \notin S(i)
  <2> HIDE DEF K, N
  <2> QED BY <1>1, <1>2
<1>4. \A i \in N : IsFiniteSet(S(i)) /\ Cardinality(S(i)) \in Nat
  <2> HIDE DEF K, N, S
  <2> QED BY <1>2, <1>3, FS_Subset, FS_CardinalityType
<1>5. Cardinality(T) = Cardinality(S(j))
  <2> DEFINE f == [k \in S(j) |-> K(k)]
  <2>1. NomineeKeys(h, a) = {K(k) : k \in N}
    BY NomineeKeysAre
  <2>2. \A k \in S(j) : f[k] \in T
    <3>1. TAKE k \in S(j)
    <3>2. k \in N /\ K(k) > K(j)
      BY <1>2, <1>3
    <3>3. f[k] = K(k)
      BY Zenon
    <3> HIDE DEF K, N, S, f
    <3> QED BY <2>1, <3>2, <3>3
  <2>3. \A x \in S(j) : \A y \in S(j) : f[x] = f[y] => x = y
    <3>1. \A x \in S(j) : x \in N /\ f[x] = K(x)
      BY <1>2, <1>3
    <3>2. \A x \in N : \A y \in N : K(x) = K(y) => x = y
      BY ClusterKeyInjective
    <3> HIDE DEF K, N, S, f
    <3> QED BY <3>1, <3>2
  <2>4. \A t \in T : \E x \in S(j) : f[x] = t
    <3>1. TAKE t \in T
    <3>2. PICK k \in N : t = K(k) /\ K(k) > K(j)
      <4> HIDE DEF K, N
      <4> QED BY <2>1
    <3>3. k \in S(j)
      BY <1>2, <3>2
    <3> QED BY <3>2, <3>3
  <2>5. f \in [S(j) -> T]
    <3>1. f = [k \in S(j) |-> f[k]]
      OBVIOUS
    <3> HIDE DEF f
    <3> QED BY <2>2, <3>1
  <2>6. IsFiniteSet(S(j))
    BY <1>2, <1>4
  <2> HIDE DEF f, S, T
  <2> QED BY <2>3, <2>4, <2>5, <2>6, SameSize
<1>6. Cardinality(S(j)) < Cardinality(N)
  <2>1. /\ Cardinality(S(j)) <= Cardinality(N)
        /\ Cardinality(N) = Cardinality(S(j)) => N = S(j)
        /\ Cardinality(N) \in Nat
    <3> HIDE DEF K, N, S
    <3> QED BY <1>2, <1>3, FS_Subset, FS_CardinalityType
  <2>2. N # S(j)
    BY <1>2, <1>3
  <2>3. Cardinality(S(j)) \in Nat
    BY <1>2, <1>4
  <2> HIDE DEF N, S
  <2> QED BY <2>1, <2>2, <2>3
<1>7. ASSUME NEW k \in N, K(k) > K(j) PROVE Cardinality(S(k)) < Cardinality(S(j))
  <2>1. S(k) \subseteq S(j) /\ k \in S(j) /\ k \notin S(k)
    <3>1. k \in Cluster /\ j \in Cluster
      BY <1>2
    <3>2. \A i \in Cluster : K(i) > K(k) => K(i) > K(j)
      <4> HIDE DEF K
      <4> QED BY <1>1, <1>7, <3>1
    <3>3. k \notin S(k)
      BY <1>3
    <3> HIDE DEF K
    <3> QED BY <1>7, <3>1, <3>2, <3>3
  <2>2. /\ Cardinality(S(k)) <= Cardinality(S(j))
        /\ Cardinality(S(j)) = Cardinality(S(k)) => S(j) = S(k)
    <3>1. IsFiniteSet(S(j))
      BY <1>2, <1>4
    <3> HIDE DEF S
    <3> QED BY <2>1, <3>1, FS_Subset
  <2>3. Cardinality(S(j)) \in Nat /\ Cardinality(S(k)) \in Nat /\ S(j) # S(k)
    BY <1>2, <1>4, <2>1
  <2> HIDE DEF S
  <2> QED BY <2>2, <2>3
<1>8. \A i \in Cluster : KeyRank(h, a, i) = Cardinality(S(i))
  BY DEF KeyRank
<1>9. Cardinality(S(j)) \in Nat /\ j \in Cluster
  BY <1>2, <1>4
<1> HIDE DEF S
<1> QED BY <1>2, <1>5, <1>6, <1>7, <1>8, <1>9

(* A mover's nominee is one of its members; it goes to an empty cluster,   *)
(* and no two go to the same.                                              *)
LEMMA MoversAre ==
  ASSUME NEW h \in Inputs, NEW a \in [Context -> Cluster], NEW j \in Movers(h, a)
  PROVE  /\ j \in Cluster /\ j \in Nominating(h, a) /\ j \notin Vacant(h, a)
         /\ Moved(h, a, j) \in Members(h, a, j)
         /\ Target(h, a, j) \in Vacant(h, a)
         /\ \A k \in Movers(h, a) : Target(h, a, k) = Target(h, a, j) => k = j
<1>1. /\ j \in Nominating(h, a) /\ j \in Cluster /\ Members(h, a, j) # {}
      /\ j \notin Vacant(h, a)
  BY NominatingAre DEF Movers
<1>2. Moved(h, a, j) \in Members(h, a, j)
  BY <1>1, ClusterKeyIs
<1>3. \A k \in Movers(h, a) :
        /\ k \in Nominating(h, a)
        /\ KeyRank(h, a, k) \in 0 .. Cardinality(Vacant(h, a)) - 1
  <2>1. TAKE k \in Movers(h, a)
  <2>2. k \in Nominating(h, a) /\ KeyRank(h, a, k) < Cardinality(Vacant(h, a))
    BY DEF Movers
  <2>3. KeyRank(h, a, k) \in Nat /\ Cardinality(Vacant(h, a)) \in Nat
    BY <2>2, KeyRankIs, NominatingAre, FS_CardinalityType
  <2> QED BY <2>2, <2>3
<1>4. \A k \in Movers(h, a) :
        /\ Target(h, a, k) \in Vacant(h, a)
        /\ Cardinality(Below(Vacant(h, a), Target(h, a, k))) = KeyRank(h, a, k)
  BY <1>3, NominatingAre, NthIs DEF Target
<1>5. ASSUME NEW k \in Movers(h, a), Target(h, a, k) = Target(h, a, j) PROVE k = j
  <2>1. KeyRank(h, a, k) = KeyRank(h, a, j) /\ KeyRank(h, a, k) \in Nat
    BY <1>3, <1>4, <1>5
  <2>2. k \in Nominating(h, a) /\ j \in Nominating(h, a)
    BY <1>3
  <2>3. /\ ~ (ClusterKey(h, a, k) > ClusterKey(h, a, j))
        /\ ~ (ClusterKey(h, a, j) > ClusterKey(h, a, k))
    <3>1. /\ ClusterKey(h, a, k) > ClusterKey(h, a, j) => KeyRank(h, a, k) < KeyRank(h, a, j)
          /\ ClusterKey(h, a, j) > ClusterKey(h, a, k) => KeyRank(h, a, j) < KeyRank(h, a, k)
      BY <2>2, KeyRankIs
    <3> QED BY <2>1, <3>1
  <2>4. ClusterKey(h, a, k) \in Nat /\ ClusterKey(h, a, j) \in Nat
    BY <2>2, ClusterKeyIs DEF Nominating
  <2>5. ClusterKey(h, a, k) = ClusterKey(h, a, j)
    BY <2>3, <2>4
  <2> QED BY <2>2, <2>5, ClusterKeyInjective
<1> QED BY <1>1, <1>2, <1>4, <1>5

(* What the reference's refill does: the movers' nominees go to their      *)
(* targets, and nothing else moves.                                        *)
LEMMA RefillReferenceIs ==
  ASSUME NEW h \in Inputs, NEW a \in [Context -> Cluster]
  PROVE  /\ RefillReference(h)[a] \in [Context -> Cluster]
         /\ \A c \in Context :
              (\A j \in Movers(h, a) : Moved(h, a, j) # c) => RefillReference(h)[a][c] = a[c]
         /\ \A j \in Movers(h, a) : RefillReference(h)[a][Moved(h, a, j)] = Target(h, a, j)
<1> DEFINE keys == NomineeKeys(h, a)
           rank(k) == Cardinality({l \in keys : l > k})
           moved == {k \in keys : rank(k) < Cardinality(Vacant(h, a))}
           target(k) == Nth(Vacant(h, a), rank(k))
           R == [c \in Context |->
                   IF \E k \in moved : RefillKeyContext(k) = c
                   THEN target(CHOOSE k \in moved : RefillKeyContext(k) = c)
                   ELSE a[c]]
<1>1. RefillReference(h)[a] = R
  BY TabulatedIs DEF RefillReference, Vacant
<1>2. \A j \in Nominating(h, a) : KeyRank(h, a, j) = rank(ClusterKey(h, a, j))
  BY KeyRankIs
<1>3. keys = {ClusterKey(h, a, j) : j \in Nominating(h, a)}
  BY NomineeKeysAre
<1>4. \A j \in Movers(h, a) : ClusterKey(h, a, j) \in moved
  <2>1. TAKE j \in Movers(h, a)
  <2>2. j \in Nominating(h, a) /\ KeyRank(h, a, j) < Cardinality(Vacant(h, a))
    BY DEF Movers
  <2> HIDE DEF rank, keys
  <2> QED BY <1>2, <1>3, <2>2
<1>5. \A k \in moved : \E j \in Movers(h, a) : k = ClusterKey(h, a, j)
  <2>1. TAKE k \in moved
  <2>2. PICK j \in Nominating(h, a) : k = ClusterKey(h, a, j)
    <3> HIDE DEF rank, keys
    <3> QED BY <1>3
  <2>3. j \in Movers(h, a)
    <3> HIDE DEF rank, keys
    <3> QED BY <1>2, <2>2 DEF Movers
  <2> QED BY <2>2, <2>3
<1>6. \A k \in moved : \A l \in moved : RefillKeyContext(k) = RefillKeyContext(l) => k = l
  <2>1. ASSUME NEW k \in moved, NEW l \in moved, RefillKeyContext(k) = RefillKeyContext(l)
        PROVE  k = l
    <3>1. PICK i \in Movers(h, a) : k = ClusterKey(h, a, i)
      BY <1>5
    <3>2. PICK j \in Movers(h, a) : l = ClusterKey(h, a, j)
      BY <1>5
    <3>3. Moved(h, a, i) = Moved(h, a, j)
      BY <2>1, <3>1, <3>2 DEF Moved
    <3>4. Moved(h, a, i) \in Members(h, a, i) /\ Moved(h, a, j) \in Members(h, a, j)
      BY MoversAre
    <3>5. i = j
      BY <3>3, <3>4 DEF Members
    <3> QED BY <3>1, <3>2, <3>5
  <2> QED BY <2>1
<1>7. ASSUME NEW j \in Movers(h, a)
      PROVE  R[Moved(h, a, j)] = Target(h, a, j) /\ Moved(h, a, j) \in Context
  <2> DEFINE k == ClusterKey(h, a, j)
             c == Moved(h, a, j)
  <2>1. k \in moved /\ RefillKeyContext(k) = c
    BY <1>4 DEF Moved
  <2>2. c \in Context
    BY MoversAre, ActiveIs DEF Members
  <2>3. (CHOOSE l \in moved : RefillKeyContext(l) = c) = k
    <3> HIDE DEF moved, k, c
    <3> QED BY <1>6, <2>1, Zenon
  <2>4. target(k) = Target(h, a, j)
    <3>1. j \in Nominating(h, a)
      BY MoversAre
    <3>2. rank(k) = KeyRank(h, a, j)
      BY <1>2, <3>1
    <3> HIDE DEF rank
    <3> QED BY <3>2 DEF Target
  <2>5. R[c] = target(CHOOSE l \in moved : RefillKeyContext(l) = c)
    <3> HIDE DEF moved, k, c, target
    <3> QED BY <2>1, <2>2, Zenon
  <2> QED BY <2>2, <2>3, <2>4, <2>5, Zenon
<1>8. ASSUME NEW c \in Context, \A j \in Movers(h, a) : Moved(h, a, j) # c
      PROVE  R[c] = a[c]
  <2>1. ~ \E k \in moved : RefillKeyContext(k) = c
    BY <1>5, <1>8 DEF Moved
  <2> HIDE DEF moved, target
  <2> QED BY <2>1, Zenon
<1>9. R \in [Context -> Cluster]
  <2>1. \A c \in Context : R[c] \in Cluster
    <3>1. TAKE c \in Context
    <3>2. CASE \E j \in Movers(h, a) : Moved(h, a, j) = c
      <4>1. PICK j \in Movers(h, a) : Moved(h, a, j) = c
        BY <3>2
      <4>2. R[c] = Target(h, a, j)
        <5> HIDE DEF R
        <5> QED BY <1>7, <4>1
      <4>3. Target(h, a, j) \in Cluster
        BY MoversAre, NominatingAre
      <4> QED BY <4>2, <4>3
    <3>3. CASE ~ \E j \in Movers(h, a) : Moved(h, a, j) = c
      <4>1. R[c] = a[c]
        <5> HIDE DEF R
        <5> QED BY <1>8, <3>3
      <4> QED BY <4>1
    <3> QED BY <3>2, <3>3
  <2>2. R = [c \in Context |-> R[c]]
    <3> HIDE DEF moved, target
    <3> QED OBVIOUS
  <2> HIDE DEF R
  <2> QED BY <2>1, <2>2
<1> HIDE DEF R
<1> QED BY <1>1, <1>7, <1>8, <1>9

(* The histogram of one context is its own, and removing a context from a  *)
(* set takes its bins off the histogram.                                   *)
LEMMA SumOfChanges ==
  ASSUME NEW h \in Inputs, NEW T \in SUBSET Context, NEW c \in Context
  PROVE  /\ SumOf(h, {c}) = h[c]
         /\ c \in T => SumOf(h, T \ {c}) = [s \in Symbol |-> SumOf(h, T)[s] - h[c][s]]
         /\ c \notin T => SumOf(h, T \cup {c}) = Add(SumOf(h, T), h[c])
<1> DEFINE Bins(s) == [d \in Context |-> h[d][s]]
<1>1. h \in [Context -> [Symbol -> Nat]]
  BY TokensAssumption
<1>2. \A s \in Symbol : \A d \in Context : Bins(s)[d] \in Nat /\ Bins(s)[d] = h[d][s]
  BY <1>1
<1>3. \A U : SumOf(h, U) = [s \in Symbol |-> SumFunctionOnSet(Bins(s), U)]
  BY DEF SumOf
<1>4. \A U \in SUBSET Context : IsFiniteSet(U)
  BY FS_Subset, DomainsFinite
<1> HIDE DEF Bins
<1>5. SumOf(h, {c}) = h[c]
  <2>1. ASSUME NEW s \in Symbol PROVE SumFunctionOnSet(Bins(s), {c}) = h[c][s]
    <3>1. SumFunctionOnSet(Bins(s), {c}) = Bins(s)[c] + SumFunctionOnSet(Bins(s), {c} \ {c})
      <4>1. IsFiniteSet({c})
        BY FS_Singleton
      <4>2. c \in {c} /\ \A y \in {c} : Bins(s)[y] \in Int
        BY <1>2
      <4> QED BY <4>1, <4>2, SumRemove
    <3>2. {c} \ {c} = {}
      OBVIOUS
    <3>3. SumFunctionOnSet(Bins(s), {c} \ {c}) = 0
      BY <3>2, SumEmpty
    <3> QED BY <1>2, <3>1, <3>3
  <2>2. h[c] = [s \in Symbol |-> h[c][s]]
    BY <1>1
  <2>3. SumOf(h, {c}) = [s \in Symbol |-> SumFunctionOnSet(Bins(s), {c})]
    BY <1>3
  <2> QED BY <2>1, <2>2, <2>3
<1>6. ASSUME c \in T PROVE SumOf(h, T \ {c}) = [s \in Symbol |-> SumOf(h, T)[s] - h[c][s]]
  <2> DEFINE U == T \ {c}
  <2>1. ASSUME NEW s \in Symbol
        PROVE  SumFunctionOnSet(Bins(s), U) = SumOf(h, T)[s] - h[c][s]
    <3>1. SumFunctionOnSet(Bins(s), T) = Bins(s)[c] + SumFunctionOnSet(Bins(s), U)
      <4>1. IsFiniteSet(T) /\ c \in T /\ \A y \in T : Bins(s)[y] \in Int
        BY <1>2, <1>4, <1>6
      <4> QED BY <4>1, SumRemove
    <3>2. SumFunctionOnSet(Bins(s), U) \in Nat
      BY <1>2, <1>4, SumNat
    <3>3. SumOf(h, T)[s] = SumFunctionOnSet(Bins(s), T)
      BY <1>3
    <3> QED BY <1>2, <3>1, <3>2, <3>3
  <2> HIDE DEF U
  <2>2. SumOf(h, U) = [s \in Symbol |-> SumFunctionOnSet(Bins(s), U)]
    BY <1>3
  <2>3. SumOf(h, U) = [s \in Symbol |-> SumOf(h, T)[s] - h[c][s]]
    BY <2>1, <2>2
  <2> QED BY <2>3 DEF U
<1>7. ASSUME c \notin T PROVE SumOf(h, T \cup {c}) = Add(SumOf(h, T), h[c])
  <2> DEFINE U == T \cup {c}
  <2>1. ASSUME NEW s \in Symbol
        PROVE  SumFunctionOnSet(Bins(s), U) = SumOf(h, T)[s] + h[c][s]
    <3>1. \A d \in T \cup {c} : Bins(s)[d] \in Int
      BY <1>2
    <3>2. SumFunctionOnSet(Bins(s), U) = SumFunctionOnSet(Bins(s), T) + Bins(s)[c]
      BY <1>4, <1>7, <3>1, SumAdd
    <3>3. SumOf(h, T)[s] = SumFunctionOnSet(Bins(s), T)
      BY <1>3
    <3> QED BY <1>2, <3>2, <3>3
  <2> HIDE DEF U
  <2>2. SumOf(h, U) = [s \in Symbol |-> SumFunctionOnSet(Bins(s), U)]
    BY <1>3
  <2>3. SumOf(h, U) = [s \in Symbol |-> SumOf(h, T)[s] + h[c][s]]
    BY <2>1, <2>2
  <2> QED BY <2>3 DEF U, Add
<1> QED BY <1>5, <1>6, <1>7

(* After the refill: a target has its mover's nominee alone, a mover has   *)
(* its members without the nominee, and the others have their members.     *)
LEMMA RefilledHistograms ==
  ASSUME NEW h \in Inputs, NEW a \in [Context -> Cluster]
  PROVE  /\ \A m \in Movers(h, a) :
              ClusterHistograms(h, RefillReference(h)[a])[Target(h, a, m)] = h[Moved(h, a, m)]
         /\ \A m \in Movers(h, a) :
              ClusterHistograms(h, RefillReference(h)[a])[m] =
                [s \in Symbol |-> ClusterHistograms(h, a)[m][s] - h[Moved(h, a, m)][s]]
         /\ \A k \in Cluster :
              k \notin Movers(h, a) /\ (\A m \in Movers(h, a) : Target(h, a, m) # k) =>
                ClusterHistograms(h, RefillReference(h)[a])[k] = ClusterHistograms(h, a)[k]
<1> DEFINE R == RefillReference(h)[a]
<1>1. /\ R \in [Context -> Cluster]
      /\ \A c \in Context : (\A j \in Movers(h, a) : Moved(h, a, j) # c) => R[c] = a[c]
      /\ \A j \in Movers(h, a) : R[Moved(h, a, j)] = Target(h, a, j)
  BY RefillReferenceIs
<1>2. \A j \in Movers(h, a) :
        /\ j \in Cluster /\ j \notin Vacant(h, a)
        /\ Moved(h, a, j) \in Active(h) /\ Moved(h, a, j) \in Context /\ a[Moved(h, a, j)] = j
        /\ Target(h, a, j) \in Vacant(h, a) /\ Target(h, a, j) \in Cluster
        /\ \A k \in Movers(h, a) : Target(h, a, k) = Target(h, a, j) => k = j
  BY MoversAre, NominatingAre, ActiveIs DEF Members
<1>3. \A c \in Active(h) : c \in Context /\ a[c] \in Cluster /\ a[c] \notin Vacant(h, a)
  BY NominatingAre, ActiveIs DEF Members
<1>4. \A k \in Cluster : /\ ClusterHistograms(h, R)[k] = SumOf(h, Members(h, R, k))
                         /\ ClusterHistograms(h, a)[k] = SumOf(h, Members(h, a, k))
  BY ClusterHistogramsAre
<1> HIDE DEF R
<1>5. ASSUME NEW m \in Movers(h, a)
      PROVE  ClusterHistograms(h, R)[Target(h, a, m)] = h[Moved(h, a, m)]
  <2>1. Members(h, R, Target(h, a, m)) = {Moved(h, a, m)}
    <3>1. ASSUME NEW c \in Active(h), R[c] = Target(h, a, m) PROVE c = Moved(h, a, m)
      <4>1. R[c] # a[c]
        BY <1>2, <1>3, <3>1
      <4>2. PICK j \in Movers(h, a) : Moved(h, a, j) = c
        BY <1>1, <1>3, <4>1
      <4>3. j = m
        BY <1>1, <1>2, <3>1, <4>2
      <4> QED BY <4>2, <4>3
    <3>2. Moved(h, a, m) \in Active(h) /\ R[Moved(h, a, m)] = Target(h, a, m)
      BY <1>1, <1>2
    <3> QED BY <3>1, <3>2 DEF Members
  <2>2. Moved(h, a, m) \in Context /\ Target(h, a, m) \in Cluster
    BY <1>2
  <2>3. SumOf(h, {Moved(h, a, m)}) = h[Moved(h, a, m)]
    BY <2>2, SumOfChanges
  <2> QED BY <1>4, <2>1, <2>2, <2>3
<1>6. ASSUME NEW m \in Movers(h, a)
      PROVE  ClusterHistograms(h, R)[m] =
               [s \in Symbol |-> ClusterHistograms(h, a)[m][s] - h[Moved(h, a, m)][s]]
  <2>1. Members(h, R, m) = Members(h, a, m) \ {Moved(h, a, m)}
    <3>1. ASSUME NEW c \in Active(h)
          PROVE  R[c] = m <=> a[c] = m /\ c # Moved(h, a, m)
      <4>1. CASE \E j \in Movers(h, a) : Moved(h, a, j) = c
        <5>1. PICK j \in Movers(h, a) : Moved(h, a, j) = c
          BY <4>1
        <5>2. R[c] # m
          BY <1>1, <1>2, <5>1
        <5>3. a[c] = m => c = Moved(h, a, m)
          BY <1>2, <5>1
        <5> QED BY <5>2, <5>3
      <4>2. CASE ~ \E j \in Movers(h, a) : Moved(h, a, j) = c
        BY <1>1, <1>3, <4>2
      <4> QED BY <4>1, <4>2
    <3> QED BY <3>1 DEF Members
  <2>2. Moved(h, a, m) \in Members(h, a, m) /\ Members(h, a, m) \in SUBSET Context
    BY <1>2, ActiveIs DEF Members
  <2>3. Moved(h, a, m) \in Context /\ m \in Cluster
    BY <1>2
  <2>4. ASSUME NEW T \in SUBSET Context, NEW c \in T
        PROVE  SumOf(h, T \ {c}) = [s \in Symbol |-> SumOf(h, T)[s] - h[c][s]]
    <3>1. c \in Context
      OBVIOUS
    <3> QED BY <3>1, SumOfChanges
  <2>5. SumOf(h, Members(h, a, m) \ {Moved(h, a, m)}) =
          [s \in Symbol |-> SumOf(h, Members(h, a, m))[s] - h[Moved(h, a, m)][s]]
    BY <2>2, <2>4
  <2> QED BY <1>4, <2>1, <2>3, <2>5
<1>7. ASSUME NEW k \in Cluster, k \notin Movers(h, a),
             \A m \in Movers(h, a) : Target(h, a, m) # k
      PROVE  ClusterHistograms(h, R)[k] = ClusterHistograms(h, a)[k]
  <2>1. Members(h, R, k) = Members(h, a, k)
    <3>1. ASSUME NEW c \in Active(h) PROVE R[c] = k <=> a[c] = k
      <4>1. CASE \E j \in Movers(h, a) : Moved(h, a, j) = c
        BY <1>1, <1>2, <1>7, <4>1
      <4>2. CASE ~ \E j \in Movers(h, a) : Moved(h, a, j) = c
        BY <1>1, <1>3, <4>2
      <4> QED BY <4>1, <4>2
    <3> QED BY <3>1 DEF Members
  <2> QED BY <1>4, <2>1
<1> QED BY <1>5, <1>6, <1>7 DEF R

---------------------------------------------------------------------------
(* The reference: the iterations.                                          *)

Refilled(h, i, a) == IF i = RefillIteration THEN RefillReference(h)[a] ELSE a

(* f has the assignments of the first n iterations. *)
Iterated(f, h, n) == /\ f \in [0 .. n -> [Context -> Cluster]]
                     /\ f[0] = InitialCluster
                     /\ \A i \in 1 .. n : f[i] = Reassigned(h)[Refilled(h, i - 1, f[i - 1])]

(* An iteration makes an assignment of an assignment. *)
LEMMA ReassignedIs ==
  ASSUME NEW h \in Inputs, NEW a \in [Context -> Cluster]
  PROVE  /\ Reassigned(h)[a] \in [Context -> Cluster]
         /\ \A c \in Active(h) : Reassigned(h)[a][c] =
                                   Cheapest(h[c], ClusterHistograms(h, a), Alphabet(h))
<1> DEFINE R == [c \in Context |-> IF c \in Active(h)
                                   THEN Cheapest(h[c], ClusterHistograms(h, a), Alphabet(h))
                                   ELSE a[c]]
<1>1. Reassigned(h)[a] = R
  BY TabulatedIs DEF Reassigned
<1>2. \A c \in Active(h) : c \in Context /\ Cheapest(h[c], ClusterHistograms(h, a), Alphabet(h)) \in Cluster
  BY CheapestIn, ActiveIs
<1> QED BY <1>1, <1>2

(* A refilled assignment is an assignment. *)
LEMMA RefilledIs ==
  ASSUME NEW h \in Inputs, NEW i, NEW a \in [Context -> Cluster]
  PROVE  Refilled(h, i, a) \in [Context -> Cluster]
BY RefillReferenceIs DEF Refilled

(* The first iterations can be made, however many. *)
LEMMA IteratedExists ==
  ASSUME NEW h \in Inputs
  PROVE  \A n \in Nat : \E f : Iterated(f, h, n)
<1> DEFINE Bad == {n \in Nat : ~ \E f : Iterated(f, h, n)}
<1>1. SUFFICES ASSUME Bad # {} PROVE FALSE
  OBVIOUS
<1>2. PICK m \in Bad : \A n \in Bad : m <= n
  BY <1>1, Least
<1>3. m # 0
  <2>1. Iterated([i \in 0 .. 0 |-> InitialCluster], h, 0)
    BY ClusteringAssumption DEF Iterated
  <2> QED BY <2>1
<1>4. m \in Nat /\ m >= 1 /\ m - 1 \in Nat /\ m - 1 \notin Bad
  BY <1>2, <1>3
<1>5. PICK f : Iterated(f, h, m - 1)
  BY <1>4
<1> DEFINE new == Reassigned(h)[Refilled(h, m - 1, f[m - 1])]
           longer == [i \in 0 .. m |-> IF i = m THEN new ELSE f[i]]
<1>6. f \in [0 .. m - 1 -> [Context -> Cluster]] /\ f[0] = InitialCluster
  BY <1>5 DEF Iterated
<1>7. new \in [Context -> Cluster]
  <2>1. f[m - 1] \in [Context -> Cluster]
    BY <1>4, <1>6
  <2> QED BY <2>1, RefilledIs, ReassignedIs
<1>8. longer \in [0 .. m -> [Context -> Cluster]] /\ longer[0] = InitialCluster
  <2> HIDE DEF new
  <2> QED BY <1>4, <1>6, <1>7
<1>9. ASSUME NEW i \in 1 .. m
      PROVE  longer[i] = Reassigned(h)[Refilled(h, i - 1, longer[i - 1])]
  <2>1. i \in 0 .. m /\ i - 1 \in 0 .. m /\ i - 1 # m
    BY <1>4
  <2>2. longer[i - 1] = f[i - 1]
    BY <2>1
  <2>3. CASE i = m
    BY <2>1, <2>2, <2>3
  <2>4. CASE i # m
    <3>1. i \in 1 .. m - 1
      BY <1>4, <2>4
    <3>2. longer[i] = f[i]
      BY <2>1, <2>4
    <3>3. f[i] = Reassigned(h)[Refilled(h, i - 1, f[i - 1])]
      BY <1>5, <3>1 DEF Iterated
    <3> QED BY <2>2, <3>2, <3>3
  <2> QED BY <2>3, <2>4
<1>10. Iterated(longer, h, m)
  <2> HIDE DEF longer
  <2> QED BY <1>8, <1>9 DEF Iterated
<1> QED BY <1>2, <1>10

Asg(h, i) == LloydReference(h)[i]

(* The reference's assignments are what its definition says. *)
LEMMA AssignmentsAre ==
  ASSUME NEW h \in Inputs
  PROVE  /\ \A i \in 0 .. Iterations : Asg(h, i) \in [Context -> Cluster]
         /\ Asg(h, 0) = InitialCluster
         /\ \A i \in 0 .. Iterations - 1 : \A c \in Active(h) :
              Asg(h, i + 1)[c] =
                Cheapest(h[c], ClusterHistograms(h, Refilled(h, i, Asg(h, i))), Alphabet(h))
<1> DEFINE Equation(f) == f = [i \in 0 .. Iterations |->
             IF i = 0 THEN InitialCluster
             ELSE Reassigned(h)[IF i - 1 = RefillIteration THEN RefillReference(h)[f[i - 1]]
                                ELSE f[i - 1]]]
<1>0. Iterations \in Nat
  BY ClusteringAssumption
<1>1. PICK f : Iterated(f, h, Iterations)
  BY <1>0, IteratedExists
<1>2. Equation(f)
  <2>1. \A i \in 0 .. Iterations :
          f[i] = IF i = 0 THEN InitialCluster
                 ELSE Reassigned(h)[IF i - 1 = RefillIteration THEN RefillReference(h)[f[i - 1]]
                                    ELSE f[i - 1]]
    BY <1>0, <1>1 DEF Iterated, Refilled
  <2>2. f = [i \in 0 .. Iterations |-> f[i]]
    BY <1>1 DEF Iterated
  <2> QED BY <2>1, <2>2
<1>3. LloydReference(h) = CHOOSE g : Equation(g)
  BY Zenon DEF LloydReference
<1>4. Equation(LloydReference(h))
  <2> HIDE DEF Equation
  <2> QED BY <1>2, <1>3, Zenon
<1>5. /\ Asg(h, 0) = InitialCluster
      /\ \A i \in 1 .. Iterations : Asg(h, i) = Reassigned(h)[Refilled(h, i - 1, Asg(h, i - 1))]
  <2> DEFINE L == LloydReference(h)
  <2>1. L = [i \in 0 .. Iterations |->
               IF i = 0 THEN InitialCluster
               ELSE Reassigned(h)[IF i - 1 = RefillIteration THEN RefillReference(h)[L[i - 1]]
                                  ELSE L[i - 1]]]
    BY <1>4, Zenon
  <2> HIDE DEF L
  <2>2. L[0] = InitialCluster
    BY <1>0, <2>1
  <2>3. ASSUME NEW i \in 1 .. Iterations
        PROVE  L[i] = Reassigned(h)[Refilled(h, i - 1, L[i - 1])]
    <3>1. i \in 0 .. Iterations /\ i # 0
      OBVIOUS
    <3> QED BY <2>1, <3>1 DEF Refilled
  <2> QED BY <2>2, <2>3 DEF Asg, L
<1> DEFINE Bad == {i \in 0 .. Iterations : Asg(h, i) \notin [Context -> Cluster]}
<1>6. Bad = {}
  <2>1. SUFFICES ASSUME Bad # {} PROVE FALSE
    OBVIOUS
  <2>2. PICK m \in Bad : \A n \in Bad : m <= n
    <3>1. Bad \subseteq Nat
      BY <1>0
    <3> QED BY <2>1, <3>1, Least
  <2>3. m # 0
    BY <1>5, <2>2, ClusteringAssumption
  <2>4. m \in 1 .. Iterations /\ m - 1 \in 0 .. Iterations /\ m - 1 \notin Bad
    BY <1>0, <2>2, <2>3
  <2>5. Asg(h, m) = Reassigned(h)[Refilled(h, m - 1, Asg(h, m - 1))]
    BY <1>5, <2>4
  <2>6. Asg(h, m - 1) \in [Context -> Cluster]
    BY <2>4
  <2>7. Asg(h, m) \in [Context -> Cluster]
    BY <2>5, <2>6, RefilledIs, ReassignedIs
  <2> QED BY <2>2, <2>7
<1>7. ASSUME NEW i \in 0 .. Iterations - 1, NEW c \in Active(h)
      PROVE  Asg(h, i + 1)[c] =
               Cheapest(h[c], ClusterHistograms(h, Refilled(h, i, Asg(h, i))), Alphabet(h))
  <2>1. i + 1 \in 1 .. Iterations /\ (i + 1) - 1 = i /\ i \in 0 .. Iterations
    BY <1>0
  <2>2. Asg(h, i + 1) = Reassigned(h)[Refilled(h, i, Asg(h, i))]
    BY <1>5, <2>1
  <2>3. Refilled(h, i, Asg(h, i)) \in [Context -> Cluster]
    BY <1>6, <2>1, RefilledIs
  <2> QED BY <2>2, <2>3, ReassignedIs
<1> QED BY <1>5, <1>6, <1>7

---------------------------------------------------------------------------
(* The device: the refill in the block's copy of the clusters.             *)

(* With the reference's clusters and every nominee's key, the moves are    *)
(* the reference's.                                                        *)
LEMMA MovesAre ==
  ASSUME NEW h \in Inputs, NEW a \in [Context -> Cluster], NEW b \in Block,
         counts[b] = ClusterHistograms(h, a),
         refill_keys = [j \in Cluster |-> ClusterKey(h, a, j)]
  PROVE  Moves(b) = {[from |-> j, to |-> Target(h, a, j), context |-> Moved(h, a, j)] :
                       j \in Movers(h, a)}
<1> DEFINE empty    == EmptyClusters(counts[b])
           nominees == {j \in Cluster : refill_keys[j] # 0}
           rank(j)  == Cardinality({k \in Cluster : refill_keys[k] > refill_keys[j]})
           moves    == Min({Cardinality(nominees), Cardinality(empty)})
           movers   == {j \in nominees : rank(j) < moves}
           move(j)  == [from |-> j, to |-> Nth(empty, rank(j)),
                        context |-> RefillKeyContext(refill_keys[j])]
<1>1. empty = Vacant(h, a)
  BY DEF Vacant
<1>2. nominees = Nominating(h, a)
  BY DEF Nominating
<1>3. \A j \in Cluster : rank(j) = KeyRank(h, a, j) /\ refill_keys[j] = ClusterKey(h, a, j)
  BY DEF KeyRank
<1>4. nominees \subseteq Cluster
  OBVIOUS
<1>5. \A j \in nominees : move(j) = [from |-> j, to |-> Target(h, a, j), context |-> Moved(h, a, j)]
  <2> HIDE DEF empty, nominees, rank
  <2> QED BY <1>1, <1>3, <1>4 DEF Target, Moved
<1>6. movers = Movers(h, a)
  <2>1. Cardinality(nominees) \in Nat /\ Cardinality(empty) \in Nat
    <3> HIDE DEF empty, nominees
    <3> QED BY <1>1, <1>2, NominatingAre, FS_CardinalityType
  <2>2. moves \in {Cardinality(nominees), Cardinality(empty)}
        /\ moves <= Cardinality(nominees) /\ moves <= Cardinality(empty)
    <3> DEFINE S == {Cardinality(nominees), Cardinality(empty)}
    <3>1. IsFiniteSet(S)
      <4>1. IsFiniteSet({Cardinality(nominees)} \cup {Cardinality(empty)})
        <5>1. IsFiniteSet({Cardinality(nominees)})
          BY FS_Singleton
        <5> HIDE DEF nominees, empty
        <5> QED BY <5>1, FS_AddElement
      <4>2. {Cardinality(nominees)} \cup {Cardinality(empty)} = S
        OBVIOUS
      <4> QED BY <4>1, <4>2, Zenon
    <3>2. S # {} /\ S \subseteq Int /\ Cardinality(nominees) \in S /\ Cardinality(empty) \in S
      <4> HIDE DEF empty, nominees
      <4> QED BY <2>1
    <3>3. Min(S) \in S /\ \A y \in S : Min(S) <= y
      <4> HIDE DEF S
      <4> QED BY <3>1, <3>2, MinIs
    <3> HIDE DEF empty, nominees
    <3> QED BY <3>2, <3>3
  <2>3. \A j \in nominees : rank(j) \in Nat /\ rank(j) < Cardinality(nominees)
    <3> HIDE DEF empty, nominees, rank
    <3> QED BY <1>2, <1>3, <1>4, KeyRankIs
  <2>4. \A j \in nominees : rank(j) < moves <=> rank(j) < Cardinality(empty)
    <3> HIDE DEF empty, nominees, rank, moves
    <3> QED BY <2>1, <2>2, <2>3
  <2> HIDE DEF empty, nominees, rank, moves
  <2> QED BY <1>1, <1>2, <1>3, <1>4, <2>4 DEF Movers
<1>7. Moves(b) = {move(j) : j \in movers}
  BY DEF Moves
<1>8. movers \subseteq nominees
  OBVIOUS
<1>9. \A j \in movers : move(j) = [from |-> j, to |-> Target(h, a, j), context |-> Moved(h, a, j)]
  <2> HIDE DEF move, movers, nominees
  <2> QED BY <1>5, <1>8
<1> HIDE DEF move, movers
<1> QED BY <1>6, <1>7, <1>9

(* A block's refilled copy has the histograms of the refilled assignment. *)
LEMMA RefillMakes ==
  ASSUME NEW h \in Inputs, NEW a \in [Context -> Cluster], NEW b \in Block,
         counts[b] = ClusterHistograms(h, a),
         refill_keys = [j \in Cluster |-> ClusterKey(h, a, j)]
  PROVE  [j \in Cluster |->
            IF \E m \in Moves(b) : m.to = j
            THEN h[(CHOOSE m \in Moves(b) : m.to = j).context]
            ELSE IF \E m \in Moves(b) : m.from = j
            THEN LET m == CHOOSE m \in Moves(b) : m.from = j
                 IN  [s \in Symbol |-> counts[b][j][s] - h[m.context][s]]
            ELSE counts[b][j]] = ClusterHistograms(h, RefillReference(h)[a])
<1> DEFINE R == ClusterHistograms(h, RefillReference(h)[a])
           move(j) == [from |-> j, to |-> Target(h, a, j), context |-> Moved(h, a, j)]
           to(j) == CHOOSE m \in Moves(b) : m.to = j
           from(j) == CHOOSE m \in Moves(b) : m.from = j
<1>1. Moves(b) = {move(j) : j \in Movers(h, a)}
  BY MovesAre
<1>2. \A j : move(j).from = j /\ move(j).to = Target(h, a, j) /\ move(j).context = Moved(h, a, j)
  OBVIOUS
<1> HIDE DEF move
<1>3. ASSUME NEW k \in Cluster
      PROVE  R[k] = IF \E m \in Moves(b) : m.to = k THEN h[to(k).context]
                    ELSE IF \E m \in Moves(b) : m.from = k
                    THEN [s \in Symbol |-> counts[b][k][s] - h[from(k).context][s]]
                    ELSE counts[b][k]
  <2>1. CASE \E m \in Moves(b) : m.to = k
    <3>1. to(k) \in Moves(b) /\ to(k).to = k
      BY <2>1
    <3>2. PICK j \in Movers(h, a) : to(k) = move(j)
      <4> HIDE DEF to
      <4> QED BY <1>1, <3>1
    <3>3. Target(h, a, j) = k /\ to(k).context = Moved(h, a, j)
      BY <1>2, <3>1, <3>2
    <3>4. R[k] = h[Moved(h, a, j)]
      BY <3>3, RefilledHistograms
    <3> HIDE DEF to
    <3> QED BY <2>1, <3>3, <3>4
  <2>2. CASE ~ (\E m \in Moves(b) : m.to = k) /\ \E m \in Moves(b) : m.from = k
    <3>1. from(k) \in Moves(b) /\ from(k).from = k
      BY <2>2
    <3>2. PICK j \in Movers(h, a) : from(k) = move(j)
      <4> HIDE DEF from
      <4> QED BY <1>1, <3>1
    <3> HIDE DEF to, from
    <3>3. j = k /\ from(k).context = Moved(h, a, k)
      <4>1. move(j).from = j /\ move(j).context = Moved(h, a, j)
        BY <1>2
      <4>2. move(j).from = k
        BY <3>1, <3>2
      <4>3. j = k
        BY <4>1, <4>2
      <4> QED BY <3>2, <4>1, <4>3
    <3>4. R[k] = [s \in Symbol |-> ClusterHistograms(h, a)[k][s] - h[Moved(h, a, k)][s]]
      BY <3>3, RefilledHistograms
    <3> QED BY <2>2, <3>3, <3>4
  <2>3. CASE ~ (\E m \in Moves(b) : m.to = k) /\ ~ (\E m \in Moves(b) : m.from = k)
    <3>1. k \notin Movers(h, a) /\ \A m \in Movers(h, a) : Target(h, a, m) # k
      BY <1>1, <1>2, <2>3
    <3>2. R[k] = ClusterHistograms(h, a)[k]
      BY <3>1, RefilledHistograms
    <3> HIDE DEF to, from
    <3> QED BY <2>3, <3>2
  <2> QED BY <2>1, <2>2, <2>3
<1>4. R = [k \in Cluster |-> R[k]]
  BY ClusterHistogramsAre
<1> HIDE DEF R
<1>5. R = [k \in Cluster |-> IF \E m \in Moves(b) : m.to = k THEN h[to(k).context]
                    ELSE IF \E m \in Moves(b) : m.from = k
                    THEN [s \in Symbol |-> counts[b][k][s] - h[from(k).context][s]]
                    ELSE counts[b][k]]
  <2> HIDE DEF to, from
  <2> QED BY <1>3, <1>4
<1> QED BY <1>5 DEF R

---------------------------------------------------------------------------
(* The device: the list of the contexts with tokens, and who works on them. *)

Position(h, c) == Cardinality(Below(Active(h), c))
Listing(h) == [n \in 1 .. Cardinality(Active(h)) |-> Nth(Active(h), n - 1)]
Dealt(h, b, stride) == {c \in Active(h) : (Position(h, c) \div stride) % NumBlocks = b}
Owner(h, c) == (Position(h, c) \div Warps) % NumBlocks
Nominator(h, c) == (Position(h, c) \div (Warps * WarpSize)) % NumBlocks
Writer(c) == (c \div (Warps * WarpSize)) % NumBlocks

(* The list has every context with tokens once, at its position.           *)
LEMMA ListingIs ==
  ASSUME NEW h \in Inputs
  PROVE  /\ Cardinality(Active(h)) \in Nat
         /\ \A c \in Active(h) : /\ Position(h, c) \in 0 .. Cardinality(Active(h)) - 1
                                 /\ Position(h, c) + 1 \in 1 .. Cardinality(Active(h))
                                 /\ Listing(h)[Position(h, c) + 1] = c
         /\ \A n \in 1 .. Cardinality(Active(h)) :
              Listing(h)[n] \in Active(h) /\ Position(h, Listing(h)[n]) = n - 1
<1> DEFINE A == Active(h)
<1>1. IsFiniteSet(A) /\ A \subseteq Int
  BY ActiveIs
<1>2. Cardinality(A) \in Nat
  BY <1>1, FS_CardinalityType
<1> HIDE DEF A
<1>3. ASSUME NEW c \in A
      PROVE  /\ Position(h, c) \in 0 .. Cardinality(A) - 1
             /\ Position(h, c) + 1 \in 1 .. Cardinality(A)
             /\ Listing(h)[Position(h, c) + 1] = c
  <2>1. Position(h, c) = Cardinality(Below(A, c))
    BY DEF Position, A
  <2>2. Cardinality(Below(A, c)) \in Nat /\ Cardinality(Below(A, c)) < Cardinality(A)
    BY <1>1, BelowFinite, BelowGrows
  <2>3. Position(h, c) + 1 \in 1 .. Cardinality(A) /\ (Position(h, c) + 1) - 1 = Position(h, c)
    BY <1>2, <2>1, <2>2
  <2>4. Listing(h)[Position(h, c) + 1] = Nth(A, Position(h, c))
    BY <2>3 DEF Listing, A
  <2>5. Nth(A, Cardinality(Below(A, c))) = c
    BY <1>1, NthOfPlace
  <2> QED BY <1>2, <2>1, <2>2, <2>3, <2>4, <2>5
<1>4. ASSUME NEW n \in 1 .. Cardinality(A)
      PROVE  Listing(h)[n] \in A /\ Position(h, Listing(h)[n]) = n - 1
  <2>1. n - 1 \in 0 .. Cardinality(A) - 1
    BY <1>2
  <2>2. Listing(h)[n] = Nth(A, n - 1)
    BY DEF Listing, A
  <2>3. Nth(A, n - 1) \in A /\ Cardinality(Below(A, Nth(A, n - 1))) = n - 1
    BY <1>1, <2>1, NthIs
  <2> QED BY <2>2, <2>3 DEF Position, A
<1> QED BY <1>2, <1>3, <1>4 DEF A

(* A block's share of the list are the contexts dealt to it.               *)
LEMMA ShareIs ==
  ASSUME NEW h \in Inputs, NEW b, NEW stride, active = Listing(h)
  PROVE  ShareOf(b, stride) = Dealt(h, b, stride)
<1>1. DOMAIN active = 1 .. Cardinality(Active(h))
  BY DEF Listing
<1>2. ASSUME NEW c \in ShareOf(b, stride) PROVE c \in Dealt(h, b, stride)
  <2>1. PICK n \in DOMAIN active : c = active[n] /\ ((n - 1) \div stride) % NumBlocks = b
    BY DEF ShareOf
  <2>2. c \in Active(h) /\ Position(h, c) = n - 1
    BY <1>1, <2>1, ListingIs
  <2> QED BY <2>1, <2>2 DEF Dealt
<1>3. ASSUME NEW c \in Dealt(h, b, stride) PROVE c \in ShareOf(b, stride)
  <2>1. c \in Active(h) /\ (Position(h, c) \div stride) % NumBlocks = b
    BY DEF Dealt
  <2> DEFINE n == Position(h, c) + 1
  <2>2. n \in DOMAIN active /\ active[n] = c /\ n - 1 = Position(h, c)
    BY <1>1, <2>1, ListingIs
  <2> HIDE DEF n
  <2> QED BY <2>1, <2>2 DEF ShareOf
<1> QED BY <1>2, <1>3

(* Every context with tokens has one owner and one nominator, and every    *)
(* context one writer.                                                     *)
LEMMA OwnersAre ==
  /\ \A h \in Inputs : \A c \in Active(h) :
       /\ Owner(h, c) \in Block /\ Nominator(h, c) \in Block
       /\ \A b : /\ c \in Dealt(h, b, Warps) <=> Owner(h, c) = b
                 /\ c \in Dealt(h, b, Warps * WarpSize) <=> Nominator(h, c) = b
  /\ \A c \in Context : Writer(c) \in Block
<1>1. /\ Warps \in Nat \ {0} /\ NumBlocks \in Nat \ {0} /\ WarpSize \in Nat \ {0}
  BY ClusteringAssumption
<1>2. Warps * WarpSize \in Nat \ {0}
  <2>1. \A m \in Nat, n \in Nat : m >= 1 /\ n >= 1 => m * n \in Nat /\ m * n >= 1
    BY SMT
  <2> QED BY <1>1, <2>1
<1>3. ASSUME NEW x \in Nat, NEW w \in Nat \ {0} PROVE (x \div w) % NumBlocks \in Block
  <2>1. x \div w \in Int
    BY SMT
  <2> HIDE DEF Block
  <2>2. \A y \in Int : y % NumBlocks \in Block
    BY <1>1 DEF Block
  <2> QED BY <2>1, <2>2
<1>4. ASSUME NEW h \in Inputs, NEW c \in Active(h)
      PROVE  Owner(h, c) \in Block /\ Nominator(h, c) \in Block
  <2>1. Position(h, c) \in Nat
    BY ListingIs
  <2> QED BY <1>1, <1>2, <1>3, <2>1 DEF Owner, Nominator
<1>5. \A c \in Context : Writer(c) \in Block
  BY <1>2, <1>3, DomainsFinite DEF Writer
<1> QED BY <1>4, <1>5 DEF Dealt, Owner, Nominator

(* The search finds the last listed context up to c, if there is one.      *)
LEMMA UpToIs ==
  ASSUME NEW h \in Inputs, NEW c \in Context, active = Listing(h)
  PROVE  /\ ActiveUpTo(c) = 0 <=> ~ \E d \in Active(h) : d <= c
         /\ (\E d \in Active(h) : d <= c) =>
              /\ active[ActiveUpTo(c)] = Max({d \in Active(h) : d <= c})
              /\ active[ActiveUpTo(c)] \in Active(h)
<1> DEFINE U == {d \in Active(h) : d <= c}
           N == {n \in DOMAIN active : active[n] <= c}
           place == [n \in N |-> active[n]]
<1>1. IsFiniteSet(Active(h)) /\ Active(h) \subseteq Int /\ c \in Int
  BY ActiveIs, DomainsFinite
<1>2. IsFiniteSet(U) /\ U \subseteq Int
  BY <1>1, FS_Subset
<1>3. DOMAIN active = 1 .. Cardinality(Active(h)) /\ Cardinality(Active(h)) \in Nat
  BY ListingIs DEF Listing
<1>4. \A n \in DOMAIN active : active[n] \in Active(h) /\ Position(h, active[n]) = n - 1
  BY <1>3, ListingIs
<1>5. IsFiniteSet(N)
  <2>1. IsFiniteSet(1 .. Cardinality(Active(h)))
    BY <1>3, FS_Interval
  <2> QED BY <1>3, <2>1, FS_Subset
<1>6. Cardinality(N) = Cardinality(U)
  <2>1. place \in [N -> U]
    BY <1>4
  <2>2. \A x \in N : \A y \in N : place[x] = place[y] => x = y
    <3> SUFFICES ASSUME NEW x \in N, NEW y \in N, place[x] = place[y] PROVE x = y
      OBVIOUS
    <3>1. x - 1 = y - 1
      BY <1>4
    <3> QED BY <1>3, <3>1
  <2>3. \A t \in U : \E x \in N : place[x] = t
    <3> SUFFICES ASSUME NEW t \in U PROVE \E x \in N : place[x] = t
      OBVIOUS
    <3>1. Position(h, t) + 1 \in DOMAIN active /\ active[Position(h, t) + 1] = t
      BY <1>3, ListingIs
    <3> QED BY <3>1
  <2> HIDE DEF place, U, N
  <2> QED BY <1>5, <2>1, <2>2, <2>3, SameSize
<1>7. ActiveUpTo(c) = Cardinality(U)
  BY <1>6 DEF ActiveUpTo
<1>8. Cardinality(U) = 0 <=> U = {}
  BY <1>2, FS_EmptySet
<1>9. ASSUME U # {} PROVE active[Cardinality(U)] = Max(U) /\ Max(U) \in Active(h)
  <2> DEFINE m == Max(U)
  <2>1. m \in U /\ \A d \in U : m >= d
    <3> HIDE DEF U
    <3> QED BY <1>2, <1>9, MaxIs
  <2> HIDE DEF m
  <2>2. Below(Active(h), m) = U \ {m}
    BY <1>1, <2>1 DEF Below
  <2>3. Cardinality(U \ {m}) = Cardinality(U) - 1
    BY <1>2, <2>1, FS_RemoveElement
  <2>4. Position(h, m) + 1 = Cardinality(U)
    <3>1. Cardinality(U) \in Nat
      BY <1>2, FS_CardinalityType
    <3> HIDE DEF U
    <3> QED BY <2>2, <2>3, <3>1 DEF Position
  <2>5. active[Position(h, m) + 1] = m
    BY <2>1, ListingIs
  <2> QED BY <2>1, <2>4, <2>5 DEF m
<1>10. U # {} <=> \E d \in Active(h) : d <= c
  OBVIOUS
<1> HIDE DEF U
<1> QED BY <1>7, <1>8, <1>9, <1>10 DEF U

---------------------------------------------------------------------------
(* The device: the clusters' numbers.  FirstOf is the first member of a    *)
(* cluster, None of an empty one, and Firsts those of all clusters.        *)

FirstOf(h, a, j) == Min({None} \cup Members(h, a, j))
Firsts(h, a) == {c \in Active(h) : \A d \in Active(h) : d < c => a[d] # a[c]}
Number(h, a, j) == Cardinality(Below(Firsts(h, a), FirstOf(h, a, j)))

(* The first contexts are finitely many, no more than there are clusters,  *)
(* and each the first member of its own cluster.                           *)
LEMMA FirstsAre ==
  ASSUME NEW h \in Inputs, NEW a \in [Context -> Cluster]
  PROVE  /\ IsFiniteSet(Firsts(h, a)) /\ Firsts(h, a) \subseteq Int
         /\ \A j \in Cluster :
              /\ FirstOf(h, a, j) \in Int
              /\ FirstOf(h, a, j) = None <=> Members(h, a, j) = {}
              /\ Members(h, a, j) # {} => /\ FirstOf(h, a, j) \in Firsts(h, a)
                                          /\ a[FirstOf(h, a, j)] = j
         /\ \A c \in Active(h) : c \in Members(h, a, a[c]) /\ a[c] \in Cluster
         /\ \A f \in Firsts(h, a) : FirstOf(h, a, a[f]) = f /\ a[f] \in Cluster
<1>1. IsFiniteSet(Active(h)) /\ Active(h) \subseteq Context /\ Active(h) \subseteq Nat
  BY ActiveIs
<1>2. /\ None \in Nat /\ \A c \in Context : c \in Nat /\ c < None
  BY ClusteringAssumption DEF None, Context
<1>3. Firsts(h, a) \subseteq Active(h)
  BY DEF Firsts
<1>4. IsFiniteSet(Firsts(h, a)) /\ Firsts(h, a) \subseteq Int
  BY <1>1, <1>3, FS_Subset
<1>5. ASSUME NEW j \in Cluster
      PROVE  /\ FirstOf(h, a, j) \in {None} \cup Members(h, a, j)
             /\ \A d \in Members(h, a, j) : FirstOf(h, a, j) <= d
             /\ FirstOf(h, a, j) \in Int
             /\ FirstOf(h, a, j) = None <=> Members(h, a, j) = {}
  <2> DEFINE M == Members(h, a, j)
             S == M \cup {None}
  <2>1. M \subseteq Active(h) /\ IsFiniteSet(M)
    BY <1>1, FS_Subset DEF Members
  <2>2. IsFiniteSet(S)
    <3> HIDE DEF M
    <3> QED BY <2>1, FS_AddElement
  <2>3. S \subseteq Int /\ S # {}
    BY <1>1, <1>2, <2>1
  <2>4. Min(S) \in S /\ \A y \in S : Min(S) <= y
    <3> HIDE DEF S
    <3> QED BY <2>2, <2>3, MinIs
  <2>5. {None} \cup M = S
    OBVIOUS
  <2>6. FirstOf(h, a, j) = Min(S)
    <3> HIDE DEF S
    <3> QED BY <2>5, Zenon DEF FirstOf
  <2>7. \A d \in M : d < None
    BY <1>1, <1>2, <2>1
  <2>8. Min(S) = None <=> M = {}
    BY <1>2, <2>3, <2>4, <2>7
  <2> QED BY <2>3, <2>4, <2>6, <2>8
<1>6. ASSUME NEW j \in Cluster, Members(h, a, j) # {}
      PROVE  FirstOf(h, a, j) \in Firsts(h, a) /\ a[FirstOf(h, a, j)] = j
  <2>1. FirstOf(h, a, j) \in Members(h, a, j)
    BY <1>5, <1>6
  <2>2. FirstOf(h, a, j) \in Active(h) /\ a[FirstOf(h, a, j)] = j
    BY <2>1 DEF Members
  <2>3. ASSUME NEW d \in Active(h), d < FirstOf(h, a, j) PROVE a[d] # j
    <3>1. a[d] = j => d \in Members(h, a, j)
      BY DEF Members
    <3> QED BY <1>1, <1>5, <2>3, <3>1
  <2> QED BY <2>2, <2>3 DEF Firsts
<1>7. ASSUME NEW c \in Active(h) PROVE c \in Members(h, a, a[c]) /\ a[c] \in Cluster
  BY <1>1 DEF Members
<1>8. ASSUME NEW f \in Firsts(h, a) PROVE FirstOf(h, a, a[f]) = f /\ a[f] \in Cluster
  <2>1. f \in Active(h) /\ \A d \in Active(h) : d < f => a[d] # a[f]
    BY DEF Firsts
  <2>2. f \in Members(h, a, a[f]) /\ a[f] \in Cluster
    BY <1>7, <2>1
  <2>3. FirstOf(h, a, a[f]) \in Members(h, a, a[f]) /\ FirstOf(h, a, a[f]) <= f
    BY <1>5, <2>2
  <2>4. FirstOf(h, a, a[f]) \in Active(h) /\ a[FirstOf(h, a, a[f])] = a[f]
    BY <2>3 DEF Members
  <2>5. ~ (FirstOf(h, a, a[f]) < f)
    BY <2>1, <2>4
  <2> QED BY <1>1, <2>1, <2>2, <2>3, <2>4, <2>5
<1> QED BY <1>4, <1>5, <1>6, <1>7, <1>8

(* A context's cluster is numbered below the number of clusters, which is  *)
(* at most NumClusters, and its first context is the one of that number.   *)
LEMMA NumberIs ==
  ASSUME NEW h \in Inputs, NEW a \in [Context -> Cluster], NEW j \in Cluster,
         Members(h, a, j) # {}
  PROVE  /\ Number(h, a, j) \in 0 .. Cardinality(Firsts(h, a)) - 1
         /\ Number(h, a, j) \in Cluster
         /\ Cardinality(Firsts(h, a)) \in Nat
         /\ a[Nth(Firsts(h, a), Number(h, a, j))] = j
<1> DEFINE F == Firsts(h, a)
           f == FirstOf(h, a, j)
<1>1. IsFiniteSet(F) /\ F \subseteq Int /\ f \in F /\ a[f] = j
  BY FirstsAre
<1>2. \A x \in F : a[x] \in Cluster /\ FirstOf(h, a, a[x]) = x
  BY FirstsAre
<1> HIDE DEF F, f
<1>3. Cardinality(Below(F, f)) \in Nat /\ Cardinality(Below(F, f)) < Cardinality(F)
        /\ Cardinality(F) \in Nat
  BY <1>1, BelowFinite, BelowGrows
<1>4. Nth(F, Cardinality(Below(F, f))) = f
  BY <1>1, NthOfPlace
<1>5. Number(h, a, j) = Cardinality(Below(F, f))
  BY DEF Number, F, f
<1>6. Cardinality(F) <= NumClusters
  <2> DEFINE T == {a[x] : x \in F}
             place == [x \in F |-> a[x]]
  <2>1. place \in [F -> T] /\ \A t \in T : \E x \in F : place[x] = t
    OBVIOUS
  <2>2. \A x \in F : \A y \in F : place[x] = place[y] => x = y
    <3> SUFFICES ASSUME NEW x \in F, NEW y \in F, place[x] = place[y] PROVE x = y
      OBVIOUS
    <3>1. a[x] = a[y]
      OBVIOUS
    <3> HIDE DEF place
    <3> QED BY <1>2, <3>1
  <2>3. IsFiniteSet(T) /\ Cardinality(T) = Cardinality(F)
    <3> HIDE DEF T, place
    <3> QED BY <1>1, <2>1, <2>2, SameSize
  <2>4. T \subseteq Cluster
    BY <1>2
  <2>5. Cardinality(Cluster) = NumClusters
    BY ClusteringAssumption, FS_Interval DEF Cluster
  <2> HIDE DEF T
  <2> QED BY <2>3, <2>4, <2>5, DomainsFinite, FS_Subset
<1> QED BY <1>1, <1>3, <1>4, <1>5, <1>6, ClusteringAssumption DEF F, Cluster

(* The reference's output, in these terms.                                 *)
LEMMA ReferenceIs ==
  ASSUME NEW h \in Inputs
  PROVE  LET a == Asg(h, Iterations)
         IN  ClusterReference(h) =
               [num_clusters |-> Max({1, Cardinality(Firsts(h, a))}),
                context_map |-> [c \in Context |->
                   IF \E d \in Active(h) : d <= c
                   THEN Number(h, a, a[Max({d \in Active(h) : d <= c})]) ELSE 0],
                histograms |-> [r \in Cluster |->
                   IF r < Cardinality(Firsts(h, a))
                   THEN ClusterHistograms(h, a)[a[Nth(Firsts(h, a), r)]] ELSE Zero]]
<1> DEFINE a == Asg(h, Iterations)
           last(c) == Max({d \in Active(h) : d <= c})
           rank(c) == Cardinality({d \in Firsts(h, a) : d < Min({f \in Firsts(h, a) : a[f] = a[c]})})
<1>1. a \in [Context -> Cluster]
  BY AssignmentsAre, ClusteringAssumption
<1>2. ClusterReference(h) =
        [num_clusters |-> Max({1, Cardinality(Firsts(h, a))}),
         context_map |-> [c \in Context |->
            IF \E d \in Active(h) : d <= c THEN rank(last(c)) ELSE 0],
         histograms |-> [r \in Cluster |->
            IF r < Cardinality(Firsts(h, a))
            THEN ClusterHistograms(h, a)[a[Nth(Firsts(h, a), r)]] ELSE Zero]]
  BY <1>1 DEF ClusterReference, Renumbered, Asg, Firsts
<1>3. ASSUME NEW c \in Active(h) PROVE rank(c) = Number(h, a, a[c])
  <2> DEFINE f == FirstOf(h, a, a[c])
  <2>1. c \in Members(h, a, a[c]) /\ a[c] \in Cluster
    BY <1>1, FirstsAre
  <2>2. f \in Firsts(h, a) /\ a[f] = a[c] /\ f \in Int
    BY <1>1, <2>1, FirstsAre
  <2>3. \A x \in Firsts(h, a) : FirstOf(h, a, a[x]) = x
    BY <1>1, FirstsAre
  <2>4. {x \in Firsts(h, a) : a[x] = a[c]} = {f}
    <3>1. \A x \in Firsts(h, a) : a[x] = a[c] => x = f
      BY <2>3
    <3> HIDE DEF f
    <3> QED BY <2>2, <3>1
  <2>5. Min({f}) = f
    <3> HIDE DEF f
    <3> QED BY <2>2, MinUnique
  <2>6. Min({x \in Firsts(h, a) : a[x] = a[c]}) = f
    <3> HIDE DEF f
    <3> QED BY <2>4, <2>5, Zenon
  <2> QED BY <2>6 DEF Number, Below
<1>4. ASSUME NEW c \in Context, \E d \in Active(h) : d <= c PROVE last(c) \in Active(h)
  <2> DEFINE U == {d \in Active(h) : d <= c}
  <2>1. IsFiniteSet(U) /\ U # {} /\ U \subseteq Int
    BY <1>4, ActiveIs, FS_Subset
  <2>2. Max(U) \in U
    <3> HIDE DEF U
    <3> QED BY <2>1, MaxIs
  <2> QED BY <2>2
<1>5. \A c \in Context : (\E d \in Active(h) : d <= c) => rank(last(c)) = Number(h, a, a[last(c)])
  <2> HIDE DEF rank, last
  <2> QED BY <1>3, <1>4
<1> HIDE DEF rank, last, a
<1>6. [c \in Context |-> IF \E d \in Active(h) : d <= c THEN rank(last(c)) ELSE 0]
        = [c \in Context |-> IF \E d \in Active(h) : d <= c THEN Number(h, a, a[last(c)]) ELSE 0]
  BY <1>5
<1> QED BY <1>2, <1>6 DEF a, last

(* With the first contexts of an assignment's clusters, the blocks number  *)
(* the clusters that have members, as the reference does.                  *)
LEMMA NumberedAre ==
  ASSUME NEW h \in Inputs, NEW a \in [Context -> Cluster],
         first_context = [j \in Cluster |-> FirstOf(h, a, j)]
  PROVE  /\ Numbered = {j \in Cluster : Members(h, a, j) # {}}
         /\ Cardinality(Numbered) = Cardinality(Firsts(h, a))
         /\ \A j \in Numbered : Rank(j) = Number(h, a, j)
<1> DEFINE F == Firsts(h, a)
           N == Numbered
           f(j) == FirstOf(h, a, j)
<1>1. \A j \in Cluster : first_context[j] = f(j)
  OBVIOUS
<1>2. \A j \in Cluster : f(j) = None <=> Members(h, a, j) = {}
  BY FirstsAre
<1>3. N = {j \in Cluster : Members(h, a, j) # {}}
  <2> HIDE DEF f
  <2> QED BY <1>1, <1>2 DEF Numbered
<1>4. N \subseteq Cluster /\ IsFiniteSet(N) /\ IsFiniteSet(F)
  <2>1. N \subseteq Cluster
    BY DEF Numbered
  <2> QED BY <2>1, DomainsFinite, FS_Subset, FirstsAre
<1>5. \A j \in N : f(j) \in F /\ a[f(j)] = j
  BY <1>3, FirstsAre
<1>6. \A t \in F : a[t] \in N /\ f(a[t]) = t
  <2> SUFFICES ASSUME NEW t \in F PROVE a[t] \in N /\ f(a[t]) = t
    OBVIOUS
  <2>1. t \in Active(h)
    BY DEF Firsts
  <2>2. f(a[t]) = t /\ a[t] \in Cluster /\ t \in Members(h, a, a[t])
    BY <2>1, FirstsAre
  <2> QED BY <1>3, <2>2
<1> HIDE DEF F, N, f
<1>7. Cardinality(N) = Cardinality(F)
  <2> DEFINE place == [j \in N |-> f(j)]
  <2>1. place \in [N -> F]
    BY <1>5
  <2>2. \A x \in N : \A y \in N : place[x] = place[y] => x = y
    BY <1>5
  <2>3. \A t \in F : \E x \in N : place[x] = t
    BY <1>6
  <2> HIDE DEF place
  <2> QED BY <1>4, <2>1, <2>2, <2>3, SameSize
<1>8. ASSUME NEW j \in N PROVE Rank(j) = Cardinality(Below(F, f(j)))
  <2> DEFINE S == {k \in N : f(k) < f(j)}
             place == [k \in S |-> f(k)]
  <2>1. S \subseteq N /\ IsFiniteSet(S)
    BY <1>4, FS_Subset
  <2>2. place \in [S -> Below(F, f(j))]
    BY <1>5 DEF Below
  <2>3. \A x \in S : \A y \in S : place[x] = place[y] => x = y
    BY <1>5
  <2>4. \A t \in Below(F, f(j)) : \E x \in S : place[x] = t
    <3> SUFFICES ASSUME NEW t \in Below(F, f(j)) PROVE \E x \in S : place[x] = t
      OBVIOUS
    <3>1. t \in F /\ t < f(j)
      BY DEF Below
    <3>2. a[t] \in N /\ f(a[t]) = t
      BY <1>6, <3>1
    <3>3. a[t] \in S
      BY <3>1, <3>2
    <3> QED BY <3>2, <3>3
  <2>5. Cardinality(Below(F, f(j))) = Cardinality(S)
    <3> HIDE DEF S, place
    <3> QED BY <2>1, <2>2, <2>3, <2>4, SameSize
  <2>6. {k \in Numbered : first_context[k] < first_context[j]} = S
    BY <1>1, <1>4 DEF N
  <2>7. Rank(j) = Cardinality(S)
    <3> HIDE DEF S
    <3> QED BY <2>6 DEF Rank
  <2> QED BY <2>5, <2>7
<1>9. \A j \in N : Rank(j) = Number(h, a, j)
  BY <1>8 DEF Number, F, f
<1> QED BY <1>3, <1>7, <1>9 DEF F, N

(* What a block writes of the final clusters is the reference's output.    *)
LEMMA FinishIs ==
  ASSUME NEW h \in Inputs, active = Listing(h),
         first_context = [j \in Cluster |-> FirstOf(h, Asg(h, Iterations), j)],
         \A c \in Active(h) : assignment[c] = Asg(h, Iterations)[c],
         NEW H, H = ClusterHistograms(h, Asg(h, Iterations))
  PROVE  /\ Max({Cardinality(Numbered), 1}) = ClusterReference(h).num_clusters
         /\ Ordered(H) = ClusterReference(h).histograms
         /\ \A c \in Context :
              (IF ActiveUpTo(c) = 0 THEN 0 ELSE Rank(assignment[active[ActiveUpTo(c)]]))
                = ClusterReference(h).context_map[c]
<1> DEFINE a == Asg(h, Iterations)
           F == Firsts(h, a)
<1>1. a \in [Context -> Cluster]
  BY AssignmentsAre, ClusteringAssumption
<1>2. /\ Numbered = {j \in Cluster : Members(h, a, j) # {}}
      /\ Cardinality(Numbered) = Cardinality(F)
      /\ \A j \in Numbered : Rank(j) = Number(h, a, j)
  BY <1>1, NumberedAre
<1>3. /\ ClusterReference(h).num_clusters = Max({1, Cardinality(F)})
      /\ ClusterReference(h).context_map =
           [c \in Context |-> IF \E d \in Active(h) : d <= c
                              THEN Number(h, a, a[Max({d \in Active(h) : d <= c})]) ELSE 0]
      /\ ClusterReference(h).histograms =
           [r \in Cluster |-> IF r < Cardinality(F)
                              THEN ClusterHistograms(h, a)[a[Nth(F, r)]] ELSE Zero]
  <2> HIDE DEF a
  <2>1. ClusterReference(h) =
               [num_clusters |-> Max({1, Cardinality(F)}),
                context_map |-> [c \in Context |->
                   IF \E d \in Active(h) : d <= c
                   THEN Number(h, a, a[Max({d \in Active(h) : d <= c})]) ELSE 0],
                histograms |-> [r \in Cluster |->
                   IF r < Cardinality(F)
                   THEN ClusterHistograms(h, a)[a[Nth(F, r)]] ELSE Zero]]
    BY ReferenceIs DEF a
  <2> QED BY <2>1
<1>4. Max({Cardinality(Numbered), 1}) = ClusterReference(h).num_clusters
  <2>1. {Cardinality(Numbered), 1} = {1, Cardinality(F)}
    BY <1>2
  <2> QED BY <1>3, <2>1
<1>5. ASSUME NEW c \in Context
      PROVE  (IF ActiveUpTo(c) = 0 THEN 0 ELSE Rank(assignment[active[ActiveUpTo(c)]]))
                = ClusterReference(h).context_map[c]
  <2>1. CASE ~ \E d \in Active(h) : d <= c
    <3>1. ActiveUpTo(c) = 0
      BY <2>1, UpToIs
    <3> QED BY <1>3, <2>1, <3>1
  <2>2. CASE \E d \in Active(h) : d <= c
    <3> DEFINE m == Max({d \in Active(h) : d <= c})
    <3>1. active[ActiveUpTo(c)] = m /\ m \in Active(h) /\ ActiveUpTo(c) # 0
      BY <2>2, UpToIs
    <3> HIDE DEF m
    <3>2. m \in Members(h, a, a[m]) /\ a[m] \in Cluster
      BY <1>1, <3>1, FirstsAre
    <3>3. a[m] \in Numbered
      BY <1>2, <3>2
    <3>4. Rank(assignment[active[ActiveUpTo(c)]]) = Number(h, a, a[m])
      BY <1>2, <3>1, <3>3
    <3>5. ClusterReference(h).context_map[c] = Number(h, a, a[m])
      <4> HIDE DEF a
      <4> QED BY <1>3, <2>2 DEF m
    <3> QED BY <3>1, <3>4, <3>5
  <2> QED BY <2>1, <2>2
<1>6. ASSUME NEW r \in Cluster, r < Cardinality(F)
      PROVE  (CHOOSE j \in Numbered : Rank(j) = r) = a[Nth(F, r)]
  <2> DEFINE f == Nth(F, r)
  <2>1. IsFiniteSet(F) /\ F \subseteq Int /\ Cardinality(F) \in Nat
    BY <1>1, FirstsAre, FS_CardinalityType
  <2>2. r \in 0 .. Cardinality(F) - 1
    BY <1>6, <2>1 DEF Cluster
  <2>3. f \in F /\ Cardinality(Below(F, f)) = r
    <3> HIDE DEF F
    <3> QED BY <2>1, <2>2, NthIs
  <2>4. FirstOf(h, a, a[f]) = f /\ a[f] \in Cluster
    BY <1>1, <2>3, FirstsAre
  <2>5. f \in Members(h, a, a[f])
    <3>1. f \in Active(h)
      BY <2>3 DEF Firsts
    <3> QED BY <1>1, <3>1, FirstsAre
  <2>6. a[f] \in Numbered /\ Rank(a[f]) = r
    BY <1>2, <2>3, <2>4, <2>5 DEF Number
  <2>7. ASSUME NEW j \in Numbered, Rank(j) = r PROVE j = a[f]
    <3>1. j \in Cluster /\ Members(h, a, j) # {} /\ Number(h, a, j) = r
      BY <1>2, <2>7
    <3>2. a[Nth(F, Number(h, a, j))] = j
      BY <1>1, <3>1, NumberIs
    <3> QED BY <3>1, <3>2
  <2> HIDE DEF f, a
  <2> QED BY <2>6, <2>7 DEF f
<1>7. Ordered(H) = ClusterReference(h).histograms
  <2> DEFINE number(r) == CHOOSE j \in Numbered : Rank(j) = r
  <2>1. Ordered(H) = [r \in Cluster |-> IF r < Cardinality(Numbered) THEN H[number(r)] ELSE Zero]
    BY DEF Ordered
  <2>2. \A r \in Cluster : r < Cardinality(F) => number(r) = a[Nth(F, r)]
    BY <1>6
  <2> HIDE DEF number, F, a
  <2> QED BY <1>2, <1>3, <2>1, <2>2 DEF a
<1> QED BY <1>4, <1>5, <1>7

(* The reference's output codes every token of its input. *)
LEMMA ReferenceCodes ==
  ASSUME NEW h \in Inputs, NEW c \in Context
  PROVE  LET reference == ClusterReference(h)
         IN  /\ reference.context_map[c] < reference.num_clusters
             /\ \A s \in Symbol : h[c][s] # 0 =>
                  reference.histograms[reference.context_map[c]][s] >= h[c][s]
<1> DEFINE a == Asg(h, Iterations)
           F == Firsts(h, a)
           R == ClusterReference(h)
           last == Max({d \in Active(h) : d <= c})
<1>1. a \in [Context -> Cluster]
  BY AssignmentsAre, ClusteringAssumption
<1>2. /\ R.num_clusters = Max({1, Cardinality(F)})
      /\ R.context_map[c] = IF \E d \in Active(h) : d <= c THEN Number(h, a, a[last]) ELSE 0
      /\ \A r \in Cluster : r < Cardinality(F) =>
           R.histograms[r] = ClusterHistograms(h, a)[a[Nth(F, r)]]
  <2> HIDE DEF a
  <2>1. R =
               [num_clusters |-> Max({1, Cardinality(F)}),
                context_map |-> [e \in Context |->
                   IF \E d \in Active(h) : d <= e
                   THEN Number(h, a, a[Max({d \in Active(h) : d <= e})]) ELSE 0],
                histograms |-> [r \in Cluster |->
                   IF r < Cardinality(F)
                   THEN ClusterHistograms(h, a)[a[Nth(F, r)]] ELSE Zero]]
    BY ReferenceIs DEF a
  <2> HIDE DEF R, F
  <2> QED BY <2>1
<1>3. Cardinality(F) \in Nat
  BY <1>1, FirstsAre, FS_CardinalityType
<1>4. R.num_clusters \in Int /\ R.num_clusters >= 1 /\ R.num_clusters >= Cardinality(F)
  <2> DEFINE S == {1, Cardinality(F)}
  <2>1. IsFiniteSet(S) /\ S # {} /\ S \subseteq Int
    <3> HIDE DEF F
    <3>1. IsFiniteSet({1})
      BY FS_Singleton
    <3>2. IsFiniteSet({1} \cup {Cardinality(F)})
      BY <3>1, FS_AddElement
    <3>3. {1} \cup {Cardinality(F)} = S
      OBVIOUS
    <3> QED BY <1>3, <3>2, <3>3
  <2>2. Max(S) \in S /\ \A y \in S : Max(S) >= y
    <3> HIDE DEF S
    <3> QED BY <2>1, MaxIs
  <2>3. Max(S) \in Int /\ Max(S) >= 1 /\ Max(S) >= Cardinality(F)
    <3>1. Max(S) \in S /\ 1 \in S /\ Cardinality(F) \in S
      BY <2>2
    <3> HIDE DEF S
    <3> QED BY <2>1, <2>2, <3>1
  <2>4. R.num_clusters = Max(S)
    BY <1>2
  <2> HIDE DEF S, R
  <2> QED BY <2>3, <2>4
<1>5. IsFiniteSet({d \in Active(h) : d <= c}) /\ {d \in Active(h) : d <= c} \subseteq Int
  BY ActiveIs, FS_Subset
<1>6. (\E d \in Active(h) : d <= c) => last \in Active(h)
  <2> DEFINE U == {d \in Active(h) : d <= c}
  <2>1. U # {} => Max(U) \in U
    <3> HIDE DEF U
    <3> QED BY <1>5, MaxIs DEF U
  <2> QED BY <2>1
<1>7. c \in Active(h) => last = c
  <2> DEFINE U == {d \in Active(h) : d <= c}
  <2>1. c \in Active(h) => c \in U /\ \A y \in U : c >= y
    BY ActiveIs, DomainsFinite
  <2>2. c \in Active(h) => Max(U) = c
    <3>1. U \subseteq Int
      BY <1>5
    <3> HIDE DEF U
    <3> QED BY <2>1, <3>1, MaxUnique
  <2> QED BY <2>2
<1>8. \A d \in Active(h) :
        /\ Number(h, a, a[d]) \in Cluster
        /\ Number(h, a, a[d]) \in 0 .. Cardinality(F) - 1
        /\ a[Nth(F, Number(h, a, a[d]))] = a[d]
        /\ d \in Members(h, a, a[d]) /\ a[d] \in Cluster
  BY <1>1, FirstsAre, NumberIs
<1> HIDE DEF a, F, R, last
<1>9. R.context_map[c] < R.num_clusters
  BY <1>2, <1>3, <1>4, <1>6, <1>8
<1>10. ASSUME NEW s \in Symbol, h[c][s] # 0
       PROVE  R.histograms[R.context_map[c]][s] >= h[c][s]
  <2>1. h[c] \in [Symbol -> Nat] /\ h[c][s] \in Nat
    BY ActiveIs
  <2>2. c \in Active(h)
    <3>1. Total(h[c]) \in Nat /\ h[c][s] <= Total(h[c])
      BY <2>1, TotalNat
    <3> QED BY <1>10, <2>1, <3>1 DEF Active
  <2>3. \E d \in Active(h) : d <= c
    BY <2>2, DomainsFinite
  <2>4. R.context_map[c] = Number(h, a, a[c])
    BY <1>2, <1>7, <2>2, <2>3
  <2>5. R.histograms[Number(h, a, a[c])] = ClusterHistograms(h, a)[a[c]]
    BY <1>2, <1>3, <1>8, <2>2
  <2> DEFINE M == Members(h, a, a[c])
  <2>6. ClusterHistograms(h, a)[a[c]] = SumOf(h, M)
    BY <1>8, <2>2, HistogramsTyped
  <2>7. M \in SUBSET Context /\ c \in M
    BY <1>8, <2>2, ActiveIs DEF Members
  <2>8. h[c][s] <= SumOf(h, M)[s] /\ SumOf(h, M)[s] \in Nat
    <3> HIDE DEF M
    <3> QED BY <2>7, SumOfIs
  <2> HIDE DEF M
  <2> QED BY <2>1, <2>4, <2>5, <2>6, <2>8
<1> QED BY <1>9, <1>10 DEF R

---------------------------------------------------------------------------
(* The control of the blocks: where a block is, the iteration it is in and *)
(* the number of barriers it has reached determine each other, and no two  *)
(* blocks are further apart than a barrier lets them be.                   *)

Phases == {"stats", "start", "arrive", "spin", "load", "nominate", "refill", "assign", "finish",
           "done"}

(* The number of the barrier that begins iteration i: one more in those    *)
(* after the refill, which has a barrier of its own.                       *)
Bar(i) == IF i <= RefillIteration THEN i + 1 ELSE i + 2

ControlTypes ==
  /\ hist \in Inputs
  /\ pc \in [Block -> Phases]
  /\ it \in [Block -> 0 .. Iterations]
  /\ barriers \in [Block -> Nat]
  /\ todo \in [Block -> SUBSET Context]

Control(b) ==
  /\ pc[b] \in {"stats", "start"} => it[b] = 0 /\ barriers[b] = 0
  /\ pc[b] = "arrive" => \/ barriers[b] + 1 = Bar(it[b])
                         \/ it[b] = RefillIteration /\ barriers[b] = RefillIteration + 1
  /\ pc[b] = "spin" => \/ barriers[b] = Bar(it[b])
                       \/ it[b] = RefillIteration /\ barriers[b] = RefillIteration + 2
  /\ pc[b] = "load" => it[b] < Iterations /\ barriers[b] = Bar(it[b])
  /\ pc[b] = "nominate" => it[b] = RefillIteration /\ barriers[b] = RefillIteration + 1
  /\ pc[b] = "refill" => it[b] = RefillIteration /\ barriers[b] = RefillIteration + 2
  /\ pc[b] = "assign" => it[b] < Iterations /\ barriers[b] + 1 = Bar(it[b] + 1)
  /\ pc[b] \in {"finish", "done"} => it[b] = Iterations /\ barriers[b] = Iterations + 2

TodoInv(b) ==
  /\ pc[b] = "nominate" => todo[b] \subseteq Dealt(hist, b, Warps * WarpSize)
  /\ pc[b] = "assign" => todo[b] \subseteq Dealt(hist, b, Warps)
  /\ pc[b] \notin {"nominate", "assign"} => todo[b] = {}

(* A block is at most one barrier ahead of another, and then waits.        *)
Separated(b, d) == barriers[b] <= IF pc[b] = "spin" THEN barriers[d] + 1 ELSE barriers[d]

BarrierInv ==
  /\ arrivals = SumFunctionOnSet(barriers, Block)
  /\ \A b \in Block, d \in Block : Separated(b, d)

Before == \A b \in Block : pc[b] = "stats"
Counted == \A b \in Block : pc[b] # "stats"
Listed == pc[0] \notin {"stats", "start"}

StatsInv ==
  /\ Before \/ Counted
  /\ Counted => /\ totals = [c \in Context |-> Total(hist[c])]
                /\ alphabet = Alphabet(hist)

ListInv == Listed => active = Listing(hist)

ControlInv ==
  /\ ControlTypes
  /\ \A b \in Block : Control(b) /\ TodoInv(b)
  /\ BarrierInv /\ StatsInv /\ ListInv

(* The refill is in an iteration after the first and before the end. *)
LEMMA IterationsAre ==
  /\ RefillIteration \in Nat /\ Iterations \in Nat
  /\ 0 < RefillIteration /\ RefillIteration < Iterations
BY ClusteringAssumption

(* Block 0 is a block. *)
LEMMA BlockZero == 0 \in Block
BY ClusteringAssumption DEF Block

(* A block that has reached the barrier of iteration k is in it or past it.*)
LEMMA IterationReached ==
  ASSUME ControlTypes, NEW o \in Block, Control(o), NEW k \in Nat, barriers[o] >= Bar(k)
  PROVE  it[o] >= k
<1>1. pc[o] \in Phases /\ it[o] \in 0 .. Iterations /\ barriers[o] \in Nat
  BY DEF ControlTypes
<1> QED BY <1>1, IterationsAre DEF Control, Phases, Bar

(* While one block has not started, none has passed the first barrier.     *)
LEMMA NoneStarted ==
  ASSUME ControlInv, NEW d \in Block, pc[d] \in {"stats", "start"}, NEW o \in Block
  PROVE  pc[o] \in {"stats", "start", "arrive", "spin"} /\ it[o] = 0
<1>1. pc[o] \in Phases /\ it[o] \in 0 .. Iterations /\ barriers[o] \in Nat
  BY DEF ControlInv, ControlTypes
<1>2. Control(o) /\ Control(d) /\ Separated(o, d)
  BY DEF ControlInv, BarrierInv
<1>3. barriers[d] = 0
  BY <1>2 DEF Control
<1>4. barriers[o] <= 1 /\ (pc[o] # "spin" => barriers[o] = 0)
  BY <1>1, <1>2, <1>3 DEF Separated
<1> QED BY <1>1, <1>2, <1>4, IterationsAre DEF Control, Phases, Bar

(* Once a block has reached a barrier and does not wait, every block has   *)
(* reached it; then the contexts have been listed and counted.             *)
LEMMA AllReached ==
  ASSUME ControlInv, NEW b \in Block, pc[b] \notin {"stats", "start", "arrive", "spin"}
  PROVE  /\ \A d \in Block : barriers[d] >= barriers[b]
         /\ Listed /\ Counted /\ ~ Before
         /\ active = Listing(hist) /\ alphabet = Alphabet(hist)
<1>1. \A d \in Block : barriers[d] >= barriers[b]
  BY DEF ControlInv, ControlTypes, BarrierInv, Separated
<1>2. Listed /\ Counted /\ ~ Before
  BY BlockZero, NoneStarted DEF Listed, Counted, Before
<1> QED BY <1>1, <1>2 DEF ControlInv, ListInv, StatsInv

(* A step of a block leaves the others where they are. *)
LEMMA StepIsLocal ==
  ASSUME ControlTypes, NEW b \in Block, BlockStep(b)
  PROVE  /\ hist' = hist /\ totals' = totals /\ alphabet' = alphabet
         /\ \A d \in Block \ {b} : /\ pc'[d] = pc[d] /\ it'[d] = it[d]
                                   /\ barriers'[d] = barriers[d] /\ todo'[d] = todo[d]
BY DEF BlockStep, ControlTypes, ListActive, Arrive, Leave, LoadClusters, Nominate, Nominated,
       Refill, Assign, Assigned, Finish, vars, stats, scratch, blocks

(* What a step leaves alone keeps its control. *)
LEMMA ControlKept ==
  ASSUME NEW d, Control(d), TodoInv(d), hist' = hist, pc'[d] = pc[d], it'[d] = it[d],
         barriers'[d] = barriers[d], todo'[d] = todo[d]
  PROVE  Control(d)' /\ TodoInv(d)'
BY DEF Control, TodoInv, Bar, Dealt, Position

(* Initially no block has started. *)
LEMMA ControlInit == Init => ControlInv
<1> SUFFICES ASSUME Init PROVE ControlInv
  OBVIOUS
<1>1. ControlTypes
  BY IterationsAre DEF Init, ControlTypes, Phases
<1>2. \A b \in Block : Control(b) /\ TodoInv(b)
  BY DEF Init, Control, TodoInv
<1>3. \A b \in Block : pc[b] = "stats" /\ barriers[b] = 0
  BY DEF Init
<1>4. SumFunctionOnSet(barriers, Block) = 0
  BY <1>3, DomainsFinite, SumZero
<1>5. BarrierInv
  BY <1>3, <1>4 DEF Init, BarrierInv, Separated
<1>6. StatsInv /\ ListInv
  BY <1>3, BlockZero DEF StatsInv, ListInv, Before, Counted, Listed
<1> QED BY <1>1, <1>2, <1>5, <1>6 DEF ControlInv

(* A step keeps the types. *)
LEMMA ControlTypesKept ==
  ASSUME ControlInv, NEW b \in Block, BlockStep(b)
  PROVE  ControlTypes'
<1>1. ControlTypes /\ Control(b)
  BY DEF ControlInv
<1>2. hist' = hist
  BY <1>1, StepIsLocal
<1>3. CASE ListActive(b) \/ Leave(b) \/ Nominated(b) \/ Finish(b)
  BY <1>1, <1>2, <1>3 DEF ControlTypes, ListActive, Leave, Passed, Nominated, Finish, Phases
<1>4. CASE Arrive(b)
  BY <1>1, <1>2, <1>4 DEF ControlTypes, Arrive, Phases
<1>5. CASE LoadClusters(b) \/ Refill(b)
  <2>1. pc[b] \notin {"stats", "start", "arrive", "spin"}
    BY <1>5 DEF LoadClusters, Refill
  <2>2. active = Listing(hist) /\ hist \in Inputs
    BY <1>1, <2>1, AllReached DEF ControlTypes
  <2>3. \A stride : ShareOf(b, stride) \in SUBSET Context
    BY <2>2, ShareIs, ActiveIs DEF Dealt
  <2> QED BY <1>1, <1>2, <1>5, <2>3 DEF ControlTypes, LoadClusters, Refill, Phases
<1>6. CASE (\E c \in Context : Nominate(b, c)) \/ (\E c \in Context : Assign(b, c))
  <2>1. \E c \in Context : todo' = [todo EXCEPT ![b] = @ \ {c}]
    BY <1>6 DEF Nominate, Assign
  <2>2. pc' = pc /\ it' = it /\ barriers' = barriers
    BY <1>6 DEF Nominate, Assign
  <2> QED BY <1>1, <1>2, <2>1, <2>2 DEF ControlTypes
<1>7. CASE Assigned(b)
  <2>1. it[b] < Iterations
    BY <1>1, <1>7 DEF Assigned, Control
  <2> QED BY <1>1, <1>2, <1>7, <2>1, IterationsAre DEF ControlTypes, Assigned, Phases
<1> QED BY <1>3, <1>4, <1>5, <1>6, <1>7 DEF BlockStep

(* A step of a block leads to a place that fits its iteration and its      *)
(* barriers, with contexts of its own share left to visit.                 *)
LEMMA ControlOfStep ==
  ASSUME ControlInv, NEW b \in Block, BlockStep(b)
  PROVE  Control(b)' /\ TodoInv(b)'
<1>1. ControlTypes /\ Control(b) /\ TodoInv(b)
  BY DEF ControlInv
<1>2. pc[b] \in Phases /\ it[b] \in 0 .. Iterations /\ barriers[b] \in Nat /\ hist \in Inputs
        /\ todo[b] \in SUBSET Context
  BY <1>1 DEF ControlTypes
<1>3. hist' = hist
  BY <1>1, StepIsLocal
<1>4. CASE ListActive(b)
  <2>1. pc'[b] = "arrive" /\ it'[b] = it[b] /\ barriers'[b] = barriers[b] /\ todo'[b] = todo[b]
    BY <1>1, <1>4 DEF ListActive, ControlTypes
  <2> QED BY <1>1, <1>2, <1>4, <2>1, IterationsAre DEF ListActive, Control, TodoInv, Bar
<1>5. CASE Arrive(b)
  <2>1. pc'[b] = "spin" /\ it'[b] = it[b] /\ barriers'[b] = barriers[b] + 1 /\ todo'[b] = todo[b]
    BY <1>1, <1>5 DEF Arrive, ControlTypes
  <2> QED BY <1>1, <1>2, <1>5, <2>1, IterationsAre DEF Arrive, Control, TodoInv, Bar
<1>6. CASE Leave(b)
  <2>1. pc'[b] = Passed(b) /\ it'[b] = it[b] /\ barriers'[b] = barriers[b] /\ todo'[b] = todo[b]
    BY <1>1, <1>6 DEF Leave, ControlTypes
  <2>2. todo[b] = {} /\ pc[b] = "spin"
    BY <1>1, <1>6 DEF Leave, TodoInv
  <2>3. Passed(b) \in {"load", "refill", "finish"}
    BY DEF Passed
  <2>4. TodoInv(b)'
    BY <2>1, <2>2, <2>3 DEF TodoInv
  <2>5. Control(b)'
    BY <1>1, <1>2, <2>1, <2>2, IterationsAre DEF Control, Passed, Bar
  <2> QED BY <2>4, <2>5
<1>7. CASE LoadClusters(b) \/ Refill(b)
  <2>1. pc[b] \notin {"stats", "start", "arrive", "spin"}
    BY <1>7 DEF LoadClusters, Refill
  <2>2. active = Listing(hist)
    BY <2>1, AllReached
  <2>3. \A stride : ShareOf(b, stride) = Dealt(hist, b, stride)
    BY <1>2, <2>2, ShareIs
  <2>4. it'[b] = it[b] /\ barriers'[b] = barriers[b]
    BY <1>7 DEF LoadClusters, Refill
  <2>5. /\ pc[b] = "load" /\ it[b] = RefillIteration =>
              pc'[b] = "nominate" /\ todo'[b] = Dealt(hist, b, Warps * WarpSize)
        /\ pc[b] = "refill" \/ it[b] # RefillIteration =>
              pc'[b] = "assign" /\ todo'[b] = Dealt(hist, b, Warps)
        /\ pc[b] \in {"load", "refill"}
    BY <1>1, <1>7, <2>3 DEF LoadClusters, Refill, ControlTypes
  <2>6. Control(b)'
    BY <1>1, <1>2, <2>4, <2>5, IterationsAre DEF Control, Bar
  <2>7. \/ pc'[b] = "nominate" /\ todo'[b] = Dealt(hist, b, Warps * WarpSize)
        \/ pc'[b] = "assign" /\ todo'[b] = Dealt(hist, b, Warps)
    BY <2>5
  <2>8. TodoInv(b)'
    BY <1>3, <2>7 DEF TodoInv, Dealt, Position
  <2> QED BY <2>6, <2>8
<1>8. CASE (\E c \in Context : Nominate(b, c)) \/ (\E c \in Context : Assign(b, c))
  <2>1. PICK c \in Context : todo' = [todo EXCEPT ![b] = @ \ {c}]
    BY <1>8 DEF Nominate, Assign
  <2>2. pc' = pc /\ it' = it /\ barriers' = barriers /\ pc[b] \in {"nominate", "assign"}
    BY <1>8 DEF Nominate, Assign
  <2>3. todo'[b] = todo[b] \ {c}
    BY <1>1, <2>1 DEF ControlTypes
  <2> QED BY <1>1, <1>3, <2>2, <2>3 DEF Control, TodoInv, Bar, Dealt, Position
<1>9. CASE Nominated(b)
  <2>1. pc'[b] = "arrive" /\ it'[b] = it[b] /\ barriers'[b] = barriers[b] /\ todo'[b] = {}
    BY <1>1, <1>9 DEF Nominated, ControlTypes
  <2> QED BY <1>1, <1>9, <2>1 DEF Nominated, Control, TodoInv
<1>10. CASE Assigned(b)
  <2>1. pc'[b] = "arrive" /\ it'[b] = it[b] + 1 /\ barriers'[b] = barriers[b] /\ todo'[b] = {}
    BY <1>1, <1>10 DEF Assigned, ControlTypes
  <2> QED BY <1>1, <1>10, <2>1 DEF Assigned, Control, TodoInv, Bar
<1>11. CASE Finish(b)
  <2>1. pc'[b] = "done" /\ it'[b] = it[b] /\ barriers'[b] = barriers[b] /\ todo'[b] = todo[b]
    BY <1>1, <1>11 DEF Finish, ControlTypes
  <2> QED BY <1>1, <1>11, <2>1 DEF Finish, Control, TodoInv
<1> QED BY <1>4, <1>5, <1>6, <1>7, <1>8, <1>9, <1>10, <1>11 DEF BlockStep

(* A block leaves a barrier only when every block has reached it.          *)
LEMMA LeavesLast ==
  ASSUME ControlInv, NEW b \in Block, Leave(b)
  PROVE  \A d \in Block : barriers[b] <= barriers[d]
<1>1. \A d \in Block : barriers[d] \in Nat /\ \A e \in Block : Separated(d, e)
  BY DEF ControlInv, ControlTypes, BarrierInv
<1>2. SUFFICES ASSUME NEW d \in Block, barriers[d] < barriers[b] PROVE FALSE
  BY <1>1
<1>3. \A e \in Block : barriers[e] \in Nat /\ barriers[e] <= barriers[b]
  BY <1>1, <1>2 DEF Separated
<1>4. SumFunctionOnSet(barriers, Block) < barriers[b] * Cardinality(Block)
  BY <1>2, <1>3, DomainsFinite, SumBelow
<1>5. SumFunctionOnSet(barriers, Block) \in Nat
  BY <1>3, DomainsFinite, SumNat
<1>6. arrivals = SumFunctionOnSet(barriers, Block) /\ arrivals >= barriers[b] * NumBlocks
  BY DEF ControlInv, BarrierInv, Leave
<1>7. barriers[b] * NumBlocks \in Nat
  <2>1. \A m \in Nat, n \in Nat : m * n \in Nat
    OBVIOUS
  <2> QED BY <1>3, <2>1, ClusteringAssumption
<1> QED BY <1>4, <1>5, <1>6, <1>7, DomainsFinite

(* A step keeps the blocks together. *)
LEMMA BarrierKept ==
  ASSUME ControlInv, NEW b \in Block, BlockStep(b)
  PROVE  BarrierInv'
<1>1. ControlTypes /\ BarrierInv /\ Control(b)
  BY DEF ControlInv
<1>2. \A d \in Block : barriers[d] \in Nat
  BY <1>1 DEF ControlTypes
<1>3. \A d \in Block \ {b} : pc'[d] = pc[d]
  BY <1>1, StepIsLocal
<1>4. CASE Arrive(b)
  <2>1. /\ barriers' = [barriers EXCEPT ![b] = @ + 1] /\ arrivals' = arrivals + 1
        /\ pc[b] = "arrive" /\ pc'[b] = "spin" /\ barriers \in [Block -> Nat]
    BY <1>1, <1>4 DEF Arrive, ControlTypes
  <2>2. SumFunctionOnSet(barriers', Block) = SumFunctionOnSet(barriers, Block) + 1
    BY <2>1, DomainsFinite, SumIncremented
  <2>3. ASSUME NEW d \in Block, NEW e \in Block PROVE Separated(d, e)'
    <3>1. Separated(d, e)
      BY <1>1 DEF BarrierInv
    <3> QED BY <1>2, <1>3, <2>1, <3>1 DEF Separated
  <2> QED BY <1>1, <2>1, <2>2, <2>3 DEF BarrierInv
<1>5. CASE Leave(b)
  <2>1. barriers' = barriers /\ arrivals' = arrivals
    BY <1>5 DEF Leave
  <2>2. \A d \in Block : barriers[b] <= barriers[d]
    BY <1>5, LeavesLast
  <2>3. ASSUME NEW d \in Block, NEW e \in Block PROVE Separated(d, e)'
    <3>1. Separated(d, e)
      BY <1>1 DEF BarrierInv
    <3> QED BY <1>2, <1>3, <2>1, <2>2, <3>1 DEF Separated
  <2> QED BY <1>1, <2>1, <2>3 DEF BarrierInv
<1>6. CASE ~ Arrive(b) /\ ~ Leave(b)
  <2>1. barriers' = barriers /\ arrivals' = arrivals /\ pc[b] # "spin"
    BY <1>6 DEF BlockStep, ListActive, LoadClusters, Nominate, Nominated, Refill, Assign,
                Assigned, Finish
  <2>2. ASSUME NEW d \in Block, NEW e \in Block PROVE Separated(d, e)'
    <3>1. Separated(d, e)
      BY <1>1 DEF BarrierInv
    <3> QED BY <1>2, <1>3, <2>1, <3>1 DEF Separated
  <2> QED BY <1>1, <2>1, <2>2 DEF BarrierInv
<1> QED BY <1>4, <1>5, <1>6

(* A step keeps the counts of the kernel before and the list of block 0,   *)
(* which it makes from them.                                               *)
LEMMA ListKept ==
  ASSUME ControlInv, NEW b \in Block, BlockStep(b)
  PROVE  /\ StatsInv' /\ ListInv'
         /\ ~ Before /\ ~ Before'
         /\ pc[b] # "start" => active' = active
         /\ pc[b] # "start" \/ b # 0 => (Listed' <=> Listed)
<1>1. ControlTypes /\ StatsInv /\ ListInv /\ pc[b] \in Phases
  BY DEF ControlInv, ControlTypes
<1>2. /\ hist' = hist /\ totals' = totals /\ alphabet' = alphabet
      /\ \A d \in Block \ {b} : pc'[d] = pc[d]
  BY <1>1, StepIsLocal
<1>3. pc[b] # "stats" /\ pc'[b] \notin {"stats", "start"}
  BY <1>1 DEF BlockStep, ControlTypes, ListActive, Arrive, Leave, Passed, LoadClusters, Nominate,
              Nominated, Refill, Assign, Assigned, Finish
<1>4. Counted /\ ~ Before /\ Counted' /\ ~ Before'
  BY <1>1, <1>2, <1>3 DEF StatsInv, Before, Counted
<1>5. StatsInv'
  BY <1>1, <1>2, <1>4 DEF StatsInv
<1>6. ~ ListActive(b) => active' = active
  BY DEF BlockStep, Arrive, Leave, LoadClusters, Nominate,
         Nominated, Refill, Assign, Assigned, Finish, scratch
<1>7. pc[b] # "start" => active' = active
  BY <1>6 DEF ListActive
<1>8. pc[b] # "start" \/ b # 0 => (Listed' <=> Listed)
  BY <1>2, <1>3, BlockZero DEF Listed
<1>9. ListInv'
  <2>1. CASE pc[b] = "start" /\ b = 0
    <3>1. ListActive(b)
      BY <2>1 DEF BlockStep, Arrive, Leave, LoadClusters, Nominate, Nominated, Refill, Assign,
                  Assigned, Finish
    <3> DEFINE with == {c \in Context : totals[c] # 0}
    <3>2. active' = [n \in 1 .. Cardinality(with) |-> Nth(with, n - 1)]
      BY <2>1, <3>1 DEF ListActive
    <3>3. with = Active(hist)
      BY <1>1, <1>4 DEF StatsInv, Active
    <3>4. active' = Listing(hist)
      <4> HIDE DEF with
      <4> QED BY <3>2, <3>3 DEF Listing
    <3> QED BY <1>2, <3>4 DEF ListInv
  <2>2. CASE pc[b] = "start" /\ b # 0
    <3>1. active' = active
      BY <1>6, <2>2 DEF ListActive
    <3> QED BY <1>1, <1>2, <1>8, <2>2, <3>1 DEF ListInv
  <2>3. CASE pc[b] # "start"
    BY <1>1, <1>2, <1>7, <1>8, <2>3 DEF ListInv
  <2> QED BY <2>1, <2>2, <2>3
<1> QED BY <1>4, <1>5, <1>7, <1>8, <1>9

(* The statistics kernel starts the blocks. *)
LEMMA ControlStarted ==
  ASSUME ControlInv, ContextStats
  PROVE  ControlInv'
<1>1. /\ hist' = hist /\ pc' = [b \in Block |-> "start"] /\ it' = it /\ barriers' = barriers
      /\ todo' = todo /\ arrivals' = arrivals
      /\ totals' = [c \in Context |-> Total(hist[c])] /\ alphabet' = Alphabet(hist)
      /\ \A b \in Block : pc[b] = "stats"
  BY DEF ContextStats
<1>2. ControlTypes'
  BY <1>1 DEF ControlInv, ControlTypes, Phases
<1>3. \A b \in Block : Control(b)' /\ TodoInv(b)'
  BY <1>1 DEF ControlInv, Control, TodoInv
<1>4. BarrierInv'
  BY <1>1 DEF ControlInv, ControlTypes, BarrierInv, Separated
<1>5. StatsInv' /\ ListInv'
  BY <1>1, BlockZero DEF StatsInv, ListInv, Listed, Before, Counted
<1> QED BY <1>2, <1>3, <1>4, <1>5 DEF ControlInv

(* The control is inductive. *)
LEMMA ControlNext == ControlInv /\ [Next]_vars => ControlInv'
<1> SUFFICES ASSUME ControlInv, [Next]_vars PROVE ControlInv'
  OBVIOUS
<1>1. CASE ContextStats
  BY <1>1, ControlStarted
<1>2. ASSUME NEW b \in Block, BlockStep(b) PROVE ControlInv'
  <2>1. ControlTypes' /\ BarrierInv' /\ StatsInv' /\ ListInv'
    BY <1>2, ControlTypesKept, BarrierKept, ListKept
  <2>2. Control(b)' /\ TodoInv(b)'
    BY <1>2, ControlOfStep
  <2>3. ASSUME NEW d \in Block \ {b} PROVE Control(d)' /\ TodoInv(d)'
    <3>1. ControlTypes /\ Control(d) /\ TodoInv(d)
      BY DEF ControlInv
    <3>2. /\ hist' = hist /\ pc'[d] = pc[d] /\ it'[d] = it[d]
          /\ barriers'[d] = barriers[d] /\ todo'[d] = todo[d]
      BY <1>2, <3>1, StepIsLocal
    <3> QED BY <3>1, <3>2, ControlKept
  <2> QED BY <2>1, <2>2, <2>3 DEF ControlInv
<1>3. CASE UNCHANGED vars
  BY <1>3 DEF vars, stats, scratch, blocks, ControlInv, ControlTypes, Control, TodoInv, BarrierInv,
              Separated, StatsInv, ListInv, Before, Counted, Listed, Bar, Dealt, Position
<1> QED BY <1>1, <1>2, <1>3 DEF Next, Terminated

---------------------------------------------------------------------------
(* What the blocks share, by how far each context is: how many assignments *)
(* it has been given and whether it has been proposed in the refill.       *)

Progress(c) == LET b == Owner(hist, c)
               IN  IF pc[b] = "assign" /\ c \notin todo[b] THEN it[b] + 1 ELSE it[b]

HasNominated(b) == \/ pc[b] = "arrive" /\ barriers[b] = RefillIteration + 1
                   \/ pc[b] = "spin" /\ barriers[b] = RefillIteration + 2
Proposed(c) == LET b == Nominator(hist, c)
               IN  \/ barriers[b] >= RefillIteration + 2
                   \/ HasNominated(b)
                   \/ pc[b] = "nominate" /\ c \notin todo[b]

(* The contexts that have been put in cluster j by assignment i, and those *)
(* of it that have been proposed for a move.                               *)
Reached(i, j) == {c \in Active(hist) : Progress(c) >= i /\ Asg(hist, i)[c] = j}
Proposers(j) == {c \in Active(hist) : Proposed(c) /\ Asg(hist, RefillIteration)[c] = j}

ClustersInv ==
  cluster_hist = [i \in 0 .. Iterations |->
     IF Before THEN NoTokens ELSE [j \in Cluster |-> SumOf(hist, Reached(i, j))]]

AssignmentInv ==
  assignment = [c \in Context |-> IF c \in Active(hist) /\ Progress(c) > 0
                                  THEN Asg(hist, Progress(c))[c] ELSE 0]

FirstInv ==
  Listed => first_context = [j \in Cluster |-> Min({None} \cup Reached(Iterations, j))]

KeysInv ==
  refill_keys = [j \in Cluster |->
     Max({0} \cup {KeyOf(hist, Asg(hist, RefillIteration), c) : c \in Proposers(j)})]

CountsInv(b) ==
  /\ HasNominated(b) \/ pc[b] \in {"nominate", "refill"}
       => counts[b] = ClusterHistograms(hist, Asg(hist, RefillIteration))
  /\ pc[b] = "assign" =>
       counts[b] = ClusterHistograms(hist, Refilled(hist, it[b], Asg(hist, it[b])))

OutInv ==
  out = [num_clusters |-> IF pc[0] = "done" THEN ClusterReference(hist).num_clusters ELSE 0,
         context_map |-> [c \in Context |-> IF pc[Writer(c)] = "done"
                                            THEN ClusterReference(hist).context_map[c] ELSE 0],
         histograms |-> IF pc[0] = "done" THEN ClusterReference(hist).histograms ELSE NoTokens]

SharedInv ==
  /\ counts \in [Block -> [Cluster -> [Symbol -> Nat]]]
  /\ \A b \in Block : CountsInv(b)
  /\ ClustersInv /\ AssignmentInv /\ FirstInv /\ KeysInv /\ OutInv

IInv == ControlInv /\ SharedInv

(* A context's progress is that of its owner's barriers. *)
LEMMA ProgressIs ==
  ASSUME ControlInv, NEW c \in Active(hist)
  PROVE  /\ Progress(c) \in 0 .. Iterations
         /\ \A d \in Block : Bar(Progress(c)) <= barriers[d] + 1
         /\ \A b \in Block : pc[b] \notin {"stats", "start", "arrive", "spin"} =>
              \A k \in Nat : barriers[b] >= Bar(k) => Progress(c) >= k
<1> DEFINE o == Owner(hist, c)
<1>1. o \in Block /\ hist \in Inputs
  BY OwnersAre DEF ControlInv, ControlTypes
<1>2. ControlTypes /\ Control(o) /\ \A d \in Block : Separated(o, d)
  BY <1>1 DEF ControlInv, BarrierInv
<1>3. pc[o] \in Phases /\ it[o] \in 0 .. Iterations /\ \A d \in Block : barriers[d] \in Nat
  BY <1>1, <1>2 DEF ControlTypes
<1>4. Progress(c) = IF pc[o] = "assign" /\ c \notin todo[o] THEN it[o] + 1 ELSE it[o]
  BY DEF Progress
<1> HIDE DEF o
<1>5. Progress(c) \in 0 .. Iterations /\ Progress(c) >= it[o]
  BY <1>2, <1>3, <1>4, IterationsAre DEF Control
<1>6. IF pc[o] = "spin" THEN Bar(Progress(c)) <= barriers[o]
                        ELSE Bar(Progress(c)) <= barriers[o] + 1
  BY <1>1, <1>2, <1>3, <1>4, IterationsAre DEF Control, Phases, Bar
<1>7. Bar(Progress(c)) \in Nat
  BY <1>5, IterationsAre DEF Bar
<1>8. \A d \in Block : Bar(Progress(c)) <= barriers[d] + 1
  BY <1>1, <1>2, <1>3, <1>6, <1>7 DEF Separated
<1>9. ASSUME NEW b \in Block, pc[b] \notin {"stats", "start", "arrive", "spin"},
             NEW k \in Nat, barriers[b] >= Bar(k)
      PROVE  Progress(c) >= k
  <2>1. barriers[o] >= barriers[b]
    BY <1>1, <1>9, AllReached
  <2>2. Bar(k) \in Nat
    BY IterationsAre DEF Bar
  <2>3. barriers[o] >= Bar(k)
    BY <1>1, <1>3, <1>9, <2>1, <2>2
  <2>4. it[o] >= k
    BY <1>1, <1>2, <2>3, IterationReached
  <2> QED BY <1>3, <1>5, <2>4
<1> QED BY <1>5, <1>8, <1>9

(* What the barriers make of it where a block reads what others wrote:     *)
(* when it loads the clusters every context has been assigned, when it     *)
(* nominates none is beyond, and when it finishes all are.                 *)
LEMMA ProgressAt ==
  ASSUME ControlInv, NEW c \in Active(hist), NEW b \in Block
  PROVE  /\ pc[b] = "load" => Progress(c) >= it[b]
         /\ pc[b] = "nominate" => Progress(c) = RefillIteration
         /\ pc[b] = "finish" => Progress(c) = Iterations
<1>1. /\ Progress(c) \in 0 .. Iterations
      /\ Bar(Progress(c)) <= barriers[b] + 1
      /\ pc[b] \notin {"stats", "start", "arrive", "spin"} =>
            \A k \in Nat : barriers[b] >= Bar(k) => Progress(c) >= k
  BY ProgressIs
<1>2. Control(b) /\ it[b] \in 0 .. Iterations /\ barriers[b] \in Nat
  BY DEF ControlInv, ControlTypes
<1>3. ASSUME pc[b] = "load" PROVE Progress(c) >= it[b]
  BY <1>1, <1>2, <1>3, IterationsAre DEF Control, Bar
<1>4. ASSUME pc[b] = "nominate" PROVE Progress(c) = RefillIteration
  <2>1. barriers[b] = RefillIteration + 1
    BY <1>2, <1>4 DEF Control
  <2>2. Progress(c) >= RefillIteration
    BY <1>1, <1>4, <2>1, IterationsAre DEF Bar
  <2> QED BY <1>1, <2>1, <2>2, IterationsAre DEF Bar
<1>5. ASSUME pc[b] = "finish" PROVE Progress(c) = Iterations
  <2>1. barriers[b] = Iterations + 2
    BY <1>2, <1>5 DEF Control
  <2>2. Progress(c) >= Iterations
    BY <1>1, <1>5, <2>1, IterationsAre DEF Bar
  <2> QED BY <1>1, <2>2, IterationsAre
<1> QED BY <1>3, <1>4, <1>5

(* A step changes the progress of no context but the one it assigns. *)
LEMMA ProgressKept ==
  ASSUME ControlInv, NEW b \in Block, BlockStep(b), NEW c \in Active(hist), ~ Assign(b, c)
  PROVE  Progress(c)' = Progress(c)
<1> DEFINE o == Owner(hist, c)
<1>1. /\ hist \in Inputs /\ ControlTypes /\ Control(b) /\ TodoInv(b) /\ pc[b] \in Phases
  BY DEF ControlInv, ControlTypes
<1>2. o \in Block /\ c \in Context /\ c \in Dealt(hist, o, Warps)
  BY <1>1, OwnersAre, ActiveIs
<1>3. /\ hist' = hist
      /\ \A d \in Block \ {b} : /\ pc'[d] = pc[d] /\ it'[d] = it[d] /\ todo'[d] = todo[d]
  BY <1>1, StepIsLocal
<1>4. /\ Progress(c) = IF pc[o] = "assign" /\ c \notin todo[o] THEN it[o] + 1 ELSE it[o]
      /\ Progress(c)' = IF pc'[o] = "assign" /\ c \notin todo'[o] THEN it'[o] + 1 ELSE it'[o]
  BY <1>3 DEF Progress
<1> HIDE DEF o
<1>5. CASE o # b
  BY <1>2, <1>3, <1>4, <1>5
<1>6. CASE o = b
  <2>1. CASE ListActive(b) \/ Arrive(b) \/ Leave(b) \/ Nominated(b) \/ Finish(b)
    BY <1>1, <1>4, <1>6, <2>1
       DEF ControlTypes, ListActive, Arrive, Leave, Passed, Nominated, Finish
  <2>2. CASE LoadClusters(b) \/ Refill(b)
    <3>1. pc[b] \notin {"stats", "start", "arrive", "spin"} /\ it'[b] = it[b]
            /\ pc[b] # "assign"
      BY <2>2 DEF LoadClusters, Refill
    <3>2. ShareOf(b, Warps) = Dealt(hist, b, Warps)
      BY <1>1, <3>1, AllReached, ShareIs
    <3>3. pc'[b] = "nominate" \/ (pc'[b] = "assign" /\ todo'[b] = Dealt(hist, b, Warps))
      BY <1>1, <2>2, <3>2 DEF LoadClusters, Refill, ControlTypes
    <3> QED BY <1>2, <1>4, <1>6, <3>1, <3>3
  <2>3. CASE \E x \in Context : Nominate(b, x)
    BY <1>4, <1>6, <2>3 DEF Nominate
  <2>4. CASE \E x \in Context : Assign(b, x)
    <3>1. PICK x \in Context : Assign(b, x)
      BY <2>4
    <3>2. x # c
      BY <3>1
    <3>3. todo'[b] = todo[b] \ {x} /\ pc' = pc /\ it' = it
      BY <1>1, <3>1 DEF Assign, ControlTypes
    <3> QED BY <1>4, <1>6, <3>2, <3>3
  <2>5. CASE Assigned(b)
    BY <1>1, <1>4, <1>6, <2>5 DEF ControlTypes, Assigned
  <2> QED BY <2>1, <2>2, <2>3, <2>4, <2>5 DEF BlockStep
<1> QED BY <1>5, <1>6

(* A step proposes no context but the one it nominates. *)
LEMMA ProposedKept ==
  ASSUME ControlInv, NEW b \in Block, BlockStep(b), NEW c \in Active(hist), ~ Nominate(b, c)
  PROVE  Proposed(c)' <=> Proposed(c)
<1>0. PICK o : o = Nominator(hist, c)
  OBVIOUS
<1>1. /\ hist \in Inputs /\ ControlTypes /\ Control(b) /\ TodoInv(b) /\ pc[b] \in Phases
      /\ barriers[b] \in Nat /\ it[b] \in 0 .. Iterations
  BY DEF ControlInv, ControlTypes
<1>2. o \in Block /\ c \in Context /\ c \in Dealt(hist, o, Warps * WarpSize)
  BY <1>0, <1>1, OwnersAre, ActiveIs
<1>3. /\ hist' = hist
      /\ \A d \in Block \ {b} : /\ pc'[d] = pc[d] /\ barriers'[d] = barriers[d]
                                /\ todo'[d] = todo[d]
  BY <1>1, StepIsLocal
<1>4. /\ Proposed(c) <=> \/ barriers[o] >= RefillIteration + 2
                         \/ HasNominated(o)
                         \/ pc[o] = "nominate" /\ c \notin todo[o]
      /\ Proposed(c)' <=> \/ barriers'[o] >= RefillIteration + 2
                          \/ HasNominated(o)'
                          \/ pc'[o] = "nominate" /\ c \notin todo'[o]
  BY <1>0, <1>3 DEF Proposed, HasNominated
<1>5. CASE o # b
  BY <1>2, <1>3, <1>4, <1>5 DEF HasNominated
<1>6. CASE o = b
  <2>1. CASE ListActive(b)
    BY <1>1, <1>4, <1>6, <2>1, IterationsAre DEF ControlTypes, ListActive, HasNominated, Control
  <2>2. CASE Arrive(b)
    <3>1. pc[b] = "arrive" /\ pc'[b] = "spin" /\ barriers'[b] = barriers[b] + 1
      BY <1>1, <2>2 DEF ControlTypes, Arrive
    <3> QED BY <1>1, <1>4, <1>6, <3>1, IterationsAre DEF HasNominated
  <2>3. CASE Leave(b)
    <3>1. /\ pc[b] = "spin" /\ pc'[b] \in {"load", "refill", "finish"}
          /\ barriers'[b] = barriers[b]
      BY <1>1, <2>3 DEF ControlTypes, Leave, Passed
    <3> QED BY <1>1, <1>4, <1>6, <3>1, IterationsAre DEF HasNominated
  <2>4. CASE LoadClusters(b) \/ Refill(b)
    <3>1. pc[b] \notin {"stats", "start", "arrive", "spin"} /\ barriers'[b] = barriers[b]
            /\ pc[b] # "nominate"
      BY <2>4 DEF LoadClusters, Refill
    <3>2. ShareOf(b, Warps * WarpSize) = Dealt(hist, b, Warps * WarpSize)
      BY <1>1, <3>1, AllReached, ShareIs
    <3>3. \/ pc'[b] = "nominate" /\ todo'[b] = Dealt(hist, b, Warps * WarpSize)
          \/ pc'[b] = "assign"
      BY <1>1, <2>4, <3>2 DEF LoadClusters, Refill, ControlTypes
    <3> QED BY <1>2, <1>4, <1>6, <3>1, <3>3 DEF HasNominated
  <2>5. CASE \E x \in Context : Nominate(b, x)
    <3>1. PICK x \in Context : Nominate(b, x)
      BY <2>5
    <3>2. x # c
      BY <3>1
    <3>3. todo'[b] = todo[b] \ {x} /\ pc' = pc /\ barriers' = barriers
      BY <1>1, <3>1 DEF Nominate, ControlTypes
    <3> QED BY <1>4, <1>6, <3>2, <3>3 DEF HasNominated
  <2>6. CASE \E x \in Context : Assign(b, x)
    BY <1>4, <1>6, <2>6 DEF Assign, HasNominated
  <2>7. CASE Nominated(b)
    <3>1. pc[b] = "nominate" /\ todo[b] = {} /\ pc'[b] = "arrive" /\ barriers' = barriers
      BY <1>1, <2>7 DEF Nominated, ControlTypes
    <3>2. barriers[b] = RefillIteration + 1
      BY <1>1, <3>1 DEF Control
    <3> QED BY <1>4, <1>6, <3>1, <3>2 DEF HasNominated
  <2>8. CASE Assigned(b)
    <3>1. pc[b] = "assign" /\ pc'[b] = "arrive" /\ barriers' = barriers
      BY <1>1, <2>8 DEF Assigned, ControlTypes
    <3>2. barriers[b] + 1 = Bar(it[b] + 1)
      BY <1>1, <3>1 DEF Control
    <3>3. barriers[b] # RefillIteration + 1
      BY <1>1, <3>2, IterationsAre DEF Bar
    <3> QED BY <1>4, <1>6, <3>1, <3>3 DEF HasNominated
  <2>9. CASE Finish(b)
    <3>1. pc[b] = "finish" /\ pc'[b] = "done" /\ barriers' = barriers
      BY <1>1, <2>9 DEF Finish, ControlTypes
    <3> QED BY <1>4, <1>6, <3>1 DEF HasNominated
  <2> QED BY <2>1, <2>2, <2>3, <2>4, <2>5, <2>6, <2>7, <2>8, <2>9 DEF BlockStep
<1> QED BY <1>5, <1>6

(* Before any context has been assigned or proposed, nothing is shared.    *)
Early == \A b \in Block : pc[b] \in {"stats", "start"}
Unshared ==
  /\ \A c \in Active(hist) : Progress(c) = 0 /\ ~ Proposed(c)
  /\ \A j \in Cluster : Proposers(j) = {} /\ Reached(0, j) = Members(hist, InitialCluster, j)
  /\ \A j \in Cluster : \A i \in 1 .. Iterations : Reached(i, j) = {}
  /\ \A b \in Block : CountsInv(b)
  /\ ~ Listed

(* Nothing is shared before the blocks have read the counts.              *)
LEMMA NothingShared == ControlInv /\ Early => Unshared
<1> SUFFICES ASSUME ControlInv, Early PROVE Unshared
  OBVIOUS
<1>1. /\ hist \in Inputs
      /\ \A b \in Block : it[b] = 0 /\ barriers[b] = 0 /\ pc[b] \in {"stats", "start"}
  BY DEF ControlInv, ControlTypes, Control, Early
<1>2. ASSUME NEW c \in Active(hist) PROVE Progress(c) = 0 /\ ~ Proposed(c)
  <2>1. Owner(hist, c) \in Block /\ Nominator(hist, c) \in Block
    BY <1>1, OwnersAre
  <2>2. Progress(c) = 0
    BY <1>1, <2>1 DEF Progress
  <2>3. ~ Proposed(c)
    BY <1>1, <2>1, IterationsAre DEF Proposed, HasNominated
  <2> QED BY <2>2, <2>3
<1>3. \A j \in Cluster : Proposers(j) = {}
  BY <1>2 DEF Proposers
<1>4. Asg(hist, 0) = InitialCluster
  BY <1>1, AssignmentsAre
<1>5. \A j \in Cluster : Reached(0, j) = Members(hist, InitialCluster, j)
  BY <1>2, <1>4 DEF Reached, Members
<1>6. \A j \in Cluster : \A i \in 1 .. Iterations : Reached(i, j) = {}
  BY <1>2 DEF Reached
<1>7. \A b \in Block : CountsInv(b)
  BY DEF CountsInv, HasNominated, Early
<1>8. ~ Listed
  BY BlockZero DEF Listed, Early
<1> QED BY <1>2, <1>3, <1>5, <1>6, <1>7, <1>8 DEF Unshared

(* The largest of zero alone is zero. *)
LEMMA MaxZero == Max({0} \cup {}) = 0
<1>1. Max({0}) = 0
  BY MaxUnique
<1>2. {0} \cup {} = {0}
  OBVIOUS
<1> QED BY <1>1, <1>2

(* Initially nothing is shared. *)
LEMMA SharedInit == Init => SharedInv
<1> SUFFICES ASSUME Init PROVE SharedInv
  OBVIOUS
<1>1. ControlInv /\ hist \in Inputs
  BY ControlInit DEF Init
<1>2. \A b \in Block : pc[b] = "stats"
  BY DEF Init
<1>3. /\ \A c \in Active(hist) : Progress(c) = 0
      /\ \A j \in Cluster : Proposers(j) = {}
      /\ \A b \in Block : CountsInv(b)
      /\ ~ Listed
  BY <1>1, <1>2, NothingShared DEF Early, Unshared
<1>4. counts \in [Block -> [Cluster -> [Symbol -> Nat]]]
  BY ZeroTotal DEF Init, NoTokens
<1>5. ClustersInv
  BY <1>2 DEF Init, ClustersInv, Before
<1>6. AssignmentInv
  BY <1>3 DEF Init, AssignmentInv
<1>7. KeysInv
  <2>1. \A j \in Cluster :
          {KeyOf(hist, Asg(hist, RefillIteration), c) : c \in Proposers(j)} = {}
    BY <1>3
  <2>2. \A j \in Cluster :
          Max({0} \cup {KeyOf(hist, Asg(hist, RefillIteration), c) : c \in Proposers(j)}) = 0
    BY <2>1, MaxZero
  <2> QED BY <2>2 DEF Init, KeysInv
<1>8. OutInv
  <2>1. \A c \in Context : pc[Writer(c)] = "stats"
    BY <1>2, OwnersAre
  <2>2. pc[0] = "stats"
    BY <1>2, BlockZero
  <2> QED BY <2>1, <2>2 DEF Init, OutInv
<1> QED BY <1>3, <1>4, <1>5, <1>6, <1>7, <1>8 DEF SharedInv, FirstInv

(* The statistics kernel leaves the histograms of the initial clusters. *)
LEMMA SharedStarted ==
  ASSUME IInv, ContextStats
  PROVE  SharedInv'
<1>1. ControlInv /\ ControlInv' /\ hist \in Inputs
  BY ControlStarted DEF IInv, ControlInv, ControlTypes
<1>2. /\ hist' = hist /\ refill_keys' = refill_keys /\ assignment' = assignment
      /\ counts' = counts /\ out' = out
      /\ cluster_hist' = [cluster_hist EXCEPT ![0] = ClusterHistograms(hist, InitialCluster)]
      /\ \A b \in Block : pc[b] = "stats" /\ pc'[b] = "start"
  BY DEF ContextStats
<1>3. /\ \A c \in Active(hist) : Progress(c) = 0
      /\ \A j \in Cluster : Proposers(j) = {}
  BY <1>1, <1>2, NothingShared DEF Early, Unshared
<1>4. /\ \A c \in Active(hist)' : Progress(c)' = 0
      /\ \A j \in Cluster : Proposers(j)' = {} /\ Reached(0, j)' = Members(hist', InitialCluster, j)
      /\ \A j \in Cluster : \A i \in 1 .. Iterations : Reached(i, j)' = {}
      /\ \A b \in Block : CountsInv(b)'
      /\ ~ Listed'
  <2>1. Early'
    BY <1>2 DEF Early
  <2>2. Unshared'
    BY <1>1, <2>1, NothingShared, PTL
  <2> QED BY <2>2 DEF Unshared
<1>5. ClustersInv'
  <2>1. Before /\ ~ Before'
    BY <1>2, BlockZero DEF Before
  <2>2. cluster_hist = [i \in 0 .. Iterations |-> NoTokens]
    BY <2>1 DEF IInv, SharedInv, ClustersInv
  <2>3. ASSUME NEW i \in 0 .. Iterations
        PROVE  cluster_hist'[i] = [j \in Cluster |-> SumOf(hist, Reached(i, j)')]
    <3>1. CASE i = 0
      BY <1>1, <1>2, <1>4, <2>2, <3>1, ClusterHistogramsAre
    <3>2. CASE i # 0
      <4>1. i \in 1 .. Iterations
        BY <3>2
      <4>2. \A j \in Cluster : SumOf(hist, Reached(i, j)') = Zero
        BY <1>4, <4>1, ZeroTotal
      <4>3. cluster_hist'[i] = NoTokens
        BY <1>2, <2>2, <3>2
      <4> QED BY <4>2, <4>3 DEF NoTokens
    <3> QED BY <3>1, <3>2
  <2>4. cluster_hist' = [i \in 0 .. Iterations |-> cluster_hist'[i]]
    BY <1>2, <2>2
  <2>5. cluster_hist' = [i \in 0 .. Iterations |-> [j \in Cluster |-> SumOf(hist, Reached(i, j)')]]
    BY <2>3, <2>4, Zenon
  <2>6. hist' = hist
    BY <1>2
  <2> QED BY <2>1, <2>5, <2>6 DEF ClustersInv
<1>6. AssignmentInv'
  BY <1>2, <1>3, <1>4 DEF IInv, SharedInv, AssignmentInv
<1>7. KeysInv'
  BY <1>2, <1>3, <1>4 DEF IInv, SharedInv, KeysInv
<1>8. OutInv'
  <2>1. \A c \in Context : pc[Writer(c)] = "stats" /\ pc'[Writer(c)] = "start"
    BY <1>2, OwnersAre
  <2>2. pc[0] = "stats" /\ pc'[0] = "start"
    BY <1>2, BlockZero
  <2> QED BY <1>2, <2>1, <2>2 DEF IInv, SharedInv, OutInv
<1> QED BY <1>2, <1>4, <1>5, <1>6, <1>7, <1>8 DEF IInv, SharedInv, FirstInv

(* The assignment of a context in iteration i to cluster j, with all that  *)
(* it changes.                                                             *)
Assigns(b, c, i, j) ==
  /\ i = it[b] /\ i \in 0 .. Iterations - 1 /\ i + 1 \in 0 .. Iterations
  /\ j = Asg(hist, i + 1)[c] /\ j \in Cluster
  /\ hist' = hist /\ c \in Active(hist) /\ Progress(c) = i /\ Progress(c)' = i + 1
  /\ \A d \in Active(hist) \ {c} : Progress(d)' = Progress(d)
  /\ cluster_hist' = [cluster_hist EXCEPT ![i + 1][j] = Add(@, hist[c])]
  /\ assignment' = [assignment EXCEPT ![c] = j]
  /\ first_context' = IF i + 1 = Iterations
                      THEN [first_context EXCEPT ![j] = Min({@, c})] ELSE first_context

(* A warp puts its context where the reference's next assignment has it:   *)
(* the block's clusters are the whole of the last assignment's.            *)
LEMMA AssignIs ==
  ASSUME IInv, NEW b \in Block, NEW c \in Context, Assign(b, c)
  PROVE  \E i, j : Assigns(b, c, i, j)
<1>0. PICK i, j : i = it[b] /\ j = Asg(hist, i + 1)[c]
  OBVIOUS
<1>1. /\ ControlInv /\ ControlTypes /\ Control(b) /\ TodoInv(b) /\ CountsInv(b)
      /\ hist \in Inputs /\ it[b] \in 0 .. Iterations
  BY DEF IInv, ControlInv, ControlTypes, SharedInv
<1>2. /\ pc[b] = "assign" /\ c \in todo[b] /\ todo'[b] = todo[b] \ {c} /\ pc' = pc /\ it' = it
  BY <1>1 DEF Assign, ControlTypes
<1>3. i \in 0 .. Iterations - 1 /\ i + 1 \in 0 .. Iterations
  BY <1>0, <1>1, <1>2, IterationsAre DEF Control
<1>4. c \in Active(hist) /\ Owner(hist, c) = b
  <2>1. c \in Dealt(hist, b, Warps)
    BY <1>1, <1>2 DEF TodoInv
  <2>2. c \in Active(hist)
    BY <2>1 DEF Dealt
  <2> QED BY <1>1, <2>1, <2>2, OwnersAre
<1>5. hist' = hist
  BY <1>1, StepIsLocal DEF BlockStep
<1>6. Progress(c) = i /\ Progress(c)' = i + 1
  BY <1>0, <1>2, <1>4, <1>5 DEF Progress
<1>7. ASSUME NEW d \in Active(hist) \ {c} PROVE Progress(d)' = Progress(d)
  <2>1. ~ Assign(b, d)
    <3>1. SUFFICES ASSUME Assign(b, d) PROVE FALSE
      OBVIOUS
    <3>2. todo'[b] = todo[b] \ {d}
      BY <1>1, <3>1 DEF Assign, ControlTypes
    <3> QED BY <1>2, <1>7, <3>2
  <2>2. BlockStep(b)
    BY DEF BlockStep
  <2> QED BY <1>1, <1>7, <2>1, <2>2, ProgressKept
<1>8. Cheapest(hist[c], counts[b], alphabet) = j
  <2>1. counts[b] = ClusterHistograms(hist, Refilled(hist, i, Asg(hist, i)))
    BY <1>0, <1>1, <1>2 DEF CountsInv
  <2>2. alphabet = Alphabet(hist)
    BY <1>1, <1>2, AllReached
  <2>3. Asg(hist, i + 1)[c] =
          Cheapest(hist[c], ClusterHistograms(hist, Refilled(hist, i, Asg(hist, i))), Alphabet(hist))
    BY <1>1, <1>3, <1>4, AssignmentsAre
  <2> QED BY <1>0, <2>1, <2>2, <2>3
<1>9. j \in Cluster
  <2>1. Asg(hist, i + 1) \in [Context -> Cluster]
    BY <1>1, <1>3, AssignmentsAre
  <2> QED BY <1>0, <2>1
<1>10. /\ cluster_hist' = [cluster_hist EXCEPT ![i + 1][j] = Add(@, hist[c])]
       /\ assignment' = [assignment EXCEPT ![c] = j]
       /\ first_context' = IF i + 1 = Iterations
                           THEN [first_context EXCEPT ![j] = Min({@, c})] ELSE first_context
  BY <1>0, <1>8 DEF Assign
<1>11. Assigns(b, c, i, j)
  BY <1>0, <1>3, <1>4, <1>5, <1>6, <1>7, <1>9, <1>10 DEF Assigns
<1> QED BY <1>11

(* It joins the contexts that have reached its cluster in this iteration,  *)
(* and no others.                                                          *)
LEMMA ReachedAssigned ==
  ASSUME NEW b, NEW c, NEW i, NEW j, Assigns(b, c, i, j),
         NEW k \in 0 .. Iterations, NEW m \in Cluster
  PROVE  /\ k = i + 1 /\ m = j => /\ c \notin Reached(k, m)
                                  /\ Reached(k, m)' = Reached(k, m) \cup {c}
         /\ k # i + 1 \/ m # j => Reached(k, m)' = Reached(k, m)
<1>1. /\ i \in 0 .. Iterations - 1 /\ j = Asg(hist, i + 1)[c]
      /\ c \in Active(hist) /\ Progress(c) = i /\ Progress(c)' = i + 1
      /\ \A d \in Active(hist) \ {c} : Progress(d)' = Progress(d)
  BY DEF Assigns
<1>2. hist' = hist
  BY DEF Assigns
<1>3. Reached(k, m)' = {d \in Active(hist) : Progress(d)' >= k /\ Asg(hist, k)[d] = m}
  BY <1>2 DEF Reached
<1>4. \A d \in Active(hist) : d # c => (d \in Reached(k, m)' <=> d \in Reached(k, m))
  BY <1>1, <1>3 DEF Reached
<1>5. \A d : d \in Reached(k, m)' \/ d \in Reached(k, m) => d \in Active(hist)
  BY <1>3 DEF Reached
<1>6. /\ c \in Reached(k, m)' <=> i + 1 >= k /\ Asg(hist, k)[c] = m
      /\ c \in Reached(k, m) <=> i >= k /\ Asg(hist, k)[c] = m
  BY <1>1, <1>3 DEF Reached
<1>7. k = i + 1 /\ m = j => c \notin Reached(k, m) /\ c \in Reached(k, m)'
  BY <1>1, <1>6
<1>8. k # i + 1 \/ m # j => (c \in Reached(k, m)' <=> c \in Reached(k, m))
  <2>1. k # i + 1 => (i + 1 >= k <=> i >= k)
    BY <1>1
  <2> QED BY <1>1, <1>6, <2>1
<1> QED BY <1>4, <1>5, <1>7, <1>8

(* Without an assignment nothing that depends on the progress changes. *)
LEMMA ReachedKept ==
  ASSUME IInv, NEW b \in Block, BlockStep(b), ~ \E c \in Context : Assign(b, c)
  PROVE  /\ cluster_hist' = cluster_hist /\ assignment' = assignment
         /\ hist' = hist
         /\ \A c \in Active(hist) : Progress(c)' = Progress(c)
         /\ \A i, j : Reached(i, j)' = Reached(i, j)
<1>1. cluster_hist' = cluster_hist /\ assignment' = assignment
  BY DEF BlockStep, ListActive, Arrive, Leave, LoadClusters, Nominate,
         Nominated, Refill, Assigned, Finish, scratch
<1>2. hist' = hist /\ hist \in Inputs
  BY StepIsLocal DEF IInv, ControlInv, ControlTypes
<1>3. \A c \in Active(hist) : Progress(c)' = Progress(c)
  BY <1>2, ProgressKept, ActiveIs DEF IInv
<1>4. \A i, j : Reached(i, j)' = Reached(i, j)
  BY <1>2, <1>3 DEF Reached
<1> QED BY <1>1, <1>2, <1>3, <1>4

(* The clusters' histograms are the sums of those that have reached them.  *)
LEMMA ClustersKept ==
  ASSUME IInv, NEW b \in Block, BlockStep(b)
  PROVE  ClustersInv'
<1>1. /\ ControlInv /\ hist \in Inputs /\ ~ Before /\ ~ Before'
  BY ListKept DEF IInv, ControlInv, ControlTypes
<1>2. cluster_hist = [k \in 0 .. Iterations |-> [m \in Cluster |-> SumOf(hist, Reached(k, m))]]
  BY <1>1 DEF IInv, SharedInv, ClustersInv
<1>3. CASE \E c \in Context : Assign(b, c)
  <2>1. PICK c \in Context : Assign(b, c)
    BY <1>3
  <2>2. PICK i, j : Assigns(b, c, i, j)
    BY <2>1, AssignIs
  <2>3. /\ i + 1 \in 0 .. Iterations /\ j \in Cluster
        /\ cluster_hist' = [cluster_hist EXCEPT ![i + 1][j] = Add(@, hist[c])]
    BY <2>2 DEF Assigns
  <2>5. \A k \in 0 .. Iterations, m \in Cluster :
          /\ k = i + 1 /\ m = j => /\ c \notin Reached(k, m)
                                   /\ Reached(k, m)' = Reached(k, m) \cup {c}
          /\ k # i + 1 \/ m # j => Reached(k, m)' = Reached(k, m)
    BY <2>2, ReachedAssigned
  <2>6. hist' = hist
    BY <1>1, StepIsLocal DEF ControlInv
  <2> DEFINE V(k, m) == SumOf(hist, Reached(k, m))
             W(k, m) == SumOf(hist, Reached(k, m)')
  <2>7. W(i + 1, j) = Add(V(i + 1, j), hist[c])
    <3>1. Reached(i + 1, j) \in SUBSET Context /\ c \notin Reached(i + 1, j)
            /\ Reached(i + 1, j)' = Reached(i + 1, j) \cup {c}
      BY <1>1, <2>3, <2>5, ActiveIs DEF Reached
    <3>2. SumOf(hist, Reached(i + 1, j) \cup {c}) = Add(SumOf(hist, Reached(i + 1, j)), hist[c])
      <4>1. c \in Context
        OBVIOUS
      <4> HIDE DEF V, W
      <4> QED BY <1>1, <3>1, <4>1, SumOfChanges
    <3> QED BY <3>1, <3>2, Zenon
  <2>8. \A k \in 0 .. Iterations, m \in Cluster : k # i + 1 \/ m # j => W(k, m) = V(k, m)
    BY <2>5
  <2>9. cluster_hist = [k \in 0 .. Iterations |-> [m \in Cluster |-> V(k, m)]]
    BY <1>2
  <2>10. ClustersInv' <=>
           cluster_hist' = [k \in 0 .. Iterations |-> [m \in Cluster |-> W(k, m)]]
    BY <1>1, <2>6 DEF ClustersInv
  <2> HIDE DEF V, W
  <2>11. cluster_hist' = [k \in 0 .. Iterations |-> [m \in Cluster |-> W(k, m)]]
    <3>1. cluster_hist' = [k \in 0 .. Iterations |->
             IF k = i + 1 THEN [cluster_hist[k] EXCEPT ![j] = Add(@, hist[c])]
             ELSE cluster_hist[k]]
      BY <2>3, <2>9
    <3>2. ASSUME NEW k \in 0 .. Iterations
          PROVE  cluster_hist'[k] = [m \in Cluster |-> W(k, m)]
      <4>1. cluster_hist[k] = [m \in Cluster |-> V(k, m)]
        BY <2>9
      <4>2. CASE k = i + 1
        <5>1. cluster_hist'[k] = [m \in Cluster |-> IF m = j THEN Add(V(k, j), hist[c]) ELSE V(k, m)]
          BY <2>3, <3>1, <4>1, <4>2
        <5> QED BY <2>7, <2>8, <4>2, <5>1
      <4>3. CASE k # i + 1
        BY <2>8, <3>1, <4>1, <4>3
      <4> QED BY <4>2, <4>3
    <3> QED BY <3>1, <3>2
  <2> QED BY <2>10, <2>11
<1>4. CASE ~ \E c \in Context : Assign(b, c)
  BY <1>1, <1>2, <1>4, ReachedKept DEF ClustersInv
<1> QED BY <1>3, <1>4

(* A context's cluster is the one it was last assigned.                    *)
LEMMA AssignmentKept ==
  ASSUME IInv, NEW b \in Block, BlockStep(b)
  PROVE  AssignmentInv'
<1>1. AssignmentInv /\ hist' = hist
  BY StepIsLocal DEF IInv, SharedInv, ControlInv
<1>2. CASE \E c \in Context : Assign(b, c)
  <2>1. PICK c \in Context : Assign(b, c)
    BY <1>2
  <2>2. PICK i, j : Assigns(b, c, i, j)
    BY <2>1, AssignIs
  <2>3. /\ i \in 0 .. Iterations - 1 /\ j = Asg(hist, i + 1)[c]
        /\ c \in Active(hist) /\ Progress(c)' = i + 1
        /\ \A d \in Active(hist) \ {c} : Progress(d)' = Progress(d)
        /\ assignment' = [assignment EXCEPT ![c] = j]
    BY <2>2 DEF Assigns
  <2>5. ASSUME NEW d \in Context
        PROVE  assignment'[d] = IF d \in Active(hist) /\ Progress(d)' > 0
                                THEN Asg(hist, Progress(d)')[d] ELSE 0
    <3>1. CASE d = c
      BY <1>1, <2>3, <3>1 DEF AssignmentInv
    <3>2. CASE d # c
      BY <1>1, <2>3, <3>2 DEF AssignmentInv
    <3> QED BY <3>1, <3>2
  <2>6. assignment' = [d \in Context |-> assignment'[d]]
    BY <1>1, <2>3 DEF AssignmentInv
  <2>7. assignment' = [d \in Context |-> IF d \in Active(hist) /\ Progress(d)' > 0
                                         THEN Asg(hist, Progress(d)')[d] ELSE 0]
    BY <2>5, <2>6
  <2> QED BY <1>1, <2>7 DEF AssignmentInv
<1>3. CASE ~ \E c \in Context : Assign(b, c)
  BY <1>1, <1>3, ReachedKept DEF AssignmentInv
<1> QED BY <1>2, <1>3

(* With every context assigned in an iteration, the shared clusters are    *)
(* the whole of its assignment's.                                          *)
LEMMA AllAssigned ==
  ASSUME IInv, ~ Before, NEW i \in 0 .. Iterations, \A c \in Active(hist) : Progress(c) >= i
  PROVE  /\ \A j : Reached(i, j) = Members(hist, Asg(hist, i), j)
         /\ cluster_hist[i] = ClusterHistograms(hist, Asg(hist, i))
<1>1. \A j : Reached(i, j) = Members(hist, Asg(hist, i), j)
  BY DEF Reached, Members
<1>2. cluster_hist[i] = [j \in Cluster |-> SumOf(hist, Reached(i, j))]
  BY DEF IInv, SharedInv, ClustersInv
<1>3. \A j : SumOf(hist, Reached(i, j)) = SumOf(hist, Members(hist, Asg(hist, i), j))
  BY <1>1, Zenon
<1>4. ClusterHistograms(hist, Asg(hist, i)) =
        [j \in Cluster |-> SumOf(hist, Members(hist, Asg(hist, i), j))]
  BY ClusterHistogramsAre
<1> QED BY <1>1, <1>2, <1>3, <1>4

(* The smallest of one number is that number. *)
LEMMA MinOne == \A k \in Int : Min({k} \cup {}) = k
<1> SUFFICES ASSUME NEW k \in Int PROVE Min({k} \cup {}) = k
  OBVIOUS
<1>1. Min({k}) = k
  BY MinUnique
<1>2. {k} \cup {} = {k}
  OBVIOUS
<1> QED BY <1>1, <1>2

(* The first contexts are those of the contexts that have reached the end. *)
LEMMA FirstKept ==
  ASSUME IInv, NEW b \in Block, BlockStep(b)
  PROVE  FirstInv'
<1>1. /\ ControlInv /\ ControlTypes /\ FirstInv /\ hist \in Inputs /\ hist' = hist
  BY StepIsLocal DEF IInv, ControlInv, ControlTypes, SharedInv
<1>2. None \in Int /\ \A c \in Context : c \in Int
  BY ClusteringAssumption DEF None, Context
<1>3. CASE \E c \in Context : Assign(b, c)
  <2>1. PICK c \in Context : Assign(b, c)
    BY <1>3
  <2>2. PICK i, j : Assigns(b, c, i, j)
    BY <2>1, AssignIs
  <2>3. /\ i + 1 \in 0 .. Iterations /\ j \in Cluster
        /\ first_context' = IF i + 1 = Iterations
                            THEN [first_context EXCEPT ![j] = Min({@, c})] ELSE first_context
    BY <2>2 DEF Assigns
  <2>4. pc[b] = "assign" /\ pc' = pc
    BY <2>1 DEF Assign
  <2>5. Listed
    BY <1>1, <2>4, AllReached
  <2>6. Iterations \in 0 .. Iterations
    BY IterationsAre
  <2>7. \A m \in Cluster :
          /\ Iterations = i + 1 /\ m = j => Reached(Iterations, m)' = Reached(Iterations, m) \cup {c}
          /\ Iterations # i + 1 \/ m # j => Reached(Iterations, m)' = Reached(Iterations, m)
    BY <2>2, <2>6, ReachedAssigned
  <2> DEFINE V(m) == Min({None} \cup Reached(Iterations, m))
             W(m) == Min({None} \cup Reached(Iterations, m)')
  <2>8. first_context = [m \in Cluster |-> V(m)]
    BY <1>1, <2>5 DEF FirstInv
  <2>9. \A m \in Cluster : Iterations # i + 1 \/ m # j => W(m) = V(m)
    BY <2>7
  <2>10. Iterations = i + 1 => W(j) = Min({V(j), c})
    <3> SUFFICES ASSUME Iterations = i + 1 PROVE W(j) = Min({V(j), c})
      OBVIOUS
    <3> DEFINE S == {None} \cup Reached(Iterations, j)
    <3>1. Reached(Iterations, j) \subseteq Active(hist)
      BY DEF Reached
    <3>2. IsFiniteSet(Reached(Iterations, j)) /\ Reached(Iterations, j) \subseteq Int
      BY <1>1, <3>1, ActiveIs, FS_Subset
    <3>3. IsFiniteSet(Reached(Iterations, j) \cup {None})
      BY <3>2, FS_AddElement
    <3>4. Reached(Iterations, j) \cup {None} = S
      OBVIOUS
    <3>5. IsFiniteSet(S) /\ S # {} /\ S \subseteq Int
      BY <1>2, <3>2, <3>3, <3>4
    <3>6. Min(S \cup {c}) = Min({Min(S), c})
      <4>1. c \in Int
        BY <1>2
      <4> HIDE DEF S, V, W
      <4> QED BY <3>5, <4>1, MinAdd
    <3>7. {None} \cup Reached(Iterations, j)' = S \cup {c}
      BY <2>3, <2>7
    <3>8. W(j) = Min(S \cup {c})
      BY <3>7, Zenon
    <3> HIDE DEF W
    <3> QED BY <3>6, <3>8
  <2>11. FirstInv' <=> (Listed' => first_context' = [m \in Cluster |-> W(m)])
    BY <1>1 DEF FirstInv, None
  <2> HIDE DEF V, W
  <2>12. first_context' = [m \in Cluster |-> W(m)]
    <3>1. CASE i + 1 = Iterations
      <4>1. first_context' = [m \in Cluster |-> IF m = j THEN Min({V(j), c}) ELSE V(m)]
        BY <2>3, <2>8, <3>1
      <4> QED BY <2>9, <2>10, <3>1, <4>1
    <3>2. CASE i + 1 # Iterations
      BY <2>3, <2>8, <2>9, <3>2
    <3> QED BY <3>1, <3>2
  <2> QED BY <2>11, <2>12
<1>4. CASE ListActive(b) /\ b = 0
  <2>1. pc[b] = "start" /\ first_context' = [j \in Cluster |-> None]
    BY <1>4 DEF ListActive
  <2>2. ~ \E c \in Context : Assign(b, c)
    BY <2>1 DEF Assign
  <2>3. \A i, j : Reached(i, j)' = Reached(i, j)
    BY <2>2, ReachedKept
  <2>4. ASSUME NEW c \in Active(hist) PROVE Progress(c) = 0
    <3>1. Owner(hist, c) \in Block
      BY <1>1, OwnersAre
    <3>2. /\ pc[Owner(hist, c)] \in {"stats", "start", "arrive", "spin"}
          /\ it[Owner(hist, c)] = 0
      BY <1>1, <2>1, <3>1, NoneStarted
    <3> QED BY <3>2 DEF Progress
  <2>5. \A j : Reached(Iterations, j)' = {}
    <3>1. \A j : Reached(Iterations, j) = {}
      BY <2>4, IterationsAre DEF Reached
    <3> QED BY <2>3, <3>1
  <2>6. \A j : Min({None} \cup Reached(Iterations, j)') = None
    <3>1. Min({None} \cup {}) = None
      BY <1>2, MinOne
    <3> QED BY <2>5, <3>1
  <2> QED BY <2>1, <2>6 DEF FirstInv, None
<1>5. CASE ~ (ListActive(b) /\ b = 0) /\ ~ \E c \in Context : Assign(b, c)
  <2>1. first_context' = first_context
    BY <1>5 DEF BlockStep, ListActive, Arrive, Leave, LoadClusters, Nominate, Nominated, Refill,
                Assigned, Finish, scratch
  <2>2. \A i, j : Reached(i, j)' = Reached(i, j)
    BY <1>5, ReachedKept
  <2>3. Listed' <=> Listed
    <3>1. pc[b] # "start" \/ b # 0
      BY <1>5 DEF BlockStep, Arrive, Leave, LoadClusters, Nominate, Nominated, Refill,
                  Assigned, Finish
    <3> QED BY <1>1, <3>1, ListKept
  <2> QED BY <1>1, <2>1, <2>2, <2>3 DEF FirstInv, None
<1> QED BY <1>3, <1>4, <1>5

(* A block that refills finds the reference's nominees: every context has  *)
(* been proposed, with its key among the clusters of the last assignment.  *)
LEMMA AllProposed ==
  ASSUME IInv, NEW b \in Block, pc[b] = "refill"
  PROVE  refill_keys = [j \in Cluster |-> ClusterKey(hist, Asg(hist, RefillIteration), j)]
<1>1. ControlInv /\ hist \in Inputs /\ KeysInv
  BY DEF IInv, ControlInv, ControlTypes, SharedInv
<1>2. \A c \in Active(hist) : Proposed(c)
  <2>1. barriers[b] = RefillIteration + 2
    BY <1>1 DEF ControlInv, Control
  <2>2. \A d \in Block : barriers[d] >= RefillIteration + 2
    BY <1>1, <2>1, AllReached
  <2> QED BY <1>1, <2>2, OwnersAre DEF Proposed
<1>3. \A j : Proposers(j) = Members(hist, Asg(hist, RefillIteration), j)
  BY <1>2 DEF Proposers, Members
<1> QED BY <1>1, <1>3 DEF KeysInv, ClusterKey

(* The nomination of a context in cluster j, with all that it changes. *)
Nominates(b, c, j) ==
  /\ hist' = hist /\ c \in Active(hist)
  /\ j = Asg(hist, RefillIteration)[c] /\ j \in Cluster
  /\ Proposed(c)'
  /\ \A d \in Active(hist) \ {c} : Proposed(d)' <=> Proposed(d)
  /\ refill_keys' = [refill_keys EXCEPT ![j] =
                       Max({@, KeyOf(hist, Asg(hist, RefillIteration), c)})]

(* A thread proposes its context with its key in the reference's clusters. *)
LEMMA NominateIs ==
  ASSUME IInv, NEW b \in Block, NEW c \in Context, Nominate(b, c)
  PROVE  \E j : Nominates(b, c, j)
<1>0. PICK j : j = Asg(hist, RefillIteration)[c]
  OBVIOUS
<1>1. /\ ControlInv /\ ControlTypes /\ TodoInv(b) /\ CountsInv(b) /\ AssignmentInv
      /\ hist \in Inputs /\ hist' = hist
  BY StepIsLocal DEF IInv, ControlInv, ControlTypes, SharedInv, BlockStep
<1>2. /\ pc[b] = "nominate" /\ c \in todo[b] /\ todo'[b] = todo[b] \ {c} /\ pc' = pc
  BY <1>1 DEF Nominate, ControlTypes
<1>3. c \in Active(hist) /\ Nominator(hist, c) = b
  <2>1. c \in Dealt(hist, b, Warps * WarpSize)
    BY <1>1, <1>2 DEF TodoInv
  <2>2. c \in Active(hist)
    BY <2>1 DEF Dealt
  <2> QED BY <1>1, <2>1, <2>2, OwnersAre
<1>4. Proposed(c)'
  BY <1>1, <1>2, <1>3 DEF Proposed
<1>5. ASSUME NEW d \in Active(hist) \ {c} PROVE Proposed(d)' <=> Proposed(d)
  <2>1. ~ Nominate(b, d)
    <3>1. SUFFICES ASSUME Nominate(b, d) PROVE FALSE
      OBVIOUS
    <3>2. todo'[b] = todo[b] \ {d}
      BY <1>1, <3>1 DEF Nominate, ControlTypes
    <3> QED BY <1>2, <1>5, <3>2
  <2>2. BlockStep(b)
    BY DEF BlockStep
  <2> QED BY <1>1, <1>5, <2>1, <2>2, ProposedKept
<1>6. assignment[c] = j /\ j \in Cluster
  <2>1. Progress(c) = RefillIteration
    BY <1>1, <1>2, <1>3, ProgressAt
  <2>2. assignment[c] = j
    BY <1>0, <1>1, <1>3, <2>1, IterationsAre DEF AssignmentInv
  <2>3. Asg(hist, RefillIteration) \in [Context -> Cluster]
    BY <1>1, IterationsAre, AssignmentsAre
  <2> QED BY <1>0, <2>2, <2>3
<1>7. counts[b] = ClusterHistograms(hist, Asg(hist, RefillIteration)) /\ alphabet = Alphabet(hist)
  <2>1. alphabet = Alphabet(hist)
    BY <1>1, <1>2, AllReached
  <2> QED BY <1>1, <1>2, <2>1 DEF CountsInv
<1>8. RefillKey(RefillExcess(hist[c], counts[b][j], alphabet), c)
        = KeyOf(hist, Asg(hist, RefillIteration), c)
  BY <1>0, <1>7 DEF KeyOf
<1>9. refill_keys' = [refill_keys EXCEPT ![j] =
                        Max({@, KeyOf(hist, Asg(hist, RefillIteration), c)})]
  <2>1. refill_keys' = [refill_keys EXCEPT ![assignment[c]] =
           Max({@, RefillKey(RefillExcess(hist[c], counts[b][assignment[c]], alphabet), c)})]
    BY DEF Nominate
  <2> QED BY <1>6, <1>8, <2>1
<1>10. Nominates(b, c, j)
  BY <1>0, <1>1, <1>3, <1>4, <1>5, <1>6, <1>9 DEF Nominates
<1> QED BY <1>10

(* The nominees' keys are the largest of the contexts proposed so far.     *)
LEMMA KeysKept ==
  ASSUME IInv, NEW b \in Block, BlockStep(b)
  PROVE  KeysInv'
<1> DEFINE key(c) == KeyOf(hist, Asg(hist, RefillIteration), c)
           V(m) == Max({0} \cup {key(c) : c \in Proposers(m)})
           W(m) == Max({0} \cup {key(c) : c \in Proposers(m)'})
<1>1. /\ ControlInv /\ hist \in Inputs /\ hist' = hist
      /\ refill_keys = [m \in Cluster |-> V(m)]
  BY StepIsLocal DEF IInv, ControlInv, ControlTypes, SharedInv, KeysInv
<1>2. KeysInv' <=> refill_keys' = [m \in Cluster |-> W(m)]
  BY <1>1 DEF KeysInv
<1>3. \A m : Proposers(m)' = {d \in Active(hist) :
                                Proposed(d)' /\ Asg(hist, RefillIteration)[d] = m}
  BY <1>1 DEF Proposers
<1>4. CASE \E c \in Context : Nominate(b, c)
  <2>1. PICK c \in Context : Nominate(b, c)
    BY <1>4
  <2>2. PICK j : Nominates(b, c, j)
    BY <2>1, NominateIs
  <2>3. /\ c \in Active(hist) /\ j = Asg(hist, RefillIteration)[c] /\ j \in Cluster
        /\ Proposed(c)' /\ \A d \in Active(hist) \ {c} : Proposed(d)' <=> Proposed(d)
        /\ refill_keys' = [refill_keys EXCEPT ![j] = Max({@, key(c)})]
    BY <2>2 DEF Nominates
  <2>4. \A m : m # j => Proposers(m)' = Proposers(m)
    BY <1>3, <2>3 DEF Proposers
  <2>5. Proposers(j)' = Proposers(j) \cup {c}
    <3>1. \A d : d \in Proposers(j) <=>
                   d \in Active(hist) /\ Proposed(d) /\ Asg(hist, RefillIteration)[d] = j
      BY DEF Proposers
    <3>2. \A d : d \in Proposers(j)' <=>
                   d \in Active(hist) /\ Proposed(d)' /\ Asg(hist, RefillIteration)[d] = j
      BY <1>3
    <3> QED BY <2>3, <3>1, <3>2
  <2>6. \A m \in Cluster : m # j => W(m) = V(m)
    BY <2>4, Zenon
  <2>7. W(j) = Max({V(j), key(c)})
    <3> DEFINE S == {0} \cup {key(d) : d \in Proposers(j)}
    <3>1. Asg(hist, RefillIteration) \in [Context -> Cluster]
      BY <1>1, IterationsAre, AssignmentsAre
    <3>2. Proposers(j) \in SUBSET Active(hist)
      BY DEF Proposers
    <3>3. IsFiniteSet(S) /\ S \subseteq Nat
      BY <1>1, <3>1, <3>2, KeysFinite
    <3>4. key(c) \in Nat
      BY <1>1, <2>3, <3>1, KeyOfIs
    <3>5. {0} \cup {key(d) : d \in Proposers(j)'} = S \cup {key(c)}
      <4> HIDE DEF key
      <4> QED BY <2>5
    <3>6. S # {}
      OBVIOUS
    <3>7. Max(S \cup {key(c)}) = Max({Max(S), key(c)})
      <4>1. S \subseteq Int /\ key(c) \in Int
        BY <3>3, <3>4
      <4> HIDE DEF S, key
      <4> QED BY <3>3, <3>6, <4>1, MaxAdd
    <3>8. W(j) = Max(S \cup {key(c)})
      BY <3>5, Zenon
    <3> QED BY <3>7, <3>8
  <2> HIDE DEF V, W, key
  <2>8. refill_keys' = [m \in Cluster |-> IF m = j THEN Max({V(j), key(c)}) ELSE V(m)]
    BY <1>1, <2>3
  <2> QED BY <1>2, <2>6, <2>7, <2>8
<1>5. CASE ~ \E c \in Context : Nominate(b, c)
  <2>1. refill_keys' = refill_keys
    BY <1>5 DEF BlockStep, ListActive, Arrive, Leave, LoadClusters, Nominated, Refill,
                Assign, Assigned, Finish, scratch
  <2>2. \A c \in Active(hist) : Proposed(c)' <=> Proposed(c)
    BY <1>1, <1>5, ProposedKept, ActiveIs
  <2>3. \A m : Proposers(m)' = Proposers(m)
    BY <1>3, <2>2 DEF Proposers
  <2>4. \A m : W(m) = V(m)
    BY <2>3, Zenon
  <2> HIDE DEF V, W
  <2> QED BY <1>1, <1>2, <2>1, <2>4
<1> QED BY <1>4, <1>5

(* The clusters in a block's memory are the reference's, before and after  *)
(* the refill.                                                             *)
LEMMA CountsKept ==
  ASSUME IInv, NEW b \in Block, BlockStep(b)
  PROVE  /\ counts' \in [Block -> [Cluster -> [Symbol -> Nat]]]
         /\ \A d \in Block : CountsInv(d)'
<1>1. /\ ControlInv /\ ControlTypes /\ Control(b) /\ CountsInv(b) /\ ~ Before
      /\ counts \in [Block -> [Cluster -> [Symbol -> Nat]]]
      /\ hist \in Inputs /\ hist' = hist
  BY StepIsLocal, ListKept DEF IInv, ControlInv, ControlTypes, SharedInv
<1>2. \A a : ClusterHistograms(hist, a) \in [Cluster -> [Symbol -> Nat]]
  <2>1. 0 \in Cluster
    BY ClusteringAssumption DEF Cluster
  <2> QED BY <1>1, <2>1, HistogramsTyped
<1>3. ASSUME NEW d \in Block \ {b}, counts'[d] = counts[d] PROVE CountsInv(d)'
  <2>1. pc'[d] = pc[d] /\ it'[d] = it[d] /\ barriers'[d] = barriers[d]
    BY <1>1, StepIsLocal
  <2>2. CountsInv(d)
    BY DEF IInv, SharedInv
  <2> QED BY <1>1, <1>3, <2>1, <2>2 DEF CountsInv, HasNominated
<1>4. CASE LoadClusters(b)
  <2>1. pc[b] = "load" /\ it' = it /\ it[b] \in 0 .. Iterations
    BY <1>1, <1>4 DEF LoadClusters, ControlTypes
  <2>2. cluster_hist[it[b]] = ClusterHistograms(hist, Asg(hist, it[b]))
    BY <1>1, <2>1, ProgressAt, AllAssigned
  <2>3. counts' = [counts EXCEPT ![b] = ClusterHistograms(hist, Asg(hist, it[b]))]
    BY <1>4, <2>2 DEF LoadClusters
  <2>4. \/ pc'[b] = "nominate" /\ it[b] = RefillIteration
        \/ pc'[b] = "assign" /\ it[b] # RefillIteration
    BY <1>1, <1>4 DEF LoadClusters, ControlTypes
  <2>5. CountsInv(b)'
    <3>1. counts'[b] = ClusterHistograms(hist, Asg(hist, it[b]))
      BY <1>1, <2>3
    <3> QED BY <1>1, <2>1, <2>4, <3>1 DEF CountsInv, HasNominated, Refilled
  <2>6. counts' \in [Block -> [Cluster -> [Symbol -> Nat]]]
    BY <1>1, <1>2, <2>3
  <2>7. \A d \in Block \ {b} : counts'[d] = counts[d]
    BY <1>1, <2>3
  <2> QED BY <1>3, <2>5, <2>6, <2>7
<1>5. CASE Refill(b)
  <2> DEFINE a == Asg(hist, RefillIteration)
             made == [j \in Cluster |->
                        IF \E m \in Moves(b) : m.to = j
                        THEN hist[(CHOOSE m \in Moves(b) : m.to = j).context]
                        ELSE IF \E m \in Moves(b) : m.from = j
                        THEN LET m == CHOOSE m \in Moves(b) : m.from = j
                             IN  [s \in Symbol |-> counts[b][j][s] - hist[m.context][s]]
                        ELSE counts[b][j]]
  <2>1. pc[b] = "refill" /\ it' = it
    BY <1>5 DEF Refill
  <2>2. it[b] = RefillIteration
    BY <1>1, <2>1 DEF Control
  <2>3. counts[b] = ClusterHistograms(hist, a)
    BY <1>1, <2>1 DEF CountsInv
  <2>4. refill_keys = [j \in Cluster |-> ClusterKey(hist, a, j)]
    BY <2>1, AllProposed
  <2>5. a \in [Context -> Cluster]
    BY <1>1, IterationsAre, AssignmentsAre
  <2>6. made = ClusterHistograms(hist, RefillReference(hist)[a])
    <3> HIDE DEF a
    <3> QED BY <1>1, <2>3, <2>4, <2>5, RefillMakes
  <2>7. counts' = [counts EXCEPT ![b] = made]
    BY <1>5 DEF Refill
  <2> HIDE DEF made
  <2>8. pc'[b] = "assign"
    BY <1>1, <1>5 DEF Refill, ControlTypes
  <2>9. CountsInv(b)'
    <3>1. counts'[b] = ClusterHistograms(hist, RefillReference(hist)[a])
      BY <1>1, <2>6, <2>7
    <3> QED BY <1>1, <2>1, <2>2, <2>8, <3>1 DEF CountsInv, HasNominated, Refilled
  <2>10. counts' \in [Block -> [Cluster -> [Symbol -> Nat]]]
    BY <1>1, <1>2, <2>6, <2>7
  <2>11. \A d \in Block \ {b} : counts'[d] = counts[d]
    BY <1>1, <2>7
  <2> QED BY <1>3, <2>9, <2>10, <2>11
<1>6. CASE ~ LoadClusters(b) /\ ~ Refill(b)
  <2>1. counts' = counts
    BY <1>6 DEF BlockStep, ListActive, Arrive, Leave, Nominate, Nominated, Assign, Assigned,
                Finish, blocks
  <2>2. CountsInv(b)'
    <3>1. CASE ListActive(b) \/ Assigned(b) \/ Finish(b)
      <4>1. /\ pc'[b] \in {"arrive", "done"} /\ barriers' = barriers
            /\ pc'[b] = "arrive" => barriers[b] # RefillIteration + 1
        <5>1. it[b] \in 0 .. Iterations /\ barriers[b] \in Nat
          BY <1>1 DEF ControlTypes
        <5>2. pc'[b] \in {"arrive", "done"} /\ barriers' = barriers
          BY <1>1, <3>1 DEF ListActive, Assigned, Finish, ControlTypes
        <5>3. CASE ListActive(b)
          BY <1>1, <5>2, <5>3, IterationsAre DEF ListActive, Control
        <5>4. CASE Assigned(b)
          BY <1>1, <5>1, <5>2, <5>4, IterationsAre DEF Assigned, Control, Bar
        <5>5. CASE Finish(b)
          BY <1>1, <5>2, <5>5 DEF Finish, ControlTypes
        <5> QED BY <3>1, <5>2, <5>3, <5>4, <5>5
      <4> QED BY <4>1 DEF CountsInv, HasNominated
    <3>2. CASE Arrive(b)
      <4>1. pc[b] = "arrive" /\ pc'[b] = "spin" /\ barriers'[b] = barriers[b] + 1
              /\ barriers[b] \in Nat
        BY <1>1, <3>2 DEF Arrive, ControlTypes
      <4>2. HasNominated(b)' => HasNominated(b)
        BY <4>1, IterationsAre DEF HasNominated
      <4> QED BY <1>1, <2>1, <4>1, <4>2 DEF CountsInv
    <3>3. CASE Leave(b)
      <4>1. /\ pc[b] = "spin" /\ barriers' = barriers
            /\ pc'[b] \in {"load", "refill", "finish"}
            /\ pc'[b] = "refill" => barriers[b] = RefillIteration + 2
        BY <1>1, <3>3 DEF Leave, Passed, ControlTypes
      <4>2. pc'[b] = "refill" => HasNominated(b)
        BY <4>1 DEF HasNominated
      <4> QED BY <1>1, <2>1, <4>1, <4>2 DEF CountsInv, HasNominated
    <3>4. CASE (\E c \in Context : Nominate(b, c)) \/ (\E c \in Context : Assign(b, c))
      <4>1. pc' = pc /\ barriers' = barriers /\ it' = it
        BY <3>4 DEF Nominate, Assign
      <4> QED BY <1>1, <2>1, <4>1 DEF CountsInv, HasNominated
    <3>5. CASE Nominated(b)
      <4>1. pc[b] = "nominate" /\ pc'[b] = "arrive"
        BY <1>1, <3>5 DEF Nominated, ControlTypes
      <4> QED BY <1>1, <2>1, <4>1 DEF CountsInv
    <3> QED BY <1>6, <3>1, <3>2, <3>3, <3>4, <3>5 DEF BlockStep
  <2> QED BY <1>1, <1>3, <2>1, <2>2
<1> QED BY <1>4, <1>5, <1>6

(* What has been written of the output is the reference's. *)
LEMMA OutKept ==
  ASSUME IInv, NEW b \in Block, BlockStep(b)
  PROVE  OutInv'
<1> DEFINE R == ClusterReference(hist)
<1>1. /\ ControlInv /\ ControlTypes /\ OutInv /\ ~ Before
      /\ hist \in Inputs /\ hist' = hist /\ \A d \in Block \ {b} : pc'[d] = pc[d]
  BY StepIsLocal, ListKept DEF IInv, ControlInv, ControlTypes, SharedInv
<1>2. \A c \in Context : Writer(c) \in Block
  BY OwnersAre
<1>3. CASE Finish(b)
  <2> DEFINE a == Asg(hist, Iterations)
             written(c) == IF ActiveUpTo(c) = 0 THEN 0 ELSE Rank(assignment[active[ActiveUpTo(c)]])
             map == [c \in Context |-> IF Writer(c) # b THEN out.context_map[c] ELSE written(c)]
  <2>1. pc[b] = "finish" /\ pc'[b] = "done"
    BY <1>1, <1>3 DEF Finish, ControlTypes
  <2>2. active = Listing(hist) /\ Listed
    BY <1>1, <2>1, AllReached
  <2>3. \A c \in Active(hist) : Progress(c) = Iterations
    BY <1>1, <2>1, ProgressAt
  <2>4. /\ \A j : Reached(Iterations, j) = Members(hist, a, j)
        /\ cluster_hist[Iterations] = ClusterHistograms(hist, a)
    <3>1. Iterations \in 0 .. Iterations /\ \A c \in Active(hist) : Progress(c) >= Iterations
      BY <2>3, IterationsAre
    <3> QED BY <1>1, <3>1, AllAssigned
  <2>5. first_context = [j \in Cluster |-> FirstOf(hist, a, j)]
    <3>1. first_context = [j \in Cluster |-> Min({None} \cup Reached(Iterations, j))]
      BY <2>2 DEF IInv, SharedInv, FirstInv
    <3> QED BY <2>4, <3>1 DEF FirstOf
  <2>6. \A c \in Active(hist) : assignment[c] = a[c]
    BY <1>1, <2>3, IterationsAre, ActiveIs DEF IInv, SharedInv, AssignmentInv
  <2>7. /\ Max({Cardinality(Numbered), 1}) = R.num_clusters
        /\ Ordered(cluster_hist[Iterations]) = R.histograms
        /\ \A c \in Context : written(c) = R.context_map[c]
    BY <1>1, <2>2, <2>4, <2>5, <2>6, FinishIs
  <2>8. out' = IF b = 0 THEN [num_clusters |-> Max({Cardinality(Numbered), 1}), context_map |-> map,
                              histograms |-> Ordered(cluster_hist[Iterations])]
               ELSE [out EXCEPT !.context_map = map]
    <3> DEFINE mine == {c \in Context : (c \div (Warps * WarpSize)) % NumBlocks = b}
               there == [c \in Context |->
                       IF c \notin mine THEN out.context_map[c]
                       ELSE IF ActiveUpTo(c) = 0 THEN 0
                       ELSE Rank(assignment[active[ActiveUpTo(c)]])]
    <3>1. out' = IF b = 0 THEN [num_clusters |-> Max({Cardinality(Numbered), 1}),
                                context_map |-> there,
                                histograms |-> Ordered(cluster_hist[Iterations])]
                 ELSE [out EXCEPT !.context_map = there]
      BY <1>3 DEF Finish
    <3>2. \A c \in Context : c \notin mine <=> Writer(c) # b
      BY DEF Writer
    <3> HIDE DEF mine
    <3>3. there = map
      BY <3>2
    <3> HIDE DEF there, map
    <3> QED BY <3>1, <3>3
  <2> DEFINE old == [c \in Context |-> IF pc[Writer(c)] = "done" THEN R.context_map[c] ELSE 0]
             new == [c \in Context |-> IF pc'[Writer(c)] = "done" THEN R.context_map[c] ELSE 0]
  <2>9. out = [num_clusters |-> IF pc[0] = "done" THEN R.num_clusters ELSE 0,
               context_map |-> old,
               histograms |-> IF pc[0] = "done" THEN R.histograms ELSE NoTokens]
    BY <1>1 DEF OutInv
  <2>10. map = new
    <3>1. out.context_map = old
      BY <2>9
    <3>2. ASSUME NEW c \in Context
          PROVE  (IF Writer(c) # b THEN out.context_map[c] ELSE written(c)) = new[c]
      <4>1. CASE Writer(c) # b
        BY <1>1, <1>2, <3>1, <4>1
      <4>2. CASE Writer(c) = b
        <5> HIDE DEF written
        <5> QED BY <2>1, <2>7, <4>2
      <4> QED BY <4>1, <4>2
    <3> HIDE DEF written
    <3> QED BY <3>2
  <2>11. OutInv' <=>
           out' = [num_clusters |-> IF pc'[0] = "done" THEN R.num_clusters ELSE 0,
                   context_map |-> new,
                   histograms |-> IF pc'[0] = "done" THEN R.histograms ELSE NoTokens]
    BY <1>1 DEF OutInv, NoTokens, Zero
  <2>12. CASE b = 0
    <3> HIDE DEF map, new, R
    <3> QED BY <2>1, <2>7, <2>8, <2>10, <2>11, <2>12
  <2>13. CASE b # 0
    <3>1. pc'[0] = pc[0]
      BY <1>1, <2>13, BlockZero
    <3> HIDE DEF map, new, R, old
    <3> QED BY <2>8, <2>9, <2>10, <2>11, <2>13, <3>1
  <2> QED BY <2>12, <2>13
<1>4. CASE ~ Finish(b)
  <2>1. out' = out
    BY <1>4 DEF BlockStep, ListActive, Arrive, Leave, LoadClusters, Nominate, Nominated, Refill,
                Assign, Assigned
  <2>2. pc'[b] = "done" <=> pc[b] = "done"
    BY <1>1, <1>4 DEF BlockStep, ListActive, Arrive, Leave, Passed, LoadClusters, Nominate,
                      Nominated, Refill, Assign, Assigned, ControlTypes
  <2>3. \A d \in Block : pc'[d] = "done" <=> pc[d] = "done"
    BY <1>1, <2>2
  <2>4. /\ pc'[0] = "done" <=> pc[0] = "done"
        /\ \A c \in Context : pc'[Writer(c)] = "done" <=> pc[Writer(c)] = "done"
    BY <1>2, <2>3, BlockZero
  <2> QED BY <1>1, <2>1, <2>4 DEF OutInv, NoTokens, Zero
<1> QED BY <1>3, <1>4

(* The whole invariant is inductive. *)
LEMMA IInvNext == IInv /\ [Next]_vars => IInv'
<1> SUFFICES ASSUME IInv, [Next]_vars PROVE IInv'
  OBVIOUS
<1>1. ControlInv'
  BY ControlNext DEF IInv
<1>2. CASE ContextStats
  BY <1>1, <1>2, SharedStarted DEF IInv
<1>3. ASSUME NEW b \in Block, BlockStep(b) PROVE IInv'
  BY <1>1, <1>3, ClustersKept, AssignmentKept, FirstKept, KeysKept, CountsKept, OutKept
     DEF IInv, SharedInv
<1>4. CASE UNCHANGED vars
  <2>1. /\ UNCHANGED <<hist, cluster_hist, refill_keys, first_context, assignment, out>>
        /\ UNCHANGED <<pc, todo, it, barriers, counts>>
    BY <1>4 DEF vars, stats, scratch, blocks
  <2>2. /\ \A c : Progress(c)' = Progress(c) /\ (Proposed(c)' <=> Proposed(c))
        /\ \A d : HasNominated(d)' <=> HasNominated(d)
        /\ (Before' <=> Before) /\ (Listed' <=> Listed)
    BY <2>1 DEF Progress, Proposed, HasNominated, Before, Listed
  <2>3. \A i, j : Reached(i, j)' = Reached(i, j) /\ Proposers(j)' = Proposers(j)
    BY <2>1, <2>2 DEF Reached, Proposers
  <2>4. ClustersInv' /\ AssignmentInv' /\ FirstInv' /\ KeysInv'
    <3>1. ClustersInv /\ AssignmentInv /\ FirstInv /\ KeysInv
      BY DEF IInv, SharedInv
    <3>2. ClustersInv'
      BY <2>1, <2>2, <2>3, <3>1 DEF ClustersInv
    <3>3. AssignmentInv'
      BY <2>1, <2>2, <3>1 DEF AssignmentInv
    <3>4. FirstInv'
      BY <2>1, <2>2, <2>3, <3>1 DEF FirstInv
    <3>5. KeysInv'
      BY <2>1, <2>3, <3>1 DEF KeysInv
    <3> QED BY <3>2, <3>3, <3>4, <3>5
  <2>5. OutInv' /\ \A d \in Block : CountsInv(d)'
    BY <2>1, <2>2 DEF IInv, SharedInv, OutInv, CountsInv, NoTokens, Zero
  <2> QED BY <1>1, <2>1, <2>4, <2>5 DEF IInv, SharedInv
<1> QED BY <1>2, <1>3, <1>4 DEF Next, Terminated

---------------------------------------------------------------------------
(* The results.                                                            *)

(* The reference is the record of its three fields. *)
LEMMA ReferenceFields ==
  ASSUME NEW h \in Inputs
  PROVE  ClusterReference(h) =
           [num_clusters |-> ClusterReference(h).num_clusters,
            context_map |-> [c \in Context |-> ClusterReference(h).context_map[c]],
            histograms |-> ClusterReference(h).histograms]
<1> DEFINE a         == Asg(h, Iterations)
           clusters  == Max({1, Cardinality(Firsts(h, a))})
           mapped(c) == IF \E d \in Active(h) : d <= c
                        THEN Number(h, a, a[Max({d \in Active(h) : d <= c})]) ELSE 0
           groups    == [r \in Cluster |-> IF r < Cardinality(Firsts(h, a))
                           THEN ClusterHistograms(h, a)[a[Nth(Firsts(h, a), r)]] ELSE Zero]
<1>1. ClusterReference(h) = [num_clusters |-> clusters,
                             context_map  |-> [c \in Context |-> mapped(c)],
                             histograms   |-> groups]
  BY ReferenceIs
<1> HIDE DEF clusters, mapped, groups
<1>2. ClusterReference(h).context_map = [c \in Context |-> mapped(c)]
  BY <1>1
<1>3. [c \in Context |-> ClusterReference(h).context_map[c]] = [c \in Context |-> mapped(c)]
  BY <1>2
<1> QED BY <1>1, <1>3

(* However the blocks interleave, what they share is what the reference    *)
(* has at each context's progress.                                         *)
THEOREM ClusteringInvariant == Spec => []IInv
<1>1. Init => IInv
  BY ControlInit, SharedInit DEF IInv
<1> QED BY <1>1, IInvNext, PTL DEF Spec

(* The output of a finished kernel is the reference's. *)
THEOREM DeviceMatchesReference == Spec => []MatchesReference
<1>1. IInv => MatchesReference
  <2> SUFFICES ASSUME IInv, Done PROVE out = ClusterReference(hist)
    BY DEF MatchesReference
  <2>1. hist \in Inputs /\ OutInv
    BY DEF IInv, ControlInv, ControlTypes, SharedInv
  <2>2. pc[0] = "done" /\ \A c \in Context : pc[Writer(c)] = "done"
    BY BlockZero, OwnersAre DEF Done
  <2> DEFINE R == ClusterReference(hist)
  <2>3. out = [num_clusters |-> R.num_clusters,
               context_map |-> [c \in Context |-> R.context_map[c]],
               histograms |-> R.histograms]
    BY <2>1, <2>2 DEF OutInv
  <2> QED BY <2>1, <2>3, ReferenceFields
<1> QED BY <1>1, ClusteringInvariant, PTL

(* Its context map names clusters there are, and the histogram of a        *)
(* context's cluster has every symbol the context has.                     *)
THEOREM OutputCodesEveryToken == Spec => []CodesEveryToken
<1>1. IInv /\ MatchesReference => CodesEveryToken
  <2> SUFFICES ASSUME IInv, MatchesReference, Done, NEW c \in Context
               PROVE  /\ out.context_map[c] < out.num_clusters
                      /\ \A s \in Symbol : hist[c][s] # 0 =>
                           out.histograms[out.context_map[c]][s] >= hist[c][s]
    BY DEF CodesEveryToken
  <2>1. out = ClusterReference(hist) /\ hist \in Inputs
    BY DEF MatchesReference, IInv, ControlInv, ControlTypes
  <2> QED BY <2>1, ReferenceCodes
<1> QED BY <1>1, ClusteringInvariant, DeviceMatchesReference, PTL

(* No block is more than one barrier ahead of another, and one that is     *)
(* ahead waits at its barrier.                                             *)
THEOREM BlocksStayTogether ==
  Spec => [](\A b \in Block, d \in Block :
               barriers[b] <= IF pc[b] = "spin" THEN barriers[d] + 1 ELSE barriers[d])
<1>1. IInv => \A b \in Block, d \in Block :
                barriers[b] <= IF pc[b] = "spin" THEN barriers[d] + 1 ELSE barriers[d]
  BY DEF IInv, ControlInv, BarrierInv, Separated
<1> QED BY <1>1, ClusteringInvariant, PTL

(* What a block reads of the shared memory in a phase, no step changes     *)
(* while any block is in that phase: the histograms of the iteration while *)
(* they are loaded, the assignment during the nominations, the nominees    *)
(* during the refill, and all of it at the end.                            *)
ReadsAreStable ==
  \A b \in Block :
    /\ pc[b] = "load" => cluster_hist'[it[b]] = cluster_hist[it[b]]
    /\ pc[b] = "nominate" => assignment' = assignment
    /\ pc[b] = "refill" => refill_keys' = refill_keys
    /\ pc[b] \in {"load", "refill", "finish"} => active' = active
    /\ pc[b] = "finish" =>
         UNCHANGED <<cluster_hist, assignment, first_context>>

(* An assignment is of an iteration no other block still reads. *)
LEMMA AssignsAhead ==
  ASSUME IInv, NEW b \in Block, NEW d \in Block, NEW c \in Context, Assign(d, c)
  PROVE  /\ pc[b] = "load" => cluster_hist'[it[b]] = cluster_hist[it[b]]
         /\ pc[b] \notin {"nominate", "finish"}
<1>1. ControlInv /\ ControlTypes /\ Control(d) /\ Control(b) /\ Separated(d, b)
  BY DEF IInv, ControlInv, BarrierInv
<1>2. PICK i, j : Assigns(d, c, i, j)
  BY AssignIs
<1>3. /\ i = it[d] /\ i \in 0 .. Iterations - 1 /\ c \in Active(hist) /\ Progress(c) = i
      /\ cluster_hist' = [cluster_hist EXCEPT ![i + 1][j] = Add(@, hist[c])]
  BY <1>2 DEF Assigns
<1>4. pc[d] = "assign" /\ it[b] \in 0 .. Iterations /\ barriers[b] \in Nat /\ barriers[d] \in Nat
  BY <1>1 DEF Assign, ControlTypes
<1>5. /\ pc[b] = "load" => i >= it[b]
      /\ pc[b] = "nominate" => i = RefillIteration
      /\ pc[b] = "finish" => i = Iterations
  BY <1>1, <1>3, ProgressAt
<1>6. ASSUME pc[b] = "load" PROVE cluster_hist'[it[b]] = cluster_hist[it[b]]
  <2>1. it[b] # i + 1
    BY <1>3, <1>4, <1>5, <1>6
  <2>2. cluster_hist = [k \in 0 .. Iterations |-> cluster_hist[k]]
    BY DEF IInv, SharedInv, ClustersInv
  <2>3. it[b] \in DOMAIN cluster_hist
    BY <1>4, <2>2
  <2> QED BY <1>3, <2>1, <2>3
<1>7. pc[b] # "nominate"
  <2>1. SUFFICES ASSUME pc[b] = "nominate" PROVE FALSE
    OBVIOUS
  <2>2. barriers[b] = RefillIteration + 1
    BY <1>1, <2>1 DEF Control
  <2>3. barriers[d] + 1 = RefillIteration + 3
    BY <1>1, <1>3, <1>4, <1>5, <2>1, IterationsAre DEF Control, Bar
  <2>4. barriers[d] <= barriers[b]
    BY <1>1, <1>4 DEF Separated
  <2> QED BY <1>4, <2>2, <2>3, <2>4, IterationsAre
<1>8. pc[b] # "finish"
  BY <1>3, <1>5, IterationsAre
<1> QED BY <1>6, <1>7, <1>8

(* The model takes each of these reads in one step, the kernel in many:    *)
(* between two barriers it makes no difference.                            *)
THEOREM SharedReadsAreStable == Spec => [][ReadsAreStable]_vars
<1>1. IInv /\ [Next]_vars => [ReadsAreStable]_vars
  <2> SUFFICES ASSUME IInv, Next, NEW b \in Block
               PROVE  /\ pc[b] = "load" => cluster_hist'[it[b]] = cluster_hist[it[b]]
                      /\ pc[b] = "nominate" => assignment' = assignment
                      /\ pc[b] = "refill" => refill_keys' = refill_keys
                      /\ pc[b] \in {"load", "refill", "finish"} => active' = active
                      /\ pc[b] = "finish" =>
                           UNCHANGED <<cluster_hist, assignment, first_context>>
    BY DEF ReadsAreStable
  <2>1. ControlInv /\ ControlTypes
    BY DEF IInv, ControlInv
  <2>2. CASE ContextStats
    BY <2>2 DEF ContextStats
  <2>3. CASE UNCHANGED vars
    BY <2>3 DEF vars, scratch
  <2>4. ASSUME NEW d \in Block, BlockStep(d),
               pc[b] \in {"load", "nominate", "refill", "finish"}
        PROVE  /\ pc[b] = "load" => cluster_hist'[it[b]] = cluster_hist[it[b]]
               /\ pc[b] = "nominate" => assignment' = assignment
               /\ pc[b] = "refill" => refill_keys' = refill_keys
               /\ active' = active
               /\ pc[b] = "finish" =>
                    UNCHANGED <<cluster_hist, assignment, first_context>>
    <3>1. pc[d] # "start" /\ barriers[d] >= barriers[b]
      <4>1. Listed /\ Counted /\ barriers[d] >= barriers[b]
        BY <2>1, <2>4, AllReached
      <4>2. pc[d] # "start"
        BY <2>1, <2>4, NoneStarted
      <4> QED BY <4>1, <4>2
    <3>2. active' = active
      BY <2>1, <2>4, <3>1, ListKept
    <3>3. CASE \E c \in Context : Assign(d, c)
      <4>1. PICK c \in Context : Assign(d, c)
        BY <3>3
      <4>2. refill_keys' = refill_keys
        BY <4>1 DEF Assign
      <4> QED BY <3>2, <4>1, <4>2, AssignsAhead
    <3>4. CASE \E c \in Context : Nominate(d, c)
      <4>1. /\ pc[d] = "nominate"
            /\ UNCHANGED <<cluster_hist, assignment, first_context>>
        BY <3>4 DEF Nominate
      <4>2. pc[b] # "refill"
        BY <2>1, <3>1, <4>1, IterationsAre DEF ControlInv, Control
      <4> QED BY <3>2, <4>1, <4>2
    <3>5. CASE ~ (\E c \in Context : Assign(d, c)) /\ ~ \E c \in Context : Nominate(d, c)
      <4>1. UNCHANGED <<cluster_hist, assignment, refill_keys, first_context>>
        BY <2>4, <3>1, <3>5 DEF BlockStep, ListActive, Arrive, Leave, LoadClusters, Nominated,
                                Refill, Assigned, Finish, scratch
      <4> QED BY <3>2, <4>1
    <3> QED BY <3>3, <3>4, <3>5
  <2> QED BY <2>2, <2>3, <2>4 DEF Next, Terminated
<1> QED BY <1>1, ClusteringInvariant, PTL DEF Spec
=============================================================================
