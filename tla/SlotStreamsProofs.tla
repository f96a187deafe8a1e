------------------------- MODULE SlotStreamsProofs -------------------------
(* Theorems about SlotStreams, for every number of batches and of frames,  *)
(* and every set of images.  First, of the calls that are made: each is    *)
(* made after the calls its data come from, in its own stream or behind an *)
(* event its stream waits for; then, of the queues they are made in.       *)
EXTENDS SlotStreams, SequenceTheorems, FiniteSetTheorems, FunctionTheorems,
        WellFoundedInduction, TLAPS

LastBatch == AC_BATCHES - 1

(* The host's buffers that frames are copied to. *)
HostTables == {host("calibration"), host("clustering"), host("coeff_orders"),
               host("layout")}
HostTokens == {hostBatch(x, b) : x \in {"entries", "raw"}, b \in Batch}

(* The event e says of a frame of the image that buffer x has its data. *)
Carries(image, e, x) ==
  \/ e = Once("input_ready") /\ x = planes
  \/ e = Once("forked") /\ x \in {dev("frontend"), dev("residual")}
  \/ e = Once("layout_copied") /\ x \in HostTables
  \/ e = Once("dc_sizes_copied") /\ x = host("dc_sizes")
  \/ e = Once("dc_body_copied") /\ x = host("dc_body")
  \/ \E b \in Batch :
       /\ HasGroups(image, b)
       /\ \/ e = packed(b) /\ x \in {devBatch("entries", b), devBatch("raw", b)}
          \/ e = copied(b) /\ x \in {hostBatch("entries", b), hostBatch("raw", b)}

(* What the operations of a stream read and write. *)
MayRead(s) ==
  {x \in Arena \cup {planes, texture} :
     /\ s # "input_stream"
     /\ x \in {planes, texture} => s = "stream"}
MayWrite(s) ==
  CASE s = "input_stream" -> {planes}
    [] s = "stream"       -> Arena \cup HostTables
    [] s = "dc_stream"    -> Arena \cup {host("dc_sizes"), host("dc_body")}
    [] OTHER              -> HostTokens

---------------------------------------------------------------------------
(* Calls in their order.                                                   *)

Before(p, n) == {p[i] : i \in 1 .. n - 1}
Calls(p)     == {p[i] : i \in 1 .. Len(p)}

(* Once the calls `made` have been made, call c finds its inputs: they are *)
(* written in its stream, or behind an event the stream waits for; and     *)
(* nobody waits yet for an event it records.                               *)
Ran(made, s, x) == \E m \in made : m.kind = "run" /\ m.stream = s /\ x \in m.writes
Waited(image, made, s, x) ==
  \E m \in made : m.kind = "wait" /\ m.stream = s /\ Carries(image, m.event, x)
Source(image, made, s, x) ==
  \/ Ran(made, s, x)
  \/ Waited(image, made, s, x)
  \/ x = texture /\ \E m \in made : m.kind = "texture"
Supplied(image, made, c) ==
  /\ c.kind = "run" => \A x \in c.reads : Source(image, made, c.stream, x)
  /\ c.kind = "record" =>
       /\ \A x \in Buffer : Carries(image, c.event, x) =>
            x = planes \/ Ran(made, c.stream, x)
       /\ \A m \in made : m.kind = "wait" => m.event # c.event
  /\ c.kind = "wait" => \E m \in made : m.kind = "record" /\ m.event = c.event

(* The calls p, made after those of `base`. *)
Ordered(image, base, p) ==
  \A k \in 1 .. Len(p) : Supplied(image, base \cup Before(p, k), p[k])

(* The calls of two joined sequences are those of the first, then those *)
(* of the second.                                                       *)
LEMMA ConcatCalls ==
  ASSUME NEW S, NEW p \in Seq(S), NEW q \in Seq(S)
  PROVE  /\ p \o q \in Seq(S) /\ Len(p \o q) = Len(p) + Len(q)
         /\ \A k \in 1 .. Len(p) : (p \o q)[k] = p[k] /\ Before(p \o q, k) = Before(p, k)
         /\ \A k \in 1 .. Len(q) :
              /\ (p \o q)[Len(p) + k] = q[k]
              /\ Before(p \o q, Len(p) + k) = Calls(p) \cup Before(q, k)
         /\ Calls(p \o q) = Calls(p) \cup Calls(q)
<1>1. /\ p \o q \in Seq(S) /\ Len(p \o q) = Len(p) + Len(q)
      /\ \A k \in 1 .. Len(p) : (p \o q)[k] = p[k]
      /\ \A k \in 1 .. Len(q) : (p \o q)[Len(p) + k] = q[k]
  BY ConcatProperties
<1>2. Len(p) \in Nat /\ Len(q) \in Nat
  OBVIOUS
<1>3. ASSUME NEW k \in 1 .. Len(p) PROVE Before(p \o q, k) = Before(p, k)
  <2>1. \A i \in 1 .. k - 1 : (p \o q)[i] = p[i]
    BY <1>1, <1>2
  <2> QED BY <2>1 DEF Before
<1>4. ASSUME NEW k \in 1 .. Len(q) + 1
      PROVE  Before(p \o q, Len(p) + k) = Calls(p) \cup Before(q, k)
  <2>0. k \in Nat /\ 1 <= k /\ k - 1 <= Len(q)
    BY <1>2
  <2>1. ASSUME NEW i \in 1 .. Len(p) + k - 1
        PROVE  (p \o q)[i] \in Calls(p) \cup Before(q, k)
    <3>1. CASE i <= Len(p)
      BY <1>1, <1>2, <3>1 DEF Calls
    <3>2. CASE i > Len(p)
      <4>1. i - Len(p) \in 1 .. k - 1 /\ i - Len(p) \in 1 .. Len(q)
            /\ Len(p) + (i - Len(p)) = i
        <5>1. i \in Nat /\ i <= Len(p) + k - 1
          BY <1>2, <2>0
        <5> QED BY <1>2, <2>0, <3>2, <5>1
      <4>2. (p \o q)[i] = q[i - Len(p)]
        BY <1>1, <4>1
      <4> QED BY <4>1, <4>2 DEF Before
    <3> QED BY <1>2, <3>1, <3>2
  <2>2. ASSUME NEW i \in 1 .. Len(p)
        PROVE  \E j \in 1 .. Len(p) + k - 1 : (p \o q)[j] = p[i]
    <3>1. i \in 1 .. Len(p) + k - 1
      <4>1. i \in Nat /\ 1 <= i /\ i <= Len(p)
        BY <1>2
      <4> QED BY <1>2, <2>0, <4>1
    <3> QED BY <1>1, <3>1
  <2>3. ASSUME NEW i \in 1 .. k - 1
        PROVE  \E j \in 1 .. Len(p) + k - 1 : (p \o q)[j] = q[i]
    <3>1. Len(p) + i \in 1 .. Len(p) + k - 1 /\ i \in 1 .. Len(q)
      <4>1. i \in Nat /\ 1 <= i /\ i <= k - 1
        BY <2>0
      <4> QED BY <1>2, <2>0, <4>1
    <3> QED BY <1>1, <3>1
  <2> DEFINE before == {(p \o q)[i] : i \in 1 .. Len(p) + k - 1}
  <2>4. before \subseteq Calls(p) \cup Before(q, k)
    BY <2>1
  <2>5. Calls(p) \subseteq before
    BY <2>2 DEF Calls
  <2>6. Before(q, k) \subseteq before
    BY <2>3 DEF Before
  <2>7. Before(p \o q, Len(p) + k) = before
    BY DEF Before
  <2> QED BY <2>4, <2>5, <2>6, <2>7
<1>5. ASSUME NEW k \in 1 .. Len(q)
      PROVE  Before(p \o q, Len(p) + k) = Calls(p) \cup Before(q, k)
  <2>1. k \in 1 .. Len(q) + 1
    BY <1>2
  <2> QED BY <1>4, <2>1
<1>6. Calls(p \o q) = Calls(p) \cup Calls(q)
  <2>1. Len(q) + 1 \in 1 .. Len(q) + 1 /\ Len(p) + (Len(q) + 1) - 1 = Len(p \o q)
        /\ Len(q) + 1 - 1 = Len(q)
    BY <1>1, <1>2
  <2>2. Before(p \o q, Len(p) + (Len(q) + 1)) = Calls(p) \cup Before(q, Len(q) + 1)
    BY <1>4, <2>1
  <2>3. Before(p \o q, Len(p) + (Len(q) + 1)) = Calls(p \o q)
    BY <2>1 DEF Calls, Before
  <2>4. Before(q, Len(q) + 1) = Calls(q)
    BY <2>1 DEF Calls, Before
  <2> QED BY <2>2, <2>3, <2>4
<1> QED BY <1>1, <1>3, <1>5, <1>6

(* Ordered sequences, the second after the calls of the first, join to an *)
(* ordered one.                                                           *)
LEMMA ConcatOrdered ==
  ASSUME NEW S, NEW p \in Seq(S), NEW q \in Seq(S), NEW image, NEW base,
         Ordered(image, base, p), Ordered(image, base \cup Calls(p), q)
  PROVE  Ordered(image, base, p \o q)
<1>1. SUFFICES ASSUME NEW k \in 1 .. Len(p \o q)
               PROVE  Supplied(image, base \cup Before(p \o q, k), (p \o q)[k])
  BY DEF Ordered
<1>2. Len(p) \in Nat /\ Len(q) \in Nat /\ Len(p \o q) = Len(p) + Len(q)
  BY ConcatCalls
<1>3. CASE k <= Len(p)
  <2>1. k \in 1 .. Len(p)
    BY <1>2, <1>3
  <2>2. (p \o q)[k] = p[k] /\ Before(p \o q, k) = Before(p, k)
    BY <2>1, ConcatCalls
  <2> QED BY <2>1, <2>2 DEF Ordered
<1>4. CASE k > Len(p)
  <2>1. k - Len(p) \in 1 .. Len(q) /\ Len(p) + (k - Len(p)) = k
    BY <1>2, <1>4
  <2>2. (p \o q)[k] = q[k - Len(p)]
        /\ Before(p \o q, k) = Calls(p) \cup Before(q, k - Len(p))
    BY <2>1, ConcatCalls
  <2>3. base \cup Before(p \o q, k) = (base \cup Calls(p)) \cup Before(q, k - Len(p))
    BY <2>2
  <2> QED BY <2>1, <2>2, <2>3 DEF Ordered
<1> QED BY <1>2, <1>3, <1>4
---------------------------------------------------------------------------
(* The calls of the batches, one batch after the other.                    *)

(* The least-number principle: induction on a number is its application to *)
(* the set of the counterexamples.                                         *)
LEMMA Least ==
  ASSUME NEW N, N \subseteq Nat, N # {}
  PROVE  \E m \in N : \A n \in N : m <= n
<1>1. PICK m \in N : \A n \in N : ~ (<<n, m>> \in OpToRel(<, Nat))
  BY NatLessThanWellFounded, WFMin
<1>2. \A n \in N : ~ (n < m)
  BY <1>1 DEF OpToRel
<1> QED BY <1>2

(* f[i] is the first i of the sequences, joined. *)
Joins(f, seqs, n, S) ==
  /\ f \in [1 .. n -> Seq(S)]
  /\ f[1] = seqs[1]
  /\ \A i \in 2 .. n : f[i] = f[i - 1] \o seqs[i]

(* The joins of the first m of n sequences exist for every m. *)
LEMMA JoinsExist ==
  ASSUME NEW S, NEW n \in Nat \ {0}, NEW seqs \in [1 .. n -> Seq(S)]
  PROVE  \A m \in 1 .. n : \E f : Joins(f, seqs, m, S)
<1> DEFINE Bad == {m \in 1 .. n : ~ \E f : Joins(f, seqs, m, S)}
<1>1. SUFFICES ASSUME Bad # {} PROVE FALSE
  OBVIOUS
<1>2. Bad \subseteq Nat
  OBVIOUS
<1>3. PICK m \in Bad : \A k \in Bad : m <= k
  BY <1>1, <1>2, Least
<1>4. m # 1
  <2>1. Joins([i \in 1 .. 1 |-> seqs[1]], seqs, 1, S)
    BY DEF Joins
  <2> QED BY <2>1
<1>5. m \in Nat /\ 1 < m /\ m <= n /\ m - 1 \in 1 .. n /\ m - 1 \notin Bad
  <2>1. m \in 1 .. n
    BY <1>3
  <2>2. m \in Nat /\ 1 < m /\ m <= n /\ m - 1 \in 1 .. n /\ ~ (m <= m - 1)
    BY <1>4, <2>1
  <2> HIDE DEF Bad
  <2> QED BY <1>3, <2>2
<1>6. PICK f : Joins(f, seqs, m - 1, S)
  BY <1>5
<1> DEFINE longer == [i \in 1 .. m |-> IF i = m THEN f[m - 1] \o seqs[m] ELSE f[i]]
<1>7. f[m - 1] \in Seq(S) /\ seqs[m] \in Seq(S)
  BY <1>5, <1>6 DEF Joins
<1>8. \A i \in 1 .. m : i # m => i \in 1 .. m - 1
  BY <1>5
<1>9. longer \in [1 .. m -> Seq(S)]
  BY <1>6, <1>7, <1>8 DEF Joins
<1>10. longer[1] = seqs[1]
  BY <1>5, <1>6 DEF Joins
<1>11. ASSUME NEW i \in 2 .. m PROVE longer[i] = longer[i - 1] \o seqs[i]
  <2>1. i \in 1 .. m /\ i - 1 \in 1 .. m /\ i - 1 # m
    BY <1>5
  <2>2. CASE i = m
    BY <2>1, <2>2
  <2>3. CASE i # m
    <3>1. i \in 2 .. m - 1
      BY <1>5, <2>3
    <3>2. f[i] = f[i - 1] \o seqs[i]
      BY <1>6, <3>1 DEF Joins
    <3> QED BY <2>1, <2>3, <3>2
  <2> QED BY <2>2, <2>3
<1>12. Joins(longer, seqs, m, S)
  BY <1>9, <1>10, <1>11 DEF Joins
<1> QED BY <1>3, <1>12

(* What FlattenSeq computes is the last of those joins. *)
LEMMA FlattenJoins ==
  ASSUME NEW S, NEW n \in Nat \ {0}, NEW seqs \in [1 .. n -> Seq(S)]
  PROVE  \E f : Joins(f, seqs, n, S) /\ FlattenSeq(seqs) = f[n]
<1> DEFINE Equation(f) ==
      f = [i \in 1 .. Len(seqs) |-> IF i = 1 THEN seqs[i] ELSE f[i - 1] \o seqs[i]]
<1>1. seqs \in Seq(Seq(S)) /\ Len(seqs) = n
  BY LenProperties, IsASeq
<1>2. PICK f : Joins(f, seqs, n, S)
  BY JoinsExist
<1>3. Equation(f)
  <2>1. \A i \in 1 .. n : i # 1 => i \in 2 .. n
    OBVIOUS
  <2>2. f = [i \in 1 .. n |-> f[i]]
    BY <1>2 DEF Joins
  <2>3. \A i \in 1 .. n : f[i] = IF i = 1 THEN seqs[i] ELSE f[i - 1] \o seqs[i]
    BY <1>2, <2>1 DEF Joins
  <2> QED BY <1>1, <2>2, <2>3
<1> DEFINE g == CHOOSE h : Equation(h)
<1>4. Len(seqs) # 0
  BY <1>1
<1>5. FlattenSeq(seqs) = g[Len(seqs)]
  BY <1>4, Zenon DEF FlattenSeq
<1>6. Equation(g)
  BY <1>3, Zenon
<1> HIDE DEF g
<1> DEFINE Differ == {i \in 1 .. n : f[i] # g[i]}
<1>7. Differ = {}
  <2>1. SUFFICES ASSUME Differ # {} PROVE FALSE
    OBVIOUS
  <2>2. Differ \subseteq Nat
    OBVIOUS
  <2>3. PICK m \in Differ : \A k \in Differ : m <= k
    BY <2>1, <2>2, Least
  <2>4. \A i \in 1 .. n : /\ f[i] = IF i = 1 THEN seqs[i] ELSE f[i - 1] \o seqs[i]
                          /\ g[i] = IF i = 1 THEN seqs[i] ELSE g[i - 1] \o seqs[i]
    BY <1>1, <1>3, <1>6
  <2>5. m # 1 /\ m - 1 \in 1 .. n
    BY <2>3, <2>4
  <2>6. f[m - 1] = g[m - 1]
    <3>1. ~ (m <= m - 1)
      BY <2>3
    <3>2. m - 1 \notin Differ
      BY <2>3, <3>1, Zenon
    <3> QED BY <2>5, <3>2
  <2> QED BY <2>3, <2>4, <2>5, <2>6
<1> QED BY <1>1, <1>2, <1>5, <1>7

(* Each part is ordered after those of base and any of the parts. *)
AllCalls(seqs, n) == UNION {Calls(seqs[j]) : j \in 1 .. n}
Chained(image, base, seqs, n) ==
  \A i \in 1 .. n :
    /\ Len(seqs[i]) > 0
    /\ \A more \in SUBSET AllCalls(seqs, n) : Ordered(image, base \cup more, seqs[i])

(* The calls of all batches, joined, are ordered if each batch's calls *)
(* are after any of the others', and end as the last batch's do.       *)
LEMMA FlattenOrdered ==
  ASSUME NEW S, NEW n \in Nat \ {0}, NEW seqs \in [1 .. n -> Seq(S)],
         NEW image, NEW base, Chained(image, base, seqs, n)
  PROVE  /\ FlattenSeq(seqs) \in Seq(S)
         /\ Len(FlattenSeq(seqs)) > 0
         /\ FlattenSeq(seqs)[Len(FlattenSeq(seqs))] = seqs[n][Len(seqs[n])]
         /\ Calls(FlattenSeq(seqs)) = AllCalls(seqs, n)
         /\ Ordered(image, base, FlattenSeq(seqs))
<1>1. PICK f : Joins(f, seqs, n, S) /\ FlattenSeq(seqs) = f[n]
  BY FlattenJoins
<1>0. /\ \A i \in 1 .. n : Len(seqs[i]) > 0
      /\ \A i \in 1 .. n : \A more \in SUBSET UNION {Calls(seqs[j]) : j \in 1 .. n} :
           Ordered(image, base \cup more, seqs[i])
  BY DEF Chained, AllCalls
<1> DEFINE Fine(m) ==
      /\ Len(f[m]) > 0
      /\ f[m][Len(f[m])] = seqs[m][Len(seqs[m])]
      /\ Calls(f[m]) = UNION {Calls(seqs[j]) : j \in 1 .. m}
      /\ Ordered(image, base, f[m])
<1> DEFINE Bad == {m \in 1 .. n : ~ Fine(m)}
<1>2. Bad = {}
  <2>1. SUFFICES ASSUME Bad # {} PROVE FALSE
    OBVIOUS
  <2>2. Bad \subseteq Nat
    OBVIOUS
  <2>3. PICK m \in Bad : \A k \in Bad : m <= k
    BY <2>1, <2>2, Least
  <2>4. f[m] \in Seq(S) /\ seqs[m] \in Seq(S) /\ m \in 1 .. n /\ Len(seqs[m]) > 0
    BY <1>0, <1>1, <2>3 DEF Joins
  <2>5. CASE m = 1
    <3>1. f[1] = seqs[1]
      BY <1>1 DEF Joins
    <3>2. UNION {Calls(seqs[j]) : j \in 1 .. 1} = Calls(seqs[1])
      OBVIOUS
    <3>3. Ordered(image, base \cup {}, seqs[1]) /\ base \cup {} = base
      BY <1>0, <2>4, <2>5
    <3>4. Fine(1)
      BY <2>4, <2>5, <3>1, <3>2, <3>3
    <3> QED BY <2>3, <2>5, <3>4
  <2>6. CASE m # 1
    <3>1. m \in 2 .. n /\ m - 1 \in 1 .. n /\ m - 1 < m /\ m \in Nat
          /\ ~ (m <= m - 1)
      BY <2>4, <2>6
    <3>2. f[m] = f[m - 1] \o seqs[m] /\ f[m - 1] \in Seq(S)
      BY <1>1, <3>1 DEF Joins
    <3>3. Fine(m - 1)
      <4>1. m - 1 \notin Bad
        BY <2>3, <3>1, Zenon
      <4> QED BY <3>1, <4>1
    <3>4. Calls(f[m - 1]) \in SUBSET UNION {Calls(seqs[j]) : j \in 1 .. n}
      <4>1. \A j \in 1 .. m - 1 : j \in 1 .. n
        BY <3>1
      <4> QED BY <3>3, <4>1
    <3>5. Ordered(image, base, f[m])
      <4>1. Ordered(image, base \cup Calls(f[m - 1]), seqs[m])
        BY <1>0, <2>4, <3>4
      <4>2. Ordered(image, base, f[m - 1])
        BY <3>3
      <4> HIDE DEF Fine, Bad
      <4>3. Ordered(image, base, f[m - 1] \o seqs[m])
        BY <2>4, <3>2, <4>1, <4>2, ConcatOrdered
      <4> QED BY <3>2, <4>3
    <3>6. Len(f[m]) = Len(f[m - 1]) + Len(seqs[m])
          /\ Calls(f[m]) = Calls(f[m - 1]) \cup Calls(seqs[m])
          /\ \A k \in 1 .. Len(seqs[m]) : f[m][Len(f[m - 1]) + k] = seqs[m][k]
      <4> DEFINE a == f[m - 1]
                 b == seqs[m]
      <4>1. a \in Seq(S) /\ b \in Seq(S) /\ f[m] = a \o b
        BY <2>4, <3>2
      <4> HIDE DEF a, b, Fine, Bad
      <4>2. Len(a \o b) = Len(a) + Len(b)
        BY <4>1, ConcatProperties
      <4>3. Calls(a \o b) = Calls(a) \cup Calls(b)
        BY <4>1, ConcatCalls
      <4>4. \A k \in 1 .. Len(b) : (a \o b)[Len(a) + k] = b[k]
        BY <4>1, ConcatProperties
      <4> QED BY <4>1, <4>2, <4>3, <4>4 DEF a, b
    <3>7. Len(f[m - 1]) \in Nat /\ Len(seqs[m]) \in Nat
      BY <2>4, <3>2
    <3>8. Len(f[m]) > 0 /\ f[m][Len(f[m])] = seqs[m][Len(seqs[m])]
      <4>1. Len(seqs[m]) \in 1 .. Len(seqs[m])
        BY <2>4, <3>7
      <4>2. f[m][Len(f[m - 1]) + Len(seqs[m])] = seqs[m][Len(seqs[m])]
        BY <3>6, <4>1
      <4> QED BY <2>4, <3>6, <3>7, <4>2
    <3>9. UNION {Calls(seqs[j]) : j \in 1 .. m}
            = (UNION {Calls(seqs[j]) : j \in 1 .. m - 1}) \cup Calls(seqs[m])
      <4>1. \A j : j \in 1 .. m <=> j \in 1 .. m - 1 \/ j = m
        BY <3>1
      <4>2. \A x : /\ (\E j \in 1 .. m : x \in Calls(seqs[j]))
                       => (\E j \in 1 .. m - 1 : x \in Calls(seqs[j])) \/ x \in Calls(seqs[m])
                   /\ (\E j \in 1 .. m - 1 : x \in Calls(seqs[j]))
                       => (\E j \in 1 .. m : x \in Calls(seqs[j]))
                   /\ x \in Calls(seqs[m]) => (\E j \in 1 .. m : x \in Calls(seqs[j]))
        BY <4>1, Zenon
      <4> HIDE DEF Fine, Bad
      <4> QED BY <4>2
    <3>10. Calls(f[m]) = UNION {Calls(seqs[j]) : j \in 1 .. m}
      <4>1. Calls(f[m - 1]) = UNION {Calls(seqs[j]) : j \in 1 .. m - 1}
        BY <3>3
      <4> HIDE DEF Fine, Bad
      <4> QED BY <3>6, <3>9, <4>1
    <3>11. Fine(m)
      BY <3>5, <3>8, <3>10
    <3> QED BY <2>3, <3>11
  <2> QED BY <2>5, <2>6
<1>3. Fine(n)
  <2>1. n \in 1 .. n
    OBVIOUS
  <2> QED BY <1>2, <2>1
<1>4. f[n] \in Seq(S)
  BY <1>1 DEF Joins
<1> QED BY <1>1, <1>3, <1>4 DEF AllCalls
---------------------------------------------------------------------------
(* Buffers and events are told apart by their names.                       *)

(* Which buffers each allocation of the slot holds. *)
LEMMA MemoryIs ==
  /\ DOMAIN Memory = {"arena", "chroma", "entries", "raw"} \cup HostOnce
  /\ Memory["arena"] = Arena /\ Memory["chroma"] = {texture}
  /\ \A a \in {"entries", "raw"} : Memory[a] = {hostBatch(a, b) : b \in Batch}
  /\ \A a \in HostOnce : Memory[a] = {host(a)}
BY DEF Memory, HostOnce

(* The pinned entries and raw bits are the host's tokens. *)
LEMMA TokenMemory == \A a \in {"entries", "raw"} : Memory[a] \subseteq HostTokens
<1>1. \A a \in {"entries", "raw"}, b \in Batch : hostBatch(a, b) \in HostTokens
  BY DEF HostTokens
<1> QED BY <1>1, MemoryIs

(* The buffers that the invariant names are buffers. *)
LEMMA BuffersAre ==
  /\ planes \in Buffer /\ texture \in Buffer /\ Arena \subseteq Buffer
  /\ \A a \in HostOnce : host(a) \in Buffer
  /\ HostTables \subseteq Buffer /\ HostTokens \subseteq Buffer
<1>1. \A a \in DOMAIN Memory : Memory[a] \subseteq Buffer
  BY DEF Buffer
<1>2. planes \in Buffer
  BY DEF Buffer
<1>3. Arena \subseteq Buffer /\ texture \in Buffer
  BY <1>1, MemoryIs
<1>4. ASSUME NEW a \in HostOnce PROVE host(a) \in Buffer
  BY <1>1, MemoryIs
<1>5. HostTables \subseteq Buffer
  BY <1>4 DEF HostTables, HostOnce
<1>6. HostTokens \subseteq Buffer
  BY <1>1, MemoryIs DEF HostTokens
<1> QED BY <1>2, <1>3, <1>4, <1>5, <1>6

(* Buffers of different names are different buffers. *)
LEMMA BuffersDiffer ==
  /\ planes \notin Arena /\ texture \notin Arena /\ planes # texture
  /\ \A x : host(x) # planes /\ host(x) # texture /\ host(x) \notin Arena
  /\ \A x, b : hostBatch(x, b) # planes /\ hostBatch(x, b) # texture
               /\ hostBatch(x, b) \notin Arena
  /\ \A x, y, b : host(y) # hostBatch(x, b)
  /\ \A x, y : host(x) = host(y) => x = y
  /\ \A x, y, a, b : hostBatch(x, a) = hostBatch(y, b) => x = y /\ a = b
<1> USE DEF planes, texture, dev, devBatch, host, hostBatch
<1>1. \A x \in Arena : \/ \E y : x = <<"device", y>>
                       \/ \E y, b : x = <<"device", y, b>>
  BY DEF Arena
<1>2. \A x, y, b : /\ <<x, y>>[1] = x /\ <<x, y, b>>[1] = x /\ <<x>>[1] = x
                   /\ <<x, y>>[2] = y /\ <<x, y, b>>[2] = y /\ <<x, y, b>>[3] = b
                   /\ Len(<<x>>) = 1 /\ Len(<<x, y>>) = 2 /\ Len(<<x, y, b>>) = 3
  OBVIOUS
<1>3. planes \notin Arena /\ texture \notin Arena /\ planes # texture
  BY <1>1, <1>2
<1>4. \A x : host(x) # planes /\ host(x) # texture /\ host(x) \notin Arena
  BY <1>1, <1>2
<1>5. \A x, b : hostBatch(x, b) # planes /\ hostBatch(x, b) # texture
                /\ hostBatch(x, b) \notin Arena
  BY <1>1, <1>2
<1>6. \A x, y, b : host(y) # hostBatch(x, b)
  BY <1>2
<1>7. \A x, y : host(x) = host(y) => x = y
  BY <1>2
<1>8. \A x, y, a, b : hostBatch(x, a) = hostBatch(y, b) => x = y /\ a = b
  BY <1>2
<1> QED BY <1>3, <1>4, <1>5, <1>6, <1>7, <1>8

(* Events of different names are different events. *)
LEMMA EventsDiffer ==
  /\ \A d, e : Once(d) = Once(e) => d = e
  /\ \A e, b : Once(e) # packed(b) /\ Once(e) # copied(b)
               /\ packed(b) # NO_EVENT /\ copied(b) # NO_EVENT /\ Once(e) # NO_EVENT
  /\ \A a, b : /\ packed(a) # copied(b)
               /\ packed(a) = packed(b) => a = b
               /\ copied(a) = copied(b) => a = b
<1> USE DEF Once, packed, copied, NO_EVENT
<1>1. \A x, y : /\ <<x, y>>[1] = x /\ <<x>>[1] = x /\ <<x, y>>[2] = y
                /\ Len(<<x>>) = 1 /\ Len(<<x, y>>) = 2 /\ Len(<< >>) = 0
  OBVIOUS
<1>2. \A d, e : Once(d) = Once(e) => d = e
  BY <1>1
<1>3. \A e, b : Once(e) # packed(b) /\ Once(e) # copied(b)
  BY <1>1
<1>4. \A e, b : packed(b) # NO_EVENT /\ copied(b) # NO_EVENT /\ Once(e) # NO_EVENT
  BY <1>1
<1>5. \A a, b : /\ packed(a) # copied(b)
                /\ packed(a) = packed(b) => a = b
                /\ copied(a) = copied(b) => a = b
  BY <1>1
<1> QED BY <1>2, <1>3, <1>4, <1>5

(* The fields of each kind of call. *)
LEMMA CallFields ==
  /\ \A s, r, w : /\ Run(s, r, w).kind = "run" /\ Run(s, r, w).stream = s
                  /\ Run(s, r, w).event = NO_EVENT
                  /\ Run(s, r, w).reads = r /\ Run(s, r, w).writes = w
  /\ \A s, e : /\ Record(s, e).kind = "record" /\ Record(s, e).stream = s
               /\ Record(s, e).event = e
               /\ Record(s, e).reads = {} /\ Record(s, e).writes = {}
  /\ \A s, e : /\ Wait(s, e).kind = "wait" /\ Wait(s, e).stream = s
               /\ Wait(s, e).event = e
               /\ Wait(s, e).reads = {} /\ Wait(s, e).writes = {}
  /\ \A s : Sync(s).kind = "sync" /\ Sync(s).stream = s
  /\ \A a, n : /\ Reserve(a, n).kind = "reserve" /\ Reserve(a, n).memory = a
               /\ Reserve(a, n).size = n
  /\ [kind |-> "texture"].kind = "texture"
<1>1. \A s, r, w : /\ Run(s, r, w).kind = "run" /\ Run(s, r, w).stream = s
                  /\ Run(s, r, w).event = NO_EVENT
                  /\ Run(s, r, w).reads = r /\ Run(s, r, w).writes = w
  BY DEF Call, Run
<1>2. \A s, e : /\ Record(s, e).kind = "record" /\ Record(s, e).stream = s
               /\ Record(s, e).event = e
               /\ Record(s, e).reads = {} /\ Record(s, e).writes = {}
  BY DEF Call, Record
<1>3. \A s, e : /\ Wait(s, e).kind = "wait" /\ Wait(s, e).stream = s
               /\ Wait(s, e).event = e
               /\ Wait(s, e).reads = {} /\ Wait(s, e).writes = {}
  BY DEF Call, Wait
<1>4. \A s : Sync(s).kind = "sync" /\ Sync(s).stream = s
  BY DEF Call, Sync
<1>5. \A a, n : /\ Reserve(a, n).kind = "reserve" /\ Reserve(a, n).memory = a
               /\ Reserve(a, n).size = n
  BY DEF Reserve
<1>6. [kind |-> "texture"].kind = "texture"
  OBVIOUS
<1> QED BY <1>1, <1>2, <1>3, <1>4, <1>5, <1>6
---------------------------------------------------------------------------
(* The calls of a program.                                                 *)

(* The calls submit makes, *)
SubmitRecords ==
  {Once("input_ready"), Once("forked"), Once("layout_copied"), Once("dc_sizes_copied")}
  \cup {packed(b) : b \in Batch}
RunsOf(s, kept) ==
  {Run(s, r, w) : r \in SUBSET MayRead(s), w \in SUBSET (MayWrite(s) \ kept)}
OfSubmit ==
  {Sync(s) : s \in SlotStream}
  \cup {Reserve(a, n) : a \in {"arena"} \cup (HostOnce \ {"dc_body"}), n \in Nat}
  \cup {[kind |-> "texture"]}
  \cup RunsOf("stream", {}) \cup RunsOf("dc_stream", {host("dc_body")})
  \cup {Record("input_stream", Once("input_ready"))}
  \cup {Record(s, e) : s \in {"stream", "dc_stream"},
                       e \in SubmitRecords \ {Once("input_ready")}}
  \cup {Wait("stream", Once("input_ready")), Wait("dc_stream", Once("forked"))}

(* and start_copies makes. *)
OfStartCopies(image) ==
  {Reserve("entries", image.tokens), Reserve("raw", image.tokens + 1)}
  \cup RunsOf("copy_stream", {})
  \cup {Wait("copy_stream", packed(b)) : b \in Batch}
  \cup {Record("copy_stream", copied(b)) : b \in Batch}

(* What each stream may read and write, spelled out. *)
LEMMA StreamsMay ==
  /\ MayRead("input_stream") = {} /\ MayWrite("input_stream") = {planes}
  /\ MayRead("stream") = Arena \cup {planes, texture}
  /\ MayWrite("stream") = Arena \cup HostTables
  /\ MayRead("dc_stream") = Arena
  /\ MayWrite("dc_stream") = Arena \cup {host("dc_sizes"), host("dc_body")}
  /\ MayRead("copy_stream") = Arena /\ MayWrite("copy_stream") = HostTokens
  /\ \A s \in Stream : MayRead(s) \subseteq Buffer /\ MayWrite(s) \subseteq Buffer
<1>1. /\ MayRead("input_stream") = {} /\ MayRead("stream") = Arena \cup {planes, texture}
      /\ MayRead("dc_stream") = Arena /\ MayRead("copy_stream") = Arena
  BY BuffersDiffer DEF MayRead
<1>2. /\ MayWrite("input_stream") = {planes}
      /\ MayWrite("stream") = Arena \cup HostTables
      /\ MayWrite("dc_stream") = Arena \cup {host("dc_sizes"), host("dc_body")}
      /\ MayWrite("copy_stream") = HostTokens
  BY DEF MayWrite
<1>3. host("dc_sizes") \in Buffer /\ host("dc_body") \in Buffer
  BY BuffersAre DEF HostOnce
<1>4. \A s \in Stream : MayRead(s) \subseteq Buffer /\ MayWrite(s) \subseteq Buffer
  BY <1>1, <1>2, <1>3, BuffersAre DEF Stream
<1> QED BY <1>1, <1>2, <1>4

(* The device buffers of a frame are in the arena. *)
LEMMA ArenaHas ==
  /\ \A x \in {"aligned_chroma", "frontend", "residual", "dc_hist", "am_hist",
               "first_blocks", "dc_blobs", "dc_groups", "coeff_orders", "histogram",
               "layout", "clustering"} : dev(x) \in Arena
  /\ \A b \in Batch : devBatch("entries", b) \in Arena /\ devBatch("raw", b) \in Arena
BY DEF Arena

(* There is a last batch. *)
LEMMA BatchesHave == LastBatch \in Batch /\ Batch \subseteq Nat /\ AC_BATCHES \in Nat
BY BoundsAssumption DEF LastBatch, Batch
(* Every call that submit makes is in OfSubmit. *)
LEMMA SubmitMakes ==
  /\ \A r \in SUBSET MayRead("stream"), w \in SUBSET MayWrite("stream") :
       Run("stream", r, w) \in OfSubmit
  /\ \A r \in SUBSET Arena, w \in SUBSET (Arena \cup {host("dc_sizes")}) :
       Run("dc_stream", r, w) \in OfSubmit
  /\ Record("input_stream", Once("input_ready")) \in OfSubmit
  /\ \A s \in {"stream", "dc_stream"} :
       \A e \in {Once("forked"), Once("layout_copied"), Once("dc_sizes_copied")}
               \cup {packed(b) : b \in Batch} : Record(s, e) \in OfSubmit
  /\ Wait("stream", Once("input_ready")) \in OfSubmit
  /\ Wait("dc_stream", Once("forked")) \in OfSubmit
  /\ [kind |-> "texture"] \in OfSubmit
<1>1. \A r \in SUBSET MayRead("stream"), w \in SUBSET MayWrite("stream") :
        Run("stream", r, w) \in OfSubmit
  BY DEF OfSubmit, RunsOf
<1>2. ASSUME NEW r \in SUBSET Arena, NEW w \in SUBSET (Arena \cup {host("dc_sizes")})
      PROVE  Run("dc_stream", r, w) \in OfSubmit
  <2>1. r \in SUBSET MayRead("dc_stream")
    BY StreamsMay
  <2>2. host("dc_body") # host("dc_sizes") /\ host("dc_body") \notin Arena
    BY BuffersDiffer
  <2>3. w \in SUBSET (MayWrite("dc_stream") \ {host("dc_body")})
    BY <2>2, StreamsMay
  <2> QED BY <2>1, <2>3 DEF OfSubmit, RunsOf
<1>3. \A s \in {"stream", "dc_stream"} :
        \A e \in {Once("forked"), Once("layout_copied"), Once("dc_sizes_copied")}
                \cup {packed(b) : b \in Batch} : Record(s, e) \in OfSubmit
  <2>1. \A e \in {Once("forked"), Once("layout_copied"), Once("dc_sizes_copied")}
                \cup {packed(b) : b \in Batch} :
          e \in SubmitRecords \ {Once("input_ready")}
    <3>1. /\ Once("forked") # Once("input_ready")
          /\ Once("layout_copied") # Once("input_ready")
          /\ Once("dc_sizes_copied") # Once("input_ready")
          /\ \A b : packed(b) # Once("input_ready")
      BY EventsDiffer
    <3> QED BY <3>1 DEF SubmitRecords
  <2> QED BY <2>1 DEF OfSubmit
<1>4. /\ Record("input_stream", Once("input_ready")) \in OfSubmit
      /\ Wait("stream", Once("input_ready")) \in OfSubmit
      /\ Wait("dc_stream", Once("forked")) \in OfSubmit
      /\ [kind |-> "texture"] \in OfSubmit
  BY DEF OfSubmit
<1> QED BY <1>1, <1>2, <1>3, <1>4
---------------------------------------------------------------------------
(* submit: each part makes calls of submit, in order after those before.   *)

(* The synchronizations that begin submit need nothing before them. *)
LEMMA ReuseOrdered ==
  ASSUME NEW image, NEW base
  PROVE  /\ ReuseCalls \in Seq(OfSubmit) /\ Len(ReuseCalls) = 3
         /\ ReuseCalls[1] = Sync("stream") /\ ReuseCalls[2] = Sync("dc_stream")
         /\ ReuseCalls[3] = Sync("copy_stream")
         /\ Ordered(image, base, ReuseCalls)
<1>1. ReuseCalls \in Seq(OfSubmit)
  BY DEF ReuseCalls, OfSubmit, SlotStream, Stream
<1>2. /\ Len(ReuseCalls) = 3 /\ ReuseCalls[1] = Sync("stream")
      /\ ReuseCalls[2] = Sync("dc_stream") /\ ReuseCalls[3] = Sync("copy_stream")
  BY DEF ReuseCalls
<1>3. \A k \in 1 .. 3 : ReuseCalls[k].kind = "sync"
  BY <1>2, CallFields
<1> QED BY <1>1, <1>2, <1>3 DEF Ordered, Supplied

(* The allocations of submit need nothing before them. *)
LEMMA ReserveOrdered ==
  ASSUME NEW image \in Image, NEW base
  PROVE  /\ ReserveCalls(image) \in Seq(OfSubmit) /\ Len(ReserveCalls(image)) = 6
         /\ \A k \in 1 .. 6 : ReserveCalls(image)[k].kind = "reserve"
         /\ Ordered(image, base, ReserveCalls(image))
<1>1. image.num_ac \in Nat
  BY ImageAssumption
<1>2. \A a \in {"arena"} \cup (HostOnce \ {"dc_body"}), n \in Nat : Reserve(a, n) \in OfSubmit
  BY DEF OfSubmit
<1>3. {"arena", "calibration", "clustering", "coeff_orders", "layout", "dc_sizes"}
        \subseteq {"arena"} \cup (HostOnce \ {"dc_body"})
  BY DEF HostOnce
<1>4. 3 * image.num_ac + 2 \in Nat
  BY <1>1
<1>5. ReserveCalls(image) \in Seq(OfSubmit)
  BY <1>1, <1>2, <1>3, <1>4 DEF ReserveCalls
<1>6. /\ Len(ReserveCalls(image)) = 6
      /\ \A k \in 1 .. 6 : \E a, n : ReserveCalls(image)[k] = Reserve(a, n)
  BY DEF ReserveCalls
<1>7. \A k \in 1 .. 6 : ReserveCalls(image)[k].kind = "reserve"
  BY <1>6, CallFields
<1> QED BY <1>5, <1>6, <1>7 DEF Ordered, Supplied

(* A call that needs no other before it. *)
LEMMA EarlierCalls ==
  ASSUME NEW p
  PROVE  /\ \A k \in Nat : \A i \in 1 .. k - 1 : p[i] \in Before(p, k)
         /\ \A i \in 1 .. Len(p) : p[i] \in Calls(p)
BY DEF Before, Calls

(* After the input's calls, the slot's stream has waited for the planes *)
(* and has the aligned chroma.                                          *)
LEMMA InputOrdered ==
  ASSUME NEW image \in Image, NEW base, \A m \in base : m.kind # "wait"
  PROVE  /\ InputCalls(image) \in Seq(OfSubmit)
         /\ Ordered(image, base, InputCalls(image))
         /\ \A m \in Calls(InputCalls(image)) :
              /\ m.kind \in {"run", "record", "wait"}
              /\ m.kind = "wait" => m.event = Once("input_ready")
         /\ Waited(image, Calls(InputCalls(image)), "stream", planes)
         /\ ~ image.aligned =>
              Ran(Calls(InputCalls(image)), "stream", dev("aligned_chroma"))
<1> DEFINE a == Record("input_stream", Once("input_ready"))
           b == Wait("stream", Once("input_ready"))
           c == Run("stream", {planes}, {dev("aligned_chroma")})
           p == InputCalls(image)
<1>1. InputCalls(image) = IF image.aligned THEN <<a, b>> ELSE <<a, b, c>>
  <2>1. \A u, v, w : <<u, v>> \o <<>> = <<u, v>> /\ <<u, v>> \o <<w>> = <<u, v, w>>
    <3> SUFFICES ASSUME NEW u, NEW v, NEW w
                 PROVE  <<u, v>> \o <<>> = <<u, v>> /\ <<u, v>> \o <<w>> = <<u, v, w>>
      OBVIOUS
    <3> DEFINE S == {u, v, w}
    <3>1. <<u, v>> \in Seq(S) /\ <<>> \in Seq(S) /\ <<w>> \in Seq(S)
          /\ <<u, v, w>> \in Seq(S)
      OBVIOUS
    <3>2. <<u, v>> \o <<>> = <<u, v>>
      BY <3>1, ConcatEmptySeq
    <3> DEFINE uvw == <<u, v>> \o <<w>>
    <3>3. uvw \in Seq(S) /\ Len(uvw) = 3 /\ uvw[1] = u /\ uvw[2] = v /\ uvw[3] = w
      BY <3>1, ConcatProperties
    <3>4. uvw = <<u, v, w>>
      <4> HIDE DEF uvw
      <4> QED BY <3>1, <3>3, SeqEqual
    <3> QED BY <3>2, <3>4
  <2>2. InputCalls(image) = <<a, b>> \o (IF image.aligned THEN <<>> ELSE <<c>>)
    BY DEF InputCalls, Copy
  <2> HIDE DEF a, b, c
  <2> QED BY <2>1, <2>2
<1>2. a \in OfSubmit /\ b \in OfSubmit /\ c \in OfSubmit
  BY SubmitMakes, StreamsMay, ArenaHas
<1>3. /\ a.kind = "record" /\ a.stream = "input_stream" /\ a.event = Once("input_ready")
      /\ b.kind = "wait" /\ b.stream = "stream" /\ b.event = Once("input_ready")
      /\ c.kind = "run" /\ c.stream = "stream" /\ c.reads = {planes}
      /\ c.writes = {dev("aligned_chroma")}
  BY CallFields
<1> HIDE DEF a, b, c
<1>4. p \in Seq(OfSubmit) /\ Len(p) \in {2, 3} /\ p[1] = a /\ p[2] = b
      /\ (Len(p) = 3 => p[3] = c) /\ (Len(p) = 2 <=> image.aligned)
  BY <1>1, <1>2
<1> HIDE DEF p
<1>5. \A x : Carries(image, Once("input_ready"), x) <=> x = planes
  BY EventsDiffer DEF Carries
<1>6. Supplied(image, base \cup Before(p, 1), p[1])
  <2>1. Before(p, 1) = {}
    BY DEF Before
  <2> QED BY <1>3, <1>4, <1>5, <2>1 DEF Supplied
<1>7. Supplied(image, base \cup Before(p, 2), p[2])
  <2>1. a \in Before(p, 2)
    BY <1>4, EarlierCalls
  <2> QED BY <1>3, <1>4, <2>1 DEF Supplied
<1>8. ASSUME Len(p) = 3
      PROVE  Supplied(image, base \cup Before(p, 3), p[3])
  <2>1. b \in Before(p, 3)
    BY <1>4, EarlierCalls
  <2>2. Waited(image, base \cup Before(p, 3), "stream", planes)
    BY <1>3, <1>5, <2>1 DEF Waited
  <2> QED BY <1>3, <1>4, <1>8, <2>2 DEF Supplied, Source
<1>9. Ordered(image, base, p)
  <2>0. Len(p) = 2 \/ Len(p) = 3
    BY <1>4
  <2>1. ASSUME NEW k \in 1 .. Len(p) PROVE k = 1 \/ k = 2 \/ (k = 3 /\ Len(p) = 3)
    <3>1. CASE Len(p) = 2
      BY <3>1
    <3>2. CASE Len(p) = 3
      BY <3>2
    <3> QED BY <2>0, <3>1, <3>2
  <2> QED BY <1>6, <1>7, <1>8, <2>1 DEF Ordered
<1>10. Calls(p) = IF image.aligned THEN {a, b} ELSE {a, b, c}
  <2>1. CASE image.aligned
    <3>1. Len(p) = 2
      BY <1>4, <2>1
    <3> QED BY <1>4, <2>1, <3>1 DEF Calls
  <2>2. CASE ~ image.aligned
    <3>1. Len(p) = 3
      BY <1>4, <2>2
    <3> QED BY <1>4, <2>2, <3>1 DEF Calls
  <2> QED BY <2>1, <2>2
<1> QED BY <1>3, <1>4, <1>5, <1>9, <1>10 DEF p, Waited, Ran

(* A source of a buffer stays one when more calls are made. *)
LEMMA SourceGrows ==
  ASSUME NEW image, NEW made, NEW more, made \subseteq more, NEW s, NEW x
  PROVE  /\ Ran(made, s, x) => Ran(more, s, x)
         /\ Waited(image, made, s, x) => Waited(image, more, s, x)
         /\ Source(image, made, s, x) => Source(image, more, s, x)
BY DEF Ran, Waited, Source

(* The front end finds its planes, and leaves its output and the *)
(* residual.                                                     *)
LEMMA FrontendOrdered ==
  ASSUME NEW image \in Image, NEW base,
         Source(image, base, "stream", planes),
         ~ image.aligned => Source(image, base, "stream", dev("aligned_chroma"))
  PROVE  /\ FrontendCalls(image) \in Seq(OfSubmit)
         /\ Ordered(image, base, FrontendCalls(image))
         /\ \A m \in Calls(FrontendCalls(image)) : m.kind \in {"texture", "run"}
         /\ Ran(Calls(FrontendCalls(image)), "stream", dev("frontend"))
         /\ Ran(Calls(FrontendCalls(image)), "stream", dev("residual"))
<1> DEFINE inputs == {planes, texture} \cup
                     (IF image.aligned THEN {} ELSE {dev("aligned_chroma")})
           a == [kind |-> "texture"]
           b == Run("stream", inputs, {dev("frontend")})
           c == Run("stream", {dev("frontend")}, {dev("residual")})
           p == FrontendCalls(image)
<1>1. p \in Seq({a, b, c}) /\ Len(p) = 3 /\ p[1] = a /\ p[2] = b /\ p[3] = c
  BY DEF FrontendCalls
<1>2. a \in OfSubmit /\ b \in OfSubmit /\ c \in OfSubmit
  <2>1. inputs \subseteq MayRead("stream")
    BY StreamsMay, ArenaHas
  <2> QED BY <2>1, SubmitMakes, StreamsMay, ArenaHas
<1>3. /\ a.kind = "texture"
      /\ b.kind = "run" /\ b.stream = "stream" /\ b.reads = inputs
      /\ b.writes = {dev("frontend")}
      /\ c.kind = "run" /\ c.stream = "stream" /\ c.reads = {dev("frontend")}
      /\ c.writes = {dev("residual")}
  BY CallFields
<1> HIDE DEF a, b, c, p
<1>4. p \in Seq(OfSubmit)
  BY <1>1, <1>2
<1>5. Supplied(image, base \cup Before(p, 1), p[1])
  BY <1>1, <1>3 DEF Supplied
<1>6. Supplied(image, base \cup Before(p, 2), p[2])
  <2>1. a \in Before(p, 2)
    BY <1>1, EarlierCalls
  <2>2. Source(image, base \cup Before(p, 2), "stream", texture)
    BY <1>3, <2>1 DEF Source
  <2>3. Source(image, base \cup Before(p, 2), "stream", planes)
    BY SourceGrows
  <2>4. ~ image.aligned =>
          Source(image, base \cup Before(p, 2), "stream", dev("aligned_chroma"))
    BY SourceGrows
  <2> QED BY <1>1, <1>3, <2>2, <2>3, <2>4 DEF Supplied
<1>7. Supplied(image, base \cup Before(p, 3), p[3])
  <2>1. b \in Before(p, 3)
    BY <1>1, EarlierCalls
  <2>2. Source(image, base \cup Before(p, 3), "stream", dev("frontend"))
    BY <1>3, <2>1 DEF Source, Ran
  <2> QED BY <1>1, <1>3, <2>2 DEF Supplied
<1>8. Ordered(image, base, p)
  <2>1. \A k \in 1 .. 3 : k = 1 \/ k = 2 \/ k = 3
    OBVIOUS
  <2> QED BY <1>1, <1>5, <1>6, <1>7, <2>1 DEF Ordered
<1>9. Calls(p) = {a, b, c}
  BY <1>1 DEF Calls
<1> QED BY <1>3, <1>4, <1>8, <1>9 DEF p, Ran

(* A call reads what was written before it in its stream. *)
LEMMA RunSupplied ==
  ASSUME NEW image, NEW made, NEW c, c.kind = "run",
         \A x \in c.reads : Ran(made, c.stream, x)
  PROVE  Supplied(image, made, c)
BY DEF Supplied, Source

(* The DC calls find what the fork promises on their stream, and leave *)
(* the coded DcGroups.                                                 *)
LEMMA DcOrdered ==
  ASSUME NEW image \in Image, NEW base,
         \A m \in base : m.kind = "wait" => m.event = Once("input_ready"),
         Ran(base, "stream", dev("frontend")), Ran(base, "stream", dev("residual"))
  PROVE  /\ DcCalls \in Seq(OfSubmit)
         /\ Ordered(image, base, DcCalls)
         /\ \A m \in Calls(DcCalls) :
              /\ m.kind \in {"run", "record", "wait"}
              /\ m.kind = "wait" => m.event = Once("forked")
         /\ Ran(Calls(DcCalls), "dc_stream", dev("dc_groups"))
         /\ Record("dc_stream", Once("dc_sizes_copied")) \in Calls(DcCalls)
<1> DEFINE p == DcCalls
           c1 == Record("stream", Once("forked"))
           c2 == Wait("dc_stream", Once("forked"))
           c3 == Run("dc_stream", {dev("residual")}, {dev("dc_hist")})
           c4 == Run("dc_stream", {dev("frontend"), dev("residual")}, {dev("am_hist")})
           c5 == Run("dc_stream", {dev("frontend")}, {dev("first_blocks")})
           c6 == Run("dc_stream", {dev("dc_hist"), dev("am_hist"), dev("first_blocks")},
                     {dev("dc_blobs")})
           c7 == Run("dc_stream", {dev("frontend"), dev("residual"), dev("first_blocks"),
                                   dev("dc_blobs")}, {dev("dc_groups")})
           c8 == Run("dc_stream", {dev("dc_groups")}, {host("dc_sizes")})
           c9 == Record("dc_stream", Once("dc_sizes_copied"))
<1>1. /\ Len(p) = 9
      /\ p[1] = c1 /\ p[2] = c2 /\ p[3] = c3 /\ p[4] = c4 /\ p[5] = c5
      /\ p[6] = c6 /\ p[7] = c7 /\ p[8] = c8 /\ p[9] = c9
  BY DEF DcCalls, Copy
<1>2. p \in Seq({c1, c2, c3, c4, c5, c6, c7, c8, c9})
  BY DEF DcCalls, Copy
<1>3. {c1, c2, c3, c4, c5, c6, c7, c8, c9} \subseteq OfSubmit
  <2>1. {c1, c2, c9} \subseteq OfSubmit
    BY SubmitMakes
  <2>2. {c3, c4, c5, c6, c7, c8} \subseteq OfSubmit
    BY SubmitMakes, ArenaHas
  <2> QED BY <2>1, <2>2
<1>4. /\ c1.kind = "record" /\ c1.stream = "stream" /\ c1.event = Once("forked")
      /\ c2.kind = "wait" /\ c2.stream = "dc_stream" /\ c2.event = Once("forked")
      /\ c9.kind = "record" /\ c9.stream = "dc_stream"
      /\ c9.event = Once("dc_sizes_copied")
  BY CallFields
<1>5. /\ \A c \in {c3, c4, c5, c6, c7, c8} : c.kind = "run" /\ c.stream = "dc_stream"
      /\ c3.reads = {dev("residual")} /\ c3.writes = {dev("dc_hist")}
      /\ c4.reads = {dev("frontend"), dev("residual")} /\ c4.writes = {dev("am_hist")}
      /\ c5.reads = {dev("frontend")} /\ c5.writes = {dev("first_blocks")}
      /\ c6.reads = {dev("dc_hist"), dev("am_hist"), dev("first_blocks")}
      /\ c6.writes = {dev("dc_blobs")}
      /\ c7.reads = {dev("frontend"), dev("residual"), dev("first_blocks"), dev("dc_blobs")}
      /\ c7.writes = {dev("dc_groups")}
      /\ c8.reads = {dev("dc_groups")} /\ c8.writes = {host("dc_sizes")}
  BY CallFields
<1> HIDE DEF c1, c2, c3, c4, c5, c6, c7, c8, c9
<1> DEFINE made(k) == base \cup Before(p, k)
<1>6. \A k \in 1 .. 9 : \A i \in 1 .. k - 1 : p[i] \in made(k)
  BY EarlierCalls
<1>7. \A k \in 1 .. 9 : base \subseteq made(k)
  OBVIOUS
<1> HIDE DEF made
<1>8. \A x : Carries(image, Once("forked"), x) <=> x \in {dev("frontend"), dev("residual")}
  BY EventsDiffer DEF Carries
<1>9. Supplied(image, made(1), p[1])
  <2>1. made(1) = base
    BY DEF made, Before
  <2>2. Once("input_ready") # Once("forked")
    BY EventsDiffer
  <2> QED BY <1>1, <1>4, <1>8, <2>1, <2>2 DEF Supplied
<1>10. Supplied(image, made(2), p[2])
  <2>1. c1 \in made(2)
    BY <1>1, <1>6
  <2> QED BY <1>1, <1>4, <2>1 DEF Supplied
<1>11. \A k \in 3 .. 9 : c2 \in made(k)
  BY <1>1, <1>6
<1>12. \A k \in 3 .. 9 : \A x \in {dev("frontend"), dev("residual")} :
         Source(image, made(k), "dc_stream", x)
  BY <1>4, <1>8, <1>11 DEF Source, Waited
<1>13. Supplied(image, made(3), p[3]) /\ Supplied(image, made(4), p[4])
       /\ Supplied(image, made(5), p[5])
  BY <1>1, <1>5, <1>12 DEF Supplied
<1>14. Supplied(image, made(6), p[6])
  <2>1. c3 \in made(6) /\ c4 \in made(6) /\ c5 \in made(6)
    BY <1>1, <1>6
  <2>2. \A x \in c6.reads : Ran(made(6), "dc_stream", x)
    BY <1>5, <2>1 DEF Ran
  <2> QED BY <1>1, <1>5, <2>2, RunSupplied
<1>15. Supplied(image, made(7), p[7])
  <2>1. c5 \in made(7) /\ c6 \in made(7)
    BY <1>1, <1>6
  <2>2. \A x \in {dev("first_blocks"), dev("dc_blobs")} : Ran(made(7), "dc_stream", x)
    BY <1>5, <2>1 DEF Ran
  <2>3. \A x \in c7.reads : Source(image, made(7), "dc_stream", x)
    BY <1>5, <1>12, <2>2 DEF Source
  <2> QED BY <1>1, <1>5, <2>3 DEF Supplied
<1>16. Supplied(image, made(8), p[8])
  <2>1. c7 \in made(8)
    BY <1>1, <1>6
  <2>2. \A x \in c8.reads : Ran(made(8), "dc_stream", x)
    BY <1>5, <2>1 DEF Ran
  <2> QED BY <1>1, <1>5, <2>2, RunSupplied
<1>17. Calls(p) = {c1, c2, c3, c4, c5, c6, c7, c8, c9}
  <2>1. \A k \in 1 .. 9 : k = 1 \/ k = 2 \/ k = 3 \/ k = 4 \/ k = 5 \/ k = 6 \/ k = 7
                          \/ k = 8 \/ k = 9
    OBVIOUS
  <2>2. \A k \in 1 .. 9 : p[k] \in {c1, c2, c3, c4, c5, c6, c7, c8, c9}
    BY <1>1, <2>1
  <2>3. \A c \in {c1, c2, c3, c4, c5, c6, c7, c8, c9} : \E k \in 1 .. 9 : c = p[k]
    BY <1>1
  <2> QED BY <1>1, <2>2, <2>3 DEF Calls
<1>18. Supplied(image, made(9), p[9])
  <2>1. \A x : Carries(image, Once("dc_sizes_copied"), x) <=> x = host("dc_sizes")
    BY EventsDiffer DEF Carries
  <2>2. c8 \in made(9)
    BY <1>1, <1>6
  <2>3. Ran(made(9), "dc_stream", host("dc_sizes"))
    BY <1>5, <2>2 DEF Ran
  <2>4. ASSUME NEW m \in made(9), m.kind = "wait" PROVE m.event # Once("dc_sizes_copied")
    <3>1. Once("dc_sizes_copied") # Once("input_ready")
          /\ Once("dc_sizes_copied") # Once("forked")
      BY EventsDiffer
    <3>2. m \in base \/ m \in Calls(p)
      <4>1. Before(p, 9) \subseteq Calls(p)
        BY <1>1 DEF Before, Calls
      <4> QED BY <4>1 DEF made
    <3>3. m \in Calls(p) => m = c2
      BY <1>4, <1>5, <1>17, <2>4
    <3> QED BY <1>4, <2>4, <3>1, <3>2, <3>3
  <2> QED BY <1>1, <1>4, <2>1, <2>3, <2>4 DEF Supplied
<1>19. Ordered(image, base, p)
  <2>1. \A k \in 1 .. 9 : k = 1 \/ k = 2 \/ k = 3 \/ k = 4 \/ k = 5 \/ k = 6 \/ k = 7
                          \/ k = 8 \/ k = 9
    OBVIOUS
  <2>2. \A k \in 1 .. 9 : Supplied(image, made(k), p[k])
    BY <1>9, <1>10, <1>13, <1>14, <1>15, <1>16, <1>18, <2>1
  <2> QED BY <1>1, <2>2 DEF Ordered, made
<1>20. Ran(Calls(p), "dc_stream", dev("dc_groups"))
  BY <1>5, <1>17 DEF Ran
<1>21. \A m \in Calls(p) :
         /\ m.kind \in {"run", "record", "wait"}
         /\ m.kind = "wait" => m.event = Once("forked")
  BY <1>4, <1>5, <1>17
<1>22. Record("dc_stream", Once("dc_sizes_copied")) \in Calls(p)
  BY <1>17 DEF c9
<1>23. p \in Seq(OfSubmit)
  BY <1>2, <1>3
<1> QED BY <1>19, <1>20, <1>21, <1>22, <1>23

(* The AC calls leave the orders, clustering, histogram and layout the *)
(* batches are packed with.                                            *)
LEMMA AcOrdered ==
  ASSUME NEW image \in Image, NEW base,
         \A m \in base : m.kind = "wait" =>
           m.event \in {Once("input_ready"), Once("forked")},
         Ran(base, "stream", dev("frontend")), Ran(base, "stream", dev("residual"))
  PROVE  /\ AcCalls \in Seq(OfSubmit)
         /\ Ordered(image, base, AcCalls)
         /\ \A m \in Calls(AcCalls) : m.kind \in {"run", "record"}
         /\ \A x \in {dev("coeff_orders"), dev("clustering"), dev("histogram"),
                      dev("layout")} : Ran(Calls(AcCalls), "stream", x)
         /\ Record("stream", Once("layout_copied")) \in Calls(AcCalls)
<1> DEFINE p == AcCalls
           c1 == Run("stream", {dev("residual")}, {dev("coeff_orders")})
           c2 == Run("stream", {dev("frontend"), dev("residual"), dev("coeff_orders")},
                     {dev("histogram")})
           c3 == Run("stream", {dev("histogram")}, {dev("layout")})
           c4 == Run("stream", {dev("histogram")}, {dev("clustering")})
           c5 == Run("stream", {dev("frontend")}, {host("calibration")})
           c6 == Run("stream", {dev("clustering")}, {host("clustering")})
           c7 == Run("stream", {dev("coeff_orders")}, {host("coeff_orders")})
           c8 == Run("stream", {dev("layout")}, {host("layout")})
           c9 == Record("stream", Once("layout_copied"))
<1>1. /\ Len(p) = 9
      /\ p[1] = c1 /\ p[2] = c2 /\ p[3] = c3 /\ p[4] = c4 /\ p[5] = c5
      /\ p[6] = c6 /\ p[7] = c7 /\ p[8] = c8 /\ p[9] = c9
  BY DEF AcCalls, Copy, ToHost
<1>2. p \in Seq({c1, c2, c3, c4, c5, c6, c7, c8, c9})
  BY DEF AcCalls, Copy, ToHost
<1>3. {c1, c2, c3, c4, c5, c6, c7, c8, c9} \subseteq OfSubmit
  <2>1. c9 \in OfSubmit
    BY SubmitMakes
  <2>2. {c1, c2, c3, c4} \subseteq OfSubmit
    BY SubmitMakes, ArenaHas, StreamsMay
  <2>3. {c5, c6, c7, c8} \subseteq OfSubmit
    <3>1. \A x \in {"calibration", "clustering", "coeff_orders", "layout"} :
            {host(x)} \subseteq MayWrite("stream")
      BY StreamsMay DEF HostTables
    <3> QED BY <3>1, SubmitMakes, ArenaHas, StreamsMay
  <2> QED BY <2>1, <2>2, <2>3
<1>4. c9.kind = "record" /\ c9.stream = "stream" /\ c9.event = Once("layout_copied")
  BY CallFields
<1>5. /\ \A c \in {c1, c2, c3, c4, c5, c6, c7, c8} : c.kind = "run" /\ c.stream = "stream"
      /\ c1.reads = {dev("residual")} /\ c1.writes = {dev("coeff_orders")}
      /\ c2.reads = {dev("frontend"), dev("residual"), dev("coeff_orders")}
      /\ c2.writes = {dev("histogram")}
      /\ c3.reads = {dev("histogram")} /\ c3.writes = {dev("layout")}
      /\ c4.reads = {dev("histogram")} /\ c4.writes = {dev("clustering")}
      /\ c5.reads = {dev("frontend")} /\ c5.writes = {host("calibration")}
      /\ c6.reads = {dev("clustering")} /\ c6.writes = {host("clustering")}
      /\ c7.reads = {dev("coeff_orders")} /\ c7.writes = {host("coeff_orders")}
      /\ c8.reads = {dev("layout")} /\ c8.writes = {host("layout")}
  BY CallFields
<1> HIDE DEF c1, c2, c3, c4, c5, c6, c7, c8, c9
<1> DEFINE made(k) == base \cup Before(p, k)
<1>6. \A k \in 1 .. 9 : \A i \in 1 .. k - 1 : p[i] \in made(k)
  BY EarlierCalls
<1>7. \A k \in 1 .. 9 : \A x \in {dev("frontend"), dev("residual")} :
        Ran(made(k), "stream", x)
  BY SourceGrows
<1> HIDE DEF made
<1>8. /\ \A k \in 2 .. 9 : Ran(made(k), "stream", dev("coeff_orders"))
      /\ \A k \in 3 .. 9 : Ran(made(k), "stream", dev("histogram"))
      /\ \A k \in 4 .. 9 : Ran(made(k), "stream", dev("layout"))
      /\ \A k \in 5 .. 9 : Ran(made(k), "stream", dev("clustering"))
  <2>1. /\ \A k \in 2 .. 9 : c1 \in made(k)
        /\ \A k \in 3 .. 9 : c2 \in made(k)
        /\ \A k \in 4 .. 9 : c3 \in made(k)
        /\ \A k \in 5 .. 9 : c4 \in made(k)
    BY <1>1, <1>6
  <2> QED BY <1>5, <2>1 DEF Ran
<1>9. Supplied(image, made(1), p[1])
  <2>1. \A x \in c1.reads : Ran(made(1), "stream", x)
    BY <1>5, <1>7
  <2> QED BY <1>1, <1>5, <2>1, RunSupplied
<1>10. Supplied(image, made(2), p[2])
  <2>1. \A x \in c2.reads : Ran(made(2), "stream", x)
    BY <1>5, <1>7, <1>8
  <2> QED BY <1>1, <1>5, <2>1, RunSupplied
<1>11. Supplied(image, made(3), p[3]) /\ Supplied(image, made(4), p[4])
  <2>1. /\ \A x \in c3.reads : Ran(made(3), "stream", x)
        /\ \A x \in c4.reads : Ran(made(4), "stream", x)
    BY <1>5, <1>8
  <2> QED BY <1>1, <1>5, <2>1, RunSupplied
<1>12. Supplied(image, made(5), p[5]) /\ Supplied(image, made(6), p[6])
       /\ Supplied(image, made(7), p[7]) /\ Supplied(image, made(8), p[8])
  <2>1. /\ \A x \in c5.reads : Ran(made(5), "stream", x)
        /\ \A x \in c6.reads : Ran(made(6), "stream", x)
        /\ \A x \in c7.reads : Ran(made(7), "stream", x)
        /\ \A x \in c8.reads : Ran(made(8), "stream", x)
    BY <1>5, <1>7, <1>8
  <2> QED BY <1>1, <1>5, <2>1, RunSupplied
<1>13. Calls(p) = {c1, c2, c3, c4, c5, c6, c7, c8, c9}
  <2>1. \A k \in 1 .. 9 : k = 1 \/ k = 2 \/ k = 3 \/ k = 4 \/ k = 5 \/ k = 6 \/ k = 7
                          \/ k = 8 \/ k = 9
    OBVIOUS
  <2>2. \A k \in 1 .. 9 : p[k] \in {c1, c2, c3, c4, c5, c6, c7, c8, c9}
    BY <1>1, <2>1
  <2>3. \A c \in {c1, c2, c3, c4, c5, c6, c7, c8, c9} : \E k \in 1 .. 9 : c = p[k]
    BY <1>1
  <2> QED BY <1>1, <2>2, <2>3 DEF Calls
<1>14. Supplied(image, made(9), p[9])
  <2>1. \A x : Carries(image, Once("layout_copied"), x) <=> x \in HostTables
    BY EventsDiffer DEF Carries
  <2>2. c5 \in made(9) /\ c6 \in made(9) /\ c7 \in made(9) /\ c8 \in made(9)
    BY <1>1, <1>6
  <2>3. \A x \in HostTables : Ran(made(9), "stream", x)
    BY <1>5, <2>2 DEF Ran, HostTables
  <2>4. ASSUME NEW m \in made(9), m.kind = "wait" PROVE m.event # Once("layout_copied")
    <3>1. Once("layout_copied") # Once("input_ready")
          /\ Once("layout_copied") # Once("forked")
      BY EventsDiffer
    <3>2. m \in base \/ m \in Calls(p)
      <4>1. Before(p, 9) \subseteq Calls(p)
        BY <1>1 DEF Before, Calls
      <4> QED BY <4>1 DEF made
    <3>3. m \notin Calls(p)
      BY <1>4, <1>5, <1>13, <2>4
    <3> QED BY <2>4, <3>1, <3>2, <3>3
  <2> QED BY <1>1, <1>4, <2>1, <2>3, <2>4 DEF Supplied
<1>15. Ordered(image, base, p)
  <2>1. \A k \in 1 .. 9 : k = 1 \/ k = 2 \/ k = 3 \/ k = 4 \/ k = 5 \/ k = 6 \/ k = 7
                          \/ k = 8 \/ k = 9
    OBVIOUS
  <2>2. \A k \in 1 .. 9 : Supplied(image, made(k), p[k])
    BY <1>9, <1>10, <1>11, <1>12, <1>14, <2>1
  <2> QED BY <1>1, <2>2 DEF Ordered, made
<1>16. \A x \in {dev("coeff_orders"), dev("clustering"), dev("histogram"), dev("layout")} :
         Ran(Calls(p), "stream", x)
  BY <1>5, <1>13 DEF Ran
<1>17. \A m \in Calls(p) : m.kind \in {"run", "record"}
  BY <1>4, <1>5, <1>13
<1>18. Record("stream", Once("layout_copied")) \in Calls(p)
  BY <1>13 DEF c9
<1>19. p \in Seq(OfSubmit)
  BY <1>2, <1>3
<1> QED BY <1>15, <1>16, <1>17, <1>18, <1>19

(* The calls of sequences of one and two. *)
LEMMA FewCalls ==
  ASSUME NEW p
  PROVE  /\ Before(p, 1) = {} /\ Before(p, 2) = {p[1]}
         /\ Len(p) = 1 => Calls(p) = {p[1]}
         /\ Len(p) = 2 => Calls(p) = {p[1], p[2]}
<1>1. 1 .. 1 - 1 = {} /\ 1 .. 2 - 1 = {1} /\ 1 .. 1 = {1} /\ 1 .. 2 = {1, 2}
  OBVIOUS
<1>2. Before(p, 1) = {}
  BY <1>1 DEF Before
<1>3. Before(p, 2) = {p[1]}
  BY <1>1 DEF Before
<1>4. ASSUME Len(p) = 1 PROVE Calls(p) = {p[1]}
  BY <1>1, <1>4 DEF Calls
<1>5. ASSUME Len(p) = 2 PROVE Calls(p) = {p[1], p[2]}
  BY <1>1, <1>5 DEF Calls
<1> QED BY <1>2, <1>3, <1>4, <1>5

(* What the packing of a batch reads. *)
PackReads == {dev("frontend"), dev("residual"), dev("coeff_orders"),
              dev("clustering"), dev("histogram"), dev("layout")}

(* Packing a batch finds its inputs, and ends with the record of the *)
(* batch's event.                                                    *)
LEMMA PackOrdered ==
  ASSUME NEW image \in Image, NEW base, NEW b \in Batch,
         \A m \in base : m.kind = "wait" =>
           m.event \in {Once("input_ready"), Once("forked")},
         \A x \in PackReads : Ran(base, "stream", x)
  PROVE  /\ PackCalls(image, b) \in Seq(OfSubmit)
         /\ Len(PackCalls(image, b)) > 0
         /\ PackCalls(image, b)[Len(PackCalls(image, b))] = Record("stream", packed(b))
         /\ \A m \in Calls(PackCalls(image, b)) : m.kind \in {"run", "record"}
         /\ Ordered(image, base, PackCalls(image, b))
<1> DEFINE w == {devBatch("entries", b), devBatch("raw", b)}
           c == Run("stream", PackReads, w)
           d == Record("stream", packed(b))
           p == PackCalls(image, b)
<1>1. p = IF HasGroups(image, b) THEN <<c, d>> ELSE <<d>>
  <2>1. \A x, y : <<x>> \o <<y>> = <<x, y>> /\ <<>> \o <<y>> = <<y>>
    <3> SUFFICES ASSUME NEW x, NEW y
                 PROVE  <<x>> \o <<y>> = <<x, y>> /\ <<>> \o <<y>> = <<y>>
      OBVIOUS
    <3> DEFINE S == {x, y}
               xy == <<x>> \o <<y>>
    <3>1. <<x, y>> \in Seq(S) /\ <<>> \in Seq(S) /\ <<x>> \in Seq(S) /\ <<y>> \in Seq(S)
      OBVIOUS
    <3>2. <<>> \o <<y>> = <<y>>
      BY <3>1, ConcatEmptySeq
    <3>3. xy \in Seq(S) /\ Len(xy) = 2 /\ xy[1] = x /\ xy[2] = y
      BY <3>1, ConcatProperties
    <3>4. xy = <<x, y>>
      <4> HIDE DEF xy
      <4> QED BY <3>1, <3>3, SeqEqual
    <3> QED BY <3>2, <3>4
  <2>2. p = (IF HasGroups(image, b) THEN <<c>> ELSE <<>>) \o <<d>>
    BY DEF PackCalls, PackReads
  <2> HIDE DEF c, d, p
  <2> QED BY <2>1, <2>2
<1>2. c \in OfSubmit /\ d \in OfSubmit
  <2>1. PackReads \subseteq MayRead("stream")
    BY StreamsMay, ArenaHas DEF PackReads
  <2>2. w \subseteq MayWrite("stream")
    BY StreamsMay, ArenaHas
  <2> QED BY <2>1, <2>2, SubmitMakes
<1>3. /\ c.kind = "run" /\ c.stream = "stream" /\ c.reads = PackReads /\ c.writes = w
      /\ d.kind = "record" /\ d.stream = "stream" /\ d.event = packed(b)
  BY CallFields
<1> HIDE DEF c, d
<1>4. /\ HasGroups(image, b) => Len(p) = 2 /\ p[1] = c /\ p[2] = d
      /\ ~ HasGroups(image, b) => Len(p) = 1 /\ p[1] = d
      /\ p \in Seq({c, d})
  <2>1. CASE HasGroups(image, b)
    <3>1. p = <<c, d>>
      BY <1>1, <2>1
    <3> HIDE DEF p
    <3> QED BY <2>1, <3>1
  <2>2. CASE ~ HasGroups(image, b)
    <3>1. p = <<d>>
      BY <1>1, <2>2
    <3> HIDE DEF p
    <3> QED BY <2>2, <3>1
  <2> QED BY <2>1, <2>2
<1>5. p \in Seq(OfSubmit) /\ Len(p) > 0 /\ p[Len(p)] = d
  BY <1>2, <1>4
<1>6. \A x : Carries(image, packed(b), x) <=> HasGroups(image, b) /\ x \in w
  BY EventsDiffer DEF Carries
<1>7. \A more : (\A m \in more : m.kind # "wait")
                  => \A m \in base \cup more : m.kind = "wait" => m.event # packed(b)
  BY EventsDiffer
<1>8. CASE HasGroups(image, b)
  <2>1. Calls(p) = {c, d} /\ Before(p, 1) = {} /\ Before(p, 2) = {c}
    BY <1>4, <1>8, FewCalls
  <2>2. Supplied(image, base \cup Before(p, 1), p[1])
    <3>1. base \cup Before(p, 1) = base /\ p[1] = c
      BY <1>4, <1>8, <2>1
    <3> QED BY <1>3, <3>1, RunSupplied
  <2>3. \A x \in w : Ran(base \cup {c}, "stream", x)
    BY <1>3 DEF Ran
  <2>4. Supplied(image, base \cup Before(p, 2), p[2])
    <3>1. base \cup Before(p, 2) = base \cup {c} /\ p[2] = d
      BY <1>4, <1>8, <2>1
    <3>2. \A m \in base \cup {c} : m.kind = "wait" => m.event # packed(b)
      <4>1. \A m \in {c} : m.kind # "wait"
        BY <1>3
      <4>2. \A m \in base : m.kind = "wait" => m.event # packed(b)
        BY EventsDiffer
      <4> QED BY <4>1, <4>2
    <3> QED BY <1>3, <1>6, <2>3, <3>1, <3>2 DEF Supplied
  <2>5. Ordered(image, base, p)
    <3>1. \A k \in 1 .. 2 : k = 1 \/ k = 2
      OBVIOUS
    <3> QED BY <1>4, <1>8, <2>2, <2>4, <3>1 DEF Ordered
  <2> QED BY <1>3, <1>5, <2>1, <2>5 DEF d
<1>9. CASE ~ HasGroups(image, b)
  <2>1. Calls(p) = {d} /\ Before(p, 1) = {}
    BY <1>4, <1>9, FewCalls
  <2>2. Supplied(image, base \cup Before(p, 1), p[1])
    <3>1. base \cup Before(p, 1) = base /\ p[1] = d
      BY <1>4, <1>9, <2>1
    <3>2. \A m \in base : m.kind = "wait" => m.event # packed(b)
      BY EventsDiffer
    <3> QED BY <1>3, <1>6, <1>9, <3>1, <3>2 DEF Supplied
  <2>3. Ordered(image, base, p)
    <3>1. \A k \in 1 .. 1 : k = 1
      OBVIOUS
    <3> QED BY <1>4, <1>9, <2>2, <3>1 DEF Ordered
  <2> QED BY <1>3, <1>5, <2>1, <2>3 DEF d
<1> QED BY <1>8, <1>9

(* So does packing all batches, each event being recorded. *)
LEMMA PacksOrdered ==
  ASSUME NEW image \in Image, NEW base,
         \A m \in base : m.kind = "wait" =>
           m.event \in {Once("input_ready"), Once("forked")},
         \A x \in PackReads : Ran(base, "stream", x)
  PROVE  LET p == OverBatches(PackCalls, image)
         IN  /\ p \in Seq(OfSubmit) /\ Len(p) > 0
             /\ p[Len(p)] = Record("stream", packed(LastBatch))
             /\ \A m \in Calls(p) : m.kind \in {"run", "record"}
             /\ \A b \in Batch : Record("stream", packed(b)) \in Calls(p)
             /\ Ordered(image, base, p)
<1> DEFINE seqs == [i \in 1 .. AC_BATCHES |-> PackCalls(image, i - 1)]
           all == AllCalls(seqs, AC_BATCHES)
           p == FlattenSeq(seqs)
<1>1. OverBatches(PackCalls, image) = p
  BY DEF OverBatches
<1>2. ASSUME NEW i \in 1 .. AC_BATCHES
      PROVE  i - 1 \in Batch /\ seqs[i] = PackCalls(image, i - 1)
  BY BoundsAssumption DEF Batch
<1>3. ASSUME NEW i \in 1 .. AC_BATCHES
      PROVE  /\ seqs[i] \in Seq(OfSubmit) /\ Len(seqs[i]) > 0
             /\ seqs[i][Len(seqs[i])] = Record("stream", packed(i - 1))
             /\ \A m \in Calls(seqs[i]) : m.kind \in {"run", "record"}
  <2> HIDE DEF seqs
  <2> QED BY <1>2, PackOrdered
<1>4. \A m \in all : m.kind \in {"run", "record"}
  <2> HIDE DEF seqs
  <2> QED BY <1>3 DEF AllCalls
<1>5. ASSUME NEW i \in 1 .. AC_BATCHES, NEW more \in SUBSET all
      PROVE  Ordered(image, base \cup more, seqs[i])
  <2> HIDE DEF seqs
  <2>1. \A m \in base \cup more : m.kind = "wait" =>
          m.event \in {Once("input_ready"), Once("forked")}
    BY <1>4
  <2>2. \A x \in PackReads : Ran(base \cup more, "stream", x)
    BY SourceGrows
  <2>3. Ordered(image, base \cup more, PackCalls(image, i - 1))
    <3> HIDE DEF all
    <3> QED BY <1>2, <2>1, <2>2, PackOrdered
  <2> QED BY <1>2, <2>3
<1>6. seqs \in [1 .. AC_BATCHES -> Seq(OfSubmit)]
  BY <1>3
<1>7. AC_BATCHES \in Nat \ {0}
  BY BoundsAssumption
<1>8. /\ p \in Seq(OfSubmit) /\ Len(p) > 0
      /\ p[Len(p)] = seqs[AC_BATCHES][Len(seqs[AC_BATCHES])]
      /\ Calls(p) = all
      /\ Ordered(image, base, p)
  <2> HIDE DEF seqs
  <2>1. Chained(image, base, seqs, AC_BATCHES)
    BY <1>3, <1>5 DEF Chained
  <2> QED BY <1>6, <1>7, <2>1, FlattenOrdered
<1>9. p[Len(p)] = Record("stream", packed(LastBatch))
  <2>1. AC_BATCHES \in 1 .. AC_BATCHES
    BY <1>7
  <2> HIDE DEF seqs
  <2> QED BY <1>3, <1>8, <2>1 DEF LastBatch
<1>10. ASSUME NEW b \in Batch PROVE Record("stream", packed(b)) \in all
  <2>1. PICK i \in 1 .. AC_BATCHES : i - 1 = b
    <3>1. b + 1 \in 1 .. AC_BATCHES /\ (b + 1) - 1 = b
      BY <1>7 DEF Batch
    <3> QED BY <3>1
  <2> HIDE DEF seqs
  <2>2. seqs[i][Len(seqs[i])] = Record("stream", packed(b))
        /\ seqs[i] \in Seq(OfSubmit) /\ Len(seqs[i]) > 0
    BY <1>3, <2>1
  <2>3. Len(seqs[i]) \in 1 .. Len(seqs[i])
    BY <2>2
  <2>4. Record("stream", packed(b)) \in Calls(seqs[i])
    BY <2>2, <2>3, EarlierCalls
  <2> QED BY <2>1, <2>4 DEF AllCalls
<1> HIDE DEF p, all
<1> QED BY <1>1, <1>4, <1>8, <1>9, <1>10

(* submit waits for the slot's streams, reserves memory, and from its tenth *)
(* call on neither waits nor reserves.                                      *)
Starts(p) ==
  /\ p \in Seq(OfSubmit) /\ Len(p) >= 9
  /\ p[1] = Sync("stream") /\ p[2] = Sync("dc_stream") /\ p[3] = Sync("copy_stream")
  /\ \A k \in 4 .. 9 : p[k].kind = "reserve"
  /\ \A k \in 10 .. Len(p) : p[k].kind \in {"run", "record", "wait", "texture"}

(* A longer sequence starts as the shorter one does. *)
LEMMA StartsLonger ==
  ASSUME NEW p, Starts(p), NEW q \in Seq(OfSubmit),
         \A m \in Calls(q) : m.kind \in {"run", "record", "wait", "texture"}
  PROVE  Starts(p \o q)
<1> DEFINE r == p \o q
<1>1. /\ r \in Seq(OfSubmit) /\ Len(r) = Len(p) + Len(q)
      /\ \A k \in 1 .. Len(p) : r[k] = p[k]
      /\ \A k \in 1 .. Len(q) : r[Len(p) + k] = q[k]
  BY ConcatCalls DEF Starts
<1>2. Len(p) \in Nat /\ Len(q) \in Nat /\ Len(p) >= 9
  BY DEF Starts
<1> HIDE DEF r
<1>3. ASSUME NEW k \in 10 .. Len(r)
      PROVE  r[k].kind \in {"run", "record", "wait", "texture"}
  <2>1. k \in Nat /\ 10 <= k /\ k <= Len(p) + Len(q)
    BY <1>1, <1>2
  <2>2. CASE k <= Len(p)
    <3>1. k \in 1 .. Len(p) /\ k \in 10 .. Len(p)
      BY <1>2, <2>1, <2>2
    <3> QED BY <1>1, <3>1 DEF Starts
  <2>3. CASE k > Len(p)
    <3>1. k - Len(p) \in 1 .. Len(q) /\ Len(p) + (k - Len(p)) = k
      BY <1>2, <2>1, <2>3
    <3>2. r[k] = q[k - Len(p)]
      BY <1>1, <3>1
    <3> QED BY <3>1, <3>2 DEF Calls
  <2> QED BY <1>2, <2>1, <2>2, <2>3
<1>4. \A k \in 1 .. 9 : k \in 1 .. Len(p)
  BY <1>2
<1>0. \A k \in 1 .. 9 : r[k] = p[k]
  BY <1>1, <1>4
<1>5. r[1] = p[1] /\ r[2] = p[2] /\ r[3] = p[3]
  BY <1>0
<1>6. \A k \in 4 .. 9 : r[k] = p[k]
  BY <1>0
<1>7. Len(r) >= 9
  BY <1>1, <1>2
<1> QED BY <1>1, <1>3, <1>5, <1>6, <1>7 DEF Starts, r

(* The calls of submit. *)
LEMMA SubmitProgram ==
  ASSUME NEW image \in Image
  PROVE  LET p == SubmitCalls[image]
         IN  /\ Starts(p) /\ Len(p) >= 10
             /\ p[Len(p)] = Record("stream", packed(LastBatch))
             /\ Record("stream", Once("layout_copied")) \in Calls(p)
             /\ Record("dc_stream", Once("dc_sizes_copied")) \in Calls(p)
             /\ \A b \in Batch : Record("stream", packed(b)) \in Calls(p)
             /\ Ran(Calls(p), "dc_stream", dev("dc_groups"))
             /\ Ordered(image, {}, p)
<1> DEFINE p1 == ReuseCalls \o ReserveCalls(image)
           p2 == p1 \o InputCalls(image)
           p3 == p2 \o FrontendCalls(image)
           p4 == p3 \o DcCalls
           p5 == p4 \o AcCalls
           packs == OverBatches(PackCalls, image)
<1>0. SubmitCalls[image] = p5 \o packs
  BY DEF SubmitCalls
<1>1. /\ Starts(p1) /\ Ordered(image, {}, p1)
      /\ \A m \in Calls(p1) : m.kind # "wait"
  <2>1. /\ ReuseCalls \in Seq(OfSubmit) /\ Len(ReuseCalls) = 3
        /\ ReuseCalls[1] = Sync("stream") /\ ReuseCalls[2] = Sync("dc_stream")
        /\ ReuseCalls[3] = Sync("copy_stream")
        /\ Ordered(image, {}, ReuseCalls)
    BY ReuseOrdered
  <2>2. /\ ReserveCalls(image) \in Seq(OfSubmit) /\ Len(ReserveCalls(image)) = 6
        /\ \A k \in 1 .. 6 : ReserveCalls(image)[k].kind = "reserve"
        /\ Ordered(image, {} \cup Calls(ReuseCalls), ReserveCalls(image))
    BY ReserveOrdered
  <2>3. Ordered(image, {}, p1)
    BY <2>1, <2>2, ConcatOrdered
  <2>4. /\ p1 \in Seq(OfSubmit) /\ Len(p1) = 9
        /\ \A k \in 1 .. 3 : p1[k] = ReuseCalls[k]
        /\ \A k \in 1 .. 6 : p1[3 + k] = ReserveCalls(image)[k]
        /\ Calls(p1) = Calls(ReuseCalls) \cup Calls(ReserveCalls(image))
    <3>0. ReuseCalls \in Seq(OfSubmit) /\ ReserveCalls(image) \in Seq(OfSubmit)
      BY <2>1, <2>2
    <3>1. p1 \in Seq(OfSubmit) /\ Len(p1) = Len(ReuseCalls) + Len(ReserveCalls(image))
      BY <3>0, ConcatProperties
    <3>2. Calls(p1) = Calls(ReuseCalls) \cup Calls(ReserveCalls(image))
      BY <3>0, ConcatCalls
    <3>3. \A k \in 1 .. Len(ReuseCalls) : p1[k] = ReuseCalls[k]
      BY <3>0, ConcatProperties
    <3>4. \A k \in 1 .. Len(ReserveCalls(image)) :
            p1[Len(ReuseCalls) + k] = ReserveCalls(image)[k]
      BY <3>0, ConcatProperties
    <3> HIDE DEF p1
    <3> QED BY <2>1, <2>2, <3>1, <3>2, <3>3, <3>4
  <2> HIDE DEF p1
  <2>5. ASSUME NEW k \in 4 .. 9 PROVE p1[k].kind = "reserve"
    <3>1. k - 3 \in 1 .. 6 /\ 3 + (k - 3) = k
      OBVIOUS
    <3> QED BY <2>2, <2>4, <3>1
  <2>6. Starts(p1)
    BY <2>1, <2>4, <2>5 DEF Starts
  <2>7. \A k \in 1 .. 3 : ReuseCalls[k].kind = "sync"
    <3>1. \A k \in 1 .. 3 : k = 1 \/ k = 2 \/ k = 3
      OBVIOUS
    <3> QED BY <2>1, <3>1, CallFields
  <2>8. \A m \in Calls(p1) : m.kind \in {"sync", "reserve"}
    BY <2>1, <2>2, <2>4, <2>7 DEF Calls
  <2> QED BY <2>3, <2>6, <2>8
<1> DEFINE more == {"run", "record", "wait", "texture"}
<1>2. /\ Starts(p2) /\ Ordered(image, {}, p2)
      /\ \A m \in Calls(p2) : m.kind = "wait" => m.event = Once("input_ready")
      /\ Source(image, Calls(p2), "stream", planes)
      /\ ~ image.aligned => Source(image, Calls(p2), "stream", dev("aligned_chroma"))
  <2> DEFINE q == InputCalls(image)
  <2>1. /\ q \in Seq(OfSubmit) /\ Ordered(image, Calls(p1), q)
        /\ \A m \in Calls(q) : /\ m.kind \in {"run", "record", "wait"}
                               /\ m.kind = "wait" => m.event = Once("input_ready")
        /\ Waited(image, Calls(q), "stream", planes)
        /\ ~ image.aligned => Ran(Calls(q), "stream", dev("aligned_chroma"))
    <3> HIDE DEF p1
    <3> QED BY <1>1, InputOrdered
  <2> HIDE DEF p1, q
  <2>2. p1 \in Seq(OfSubmit) /\ {} \cup Calls(p1) = Calls(p1) /\ p2 = p1 \o q
    BY <1>1 DEF Starts, q
  <2>3. Calls(p2) = Calls(p1) \cup Calls(q)
    BY <2>1, <2>2, ConcatCalls
  <2>4. Ordered(image, {}, p2)
    BY <1>1, <2>1, <2>2, ConcatOrdered
  <2>5. Starts(p2)
    BY <1>1, <2>1, <2>2, StartsLonger
  <2>6. /\ Waited(image, Calls(p2), "stream", planes)
        /\ ~ image.aligned => Ran(Calls(p2), "stream", dev("aligned_chroma"))
    BY <2>1, <2>3, SourceGrows
  <2> QED BY <1>1, <2>1, <2>3, <2>4, <2>5, <2>6 DEF Source
<1>3. /\ Starts(p3) /\ Ordered(image, {}, p3)
      /\ \A m \in Calls(p3) : m.kind = "wait" => m.event = Once("input_ready")
      /\ \A x \in {dev("frontend"), dev("residual")} : Ran(Calls(p3), "stream", x)
  <2> DEFINE q == FrontendCalls(image)
  <2>1. /\ q \in Seq(OfSubmit) /\ Ordered(image, Calls(p2), q)
        /\ \A m \in Calls(q) : m.kind \in {"texture", "run"}
        /\ \A x \in {dev("frontend"), dev("residual")} : Ran(Calls(q), "stream", x)
    <3> HIDE DEF p2
    <3> QED BY <1>2, FrontendOrdered
  <2> HIDE DEF p2, q
  <2>2. p2 \in Seq(OfSubmit) /\ {} \cup Calls(p2) = Calls(p2) /\ p3 = p2 \o q
    BY <1>2 DEF Starts, q
  <2>3. Calls(p3) = Calls(p2) \cup Calls(q)
    BY <2>1, <2>2, ConcatCalls
  <2>4. Ordered(image, {}, p3)
    BY <1>2, <2>1, <2>2, ConcatOrdered
  <2>5. Starts(p3)
    BY <1>2, <2>1, <2>2, StartsLonger
  <2>6. \A x \in {dev("frontend"), dev("residual")} : Ran(Calls(p3), "stream", x)
    BY <2>1, <2>3, SourceGrows
  <2> QED BY <1>2, <2>1, <2>3, <2>4, <2>5, <2>6
<1>4. /\ Starts(p4) /\ Ordered(image, {}, p4)
      /\ \A m \in Calls(p4) : m.kind = "wait" =>
           m.event \in {Once("input_ready"), Once("forked")}
      /\ \A x \in {dev("frontend"), dev("residual")} : Ran(Calls(p4), "stream", x)
      /\ Ran(Calls(p4), "dc_stream", dev("dc_groups"))
      /\ Record("dc_stream", Once("dc_sizes_copied")) \in Calls(p4)
  <2> DEFINE q == DcCalls
  <2>1. /\ q \in Seq(OfSubmit) /\ Ordered(image, Calls(p3), q)
        /\ \A m \in Calls(q) : /\ m.kind \in {"run", "record", "wait"}
                               /\ m.kind = "wait" => m.event = Once("forked")
        /\ Ran(Calls(q), "dc_stream", dev("dc_groups"))
        /\ Record("dc_stream", Once("dc_sizes_copied")) \in Calls(q)
    <3> HIDE DEF p3
    <3> QED BY <1>3, DcOrdered
  <2> HIDE DEF p3, q
  <2>2. p3 \in Seq(OfSubmit) /\ {} \cup Calls(p3) = Calls(p3) /\ p4 = p3 \o q
    BY <1>3 DEF Starts, q
  <2>3. Calls(p4) = Calls(p3) \cup Calls(q)
    BY <2>1, <2>2, ConcatCalls
  <2>4. Ordered(image, {}, p4)
    BY <1>3, <2>1, <2>2, ConcatOrdered
  <2>5. Starts(p4)
    BY <1>3, <2>1, <2>2, StartsLonger
  <2>6. /\ \A x \in {dev("frontend"), dev("residual")} : Ran(Calls(p4), "stream", x)
        /\ Ran(Calls(p4), "dc_stream", dev("dc_groups"))
    BY <1>3, <2>1, <2>3, SourceGrows
  <2> QED BY <1>3, <2>1, <2>3, <2>4, <2>5, <2>6
<1>5. /\ Starts(p5) /\ Ordered(image, {}, p5)
      /\ \A m \in Calls(p5) : m.kind = "wait" =>
           m.event \in {Once("input_ready"), Once("forked")}
      /\ \A x \in PackReads : Ran(Calls(p5), "stream", x)
      /\ Ran(Calls(p5), "dc_stream", dev("dc_groups"))
      /\ Record("dc_stream", Once("dc_sizes_copied")) \in Calls(p5)
      /\ Record("stream", Once("layout_copied")) \in Calls(p5)
  <2> DEFINE q == AcCalls
  <2>1. /\ q \in Seq(OfSubmit) /\ Ordered(image, Calls(p4), q)
        /\ \A m \in Calls(q) : m.kind \in {"run", "record"}
        /\ \A x \in {dev("coeff_orders"), dev("clustering"), dev("histogram"),
                     dev("layout")} : Ran(Calls(q), "stream", x)
        /\ Record("stream", Once("layout_copied")) \in Calls(q)
    <3> HIDE DEF p4
    <3> QED BY <1>4, AcOrdered
  <2> HIDE DEF p4, q
  <2>2. p4 \in Seq(OfSubmit) /\ {} \cup Calls(p4) = Calls(p4) /\ p5 = p4 \o q
    BY <1>4 DEF Starts, q
  <2>3. Calls(p5) = Calls(p4) \cup Calls(q)
    BY <2>1, <2>2, ConcatCalls
  <2>4. Ordered(image, {}, p5)
    BY <1>4, <2>1, <2>2, ConcatOrdered
  <2>5. Starts(p5)
    BY <1>4, <2>1, <2>2, StartsLonger
  <2>6. /\ \A x \in PackReads : Ran(Calls(p5), "stream", x)
        /\ Ran(Calls(p5), "dc_stream", dev("dc_groups"))
    BY <1>4, <2>1, <2>3, SourceGrows DEF PackReads
  <2> QED BY <1>4, <2>1, <2>3, <2>4, <2>5, <2>6
<1>6. LET p == p5 \o packs
      IN  /\ Starts(p) /\ Len(p) >= 10
          /\ p[Len(p)] = Record("stream", packed(LastBatch))
          /\ Record("stream", Once("layout_copied")) \in Calls(p)
          /\ Record("dc_stream", Once("dc_sizes_copied")) \in Calls(p)
          /\ \A b \in Batch : Record("stream", packed(b)) \in Calls(p)
          /\ Ran(Calls(p), "dc_stream", dev("dc_groups"))
          /\ Ordered(image, {}, p)
  <2> DEFINE p == p5 \o packs
  <2>1. /\ packs \in Seq(OfSubmit) /\ Len(packs) > 0
        /\ packs[Len(packs)] = Record("stream", packed(LastBatch))
        /\ \A m \in Calls(packs) : m.kind \in {"run", "record"}
        /\ \A b \in Batch : Record("stream", packed(b)) \in Calls(packs)
        /\ Ordered(image, Calls(p5), packs)
    <3> HIDE DEF p5
    <3> QED BY <1>5, PacksOrdered
  <2> HIDE DEF p5, packs
  <2>2. p5 \in Seq(OfSubmit) /\ {} \cup Calls(p5) = Calls(p5) /\ Len(p5) >= 9
    BY <1>5 DEF Starts
  <2>3. /\ Calls(p) = Calls(p5) \cup Calls(packs) /\ Len(p) = Len(p5) + Len(packs)
        /\ \A k \in 1 .. Len(packs) : p[Len(p5) + k] = packs[k]
    BY <2>1, <2>2, ConcatCalls
  <2>4. Ordered(image, {}, p)
    BY <1>5, <2>1, <2>2, ConcatOrdered
  <2>5. Starts(p)
    BY <1>5, <2>1, <2>2, StartsLonger
  <2>6. Ran(Calls(p), "dc_stream", dev("dc_groups"))
    BY <1>5, <2>3, SourceGrows
  <2>7. Len(p) >= 10 /\ p[Len(p)] = packs[Len(packs)]
    <3>1. Len(packs) \in 1 .. Len(packs) /\ Len(p5) \in Nat /\ Len(packs) \in Nat
      BY <2>1, <2>2
    <3> QED BY <2>1, <2>2, <2>3, <3>1
  <2> QED BY <1>5, <2>1, <2>3, <2>4, <2>5, <2>6, <2>7
<1> QED BY <1>0, <1>6

(* What each call of submit reads, writes, records and awaits. *)
LEMMA SubmitCallIs ==
  ASSUME NEW m \in OfSubmit
  PROVE  /\ m.kind = "run" =>
              /\ m.stream \in {"stream", "dc_stream"} /\ m.event = NO_EVENT
              /\ m.reads \subseteq MayRead(m.stream)
              /\ m.writes \subseteq MayWrite(m.stream) \ {host("dc_body")}
         /\ m.kind = "record" =>
              /\ m.reads = {} /\ m.writes = {}
              /\ \/ m.stream = "input_stream" /\ m.event = Once("input_ready")
                 \/ m.stream \in {"stream", "dc_stream"}
                      /\ m.event \in SubmitRecords \ {Once("input_ready")}
         /\ m.kind = "wait" =>
              /\ m.reads = {} /\ m.writes = {}
              /\ m \in {Wait("stream", Once("input_ready")), Wait("dc_stream", Once("forked"))}
         /\ m.kind = "reserve" =>
              /\ m.memory \in {"arena"} \cup (HostOnce \ {"dc_body"}) /\ m.size \in Nat
<1>1. CASE m \in {Sync(s) : s \in SlotStream} \cup {[kind |-> "texture"]}
  BY <1>1, CallFields
<1>2. CASE \E a \in {"arena"} \cup (HostOnce \ {"dc_body"}), n \in Nat : m = Reserve(a, n)
  BY <1>2, CallFields
<1>3. CASE m \in RunsOf("stream", {})
  <2>1. PICK r \in SUBSET MayRead("stream"), w \in SUBSET MayWrite("stream") :
          m = Run("stream", r, w)
    BY <1>3 DEF RunsOf
  <2>2. /\ m.kind = "run" /\ m.stream = "stream" /\ m.event = NO_EVENT
        /\ m.reads = r /\ m.writes = w
    BY <2>1, CallFields
  <2>3. host("dc_body") \notin MayWrite("stream")
    BY StreamsMay, BuffersDiffer DEF HostTables
  <2> QED BY <2>2, <2>3
<1>4. CASE m \in RunsOf("dc_stream", {host("dc_body")})
  <2>1. PICK r \in SUBSET MayRead("dc_stream"),
             w \in SUBSET (MayWrite("dc_stream") \ {host("dc_body")}) :
          m = Run("dc_stream", r, w)
    BY <1>4 DEF RunsOf
  <2>2. /\ m.kind = "run" /\ m.stream = "dc_stream" /\ m.event = NO_EVENT
        /\ m.reads = r /\ m.writes = w
    BY <2>1, CallFields
  <2> QED BY <2>2
<1>5. CASE m = Record("input_stream", Once("input_ready"))
  BY <1>5, CallFields
<1>6. CASE \E s \in {"stream", "dc_stream"}, e \in SubmitRecords \ {Once("input_ready")} :
             m = Record(s, e)
  BY <1>6, CallFields
<1>7. CASE m \in {Wait("stream", Once("input_ready")), Wait("dc_stream", Once("forked"))}
  BY <1>7, CallFields
<1>8. \/ m \in {Sync(s) : s \in SlotStream} \cup {[kind |-> "texture"]}
      \/ \E a \in {"arena"} \cup (HostOnce \ {"dc_body"}), n \in Nat : m = Reserve(a, n)
      \/ m \in RunsOf("stream", {})
      \/ m \in RunsOf("dc_stream", {host("dc_body")})
      \/ m = Record("input_stream", Once("input_ready"))
      \/ \E s \in {"stream", "dc_stream"}, e \in SubmitRecords \ {Once("input_ready")} :
           m = Record(s, e)
      \/ m \in {Wait("stream", Once("input_ready")), Wait("dc_stream", Once("forked"))}
  BY DEF OfSubmit
<1> QED BY <1>1, <1>2, <1>3, <1>4, <1>5, <1>6, <1>7, <1>8

(* submit's streams wait for the input and the fork only. *)
LEMMA SubmitWaits ==
  ASSUME NEW image \in Image, NEW m \in Calls(SubmitCalls[image]), m.kind = "wait"
  PROVE  m.event \in {Once("input_ready"), Once("forked")}
<1>1. m \in OfSubmit
  <2>1. SubmitCalls[image] \in Seq(OfSubmit)
    BY SubmitProgram DEF Starts
  <2> QED BY <2>1 DEF Calls
<1>2. m \in {Wait("stream", Once("input_ready")), Wait("dc_stream", Once("forked"))}
  BY <1>1, SubmitCallIs
<1> QED BY <1>2, CallFields
---------------------------------------------------------------------------
(* start_copies, and the copy of the coded DcGroups.                        *)

(* Three calls and one more are four. *)
LEMMA ThreeAndOne ==
  ASSUME NEW S, NEW q \in Seq(S), NEW t \in Seq(S), Len(q) = 3, Len(t) = 1
  PROVE  /\ q \o t \in Seq(S) /\ Len(q \o t) = 4
         /\ (q \o t)[1] = q[1] /\ (q \o t)[2] = q[2]
         /\ (q \o t)[3] = q[3] /\ (q \o t)[4] = t[1]
<1> DEFINE r == q \o t
<1>1. /\ r \in Seq(S) /\ Len(r) = Len(q) + Len(t)
      /\ \A i \in 1 .. Len(q) + Len(t) :
           r[i] = IF i <= Len(q) THEN q[i] ELSE t[i - Len(q)]
  BY ConcatProperties
<1> HIDE DEF r
<1>2. Len(r) = 4 /\ \A i \in 1 .. 4 : r[i] = IF i <= 3 THEN q[i] ELSE t[i - 3]
  BY <1>1
<1>3. r[1] = q[1] /\ r[2] = q[2] /\ r[3] = q[3] /\ r[4] = t[1]
  BY <1>2
<1> QED BY <1>1, <1>2, <1>3 DEF r

(* Copying a batch waits for its packing, and ends with the record of the *)
(* batch's copy.                                                          *)
LEMMA CopyOrdered ==
  ASSUME NEW image \in Image, NEW base, NEW b \in Batch,
         Record("stream", packed(b)) \in base,
         \A m \in base : m.kind = "wait" => m.event # copied(b)
  PROVE  /\ CopyCalls(image, b) \in Seq(OfStartCopies(image))
         /\ Len(CopyCalls(image, b)) > 0
         /\ CopyCalls(image, b)[Len(CopyCalls(image, b))]
              = Record("copy_stream", copied(b))
         /\ Wait("copy_stream", packed(b)) \in Calls(CopyCalls(image, b))
         /\ \A m \in Calls(CopyCalls(image, b)) :
              /\ m.kind \in {"run", "record", "wait"}
              /\ m.kind = "wait" => m.event = packed(b)
         /\ Ordered(image, base, CopyCalls(image, b))
<1> DEFINE c1 == Wait("copy_stream", packed(b))
           c2 == Run("copy_stream", {devBatch("entries", b)}, {hostBatch("entries", b)})
           c3 == Run("copy_stream", {devBatch("raw", b)}, {hostBatch("raw", b)})
           c4 == Record("copy_stream", copied(b))
           p  == CopyCalls(image, b)
           w  == {hostBatch("entries", b), hostBatch("raw", b)}
<1>1. p = IF HasGroups(image, b) THEN <<c1, c2, c3, c4>> ELSE <<c1, c4>>
  <2> DEFINE S == {c1, c2, c3, c4}
  <2>1. p = <<c1>> \o (IF HasGroups(image, b) THEN <<c2, c3>> ELSE <<>>) \o <<c4>>
    BY DEF CopyCalls, Copy
  <2> HIDE DEF c1, c2, c3, c4, p
  <2>2. <<c1>> \in Seq(S) /\ <<c2, c3>> \in Seq(S) /\ <<c4>> \in Seq(S) /\ <<>> \in Seq(S)
        /\ <<c1, c4>> \in Seq(S) /\ <<c1, c2, c3, c4>> \in Seq(S)
    OBVIOUS
  <2>3. CASE HasGroups(image, b)
    <3> DEFINE q == <<c1>> \o <<c2, c3>>
               r == q \o <<c4>>
    <3>1. q \in Seq(S) /\ Len(q) = 3 /\ q[1] = c1 /\ q[2] = c2 /\ q[3] = c3
      BY <2>2, ConcatProperties
    <3> HIDE DEF q
    <3>2. r \in Seq(S) /\ Len(r) = 4 /\ r[1] = c1 /\ r[2] = c2 /\ r[3] = c3 /\ r[4] = c4
      <4> DEFINE t == <<c4>>
      <4>1. t \in Seq(S) /\ Len(t) = 1 /\ t[1] = c4
        BY <2>2
      <4> HIDE DEF t
      <4>2. /\ q \o t \in Seq(S) /\ Len(q \o t) = 4
            /\ (q \o t)[1] = q[1] /\ (q \o t)[2] = q[2]
            /\ (q \o t)[3] = q[3] /\ (q \o t)[4] = t[1]
        BY <3>1, <4>1, ThreeAndOne
      <4> QED BY <3>1, <4>1, <4>2 DEF t
    <3> HIDE DEF r
    <3>3. r = <<c1, c2, c3, c4>>
      BY <2>2, <3>2, SeqEqual
    <3> QED BY <2>1, <2>3, <3>3 DEF r, q
  <2>4. CASE ~ HasGroups(image, b)
    <3> DEFINE r == <<c1>> \o <<c4>>
    <3>1. <<c1>> \o <<>> = <<c1>>
      BY <2>2, ConcatEmptySeq
    <3>2. r \in Seq(S) /\ Len(r) = 2 /\ r[1] = c1 /\ r[2] = c4
      BY <2>2, ConcatProperties
    <3> HIDE DEF r
    <3>3. r = <<c1, c4>>
      BY <2>2, <3>2, SeqEqual
    <3> QED BY <2>1, <2>4, <3>1, <3>3 DEF r
  <2> QED BY <2>3, <2>4
<1>2. {c1, c2, c3, c4} \subseteq OfStartCopies(image)
  <2>1. {devBatch("entries", b)} \in SUBSET MayRead("copy_stream")
        /\ {devBatch("raw", b)} \in SUBSET MayRead("copy_stream")
    BY StreamsMay, ArenaHas
  <2>2. {hostBatch("entries", b)} \in SUBSET (MayWrite("copy_stream") \ {})
        /\ {hostBatch("raw", b)} \in SUBSET (MayWrite("copy_stream") \ {})
    BY StreamsMay DEF HostTokens
  <2>3. c2 \in RunsOf("copy_stream", {}) /\ c3 \in RunsOf("copy_stream", {})
    BY <2>1, <2>2 DEF RunsOf
  <2> QED BY <2>3 DEF OfStartCopies
<1>3. /\ c1.kind = "wait" /\ c1.stream = "copy_stream" /\ c1.event = packed(b)
      /\ c2.kind = "run" /\ c2.stream = "copy_stream"
      /\ c2.reads = {devBatch("entries", b)} /\ c2.writes = {hostBatch("entries", b)}
      /\ c3.kind = "run" /\ c3.stream = "copy_stream"
      /\ c3.reads = {devBatch("raw", b)} /\ c3.writes = {hostBatch("raw", b)}
      /\ c4.kind = "record" /\ c4.stream = "copy_stream" /\ c4.event = copied(b)
  BY CallFields
<1>4. Record("stream", packed(b)).kind = "record"
      /\ Record("stream", packed(b)).event = packed(b)
  BY CallFields
<1> HIDE DEF c1, c2, c3, c4, p
<1>5. /\ HasGroups(image, b) =>
           Len(p) = 4 /\ p[1] = c1 /\ p[2] = c2 /\ p[3] = c3 /\ p[4] = c4
      /\ ~ HasGroups(image, b) => Len(p) = 2 /\ p[1] = c1 /\ p[2] = c4
      /\ p \in Seq({c1, c2, c3, c4})
  <2>1. CASE HasGroups(image, b)
    <3>1. p = <<c1, c2, c3, c4>>
      BY <1>1, <2>1
    <3> QED BY <2>1, <3>1
  <2>2. CASE ~ HasGroups(image, b)
    <3>1. p = <<c1, c4>>
      BY <1>1, <2>2
    <3> QED BY <2>2, <3>1
  <2> QED BY <2>1, <2>2
<1>6. p \in Seq(OfStartCopies(image)) /\ Len(p) > 0 /\ p[Len(p)] = c4
  BY <1>2, <1>5
<1>7. \A x : /\ Carries(image, copied(b), x) <=> HasGroups(image, b) /\ x \in w
             /\ HasGroups(image, b) /\ x \in {devBatch("entries", b), devBatch("raw", b)}
                  => Carries(image, packed(b), x)
  BY EventsDiffer DEF Carries
<1>8. packed(b) # copied(b)
  BY EventsDiffer
<1>9. Supplied(image, base \cup Before(p, 1), p[1])
  <2>1. p[1] = c1
    BY <1>5
  <2> QED BY <1>3, <1>4, <2>1 DEF Supplied
<1>10. CASE HasGroups(image, b)
  <2>1. /\ Calls(p) = {c1, c2, c3, c4} /\ Before(p, 2) = {c1} /\ Before(p, 3) = {c1, c2}
        /\ Before(p, 4) = {c1, c2, c3}
    <3>1. 1 .. 4 = {1, 2, 3, 4} /\ 1 .. 3 - 1 = {1, 2} /\ 1 .. 4 - 1 = {1, 2, 3}
      OBVIOUS
    <3>2. Calls(p) = {p[1], p[2], p[3], p[4]}
      BY <1>5, <1>10, <3>1 DEF Calls
    <3>3. Before(p, 3) = {p[1], p[2]} /\ Before(p, 4) = {p[1], p[2], p[3]}
      BY <3>1 DEF Before
    <3> QED BY <1>5, <1>10, <3>2, <3>3, FewCalls
  <2>2. Supplied(image, base \cup Before(p, 2), p[2])
    <3>1. Waited(image, base \cup {c1}, "copy_stream", devBatch("entries", b))
      BY <1>3, <1>7, <1>10 DEF Waited
    <3> QED BY <1>3, <1>5, <1>10, <2>1, <3>1 DEF Supplied, Source
  <2>3. Supplied(image, base \cup Before(p, 3), p[3])
    <3>1. Waited(image, base \cup {c1, c2}, "copy_stream", devBatch("raw", b))
      BY <1>3, <1>7, <1>10 DEF Waited
    <3> QED BY <1>3, <1>5, <1>10, <2>1, <3>1 DEF Supplied, Source
  <2>4. Supplied(image, base \cup Before(p, 4), p[4])
    <3> DEFINE made == base \cup {c1, c2, c3}
    <3>1. \A x \in w : Ran(made, "copy_stream", x)
      BY <1>3 DEF Ran
    <3>2. \A m \in made : m.kind = "wait" => m.event # copied(b)
      BY <1>3, <1>8
    <3>3. base \cup Before(p, 4) = made /\ p[4] = c4
      BY <1>5, <1>10, <2>1
    <3> HIDE DEF made
    <3>4. \A x \in Buffer : Carries(image, copied(b), x) => Ran(made, "copy_stream", x)
      BY <1>7, <3>1
    <3>5. Supplied(image, made, c4)
      BY <1>3, <3>2, <3>4 DEF Supplied
    <3> QED BY <3>3, <3>5
  <2>5. Ordered(image, base, p)
    <3>1. \A k \in 1 .. 4 : k = 1 \/ k = 2 \/ k = 3 \/ k = 4
      OBVIOUS
    <3> QED BY <1>5, <1>9, <1>10, <2>2, <2>3, <2>4, <3>1 DEF Ordered
  <2> QED BY <1>3, <1>6, <2>1, <2>5 DEF c1, c4, p
<1>11. CASE ~ HasGroups(image, b)
  <2>1. Calls(p) = {c1, c4} /\ Before(p, 2) = {c1}
    BY <1>5, <1>11, FewCalls
  <2>2. Supplied(image, base \cup Before(p, 2), p[2])
    <3>1. \A m \in base \cup {c1} : m.kind = "wait" => m.event # copied(b)
      BY <1>3, <1>8
    <3> QED BY <1>3, <1>5, <1>7, <1>11, <2>1, <3>1 DEF Supplied
  <2>3. Ordered(image, base, p)
    <3>1. \A k \in 1 .. 2 : k = 1 \/ k = 2
      OBVIOUS
    <3> QED BY <1>5, <1>9, <1>11, <2>2, <3>1 DEF Ordered
  <2> QED BY <1>3, <1>6, <2>1, <2>3 DEF c1, c4, p
<1> QED BY <1>10, <1>11

(* So does copying all batches, in their order. *)
LEMMA CopiesOrdered ==
  ASSUME NEW image \in Image, NEW base,
         \A b \in Batch : Record("stream", packed(b)) \in base,
         \A m \in base : m.kind = "wait" => \A b : m.event # copied(b)
  PROVE  LET p == OverBatches(CopyCalls, image)
         IN  /\ p \in Seq(OfStartCopies(image)) /\ Len(p) > 0
             /\ p[Len(p)] = Record("copy_stream", copied(LastBatch))
             /\ \A m \in Calls(p) : m.kind \in {"run", "record", "wait"}
             /\ \A b \in Batch : /\ Record("copy_stream", copied(b)) \in Calls(p)
                                 /\ Wait("copy_stream", packed(b)) \in Calls(p)
             /\ Ordered(image, base, p)
<1> DEFINE seqs == [i \in 1 .. AC_BATCHES |-> CopyCalls(image, i - 1)]
           all == AllCalls(seqs, AC_BATCHES)
           p == FlattenSeq(seqs)
<1>1. OverBatches(CopyCalls, image) = p
  BY DEF OverBatches
<1>2. ASSUME NEW i \in 1 .. AC_BATCHES
      PROVE  i - 1 \in Batch /\ seqs[i] = CopyCalls(image, i - 1)
  BY BoundsAssumption DEF Batch
<1>3. ASSUME NEW i \in 1 .. AC_BATCHES, NEW more,
             \A m \in more : m.kind = "wait" => \A b : m.event # copied(b)
      PROVE  /\ seqs[i] \in Seq(OfStartCopies(image)) /\ Len(seqs[i]) > 0
             /\ seqs[i][Len(seqs[i])] = Record("copy_stream", copied(i - 1))
             /\ Wait("copy_stream", packed(i - 1)) \in Calls(seqs[i])
             /\ \A m \in Calls(seqs[i]) : /\ m.kind \in {"run", "record", "wait"}
                                          /\ m.kind = "wait" => m.event = packed(i - 1)
             /\ Ordered(image, base \cup more, seqs[i])
  <2> HIDE DEF seqs
  <2> DEFINE b == i - 1
  <2>1. b \in Batch /\ seqs[i] = CopyCalls(image, b)
    BY <1>2
  <2> HIDE DEF b
  <2>2. Record("stream", packed(b)) \in base \cup more
    BY <2>1
  <2>3. \A m \in base \cup more : m.kind = "wait" => m.event # copied(b)
    BY <1>3
  <2> DEFINE q == CopyCalls(image, b)
  <2>4. /\ q \in Seq(OfStartCopies(image)) /\ Len(q) > 0
        /\ q[Len(q)] = Record("copy_stream", copied(b))
        /\ Wait("copy_stream", packed(b)) \in Calls(q)
        /\ \A m \in Calls(q) : /\ m.kind \in {"run", "record", "wait"}
                               /\ m.kind = "wait" => m.event = packed(b)
        /\ Ordered(image, base \cup more, q)
    BY <2>1, <2>2, <2>3, CopyOrdered
  <2> HIDE DEF q
  <2> QED BY <2>1, <2>4 DEF b, q
<1>4. \A i \in 1 .. AC_BATCHES :
        /\ seqs[i] \in Seq(OfStartCopies(image)) /\ Len(seqs[i]) > 0
        /\ seqs[i][Len(seqs[i])] = Record("copy_stream", copied(i - 1))
        /\ Wait("copy_stream", packed(i - 1)) \in Calls(seqs[i])
        /\ \A m \in Calls(seqs[i]) : /\ m.kind \in {"run", "record", "wait"}
                                     /\ m.kind = "wait" => m.event = packed(i - 1)
  <2>1. \A m \in {} : m.kind = "wait" => \A b : m.event # copied(b)
    OBVIOUS
  <2> HIDE DEF seqs
  <2> QED BY <1>3, <2>1
<1>5. \A m \in all : /\ m.kind \in {"run", "record", "wait"}
                     /\ m.kind = "wait" => \A b : m.event # copied(b)
  <2> HIDE DEF seqs
  <2> QED BY <1>4, EventsDiffer DEF AllCalls
<1>6. ASSUME NEW i \in 1 .. AC_BATCHES, NEW more \in SUBSET all
      PROVE  Ordered(image, base \cup more, seqs[i])
  <2> HIDE DEF seqs
  <2>1. \A m \in more : m.kind = "wait" => \A b : m.event # copied(b)
    BY <1>5
  <2> HIDE DEF all
  <2> QED BY <1>3, <2>1
<1>7. seqs \in [1 .. AC_BATCHES -> Seq(OfStartCopies(image))]
  BY <1>4
<1>8. AC_BATCHES \in Nat \ {0}
  BY BoundsAssumption
<1>9. /\ p \in Seq(OfStartCopies(image)) /\ Len(p) > 0
      /\ p[Len(p)] = seqs[AC_BATCHES][Len(seqs[AC_BATCHES])]
      /\ Calls(p) = all
      /\ Ordered(image, base, p)
  <2> DEFINE S == OfStartCopies(image)
  <2>1. seqs \in [1 .. AC_BATCHES -> Seq(S)]
    BY <1>7
  <2> HIDE DEF seqs, S
  <2>2. Chained(image, base, seqs, AC_BATCHES)
    BY <1>4, <1>6 DEF Chained
  <2>3. /\ p \in Seq(S) /\ Len(p) > 0
        /\ p[Len(p)] = seqs[AC_BATCHES][Len(seqs[AC_BATCHES])]
        /\ Calls(p) = all
        /\ Ordered(image, base, p)
    BY <1>8, <2>1, <2>2, FlattenOrdered
  <2> QED BY <2>3 DEF S
<1>10. p[Len(p)] = Record("copy_stream", copied(LastBatch))
  <2>1. AC_BATCHES \in 1 .. AC_BATCHES
    BY <1>8
  <2> HIDE DEF seqs
  <2> QED BY <1>4, <1>9, <2>1 DEF LastBatch
<1>11. ASSUME NEW b \in Batch
       PROVE  /\ Record("copy_stream", copied(b)) \in all
              /\ Wait("copy_stream", packed(b)) \in all
  <2>1. PICK i \in 1 .. AC_BATCHES : i - 1 = b
    <3>1. b + 1 \in 1 .. AC_BATCHES /\ (b + 1) - 1 = b
      BY <1>8 DEF Batch
    <3> QED BY <3>1
  <2> HIDE DEF seqs
  <2>2. /\ seqs[i][Len(seqs[i])] = Record("copy_stream", copied(b))
        /\ Wait("copy_stream", packed(b)) \in Calls(seqs[i])
        /\ seqs[i] \in Seq(OfStartCopies(image)) /\ Len(seqs[i]) > 0
    BY <1>4, <2>1
  <2>3. Len(seqs[i]) \in 1 .. Len(seqs[i])
    BY <2>2
  <2>4. Record("copy_stream", copied(b)) \in Calls(seqs[i])
    BY <2>2, <2>3, EarlierCalls
  <2> QED BY <2>1, <2>2, <2>4 DEF AllCalls
<1> HIDE DEF p, all
<1> QED BY <1>1, <1>5, <1>9, <1>10, <1>11

(* start_copies reserves memory twice, and not again. *)
LEMMA CopiesProgram ==
  ASSUME NEW image \in Image
  PROVE  LET p == StartCopiesCalls[image]
         IN  /\ p \in Seq(OfStartCopies(image)) /\ Len(p) >= 3
             /\ p[1] = Reserve("entries", image.tokens)
             /\ p[2] = Reserve("raw", image.tokens + 1)
             /\ \A k \in 3 .. Len(p) : p[k].kind \in {"run", "record", "wait"}
             /\ p[Len(p)] = Record("copy_stream", copied(LastBatch))
             /\ \A b \in Batch : /\ Record("copy_stream", copied(b)) \in Calls(p)
                                 /\ Wait("copy_stream", packed(b)) \in Calls(p)
             /\ Ordered(image, Calls(SubmitCalls[image]), p)
<1> DEFINE S == OfStartCopies(image)
           base == Calls(SubmitCalls[image])
           a == Reserve("entries", image.tokens)
           b == Reserve("raw", image.tokens + 1)
           p1 == <<a, b>>
           q == OverBatches(CopyCalls, image)
           p == p1 \o q
<1>1. StartCopiesCalls[image] = p
  BY DEF StartCopiesCalls
<1>2. /\ p1 \in Seq(S) /\ Len(p1) = 2 /\ p1[1] = a /\ p1[2] = b
      /\ a.kind = "reserve" /\ b.kind = "reserve"
  <2>1. a \in S /\ b \in S
    BY DEF OfStartCopies
  <2>2. a.kind = "reserve" /\ b.kind = "reserve"
    BY CallFields
  <2> HIDE DEF a, b, S
  <2> QED BY <2>1, <2>2
<1> HIDE DEF a, b, p1, S
<1>3. /\ \A m \in base : m.kind = "wait" => \A c : m.event # copied(c)
      /\ \A c \in Batch : Record("stream", packed(c)) \in base
  BY SubmitWaits, SubmitProgram, EventsDiffer
<1> HIDE DEF base
<1>4. Calls(p1) = {a, b}
  BY <1>2, FewCalls
<1>5. /\ q \in Seq(S) /\ Len(q) > 0
      /\ q[Len(q)] = Record("copy_stream", copied(LastBatch))
      /\ \A m \in Calls(q) : m.kind \in {"run", "record", "wait"}
      /\ \A c \in Batch : /\ Record("copy_stream", copied(c)) \in Calls(q)
                          /\ Wait("copy_stream", packed(c)) \in Calls(q)
      /\ Ordered(image, base \cup Calls(p1), q)
  <2>1. /\ \A m \in base \cup Calls(p1) : m.kind = "wait" => \A c : m.event # copied(c)
        /\ \A c \in Batch : Record("stream", packed(c)) \in base \cup Calls(p1)
    BY <1>2, <1>3, <1>4
  <2> QED BY <2>1, CopiesOrdered DEF S
<1> HIDE DEF q
<1>6. Ordered(image, base, p1)
  <2>1. \A k \in 1 .. 2 : k = 1 \/ k = 2
    OBVIOUS
  <2> QED BY <1>2, <2>1 DEF Ordered, Supplied
<1>7. Ordered(image, base, p)
  BY <1>2, <1>5, <1>6, ConcatOrdered
<1>8. Calls(p) = {a, b} \cup Calls(q)
  BY <1>2, <1>4, <1>5, ConcatCalls
<1>9. /\ p \in Seq(S) /\ Len(p) = 2 + Len(q)
      /\ \A k \in 1 .. 2 : p[k] = p1[k]
      /\ \A k \in 1 .. Len(q) : p[2 + k] = q[k]
  <2>0. p1 \in Seq(S) /\ q \in Seq(S)
    BY <1>2, <1>5
  <2>1. p \in Seq(S) /\ Len(p) = Len(p1) + Len(q)
    BY <2>0, ConcatProperties
  <2>2. \A k \in 1 .. Len(p1) : p[k] = p1[k]
    BY <2>0, ConcatProperties
  <2>3. \A k \in 1 .. Len(q) : p[Len(p1) + k] = q[k]
    BY <2>0, ConcatProperties
  <2> HIDE DEF p
  <2> QED BY <1>2, <2>1, <2>2, <2>3
<1>10. Len(q) \in Nat
  BY <1>5
<1> HIDE DEF p
<1>11. ASSUME NEW k \in 3 .. Len(p) PROVE p[k].kind \in {"run", "record", "wait"}
  <2>1. k - 2 \in 1 .. Len(q) /\ 2 + (k - 2) = k
    BY <1>9, <1>10
  <2>2. p[k] = q[k - 2]
    BY <1>9, <2>1
  <2>3. q[k - 2] \in Calls(q)
    BY <2>1, EarlierCalls
  <2> QED BY <1>5, <2>2, <2>3
<1>12. p[Len(p)] = q[Len(q)] /\ Len(p) >= 3
  BY <1>5, <1>9, <1>10
<1>13. p[1] = a /\ p[2] = b
  BY <1>2, <1>9
<1> QED BY <1>1, <1>5, <1>7, <1>8, <1>9, <1>11, <1>12, <1>13 DEF a, b, base, S

(* What each call of start_copies reads, writes, records and awaits. *)
LEMMA StartCopiesCallIs ==
  ASSUME NEW image \in Image, NEW m \in OfStartCopies(image)
  PROVE  /\ m.kind = "run" =>
              /\ m.stream = "copy_stream" /\ m.event = NO_EVENT
              /\ m.reads \subseteq MayRead("copy_stream") /\ m.writes \subseteq HostTokens
         /\ m.kind = "record" =>
              /\ m.reads = {} /\ m.writes = {} /\ m.stream = "copy_stream"
              /\ \E b \in Batch : m.event = copied(b)
         /\ m.kind = "wait" =>
              /\ m.reads = {} /\ m.writes = {} /\ m.stream = "copy_stream"
              /\ \E b \in Batch : m.event = packed(b)
<1>1. CASE m \in {Reserve("entries", image.tokens), Reserve("raw", image.tokens + 1)}
  BY <1>1, CallFields
<1>2. CASE m \in RunsOf("copy_stream", {})
  <2>1. PICK r \in SUBSET MayRead("copy_stream"), w \in SUBSET HostTokens :
          m = Run("copy_stream", r, w)
    BY <1>2, StreamsMay DEF RunsOf
  <2> QED BY <2>1, CallFields
<1>3. CASE \E b \in Batch : m = Wait("copy_stream", packed(b))
  BY <1>3, CallFields
<1>4. CASE \E b \in Batch : m = Record("copy_stream", copied(b))
  BY <1>4, CallFields
<1> QED BY <1>1, <1>2, <1>3, <1>4 DEF OfStartCopies

(* code_frame copies the DcGroups that submit has had coded. *)
FetchRun == Copy("dc_stream", dev("dc_groups"), host("dc_body"))

(* The copy of the coded DcGroups finds them, after submit's and *)
(* start_copies' calls.                                          *)
LEMMA FetchProgram ==
  ASSUME NEW image \in Image
  PROVE  LET p == FetchDcCalls[image]
             base == Calls(SubmitCalls[image]) \cup Calls(StartCopiesCalls[image])
         IN  /\ Len(p) = 3
             /\ p[1] = Reserve("dc_body", image.tokens)
             /\ p[2] = FetchRun
             /\ p[3] = Record("dc_stream", Once("dc_body_copied"))
             /\ Ordered(image, base, p)
<1> DEFINE p == FetchDcCalls[image]
           base == Calls(SubmitCalls[image]) \cup Calls(StartCopiesCalls[image])
           a == Reserve("dc_body", image.tokens)
           b == FetchRun
           c == Record("dc_stream", Once("dc_body_copied"))
<1>1. Len(p) = 3 /\ p[1] = a /\ p[2] = b /\ p[3] = c
  BY DEF FetchDcCalls, FetchRun
<1>2. /\ a.kind = "reserve"
      /\ b.kind = "run" /\ b.stream = "dc_stream" /\ b.reads = {dev("dc_groups")}
      /\ b.writes = {host("dc_body")}
      /\ c.kind = "record" /\ c.stream = "dc_stream" /\ c.event = Once("dc_body_copied")
  BY CallFields DEF FetchRun, Copy
<1>3. Ran(base, "dc_stream", dev("dc_groups"))
  BY SubmitProgram, SourceGrows
<1>4. \A m \in base : m.kind = "wait" => m.event # Once("dc_body_copied")
  <2>1. ASSUME NEW m \in Calls(SubmitCalls[image]), m.kind = "wait"
        PROVE  m.event # Once("dc_body_copied")
    BY <2>1, SubmitWaits, EventsDiffer
  <2>2. ASSUME NEW m \in Calls(StartCopiesCalls[image]), m.kind = "wait"
        PROVE  m.event # Once("dc_body_copied")
    <3>1. m \in OfStartCopies(image)
      <4>1. StartCopiesCalls[image] \in Seq(OfStartCopies(image))
        BY CopiesProgram
      <4> QED BY <4>1 DEF Calls
    <3> QED BY <2>2, <3>1, StartCopiesCallIs, EventsDiffer
  <2> QED BY <2>1, <2>2
<1> HIDE DEF base, a, b, c, p
<1>5. Before(p, 3) = {a, b}
  <2>1. 1 .. 3 - 1 = {1, 2}
    OBVIOUS
  <2>2. Before(p, 3) = {p[1], p[2]}
    BY <2>1 DEF Before
  <2> QED BY <1>1, <2>2
<1>6. Supplied(image, base \cup Before(p, 1), p[1])
  BY <1>1, <1>2 DEF Supplied
<1>7. Supplied(image, base \cup Before(p, 2), p[2])
  <2>1. Ran(base \cup Before(p, 2), "dc_stream", dev("dc_groups"))
    BY <1>3, SourceGrows
  <2> QED BY <1>1, <1>2, <2>1, RunSupplied
<1>8. Supplied(image, base \cup Before(p, 3), p[3])
  <2> DEFINE made == base \cup {a, b}
  <2>1. \A x : Carries(image, Once("dc_body_copied"), x) <=> x = host("dc_body")
    BY EventsDiffer DEF Carries
  <2>2. Ran(made, "dc_stream", host("dc_body"))
    BY <1>2 DEF Ran
  <2>3. \A m \in made : m.kind = "wait" => m.event # Once("dc_body_copied")
    BY <1>2, <1>4
  <2>4. base \cup Before(p, 3) = made /\ p[3] = c
    BY <1>1, <1>5
  <2> HIDE DEF made
  <2>5. Supplied(image, made, c)
    BY <1>2, <2>1, <2>2, <2>3 DEF Supplied
  <2> QED BY <2>4, <2>5
<1>9. Ordered(image, base, p)
  <2>1. \A k \in 1 .. 3 : k = 1 \/ k = 2 \/ k = 3
    OBVIOUS
  <2> QED BY <1>1, <1>6, <1>7, <1>8, <2>1 DEF Ordered
<1> QED BY <1>1, <1>9 DEF base, a, b, c, p

---------------------------------------------------------------------------
(* The calls made for the slot's frame.                                    *)

SubmitNext ==
  IF in_flight THEN Len(SubmitCalls[slot.image]) + 1
  ELSE IF caller.phase = "submit" THEN caller.next ELSE 1
CopyNext ==
  IF slot.copies_started THEN Len(StartCopiesCalls[slot.image]) + 1
  ELSE IF Copying THEN driver.next ELSE 1
FetchNext ==
  IF driver.phase = "fetch" THEN driver.next
  ELSE IF driver.phase = "assemble" THEN Len(FetchDcCalls[slot.image]) + 1 ELSE 1

Submitted == Before(SubmitCalls[slot.image], SubmitNext)
Made ==
  Submitted \cup Before(StartCopiesCalls[slot.image], CopyNext)
    \cup Before(FetchDcCalls[slot.image], FetchNext)

(* The work of earlier frames has left the slot's streams. *)
Clean == in_flight \/ (caller.phase = "submit" /\ caller.next > 3)

---------------------------------------------------------------------------
(* The operations still to run.                                            *)

Writer(x, s, i) ==
  /\ i \in DOMAIN queue[s] /\ queue[s][i].kind = "run"
  /\ queue[s][i].frame = slot.frame /\ x \in queue[s][i].writes
Marker(e, s, i) ==
  i \in DOMAIN queue[s] /\ queue[s][i].kind = "record" /\ queue[s][i].event = e
Waiter(e, s, i) ==
  i \in DOMAIN queue[s] /\ queue[s][i].kind = "wait" /\ queue[s][i].event = e

(* A buffer is written by the frame, or will be before the event is reached, *)
(* at the end of a stream, or before operation n of a stream starts.         *)
Recorded(e) == \E s \in Stream : \E i \in DOMAIN queue[s] : Marker(e, s, i)
PendingBehind(x, e) ==
  \E s \in Stream : \E i, j \in DOMAIN queue[s] : i < j /\ Writer(x, s, i) /\ Marker(e, s, j)
Covered(x, e) == x \in holds \/ PendingBehind(x, e)
Written(x, s) == x \in holds \/ \E i \in DOMAIN queue[s] : Writer(x, s, i)
DeliveredAt(x, s, n) ==
  \/ x \in holds
  \/ \E i \in DOMAIN queue[s] : i < n /\ Writer(x, s, i)
  \/ \E i \in DOMAIN queue[s] : \E e \in Event : i < n /\ Waiter(e, s, i) /\ PendingBehind(x, e)
Delivered(x, s) == DeliveredAt(x, s, Len(queue[s]) + 1)

LastIs(s, e) == queue[s] # <<>> => Marker(e, s, Len(queue[s]))

---------------------------------------------------------------------------
(* The inductive invariant.                                                *)

ControlInv ==
  /\ driver.phase # "away" => in_flight /\ result = "none"
  /\ driver.phase = "away" => driver.next = 1
  /\ driver.phase = "fetch" => driver.next <= 4
  /\ caller.phase = "idle" => caller.next = 1
  /\ caller.phase = "submit" =>
       ~ in_flight /\ result = "none" /\ ~ slot.copies_started /\ slot.frame > 0
  /\ in_flight => slot.frame > 0
  /\ driver.phase \in {"early", "layout", "copies"} => ~ slot.copies_started
  /\ driver.phase \in {"tables", "release", "dc_sizes", "fetch", "assemble"} =>
       slot.copies_started
  /\ driver.phase = "early" => driver.visited
  /\ driver.phase = "away" /\ in_flight /\ result = "none" /\ slot.copies_started =>
       driver.visited

(* A waiting operation counts the records of its event that are to run. *)
WaitsInv ==
  \A s \in Stream : \A i \in DOMAIN queue[s] :
    queue[s][i].kind = "wait" => queue[s][i].ahead = Pending(queue[s][i].event)

(* Each stream keeps to its buffers. *)
AreaInv ==
  \A s \in Stream : \A i \in DOMAIN queue[s] :
    /\ queue[s][i].reads \subseteq MayRead(s) /\ queue[s][i].writes \subseteq MayWrite(s)
    /\ queue[s][i].kind # "run" => queue[s][i].reads = {} /\ queue[s][i].writes = {}
    /\ s = "input_stream" => queue[s][i].kind # "wait"

(* The caller's stream writes the planes of the slot's frame last. *)
PlanesLast(j) ==
  /\ Writer(planes, "input_stream", j)
  /\ \A k \in DOMAIN queue["input_stream"] :
       queue["input_stream"][k].kind = "run" /\ k # j =>
         k < j /\ queue["input_stream"][k].frame < slot.frame
InputInv ==
  \/ slot.frame = 0 /\ queue["input_stream"] = <<>>
  \/ /\ planes \in holds
     /\ \A i \in DOMAIN queue["input_stream"] : queue["input_stream"][i].kind # "run"
  \/ planes \notin holds /\ \E j \in DOMAIN queue["input_stream"] : PlanesLast(j)

(* submit has waited for the slot's streams before it uses them. *)
SyncInv ==
  caller.phase = "submit" /\ caller.next <= 10 =>
    /\ caller.next > 1 => queue["stream"] = <<>>
    /\ caller.next > 2 => queue["dc_stream"] = <<>>
    /\ caller.next > 3 => queue["copy_stream"] = <<>>

(* What is to run is of the slot's frame and finds its inputs. *)
OpsInv ==
  Clean =>
    \A s \in SlotStream : \A i \in DOMAIN queue[s] :
      /\ queue[s][i].frame = slot.frame
      /\ queue[s][i].kind = "wait" =>
           \/ queue[s][i].event \in {Once("input_ready"), Once("forked")}
                /\ Wait(s, queue[s][i].event) \in Submitted
           \/ in_flight /\ \E b \in Batch : queue[s][i].event = packed(b)
      /\ \A x \in queue[s][i].reads : DeliveredAt(x, s, i)

(* What the calls made so far have brought about, or will. *)
Effect(c) ==
  /\ c.kind = "run" => \A x \in c.writes : Written(x, c.stream)
  /\ c.kind = "record" =>
       \A x \in Buffer : Carries(slot.image, c.event, x) => Covered(x, c.event)
  /\ c.kind = "wait" =>
       /\ \A x \in Buffer : Carries(slot.image, c.event, x) => Delivered(x, c.stream)
       /\ Recorded(c.event) => \E i \in DOMAIN queue[c.stream] : Waiter(c.event, c.stream, i)
  /\ c.kind = "texture" => texture \in holds
MadeInv == Clean => \A c \in Made : Effect(c)

(* The last operations of a frame in its streams. *)
LastInv ==
  /\ Clean /\ SubmitNext > Len(SubmitCalls[slot.image]) =>
       LastIs("stream", packed(LastBatch))
  /\ in_flight /\ CopyNext > Len(StartCopiesCalls[slot.image]) =>
       LastIs("copy_stream", copied(LastBatch))
  /\ FetchNext > 3 => LastIs("dc_stream", Once("dc_body_copied"))

(* What the driver has seen landed. *)
PhaseInv ==
  /\ in_flight /\ (Copying \/ slot.copies_started) => HostTables \subseteq holds
  /\ driver.phase \in {"release", "dc_sizes", "fetch", "assemble"} =>
       \A b \in Batch : b < driver.landed =>
         /\ ~ Recorded(copied(b))
         /\ \A x \in Buffer : Carries(slot.image, copied(b), x) => x \in holds
  /\ driver.phase \in {"dc_sizes", "fetch", "assemble"} => driver.landed = AC_BATCHES
  /\ driver.phase \in {"fetch", "assemble"} => host("dc_sizes") \in holds
  /\ driver.phase = "assemble" => host("dc_body") \in holds /\ queue["dc_stream"] = <<>>

(* Memory that operations to come use is large enough already. *)
TokensFit ==
  /\ capacity["entries"] >= slot.image.tokens
  /\ capacity["raw"] >= slot.image.tokens + 1
CapacityInv ==
  /\ capacity["chroma"] \in {0, 1}
  /\ Copying /\ driver.next > 1 => capacity["entries"] >= slot.image.tokens
  /\ Copying /\ driver.next > 2 => TokensFit
  /\ Clean /\ (\E i \in DOMAIN queue["copy_stream"] : queue["copy_stream"][i].kind = "run") =>
       TokensFit
  /\ Clean /\ (\E i \in DOMAIN queue["dc_stream"] :
                 host("dc_body") \in queue["dc_stream"][i].writes) =>
       \/ driver.phase = "fetch" /\ driver.next > 1
       \/ driver.phase = "assemble"
       \/ result # "none"

IInv ==
  /\ TypeOK /\ ControlInv /\ WaitsInv /\ AreaInv /\ InputInv /\ SyncInv
  /\ OpsInv /\ MadeInv /\ LastInv /\ PhaseInv /\ CapacityInv /\ OkLeavesNothingRunning
---------------------------------------------------------------------------
(* The queues.                                                             *)

(* Operations of typed queues are typed. *)
LEMMA Queues ==
  ASSUME queue \in [Stream -> Seq(Op)]
  PROVE  \A s \in Stream :
           /\ queue[s] \in Seq(Op) /\ Len(queue[s]) \in Nat
           /\ DOMAIN queue[s] = 1 .. Len(queue[s])
           /\ \A i \in DOMAIN queue[s] :
                /\ i \in Nat /\ 1 <= i /\ i <= Len(queue[s]) /\ queue[s][i] \in Op
                /\ queue[s][i].ahead \in Nat
                /\ queue[s][i].kind \in {"run", "record", "wait"}
                /\ queue[s][i].event \in Event \cup {NO_EVENT}
<1>1. SUFFICES ASSUME NEW s \in Stream
               PROVE  /\ queue[s] \in Seq(Op) /\ Len(queue[s]) \in Nat
                      /\ DOMAIN queue[s] = 1 .. Len(queue[s])
                      /\ \A i \in DOMAIN queue[s] :
                           /\ i \in Nat /\ 1 <= i /\ i <= Len(queue[s])
                           /\ queue[s][i] \in Op
                           /\ queue[s][i].ahead \in Nat
                           /\ queue[s][i].kind \in {"run", "record", "wait"}
                           /\ queue[s][i].event \in Event \cup {NO_EVENT}
  OBVIOUS
<1>2. queue[s] \in Seq(Op)
  OBVIOUS
<1>3. /\ Len(queue[s]) \in Nat /\ DOMAIN queue[s] = 1 .. Len(queue[s])
      /\ \A i \in DOMAIN queue[s] : queue[s][i] \in Op
  BY <1>2
<1>4. \A op \in Op : /\ op.ahead \in Nat /\ op.kind \in {"run", "record", "wait"}
                     /\ op.event \in Event \cup {NO_EVENT}
  BY DEF Op
<1>5. \A i \in 1 .. Len(queue[s]) : i \in Nat /\ 1 <= i /\ i <= Len(queue[s])
  BY <1>3
<1> QED BY <1>2, <1>3, <1>4, <1>5

(* An event has records pending exactly if one is in a queue. *)
LEMMA Recordings ==
  ASSUME queue \in [Stream -> Seq(Op)], NEW e
  PROVE  /\ IsFiniteSet(Records(e)) /\ Pending(e) \in Nat
         /\ Pending(e) = 0 <=> ~ Recorded(e)
         /\ \A s, i : <<s, i>> \in Records(e) <=> s \in Stream /\ Marker(e, s, i)
<1> DEFINE of(s) == {i \in DOMAIN queue[s] :
                       queue[s][i].kind = "record" /\ queue[s][i].event = e}
<1>1. ASSUME NEW s \in Stream PROVE IsFiniteSet({s} \X of(s))
  <2>1. Len(queue[s]) \in Nat /\ DOMAIN queue[s] = 1 .. Len(queue[s])
    BY Queues
  <2>2. IsFiniteSet(1 .. Len(queue[s]))
    BY <2>1, FS_Interval
  <2>3. of(s) \in SUBSET (1 .. Len(queue[s]))
    BY <2>1
  <2>4. IsFiniteSet(of(s))
    BY ONLY <2>2, <2>3, FS_Subset
  <2>5. IsFiniteSet({s})
    BY FS_Singleton
  <2> QED BY <2>4, <2>5, FS_Product
<1>2. Records(e) = {"input_stream"} \X of("input_stream")
                   \cup ({"stream"} \X of("stream")
                         \cup ({"dc_stream"} \X of("dc_stream")
                               \cup {"copy_stream"} \X of("copy_stream")))
  BY DEF Records, Stream
<1> HIDE DEF of
<1>3. IsFiniteSet(Records(e))
  <2>1. /\ IsFiniteSet({"input_stream"} \X of("input_stream"))
        /\ IsFiniteSet({"stream"} \X of("stream"))
        /\ IsFiniteSet({"dc_stream"} \X of("dc_stream"))
        /\ IsFiniteSet({"copy_stream"} \X of("copy_stream"))
    BY <1>1 DEF Stream
  <2>2. IsFiniteSet({"dc_stream"} \X of("dc_stream")
                    \cup {"copy_stream"} \X of("copy_stream"))
    BY <2>1, FS_Union
  <2>3. IsFiniteSet({"stream"} \X of("stream")
                    \cup ({"dc_stream"} \X of("dc_stream")
                          \cup {"copy_stream"} \X of("copy_stream")))
    BY <2>1, <2>2, FS_Union
  <2>4. IsFiniteSet({"input_stream"} \X of("input_stream")
                    \cup ({"stream"} \X of("stream")
                          \cup ({"dc_stream"} \X of("dc_stream")
                                \cup {"copy_stream"} \X of("copy_stream"))))
    BY <2>1, <2>3, FS_Union
  <2> QED BY <1>2, <2>4
<1>4. \A s, i : <<s, i>> \in Records(e) <=> s \in Stream /\ Marker(e, s, i)
  BY DEF Records, Marker
<1>5. Records(e) = {} <=> ~ Recorded(e)
  <2>1. ASSUME Recorded(e) PROVE Records(e) # {}
    BY <1>4, <2>1 DEF Recorded
  <2>2. ASSUME Records(e) # {} PROVE Recorded(e)
    <3>1. \E s \in Stream : \E i : Marker(e, s, i)
      BY <2>2 DEF Records, Marker
    <3> QED BY <3>1 DEF Recorded, Marker
  <2> QED BY <2>1, <2>2
<1>6. Pending(e) \in Nat
  BY <1>3, FS_CardinalityType DEF Pending
<1>7. Pending(e) = 0 <=> Records(e) = {}
  BY <1>3, FS_EmptySet DEF Pending
<1> QED BY <1>3, <1>4, <1>5, <1>6, <1>7

(* An event has landed exactly if no record of it is in a queue. *)
LEMMA Landings ==
  ASSUME queue \in [Stream -> Seq(Op)], NEW e
  PROVE  Landed(e) <=> ~ Recorded(e)
BY Recordings DEF Landed

(* An operation is enqueued. *)
Pushed(t, op) == queue' = [queue EXCEPT ![t] = Append(@, op)]

(* Pushing an operation leaves those before it as they are. *)
LEMMA Pushes ==
  ASSUME queue \in [Stream -> Seq(Op)], NEW t \in Stream, NEW op \in Op, Pushed(t, op)
  PROVE  /\ queue' \in [Stream -> Seq(Op)]
         /\ Len(queue'[t]) = Len(queue[t]) + 1 /\ queue'[t][Len(queue[t]) + 1] = op
         /\ \A s \in Stream \ {t} : queue'[s] = queue[s]
         /\ \A s \in Stream : \A i \in DOMAIN queue[s] :
              i \in DOMAIN queue'[s] /\ queue'[s][i] = queue[s][i]
         /\ \A s \in Stream : \A i \in DOMAIN queue'[s] :
              \/ i \in DOMAIN queue[s] /\ queue'[s][i] = queue[s][i]
              \/ s = t /\ i = Len(queue[s]) + 1 /\ queue'[s][i] = op
<1>1. queue'[t] = Append(queue[t], op) /\ \A s \in Stream \ {t} : queue'[s] = queue[s]
  BY DEF Pushed
<1>2. queue[t] \in Seq(Op)
  OBVIOUS
<1>3. /\ Append(queue[t], op) \in Seq(Op)
      /\ Len(Append(queue[t], op)) = Len(queue[t]) + 1
      /\ Append(queue[t], op)[Len(queue[t]) + 1] = op
      /\ \A i \in 1 .. Len(queue[t]) : Append(queue[t], op)[i] = queue[t][i]
  BY <1>2, AppendProperties
<1>4. queue' \in [Stream -> Seq(Op)]
  BY <1>3 DEF Pushed
<1>5. /\ \A s \in Stream : DOMAIN queue[s] = 1 .. Len(queue[s]) /\ Len(queue[s]) \in Nat
      /\ \A s \in Stream : DOMAIN queue'[s] = 1 .. Len(queue'[s]) /\ Len(queue'[s]) \in Nat
  <2>1. \A q \in Seq(Op) : DOMAIN q = 1 .. Len(q) /\ Len(q) \in Nat
    OBVIOUS
  <2> QED BY <1>4, <2>1
<1>6. ASSUME NEW s \in Stream, NEW i \in DOMAIN queue[s]
      PROVE  i \in DOMAIN queue'[s] /\ queue'[s][i] = queue[s][i]
  <2>1. CASE s = t
    <3>1. i \in 1 .. Len(queue[t])
      BY <1>5, <2>1
    <3>2. i \in 1 .. Len(queue[t]) + 1
      BY <1>5, <3>1
    <3> QED BY <1>1, <1>3, <1>5, <2>1, <3>1, <3>2
  <2>2. CASE s # t
    BY <1>1, <2>2
  <2> QED BY <2>1, <2>2
<1>7. ASSUME NEW s \in Stream, NEW i \in DOMAIN queue'[s]
      PROVE  \/ i \in DOMAIN queue[s] /\ queue'[s][i] = queue[s][i]
             \/ s = t /\ i = Len(queue[s]) + 1 /\ queue'[s][i] = op
  <2>1. CASE s = t
    <3>1. i \in 1 .. Len(queue[t]) + 1 /\ Len(queue[t]) \in Nat
      BY <1>1, <1>3, <1>5, <2>1
    <3>2. i \in 1 .. Len(queue[t]) \/ i = Len(queue[t]) + 1
      BY <3>1
    <3> QED BY <1>1, <1>3, <1>5, <2>1, <3>2
  <2>2. CASE s # t
    BY <1>1, <2>2
  <2> QED BY <2>1, <2>2
<1> QED BY <1>1, <1>3, <1>4, <1>6, <1>7

(* It leaves what is pending of the events it does not record. *)
LEMMA PushPending ==
  ASSUME queue \in [Stream -> Seq(Op)], NEW t \in Stream, NEW op \in Op, Pushed(t, op),
         NEW e, op.kind = "record" => op.event # e
  PROVE  /\ Pending(e)' = Pending(e)
         /\ Recorded(e)' <=> Recorded(e)
<1>1. queue' \in [Stream -> Seq(Op)]
  BY Pushes
<1>2. \A s \in Stream : \A i : Marker(e, s, i)' <=> Marker(e, s, i)
  <2>1. ASSUME NEW s \in Stream, NEW i, Marker(e, s, i) PROVE Marker(e, s, i)'
    BY <2>1, Pushes DEF Marker
  <2>2. ASSUME NEW s \in Stream, NEW i, Marker(e, s, i)' PROVE Marker(e, s, i)
    BY <2>2, Pushes DEF Marker
  <2> QED BY <2>1, <2>2
<1>3. Records(e)' = Records(e)
  <2>1. Records(e) = UNION {{s} \X {i \in DOMAIN queue[s] : Marker(e, s, i)} : s \in Stream}
    BY DEF Records, Marker
  <2>2. Records(e)' = UNION {{s} \X {i \in DOMAIN queue'[s] : Marker(e, s, i)'} : s \in Stream}
    BY DEF Records, Marker
  <2>3. ASSUME NEW s \in Stream
        PROVE  {i \in DOMAIN queue[s] : Marker(e, s, i)}
                 = {i \in DOMAIN queue'[s] : Marker(e, s, i)'}
    BY <1>2 DEF Marker
  <2> QED BY <2>1, <2>2, <2>3
<1>4. Pending(e)' = Pending(e)
  BY <1>3 DEF Pending
<1>5. Recorded(e)' <=> Recorded(e)
  BY <1>2 DEF Recorded, Marker
<1> QED BY <1>4, <1>5

---------------------------------------------------------------------------
(* The device runs the first operation of a stream.                        *)

Gap(s) == [t \in Stream |-> IF t = s THEN 1 ELSE 0]
Same(o, p) ==
  /\ o.kind = p.kind /\ o.frame = p.frame /\ o.event = p.event
  /\ o.reads = p.reads /\ o.writes = p.writes

(* What is behind the first d[t] operations of each stream t stays. *)
Moved(d) ==
  \A t \in Stream : \A i \in DOMAIN queue[t] :
    i > d[t] => i - d[t] \in DOMAIN queue'[t] /\ Same(queue'[t][i - d[t]], queue[t][i])
(* There is nothing else. *)
Arrived(d) ==
  \A t \in Stream : \A i \in DOMAIN queue'[t] :
    i + d[t] \in DOMAIN queue[t] /\ Same(queue'[t][i], queue[t][i + d[t]])

RecordRun(s, e) == queue[s][1].kind = "record" /\ queue[s][1].event = e

(* Running an operation moves its own stream by one, and no other. *)
LEMMA GapIs ==
  \A s \in Stream : \A t \in Stream :
    /\ Gap(s)[t] \in {0, 1} /\ (Gap(s)[t] = 1 <=> t = s) /\ (Gap(s)[t] = 0 <=> t # s)
BY DEF Gap

(* Running an operation moves its stream on and counts down the waits for *)
(* what it records.                                                       *)
LEMMA Pops ==
  ASSUME queue \in [Stream -> Seq(Op)], NEW s \in Stream, Execute(s)
  PROVE  /\ queue' \in [Stream -> Seq(Op)]
         /\ 1 \in DOMAIN queue[s] /\ Head(queue[s]) = queue[s][1]
         /\ Moved(Gap(s)) /\ Arrived(Gap(s))
         /\ \A t \in Stream : Len(queue'[t]) = Len(queue[t]) - Gap(s)[t]
         /\ \A t \in Stream : \A i \in DOMAIN queue'[t] :
              LET o == queue[t][i + Gap(s)[t]]
              IN  queue'[t][i].ahead =
                    IF RecordRun(s, o.event) /\ o.ahead > 0 THEN o.ahead - 1 ELSE o.ahead
<1> DEFINE rest == [queue EXCEPT ![s] = Tail(@)]
           op == Head(queue[s])
<1>1. queue[s] # <<>>
  BY DEF Execute
<1>2. /\ queue[s] \in Seq(Op) /\ Len(queue[s]) \in Nat /\ Len(queue[s]) >= 1
      /\ DOMAIN queue[s] = 1 .. Len(queue[s])
  BY <1>1
<1>3. 1 \in DOMAIN queue[s] /\ op = queue[s][1] /\ op \in Op
  BY <1>1, <1>2, HeadTailProperties
<1>4. /\ Tail(queue[s]) \in Seq(Op) /\ Len(Tail(queue[s])) = Len(queue[s]) - 1
      /\ \A i \in 1 .. Len(Tail(queue[s])) : Tail(queue[s])[i] = queue[s][i + 1]
  BY <1>1, <1>2, HeadTailProperties
<1>5. /\ rest \in [Stream -> Seq(Op)] /\ rest[s] = Tail(queue[s])
      /\ \A t \in Stream : t # s => rest[t] = queue[t]
  BY <1>4
<1>6. \A t \in Stream : /\ queue[t] \in Seq(Op) /\ Len(queue[t]) \in Nat
                        /\ DOMAIN queue[t] = 1 .. Len(queue[t])
  BY Queues
<1>7. \A t \in Stream : /\ rest[t] \in Seq(Op) /\ Len(rest[t]) \in Nat
                        /\ DOMAIN rest[t] = 1 .. Len(rest[t])
                        /\ Len(rest[t]) = Len(queue[t]) - Gap(s)[t]
  BY <1>2, <1>4, <1>5, <1>6, GapIs
<1>8. ASSUME NEW t \in Stream, NEW i \in DOMAIN rest[t]
      PROVE  i \in Nat /\ i >= 1 /\ i + Gap(s)[t] \in DOMAIN queue[t]
             /\ rest[t][i] = queue[t][i + Gap(s)[t]]
  <2>1. i \in Nat /\ i >= 1 /\ i <= Len(rest[t])
    BY <1>7
  <2>2. CASE t = s
    <3>1. i \in 1 .. Len(Tail(queue[s])) /\ Gap(s)[t] = 1
      BY <1>5, <1>7, <2>2, GapIs
    <3> QED BY <1>2, <1>4, <1>5, <2>1, <2>2, <3>1
  <2>3. CASE t # s
    <3>1. Gap(s)[t] = 0 /\ rest[t] = queue[t]
      BY <1>5, <2>3, GapIs
    <3> QED BY <2>1, <3>1
  <2> QED BY <2>2, <2>3
<1>9. ASSUME NEW t \in Stream, NEW i \in DOMAIN queue[t], i > Gap(s)[t]
      PROVE  i - Gap(s)[t] \in DOMAIN rest[t]
             /\ (i - Gap(s)[t]) + Gap(s)[t] = i
  <2>1. i \in Nat /\ i >= 1 /\ i <= Len(queue[t]) /\ Gap(s)[t] \in {0, 1}
    BY <1>6, GapIs
  <2> QED BY <1>6, <1>7, <1>9, <2>1
<1> DEFINE off(o) == IF RecordRun(s, o.event) /\ o.ahead > 0 THEN o.ahead - 1 ELSE o.ahead
<1>10. /\ queue' \in [Stream -> Seq(Op)]
       /\ \A t \in Stream : DOMAIN queue'[t] = DOMAIN rest[t] /\ Len(queue'[t]) = Len(rest[t])
       /\ \A t \in Stream : \A i \in DOMAIN rest[t] :
            Same(queue'[t][i], rest[t][i]) /\ queue'[t][i].ahead = off(rest[t][i])
  <2>1. CASE op.kind # "record"
    <3>1. queue' = rest
      BY <2>1 DEF Execute
    <3>2. \A o : ~ RecordRun(s, o)
      BY <1>3, <2>1 DEF RecordRun
    <3> QED BY <1>5, <3>1, <3>2 DEF Same
  <2>2. CASE op.kind = "record"
    <3>1. queue' = [t \in Stream |-> Reached(op.event, rest[t])]
      BY <2>2 DEF Execute
    <3>2. \A o : RecordRun(s, o) <=> op.event = o
      BY <1>3, <2>2 DEF RecordRun
    <3>3. ASSUME NEW t \in Stream
          PROVE  /\ queue'[t] \in Seq(Op) /\ DOMAIN queue'[t] = DOMAIN rest[t]
                 /\ Len(queue'[t]) = Len(rest[t])
                 /\ \A i \in DOMAIN rest[t] :
                      /\ Same(queue'[t][i], rest[t][i])
                      /\ queue'[t][i].ahead = off(rest[t][i])
      <4> DEFINE ops == rest[t]
                 new(i) == IF ops[i].event = op.event /\ ops[i].ahead > 0
                           THEN [ops[i] EXCEPT !.ahead = @ - 1] ELSE ops[i]
      <4>1. ops \in Seq(Op) /\ DOMAIN ops = 1 .. Len(ops) /\ Len(ops) \in Nat
        BY <1>7
      <4> HIDE DEF rest, ops
      <4>2. ASSUME NEW i \in DOMAIN ops
            PROVE  /\ new(i) \in Op /\ Same(new(i), ops[i]) /\ new(i).ahead = off(ops[i])
        <5>1. ops[i] \in Op
          BY <4>1
        <5>2. CASE ops[i].event = op.event /\ ops[i].ahead > 0
          <6>1. new(i) = [ops[i] EXCEPT !.ahead = @ - 1]
            BY <5>2
          <6>2. ops[i].ahead - 1 \in Nat
            BY <5>1, <5>2 DEF Op
          <6>3. new(i) \in Op
            BY <5>1, <6>1, <6>2 DEF Op
          <6>4. Same(new(i), ops[i]) /\ new(i).ahead = ops[i].ahead - 1
            BY <5>1, <6>1 DEF Same, Op
          <6> QED BY <3>2, <5>2, <6>3, <6>4
        <5>3. CASE ~ (ops[i].event = op.event /\ ops[i].ahead > 0)
          <6>1. new(i) = ops[i]
            BY <5>3
          <6> QED BY <3>2, <5>1, <5>3, <6>1 DEF Same
        <5> QED BY <5>2, <5>3
      <4>3. queue'[t] = [i \in DOMAIN ops |-> new(i)]
        BY <3>1 DEF Reached, ops
      <4> HIDE DEF new
      <4>4. queue'[t] \in [1 .. Len(ops) -> Op]
        BY <4>1, <4>2, <4>3
      <4>5. queue'[t] \in Seq(Op) /\ Len(queue'[t]) = Len(ops)
        <5>1. \A n \in Nat : \A g \in [1 .. n -> Op] : g \in Seq(Op) /\ Len(g) = n
          OBVIOUS
        <5> QED BY <4>1, <4>4, <5>1
      <4>6. \A i \in DOMAIN ops : queue'[t][i] = new(i)
        BY <4>3
      <4>7. DOMAIN queue'[t] = DOMAIN ops
        BY <4>3
      <4> QED BY <4>2, <4>5, <4>6, <4>7 DEF ops
    <3>4. DOMAIN queue' = Stream /\ queue' = [t \in Stream |-> queue'[t]]
      BY <3>1
    <3>5. queue' \in [Stream -> Seq(Op)]
      BY <3>3, <3>4
    <3> QED BY <3>3, <3>5
  <2> QED BY <2>1, <2>2
<1> HIDE DEF rest, off
<1>11. Moved(Gap(s))
  <2>1. SUFFICES ASSUME NEW t \in Stream, NEW i \in DOMAIN queue[t], i > Gap(s)[t]
                 PROVE  i - Gap(s)[t] \in DOMAIN queue'[t]
                        /\ Same(queue'[t][i - Gap(s)[t]], queue[t][i])
    BY DEF Moved
  <2>2. i - Gap(s)[t] \in DOMAIN rest[t] /\ (i - Gap(s)[t]) + Gap(s)[t] = i
    BY <1>9, <2>1
  <2>3. rest[t][i - Gap(s)[t]] = queue[t][i]
    BY <1>8, <2>2
  <2> QED BY <1>10, <2>2, <2>3
<1>12. Arrived(Gap(s))
  BY <1>8, <1>10 DEF Arrived
<1>13. \A t \in Stream : Len(queue'[t]) = Len(queue[t]) - Gap(s)[t]
  BY <1>7, <1>10
<1>14. \A t \in Stream : \A i \in DOMAIN queue'[t] :
         queue'[t][i].ahead = off(queue[t][i + Gap(s)[t]])
  <2>1. SUFFICES ASSUME NEW t \in Stream, NEW i \in DOMAIN queue'[t]
                 PROVE  queue'[t][i].ahead = off(queue[t][i + Gap(s)[t]])
    OBVIOUS
  <2>2. i \in DOMAIN rest[t]
    BY <1>10
  <2>3. rest[t][i] = queue[t][i + Gap(s)[t]]
    BY <1>8, <2>2
  <2>4. queue'[t][i].ahead = off(rest[t][i])
    BY <1>10, <2>2
  <2> QED BY <2>3, <2>4
<1> QED BY <1>3, <1>10, <1>11, <1>12, <1>13, <1>14 DEF off

(* It takes its record from those pending, and adds none. *)
LEMMA PopPending ==
  ASSUME queue \in [Stream -> Seq(Op)], NEW s \in Stream, Execute(s), NEW e
  PROVE  /\ Pending(e)' = IF RecordRun(s, e) THEN Pending(e) - 1 ELSE Pending(e)
         /\ RecordRun(s, e) => Pending(e) > 0
         /\ Recorded(e)' => Recorded(e)
<1> DEFINE R == Records(e) \ {<<s, 1>>}
           f == [r \in R |-> <<r[1], r[2] - Gap(s)[r[1]]>>]
<1>1. queue' \in [Stream -> Seq(Op)]
  BY Pops
<1>2. /\ IsFiniteSet(Records(e)) /\ Pending(e) \in Nat
      /\ \A t, i : <<t, i>> \in Records(e) <=> t \in Stream /\ Marker(e, t, i)
      /\ \A t, i : <<t, i>> \in Records(e)' <=> t \in Stream /\ Marker(e, t, i)'
      /\ (Pending(e) = 0 <=> ~ Recorded(e))
  <2>1. /\ IsFiniteSet(Records(e)) /\ Pending(e) \in Nat
        /\ \A t, i : <<t, i>> \in Records(e) <=> t \in Stream /\ Marker(e, t, i)
        /\ (Pending(e) = 0 <=> ~ Recorded(e))
    BY Recordings
  <2>2. \A t, i : <<t, i>> \in Records(e)' <=> t \in Stream /\ Marker(e, t, i)'
    BY DEF Records, Marker
  <2> QED BY <2>1, <2>2
<1>3. \A t \in Stream : \A i : Marker(e, t, i) => i \in Nat /\ i >= 1
  BY Queues DEF Marker
<1>4. /\ \A t \in Stream : \A i : Marker(e, t, i) /\ i > Gap(s)[t] => Marker(e, t, i - Gap(s)[t])'
      /\ \A t \in Stream : \A i : Marker(e, t, i)' => Marker(e, t, i + Gap(s)[t]) /\ i \in Nat /\ i >= 1
  <2>1. Moved(Gap(s)) /\ Arrived(Gap(s))
    BY Pops
  <2>2. ASSUME NEW t \in Stream, NEW i, Marker(e, t, i), i > Gap(s)[t]
        PROVE  Marker(e, t, i - Gap(s)[t])'
    BY <2>1, <2>2 DEF Marker, Moved, Same
  <2>3. ASSUME NEW t \in Stream, NEW i, Marker(e, t, i)'
        PROVE  Marker(e, t, i + Gap(s)[t]) /\ i \in Nat /\ i >= 1
    <3>1. i \in DOMAIN queue'[t]
      BY <2>3 DEF Marker
    <3>2. i \in Nat /\ i >= 1
      <4>1. \A q \in Seq(Op) : \A j \in DOMAIN q : j \in Nat /\ j >= 1
        OBVIOUS
      <4> QED BY <1>1, <3>1, <4>1
    <3> QED BY <2>1, <2>3, <3>1, <3>2 DEF Marker, Arrived, Same
  <2> QED BY <2>2, <2>3
<1>5. \A r \in R : \E t \in Stream : \E i \in Nat :
        /\ r = <<t, i>> /\ r[1] = t /\ r[2] = i /\ i >= 1 /\ Marker(e, t, i)
        /\ i > Gap(s)[t] /\ f[r] = <<t, i - Gap(s)[t]>>
  <2>1. SUFFICES ASSUME NEW r \in R
                 PROVE  \E t \in Stream : \E i \in Nat :
                          /\ r = <<t, i>> /\ r[1] = t /\ r[2] = i /\ i >= 1
                          /\ Marker(e, t, i) /\ i > Gap(s)[t]
                          /\ f[r] = <<t, i - Gap(s)[t]>>
    OBVIOUS
  <2>2. PICK t \in Stream : \E i \in DOMAIN queue[t] : r = <<t, i>>
    BY DEF Records
  <2>3. PICK i \in DOMAIN queue[t] : r = <<t, i>>
    BY <2>2
  <2>4. Marker(e, t, i) /\ i \in Nat /\ i >= 1
    BY <1>2, <1>3, <2>3
  <2>5. i > Gap(s)[t]
    <3>1. CASE t = s
      <4>1. i # 1 /\ Gap(s)[t] = 1
        BY <2>3, <3>1, GapIs
      <4> QED BY <2>4, <4>1
    <3>2. CASE t # s
      BY <2>4, <3>2, GapIs
    <3> QED BY <3>1, <3>2
  <2> QED BY <2>3, <2>4, <2>5
<1>6. f \in [R -> Records(e)']
  <2>1. \A r \in R : f[r] \in Records(e)'
    BY <1>2, <1>4, <1>5
  <2> QED BY <2>1
<1>7. \A q, r \in R : f[q] = f[r] => q = r
  <2>1. SUFFICES ASSUME NEW q \in R, NEW r \in R, f[q] = f[r] PROVE q = r
    OBVIOUS
  <2>2. PICK t \in Stream, i \in Nat : q = <<t, i>> /\ f[q] = <<t, i - Gap(s)[t]>>
    BY <1>5
  <2>3. PICK u \in Stream, j \in Nat : r = <<u, j>> /\ f[r] = <<u, j - Gap(s)[u]>>
    BY <1>5
  <2>4. t = u /\ i - Gap(s)[t] = j - Gap(s)[u]
    BY <2>1, <2>2, <2>3
  <2>5. i = j
    <3>1. Gap(s)[t] \in Int
      BY GapIs
    <3> QED BY <2>4, <3>1
  <2> QED BY <2>2, <2>3, <2>4, <2>5
<1>8. \A r \in Records(e)' : \E q \in R : f[q] = r
  <2>1. SUFFICES ASSUME NEW r \in Records(e)' PROVE \E q \in R : f[q] = r
    OBVIOUS
  <2>2. PICK t \in Stream : \E i \in DOMAIN queue'[t] : r = <<t, i>>
    BY DEF Records
  <2>3. PICK i \in DOMAIN queue'[t] : r = <<t, i>>
    BY <2>2
  <2>4. Marker(e, t, i)' /\ i \in Nat /\ i >= 1
    BY <1>2, <1>4, <2>3
  <2>5. <<t, i + Gap(s)[t]>> \in Records(e)
    BY <1>2, <1>4, <2>4
  <2>6. Gap(s)[t] \in {0, 1} /\ (t = s => Gap(s)[t] = 1)
    BY GapIs
  <2>7. <<t, i + Gap(s)[t]>> # <<s, 1>>
    BY <2>4, <2>6
  <2>8. (i + Gap(s)[t]) - Gap(s)[t] = i
    BY <2>4, <2>6
  <2>9. <<t, i + Gap(s)[t]>> \in R
    BY <2>5, <2>7
  <2>10. f[<<t, i + Gap(s)[t]>>] = <<t, (i + Gap(s)[t]) - Gap(s)[t]>>
    BY <2>9
  <2> QED BY <2>3, <2>8, <2>9, <2>10
<1> HIDE DEF f
<1>9. ExistsBijection(R, Records(e)')
  <2>1. f \in Bijection(R, Records(e)')
    <3>1. f \in Surjection(R, Records(e)')
      BY <1>6, <1>8, Fun_IsSurj
    <3> QED BY <1>6, <1>7, <3>1, Fun_IsBij
  <2> QED BY <2>1, Fun_ExistsBij
<1>10. /\ IsFiniteSet(R)
       /\ Cardinality(R) = IF <<s, 1>> \in Records(e) THEN Pending(e) - 1 ELSE Pending(e)
  BY <1>2, FS_RemoveElement DEF Pending
<1> HIDE DEF R
<1>11. Pending(e)' = Cardinality(R)
  BY <1>9, <1>10, FS_Bijection DEF Pending
<1>12. <<s, 1>> \in Records(e) <=> RecordRun(s, e)
  <2>1. 1 \in DOMAIN queue[s]
    BY Pops
  <2> QED BY <1>2, <2>1 DEF Marker, RecordRun
<1>13. RecordRun(s, e) => Pending(e) > 0
  <2>1. RecordRun(s, e) => Recorded(e)
    BY Pops DEF Recorded, Marker, RecordRun
  <2> QED BY <1>2, <2>1
<1>14. Recorded(e)' => Recorded(e)
  BY <1>4 DEF Recorded, Marker
<1> QED BY <1>10, <1>11, <1>12, <1>13, <1>14

---------------------------------------------------------------------------
(* What a step leaves of the promises, with d[t] operations of each stream *)
(* t run in it: of those that write x for the frame x has been written,    *)
(* and an event those waited for has been reached.                         *)

Reaches(d, x) ==
  \A t \in Stream : \A i : Writer(x, t, i) /\ i <= d[t] => x \in holds'
Passes(d) ==
  \A t \in Stream : \A e, i : Waiter(e, t, i) /\ i <= d[t] => ~ Recorded(e)

(* Streams that move on keep what is written, covered and delivered, if *)
(* whatever leaves a queue reaches `holds`.                             *)
LEMMA Moves ==
  ASSUME queue \in [Stream -> Seq(Op)], queue' \in [Stream -> Seq(Op)],
         NEW d \in [Stream -> {0, 1}], Moved(d), slot'.frame = slot.frame, NEW x,
         x \in holds => x \in holds', Reaches(d, x), Passes(d)
  PROVE  /\ \A e : Covered(x, e) => Covered(x, e)'
         /\ \A s \in Stream : Written(x, s) => Written(x, s)'
         /\ \A s \in Stream : \A n \in Nat :
              DeliveredAt(x, s, n) => DeliveredAt(x, s, n - d[s])'
         /\ \A s \in Stream : Delivered(x, s) => Delivered(x, s)'
<1>1. \A t \in Stream : \A i \in DOMAIN queue[t] :
        i \in Nat /\ 1 <= i /\ i <= Len(queue[t]) /\ Len(queue[t]) \in Nat
  BY Queues
<1>2. \A t \in Stream : d[t] \in {0, 1}
  OBVIOUS
<1>3. ASSUME NEW t \in Stream, NEW i, Writer(x, t, i)
      PROVE  x \in holds' \/ (i > d[t] /\ Writer(x, t, i - d[t])')
  <2>1. i \in DOMAIN queue[t] /\ i \in Nat
    BY <1>1, <1>3 DEF Writer
  <2>2. CASE i <= d[t]
    BY <1>3, <2>2 DEF Reaches
  <2>3. CASE i > d[t]
    BY <1>3, <2>1, <2>3 DEF Writer, Moved, Same
  <2>4. i <= d[t] \/ i > d[t]
    <3>1. \A a, b \in Int : a <= b \/ a > b
      OBVIOUS
    <3>2. d[t] \in Int /\ i \in Int
      BY ONLY <1>2, <2>1, t \in Stream
    <3> QED BY ONLY <3>1, <3>2
  <2> QED BY <2>2, <2>3, <2>4
<1>4. ASSUME NEW e, PendingBehind(x, e) PROVE Covered(x, e)'
  <2>1. PICK t \in Stream : \E i, j \in DOMAIN queue[t] :
               i < j /\ Writer(x, t, i) /\ Marker(e, t, j)
    BY <1>4 DEF PendingBehind
  <2>2. PICK i \in DOMAIN queue[t], j \in DOMAIN queue[t] :
               i < j /\ Writer(x, t, i) /\ Marker(e, t, j)
    BY <2>1
  <2>3. CASE x \in holds'
    BY <2>3 DEF Covered
  <2>4. CASE i > d[t] /\ Writer(x, t, i - d[t])'
    <3>1. i \in Nat /\ j \in Nat /\ d[t] \in {0, 1}
      BY <1>1, <1>2
    <3>2. j > d[t] /\ i - d[t] < j - d[t]
      BY <2>2, <2>4, <3>1
    <3>3. Marker(e, t, j - d[t])'
      BY <2>2, <3>2 DEF Marker, Moved, Same
    <3>4. i - d[t] \in DOMAIN queue'[t] /\ j - d[t] \in DOMAIN queue'[t]
      BY <2>4, <3>3 DEF Writer, Marker
    <3> QED BY <2>4, <3>2, <3>3, <3>4 DEF Covered, PendingBehind
  <2> QED BY <1>3, <2>2, <2>3, <2>4
<1>5. \A e : Covered(x, e) => Covered(x, e)'
  <2>1. \A e : x \in holds => Covered(x, e)'
    BY DEF Covered
  <2> QED BY <1>4, <2>1 DEF Covered
<1>6. ASSUME NEW s \in Stream, Written(x, s) PROVE Written(x, s)'
  <2>1. CASE x \in holds
    BY <2>1 DEF Written
  <2>2. CASE \E i \in DOMAIN queue[s] : Writer(x, s, i)
    <3>1. PICK i \in DOMAIN queue[s] : Writer(x, s, i)
      BY <2>2
    <3>2. x \in holds' \/ Writer(x, s, i - d[s])'
      BY <1>3, <3>1
    <3> QED BY <3>2 DEF Written, Writer
  <2> QED BY <1>6, <2>1, <2>2 DEF Written
<1>7. ASSUME NEW s \in Stream, NEW n \in Nat, DeliveredAt(x, s, n)
      PROVE  DeliveredAt(x, s, n - d[s])'
  <2>1. CASE x \in holds
    BY <2>1 DEF DeliveredAt
  <2>2. CASE \E i \in DOMAIN queue[s] : i < n /\ Writer(x, s, i)
    <3>1. PICK i \in DOMAIN queue[s] : i < n /\ Writer(x, s, i)
      BY <2>2
    <3>2. i \in Nat /\ d[s] \in {0, 1}
      BY <1>1, <1>2
    <3>3. i - d[s] < n - d[s]
      BY <3>1, <3>2
    <3>4. CASE x \in holds'
      BY <3>4 DEF DeliveredAt
    <3>5. CASE Writer(x, s, i - d[s])'
      <4>1. i - d[s] \in DOMAIN queue'[s]
        BY <3>5 DEF Writer
      <4> QED BY <3>3, <3>5, <4>1 DEF DeliveredAt
    <3> QED BY <1>3, <3>1, <3>4, <3>5
  <2>3. CASE \E i \in DOMAIN queue[s] : \E e \in Event :
               i < n /\ Waiter(e, s, i) /\ PendingBehind(x, e)
    <3>1. PICK i \in DOMAIN queue[s], e \in Event :
                 i < n /\ Waiter(e, s, i) /\ PendingBehind(x, e)
      BY <2>3
    <3>2. i \in Nat /\ d[s] \in {0, 1}
      BY <1>1, <1>2
    <3>3. Recorded(e)
      BY <3>1 DEF PendingBehind, Recorded
    <3>4. i > d[s]
      BY <3>1, <3>2, <3>3 DEF Passes
    <3>5. Waiter(e, s, i - d[s])'
      BY <3>1, <3>4 DEF Waiter, Moved, Same
    <3>6. i - d[s] < n - d[s] /\ i - d[s] \in DOMAIN queue'[s]
      BY <3>1, <3>2, <3>5 DEF Waiter
    <3>7. x \in holds' \/ PendingBehind(x, e)'
      BY <1>4, <3>1 DEF Covered
    <3> QED BY <3>5, <3>6, <3>7 DEF DeliveredAt
  <2> QED BY <1>7, <2>1, <2>2, <2>3 DEF DeliveredAt
<1>8. ASSUME NEW s \in Stream, Delivered(x, s) PROVE Delivered(x, s)'
  <2>1. Len(queue[s]) + 1 \in Nat /\ Len(queue'[s]) \in Nat
    <3>1. \A q \in Seq(Op) : Len(q) \in Nat
      OBVIOUS
    <3> QED BY <3>1
  <2>2. PICK n \in Nat : n = Len(queue[s]) + 1
    BY <2>1
  <2>3. DeliveredAt(x, s, n - d[s])'
    BY <1>7, <1>8, <2>2 DEF Delivered
  <2>4. \A i \in DOMAIN queue'[s] : i < Len(queue'[s]) + 1
    <3>1. \A q \in Seq(Op) : \A i \in DOMAIN q : i < Len(q) + 1
      OBVIOUS
    <3> QED BY <3>1
  <2> QED BY <2>3, <2>4 DEF Delivered, DeliveredAt
<1> QED BY <1>5, <1>6, <1>7, <1>8

(* A step that runs nothing. *)
None == [t \in Stream |-> 0]

(* So do streams that only grow. *)
LEMMA Stays ==
  ASSUME queue \in [Stream -> Seq(Op)], queue' \in [Stream -> Seq(Op)],
         \A t \in Stream : \A i \in DOMAIN queue[t] :
           i \in DOMAIN queue'[t] /\ queue'[t][i] = queue[t][i],
         slot'.frame = slot.frame, NEW x, x \in holds => x \in holds'
  PROVE  /\ \A e : Covered(x, e) => Covered(x, e)'
         /\ \A s \in Stream : Written(x, s) => Written(x, s)'
         /\ \A s \in Stream : \A n \in Nat :
              DeliveredAt(x, s, n) => DeliveredAt(x, s, n)'
         /\ \A s \in Stream : Delivered(x, s) => Delivered(x, s)'
<1>1. None \in [Stream -> {0, 1}] /\ \A t \in Stream : None[t] = 0
  BY DEF None
<1>2. \A t \in Stream : \A i \in DOMAIN queue[t] : i \in Nat /\ 1 <= i /\ i - 0 = i
  BY Queues
<1>3. Moved(None)
  BY <1>1, <1>2 DEF Moved, Same
<1>4. Reaches(None, x)
  BY <1>1, <1>2 DEF Reaches, Writer
<1>5. Passes(None)
  BY <1>1, <1>2 DEF Passes, Waiter
<1>6. /\ \A e : Covered(x, e) => Covered(x, e)'
      /\ \A s \in Stream : Written(x, s) => Written(x, s)'
      /\ \A s \in Stream : \A n \in Nat :
           DeliveredAt(x, s, n) => DeliveredAt(x, s, n - None[s])'
      /\ \A s \in Stream : Delivered(x, s) => Delivered(x, s)'
  BY <1>1, <1>3, <1>4, <1>5, Moves
<1>7. \A s \in Stream : \A n \in Nat : n - None[s] = n
  BY <1>1
<1>8. ASSUME NEW s \in Stream, NEW n \in Nat, DeliveredAt(x, s, n)
      PROVE  DeliveredAt(x, s, n)'
  BY <1>6, <1>7, <1>8
<1> QED BY <1>6, <1>8

---------------------------------------------------------------------------
(* The steps of the device.                                                *)

(* The types of the variables' parts. *)
LEMMA Typed ==
  ASSUME TypeOK
  PROVE  /\ queue \in [Stream -> Seq(Op)] /\ holds \subseteq Buffer
         /\ capacity \in [DOMAIN Memory -> Nat]
         /\ slot \in [frame : 0 .. MaxFrames, image : Image, copies_started : BOOLEAN]
         /\ slot.frame \in 0 .. MaxFrames /\ slot.image \in Image
         /\ slot.frame \in Nat /\ slot.image.tokens \in Nat \ {0}
         /\ slot.copies_started \in BOOLEAN
         /\ caller.phase \in {"idle", "submit"} /\ caller.next \in Nat /\ 1 <= caller.next
         /\ caller.next <= Len(SubmitCalls[slot.image]) + 1
         /\ driver.phase \in {"away", "early", "layout", "copies", "tables", "release",
                              "dc_sizes", "fetch", "assemble"}
         /\ driver.next \in Nat /\ 1 <= driver.next
         /\ driver.next <= Len(StartCopiesCalls[slot.image]) + 1
         /\ driver.landed \in Nat /\ driver.landed <= AC_BATCHES
         /\ driver.visited \in BOOLEAN
         /\ in_flight \in BOOLEAN /\ result \in {"none", "ok", "failed"}
<1>1. /\ queue \in [Stream -> Seq(Op)] /\ holds \subseteq Buffer
      /\ capacity \in [DOMAIN Memory -> Nat]
      /\ in_flight \in BOOLEAN /\ result \in {"none", "ok", "failed"}
      /\ slot \in [frame : 0 .. MaxFrames, image : Image, copies_started : BOOLEAN]
  BY DEF TypeOK
<1>2. /\ slot.frame \in 0 .. MaxFrames /\ slot.image \in Image
      /\ slot.copies_started \in BOOLEAN
  BY <1>1
<1>3. slot.frame \in Nat /\ AC_BATCHES \in Nat
  BY <1>2, BoundsAssumption
<1>4. slot.image.tokens \in Nat \ {0}
  BY <1>2, ImageAssumption
<1>5. /\ Len(SubmitCalls[slot.image]) \in Nat /\ Len(StartCopiesCalls[slot.image]) \in Nat
  <2>1. SubmitCalls[slot.image] \in Seq(OfSubmit)
    BY <1>2, SubmitProgram DEF Starts
  <2>2. StartCopiesCalls[slot.image] \in Seq(OfStartCopies(slot.image))
    BY <1>2, CopiesProgram
  <2> QED BY <2>1, <2>2
<1>6. caller \in [phase : {"idle", "submit"}, next : 1 .. Len(SubmitCalls[slot.image]) + 1]
  BY DEF TypeOK
<1>7. /\ caller.phase \in {"idle", "submit"} /\ caller.next \in Nat /\ 1 <= caller.next
      /\ caller.next <= Len(SubmitCalls[slot.image]) + 1
  BY <1>5, <1>6
<1>8. driver \in [phase : {"away", "early", "layout", "copies", "tables", "release",
                           "dc_sizes", "fetch", "assemble"},
                  next : 1 .. Len(StartCopiesCalls[slot.image]) + 1,
                  landed : 0 .. AC_BATCHES, visited : BOOLEAN]
  BY DEF TypeOK
<1>9. /\ driver.phase \in {"away", "early", "layout", "copies", "tables", "release",
                           "dc_sizes", "fetch", "assemble"}
      /\ driver.next \in Nat /\ 1 <= driver.next
      /\ driver.next <= Len(StartCopiesCalls[slot.image]) + 1
      /\ driver.landed \in Nat /\ driver.landed <= AC_BATCHES
      /\ driver.visited \in BOOLEAN
  BY <1>3, <1>5, <1>8
<1> QED BY <1>1, <1>2, <1>3, <1>4, <1>7, <1>9

(* An operation that runs finds its inputs, so that its outputs hold the *)
(* frame's data; and a wait passes only when its event is reached.       *)
LEMMA ExecuteFinds ==
  ASSUME TypeOK, WaitsInv, AreaInv, InputInv, OpsInv, Clean,
         NEW s \in Stream, Execute(s)
  PROVE  /\ holds \subseteq holds'
         /\ \A x : Reaches(Gap(s), x)
         /\ Passes(Gap(s))
<1> DEFINE op == queue[s][1]
<1>1. /\ queue \in [Stream -> Seq(Op)] /\ 1 \in DOMAIN queue[s] /\ Head(queue[s]) = op
  BY Typed, Pops
<1>2. ASSUME NEW t \in Stream, NEW i \in DOMAIN queue[t], i <= Gap(s)[t]
      PROVE  t = s /\ i = 1
  <2>1. i \in Nat /\ 1 <= i /\ Gap(s)[t] \in {0, 1} /\ (Gap(s)[t] = 1 <=> t = s)
    BY <1>1, Queues, GapIs
  <2> QED BY <1>2, <2>1
<1>3. CASE op.kind = "run"
  <2>1. holds' = IF op.frame = slot.frame /\ op.reads \subseteq holds
                 THEN holds \cup op.writes ELSE holds \ op.writes
    BY <1>1, <1>3 DEF Execute
  <2>2. ASSUME op.frame = slot.frame PROVE op.reads \subseteq holds
    <3>1. CASE s = "input_stream"
      BY <1>1, <3>1, StreamsMay DEF AreaInv
    <3>2. CASE s # "input_stream"
      <4>1. s \in SlotStream
        BY <3>2 DEF SlotStream
      <4>2. \A x \in op.reads : DeliveredAt(x, s, 1)
        BY <1>1, <4>1 DEF OpsInv
      <4>3. \A i \in DOMAIN queue[s] : ~ (i < 1)
        <5>1. \A i \in DOMAIN queue[s] : i \in Nat /\ 1 <= i
          BY <1>1, Queues
        <5> QED BY <5>1
      <4> QED BY <4>2, <4>3 DEF DeliveredAt
    <3> QED BY <3>1, <3>2
  <2>3. ASSUME op.frame # slot.frame PROVE holds' = holds
    <3>1. s \notin SlotStream
      BY <1>1, <2>3 DEF OpsInv
    <3>2. s = "input_stream"
      BY <3>1 DEF SlotStream
    <3>3. op.writes \subseteq {planes}
      BY <1>1, <3>2, StreamsMay DEF AreaInv
    <3>4. planes \notin holds
      BY <1>1, <1>3, <3>2 DEF InputInv
    <3> QED BY <2>1, <2>3, <3>3, <3>4
  <2>4. op.frame = slot.frame => holds' = holds \cup op.writes
    BY <2>1, <2>2
  <2>5. holds \subseteq holds'
    BY <2>3, <2>4
  <2>6. \A x : Reaches(Gap(s), x)
    BY <1>2, <2>4 DEF Reaches, Writer
  <2>7. Passes(Gap(s))
    BY <1>2, <1>3 DEF Passes, Waiter
  <2> QED BY <2>5, <2>6, <2>7
<1>4. CASE op.kind # "run"
  <2>1. holds' = holds
    BY <1>1, <1>4 DEF Execute
  <2>2. \A x : Reaches(Gap(s), x)
    BY <1>2, <1>4 DEF Reaches, Writer
  <2>3. ASSUME NEW e, Waiter(e, s, 1) PROVE ~ Recorded(e)
    <3>1. op.kind = "wait" /\ op.event = e
      BY <2>3 DEF Waiter
    <3>2. op.ahead = 0
      BY <1>1, <3>1 DEF Execute
    <3>3. op.ahead = Pending(e)
      BY <1>1, <3>1 DEF WaitsInv
    <3> QED BY <1>1, <3>2, <3>3, Recordings
  <2>4. Passes(Gap(s))
    BY <1>2, <2>3 DEF Passes, Waiter
  <2> QED BY <2>1, <2>2, <2>4
<1> QED BY <1>3, <1>4

(* Running an operation keeps the counts of the waits and the areas of *)
(* the streams.                                                        *)
LEMMA ExecuteWaits ==
  ASSUME TypeOK, WaitsInv, AreaInv, NEW s \in Stream, Execute(s)
  PROVE  WaitsInv' /\ AreaInv'
<1>1. /\ queue \in [Stream -> Seq(Op)] /\ queue' \in [Stream -> Seq(Op)]
      /\ Arrived(Gap(s))
  BY Typed, Pops
<1>2. ASSUME NEW t \in Stream, NEW i \in DOMAIN queue'[t], queue'[t][i].kind = "wait",
             NEW e, e = queue'[t][i].event
      PROVE  queue'[t][i].ahead = Pending(e)'
  <2> DEFINE j == i + Gap(s)[t]
             o == queue[t][j]
  <2>1. j \in DOMAIN queue[t] /\ Same(queue'[t][i], o)
    BY <1>1 DEF Arrived
  <2>2. queue'[t][i].ahead =
          IF RecordRun(s, o.event) /\ o.ahead > 0 THEN o.ahead - 1 ELSE o.ahead
    BY <1>1, Pops
  <2> HIDE DEF j
  <2>3. o.kind = "wait" /\ o.event = e
    BY <1>2, <2>1 DEF Same
  <2>4. o.ahead = Pending(e)
    BY <2>1, <2>3 DEF WaitsInv
  <2>5. /\ Pending(e)' = IF RecordRun(s, e) THEN Pending(e) - 1 ELSE Pending(e)
        /\ RecordRun(s, e) => Pending(e) > 0
    BY <1>1, PopPending
  <2> QED BY <2>2, <2>3, <2>4, <2>5
<1>3. WaitsInv'
  BY <1>2 DEF WaitsInv
<1>4. ASSUME NEW t \in Stream, NEW i \in DOMAIN queue'[t]
      PROVE  /\ queue'[t][i].reads \subseteq MayRead(t)
             /\ queue'[t][i].writes \subseteq MayWrite(t)
             /\ queue'[t][i].kind # "run" =>
                  queue'[t][i].reads = {} /\ queue'[t][i].writes = {}
             /\ t = "input_stream" => queue'[t][i].kind # "wait"
  <2>1. PICK j \in DOMAIN queue[t] : Same(queue'[t][i], queue[t][j])
    BY <1>1 DEF Arrived
  <2> QED BY <2>1 DEF Same, AreaInv
<1>5. AreaInv'
  BY <1>4 DEF AreaInv
<1> QED BY <1>3, <1>5

(* Only the caller's stream writes the planes. *)
LEMMA PlanesElsewhere ==
  /\ \A s \in SlotStream : planes \notin MayWrite(s)
  /\ \A s \in Stream : s = "input_stream" \/ s \in SlotStream
<1>1. planes \notin Arena
  BY BuffersDiffer
<1>2. \A x : host(x) # planes
  BY BuffersDiffer
<1>3. \A x, b : hostBatch(x, b) # planes
  BY BuffersDiffer
<1>4. planes \notin HostTables /\ planes \notin HostTokens
  BY <1>2, <1>3 DEF HostTables, HostTokens
<1>5. planes # host("dc_sizes") /\ planes # host("dc_body")
  BY <1>2
<1>6. /\ planes \notin MayWrite("stream") /\ planes \notin MayWrite("dc_stream")
      /\ planes \notin MayWrite("copy_stream")
  BY <1>1, <1>4, <1>5, StreamsMay
<1> QED BY <1>6 DEF SlotStream, Stream

(* Running an operation leaves the planes' write the last of the caller's *)
(* stream.                                                                *)
LEMMA ExecuteInput ==
  ASSUME TypeOK, AreaInv, InputInv, NEW s \in Stream, Execute(s)
  PROVE  InputInv'
<1> DEFINE q  == "input_stream"
           op == queue[s][1]
<1>1. /\ queue \in [Stream -> Seq(Op)] /\ queue' \in [Stream -> Seq(Op)]
      /\ 1 \in DOMAIN queue[s] /\ Head(queue[s]) = op
      /\ Moved(Gap(s)) /\ Arrived(Gap(s))
      /\ \A t \in Stream : Len(queue'[t]) = Len(queue[t]) - Gap(s)[t]
  BY Typed, Pops
<1>2. /\ op.kind = "run" => holds' = IF op.frame = slot.frame /\ op.reads \subseteq holds
                                     THEN holds \cup op.writes ELSE holds \ op.writes
      /\ op.kind # "run" => holds' = holds
      /\ slot' = slot
  BY <1>1 DEF Execute
<1>3. q \in Stream
  BY DEF Stream
<1>4. CASE s # q
  <2>1. planes \notin op.writes
    <3>1. op.writes \subseteq MayWrite(s)
      BY <1>1 DEF AreaInv
    <3> QED BY <1>4, <3>1, PlanesElsewhere
  <2>2. planes \in holds' <=> planes \in holds
    BY <1>2, <2>1
  <2>3. Gap(s)[q] = 0
    BY <1>3, <1>4, GapIs
  <2>4. /\ \A i \in DOMAIN queue[q] : i \in DOMAIN queue'[q] /\ Same(queue'[q][i], queue[q][i])
        /\ \A i \in DOMAIN queue'[q] : i \in DOMAIN queue[q] /\ Same(queue'[q][i], queue[q][i])
    <3>1. \A t \in Stream : \A i \in DOMAIN queue[t] : i > 0 /\ i - 0 = i
      BY <1>1, Queues
    <3>2. \A p \in Seq(Op) : \A i \in DOMAIN p : i + 0 = i
      OBVIOUS
    <3>3. \A i \in DOMAIN queue'[q] : i + 0 = i
      BY <1>1, <1>3, <3>2
    <3>4. \A i \in DOMAIN queue[q] :
            i > 0 => i - 0 \in DOMAIN queue'[q] /\ Same(queue'[q][i - 0], queue[q][i])
      BY <1>1, <1>3, <2>3 DEF Moved
    <3>5. \A i \in DOMAIN queue'[q] :
            i + 0 \in DOMAIN queue[q] /\ Same(queue'[q][i], queue[q][i + 0])
      BY <1>1, <1>3, <2>3 DEF Arrived
    <3> QED BY <1>3, <3>1, <3>3, <3>4, <3>5
  <2>5. CASE slot.frame = 0 /\ queue[q] = <<>>
    <3>1. Len(queue'[q]) = 0
      <4>1. Len(queue[q]) = 0
        BY <2>5
      <4> QED BY <1>1, <1>3, <2>3, <4>1
    <3>2. queue'[q] = <<>>
      BY <1>1, <1>3, <3>1, EmptySeq
    <3> QED BY <1>2, <2>5, <3>2 DEF InputInv
  <2>6. CASE planes \in holds /\ \A i \in DOMAIN queue[q] : queue[q][i].kind # "run"
    BY <2>2, <2>4, <2>6 DEF InputInv, Same
  <2>7. CASE planes \notin holds /\ \E j \in DOMAIN queue[q] : PlanesLast(j)
    <3>1. PICK j \in DOMAIN queue[q] : PlanesLast(j)
      BY <2>7
    <3>2. Writer(planes, q, j)'
      BY <1>2, <2>4, <3>1 DEF PlanesLast, Writer, Same
    <3>3. \A k \in DOMAIN queue'[q] : queue'[q][k].kind = "run" /\ k # j =>
            k < j /\ queue'[q][k].frame < slot'.frame
      BY <1>2, <2>4, <3>1 DEF PlanesLast, Same
    <3>4. PlanesLast(j)' /\ j \in DOMAIN queue'[q]
      BY <2>4, <3>1, <3>2, <3>3 DEF PlanesLast
    <3> QED BY <2>2, <2>7, <3>4 DEF InputInv
  <2> QED BY <2>5, <2>6, <2>7 DEF InputInv
<1>5. CASE s = q
  <2>1. Gap(s)[q] = 1
    BY <1>3, <1>5, GapIs
  <2>2. /\ \A i \in DOMAIN queue[q] : i > 1 =>
             i - 1 \in DOMAIN queue'[q] /\ Same(queue'[q][i - 1], queue[q][i])
        /\ \A i \in DOMAIN queue'[q] :
             i + 1 \in DOMAIN queue[q] /\ Same(queue'[q][i], queue[q][i + 1])
    BY <1>1, <1>3, <2>1 DEF Moved, Arrived
  <2>3. \A i \in DOMAIN queue'[q] : i \in Nat /\ 1 <= i
    <3>1. \A p \in Seq(Op) : \A i \in DOMAIN p : i \in Nat /\ 1 <= i
      OBVIOUS
    <3> QED BY <1>1, <1>3, <3>1
  <2>4. queue[q] # <<>>
    BY <1>5 DEF Execute
  <2>5. CASE planes \in holds /\ \A i \in DOMAIN queue[q] : queue[q][i].kind # "run"
    <3>1. holds' = holds
      BY <1>1, <1>2, <1>5, <2>5
    <3>2. \A i \in DOMAIN queue'[q] : queue'[q][i].kind # "run"
      BY <2>2, <2>5 DEF Same
    <3> QED BY <2>5, <3>1, <3>2 DEF InputInv
  <2>6. CASE planes \notin holds /\ \E j \in DOMAIN queue[q] : PlanesLast(j)
    <3>1. PICK j \in DOMAIN queue[q] : PlanesLast(j)
      BY <2>6
    <3>2. j \in Nat /\ 1 <= j
      BY <1>1, <1>3, Queues
    <3>3. CASE j = 1
      <4>1. op.kind = "run" /\ op.frame = slot.frame /\ planes \in op.writes
        BY <1>5, <3>1, <3>3 DEF PlanesLast, Writer
      <4>2. op.reads \subseteq holds
        BY <1>1, <1>5, StreamsMay DEF AreaInv
      <4>3. planes \in holds'
        BY <1>2, <4>1, <4>2
      <4>4. \A i \in DOMAIN queue'[q] : queue'[q][i].kind # "run"
        <5>1. SUFFICES ASSUME NEW i \in DOMAIN queue'[q], queue'[q][i].kind = "run"
                       PROVE  FALSE
          OBVIOUS
        <5>2. i + 1 \in DOMAIN queue[q] /\ queue[q][i + 1].kind = "run"
          BY <2>2, <5>1 DEF Same
        <5>3. i + 1 # 1 /\ ~ (i + 1 < 1)
          BY <2>3
        <5> QED BY <3>1, <3>3, <5>2, <5>3 DEF PlanesLast
      <4> QED BY <4>3, <4>4 DEF InputInv
    <3>4. CASE j # 1
      <4>1. j > 1
        BY <3>2, <3>4
      <4>2. Writer(planes, q, j - 1)' /\ j - 1 \in DOMAIN queue'[q]
        BY <1>2, <2>2, <3>1, <4>1 DEF PlanesLast, Writer, Same
      <4>3. ASSUME NEW k \in DOMAIN queue'[q], queue'[q][k].kind = "run", k # j - 1
            PROVE  k < j - 1 /\ queue'[q][k].frame < slot'.frame
        <5>1. /\ k + 1 \in DOMAIN queue[q] /\ queue[q][k + 1].kind = "run"
              /\ queue'[q][k].frame = queue[q][k + 1].frame
          BY <2>2, <4>3 DEF Same
        <5>2. k + 1 # j
          BY <2>3, <3>2, <4>3
        <5>3. k + 1 < j /\ queue[q][k + 1].frame < slot.frame
          BY <3>1, <5>1, <5>2 DEF PlanesLast
        <5>4. k < j - 1
          BY <2>3, <3>2, <5>3
        <5> QED BY <1>2, <5>1, <5>3, <5>4
      <4>4. PICK m \in DOMAIN queue'[q] : m = j - 1
        BY <4>2
      <4>5. PlanesLast(m)'
        BY <4>2, <4>3, <4>4 DEF PlanesLast
      <4>6. planes \notin holds'
        <5>1. op.kind = "run" => op.frame < slot.frame
          BY <1>1, <1>5, <3>1, <3>4 DEF PlanesLast
        <5>2. op.kind = "run" => op.frame # slot.frame
          <6>1. slot.frame \in Nat
            BY Typed
          <6>2. ~ (slot.frame < slot.frame)
            BY <6>1
          <6> QED BY <5>1, <6>2
        <5> QED BY <1>2, <2>6, <5>2
      <4> QED BY <4>5, <4>6 DEF InputInv
    <3> QED BY <3>3, <3>4
  <2> QED BY <2>4, <2>5, <2>6 DEF InputInv
<1> QED BY <1>4, <1>5

(* The calls made, where the control has not moved. *)
LEMMA SameCalls ==
  ASSUME UNCHANGED <<slot, caller, driver, in_flight>>
  PROVE  /\ Made' = Made /\ Submitted' = Submitted /\ (Clean' <=> Clean)
         /\ SubmitNext' = SubmitNext /\ CopyNext' = CopyNext /\ FetchNext' = FetchNext
         /\ (Copying' <=> Copying)
<1>1. /\ SubmitNext' = SubmitNext /\ CopyNext' = CopyNext /\ FetchNext' = FetchNext
      /\ (Copying' <=> Copying) /\ (Clean' <=> Clean)
  BY DEF SubmitNext, CopyNext, FetchNext, Copying, Clean
<1> QED BY <1>1 DEF Made, Submitted

---------------------------------------------------------------------------
(* The calls that have been made.                                          *)

Programs(image) ==
  Calls(SubmitCalls[image]) \cup Calls(StartCopiesCalls[image])
    \cup Calls(FetchDcCalls[image])

(* A call that enqueues. *)
Enqueues(c) == c.kind \in {"run", "record", "wait"}
Fitting(c) ==
  /\ c.stream \in Stream
  /\ c.event \in Event \cup {NO_EVENT}
  /\ c.kind # "run" => c.event \in Event /\ c.reads = {} /\ c.writes = {}
  /\ c.reads \subseteq MayRead(c.stream) /\ c.writes \subseteq MayWrite(c.stream)
  /\ c.stream = "input_stream" =>
       c.kind = "record" /\ c.event = Once("input_ready")
  /\ c.kind = "record" /\ c.event = Once("input_ready") => c.stream = "input_stream"

(* The events of the calls are events. *)
LEMMA EventsAre ==
  /\ SubmitRecords \subseteq Event /\ Once("dc_body_copied") \in Event
  /\ \A b \in Batch : packed(b) \in Event /\ copied(b) \in Event
<1>1. \A e \in {"input_ready", "forked", "layout_copied", "dc_sizes_copied",
                "dc_body_copied"} : Once(e) \in Event
  BY DEF Event
<1>2. \A b \in Batch : packed(b) \in Event /\ copied(b) \in Event
  BY DEF Event
<1> QED BY <1>1, <1>2 DEF SubmitRecords

(* What submit enqueues keeps to its stream's buffers. *)
LEMMA SubmitFits ==
  ASSUME NEW c \in OfSubmit, Enqueues(c)
  PROVE  Fitting(c)
<1>1. CASE c.kind = "run"
  <2>1. /\ c.stream \in {"stream", "dc_stream"} /\ c.event = NO_EVENT
        /\ c.reads \subseteq MayRead(c.stream) /\ c.writes \subseteq MayWrite(c.stream)
    BY <1>1, SubmitCallIs
  <2> QED BY <1>1, <2>1 DEF Fitting, Stream
<1>2. CASE c.kind = "record"
  <2>1. /\ c.reads = {} /\ c.writes = {}
        /\ \/ c.stream = "input_stream" /\ c.event = Once("input_ready")
           \/ c.stream \in {"stream", "dc_stream"}
                /\ c.event \in SubmitRecords \ {Once("input_ready")}
    BY <1>2, SubmitCallIs
  <2>2. c.event \in Event
    BY <2>1, EventsAre DEF SubmitRecords
  <2> QED BY <1>2, <2>1, <2>2 DEF Fitting, Stream
<1>3. CASE c.kind = "wait"
  <2>1. /\ c.reads = {} /\ c.writes = {}
        /\ c \in {Wait("stream", Once("input_ready")), Wait("dc_stream", Once("forked"))}
    BY <1>3, SubmitCallIs
  <2>2. /\ c.stream \in {"stream", "dc_stream"}
        /\ c.event \in {Once("input_ready"), Once("forked")}
    BY <2>1, CallFields
  <2>3. c.event \in Event
    BY <2>2, EventsAre DEF SubmitRecords
  <2> QED BY <1>3, <2>1, <2>2, <2>3 DEF Fitting, Stream
<1> QED BY <1>1, <1>2, <1>3 DEF Enqueues

(* What start_copies enqueues does, *)
LEMMA CopyFits ==
  ASSUME NEW image \in Image, NEW c \in OfStartCopies(image), Enqueues(c)
  PROVE  Fitting(c) /\ c.stream = "copy_stream"
<1>1. CASE c.kind = "run"
  <2>1. /\ c.stream = "copy_stream" /\ c.event = NO_EVENT
        /\ c.reads \subseteq MayRead("copy_stream") /\ c.writes \subseteq MayWrite("copy_stream")
    BY <1>1, StartCopiesCallIs, StreamsMay
  <2> QED BY <1>1, <2>1 DEF Fitting, Stream
<1>2. CASE c.kind = "record"
  <2>1. PICK b \in Batch : c.event = copied(b)
    BY <1>2, StartCopiesCallIs
  <2>2. c.reads = {} /\ c.writes = {} /\ c.stream = "copy_stream"
    BY <1>2, StartCopiesCallIs
  <2>3. c.event \in Event /\ c.event # Once("input_ready")
    BY <2>1, EventsAre, EventsDiffer
  <2> QED BY <1>2, <2>2, <2>3 DEF Fitting, Stream
<1>3. CASE c.kind = "wait"
  <2>1. PICK b \in Batch : c.event = packed(b)
    BY <1>3, StartCopiesCallIs
  <2>2. c.reads = {} /\ c.writes = {} /\ c.stream = "copy_stream"
    BY <1>3, StartCopiesCallIs
  <2>3. c.event \in Event
    BY <2>1, EventsAre
  <2> QED BY <1>3, <2>2, <2>3 DEF Fitting, Stream
<1> QED BY <1>1, <1>2, <1>3 DEF Enqueues

(* what code_frame enqueues does, *)
LEMMA FetchFits ==
  /\ FetchRun.kind = "run" /\ FetchRun.stream = "dc_stream"
  /\ FetchRun.writes = {host("dc_body")}
  /\ Fitting(FetchRun)
  /\ Fitting(Record("dc_stream", Once("dc_body_copied")))
<1>1. /\ FetchRun.kind = "run" /\ FetchRun.stream = "dc_stream"
      /\ FetchRun.writes = {host("dc_body")} /\ FetchRun.reads = {dev("dc_groups")}
      /\ FetchRun.event = NO_EVENT
  BY CallFields DEF FetchRun, Copy
<1>2. dev("dc_groups") \in Arena
  BY ArenaHas
<1>3. Fitting(FetchRun)
  BY <1>1, <1>2, StreamsMay DEF Fitting, Stream
<1>4. Fitting(Record("dc_stream", Once("dc_body_copied")))
  <2>1. LET c == Record("dc_stream", Once("dc_body_copied"))
        IN  c.kind = "record" /\ c.stream = "dc_stream" /\ c.reads = {} /\ c.writes = {}
            /\ c.event = Once("dc_body_copied")
    BY CallFields
  <2>2. Once("dc_body_copied") # Once("input_ready") /\ Once("dc_body_copied") \in Event
    BY EventsDiffer, EventsAre
  <2> QED BY <2>1, <2>2 DEF Fitting, Stream
<1> QED BY <1>1, <1>3, <1>4

(* and so does every call of a frame. *)
LEMMA ProgramFits ==
  ASSUME NEW image \in Image, NEW c \in Programs(image), Enqueues(c)
  PROVE  Fitting(c)
<1>1. CASE c \in Calls(SubmitCalls[image])
  <2>1. SubmitCalls[image] \in Seq(OfSubmit)
    BY SubmitProgram DEF Starts
  <2>2. c \in OfSubmit
    BY <1>1, <2>1 DEF Calls
  <2> QED BY <2>2, SubmitFits
<1>2. CASE c \in Calls(StartCopiesCalls[image])
  <2>1. StartCopiesCalls[image] \in Seq(OfStartCopies(image))
    BY CopiesProgram
  <2>2. c \in OfStartCopies(image)
    BY <1>2, <2>1 DEF Calls
  <2> QED BY <2>2, CopyFits
<1>3. CASE c \in Calls(FetchDcCalls[image])
  <2> DEFINE p == FetchDcCalls[image]
  <2>1. /\ Len(p) = 3 /\ p[1] = Reserve("dc_body", image.tokens)
        /\ p[2] = FetchRun /\ p[3] = Record("dc_stream", Once("dc_body_copied"))
    BY FetchProgram
  <2> HIDE DEF p
  <2>2. c \in {p[i] : i \in 1 .. 3}
    BY <1>3, <2>1 DEF Calls, p
  <2>3. c \in {p[1], p[2], p[3]}
    BY <2>2
  <2>4. c # p[1]
    BY <2>1, CallFields DEF Enqueues
  <2> QED BY <2>1, <2>3, <2>4, FetchFits
<1> QED BY <1>1, <1>2, <1>3 DEF Programs

(* The calls before a later call include those before an earlier. *)
LEMMA BeforeGrows ==
  ASSUME NEW p, Len(p) \in Nat, NEW m \in Nat, NEW n \in Nat, m <= n
  PROVE  /\ Before(p, m) \subseteq Before(p, n)
         /\ n <= Len(p) + 1 => Before(p, n) \subseteq Calls(p)
         /\ n = Len(p) + 1 => Before(p, n) = Calls(p)
         /\ n >= 1 => Before(p, n + 1) = Before(p, n) \cup {p[n]}
<1>1. Before(p, m) \subseteq Before(p, n)
  BY DEF Before
<1>2. n <= Len(p) + 1 => Before(p, n) \subseteq Calls(p)
  BY DEF Before, Calls
<1>3. n = Len(p) + 1 => Before(p, n) = Calls(p)
  <2>1. (Len(p) + 1) - 1 = Len(p)
    OBVIOUS
  <2> QED BY <2>1 DEF Before, Calls
<1>4. n >= 1 => Before(p, n + 1) = Before(p, n) \cup {p[n]}
  <2>1. ASSUME n >= 1 PROVE 1 .. (n + 1) - 1 = (1 .. n - 1) \cup {n}
    BY <2>1
  <2> QED BY <2>1 DEF Before
<1> QED BY <1>1, <1>2, <1>3, <1>4

(* The calls made so far are calls of the frame. *)
LEMMA MadeWithin ==
  ASSUME TypeOK, ControlInv
  PROVE  /\ SubmitNext \in Nat /\ 1 <= SubmitNext
         /\ SubmitNext <= Len(SubmitCalls[slot.image]) + 1
         /\ CopyNext \in Nat /\ 1 <= CopyNext
         /\ CopyNext <= Len(StartCopiesCalls[slot.image]) + 1
         /\ FetchNext \in Nat /\ 1 <= FetchNext /\ FetchNext <= 4
         /\ Len(SubmitCalls[slot.image]) \in Nat
         /\ Len(StartCopiesCalls[slot.image]) \in Nat
         /\ Len(FetchDcCalls[slot.image]) = 3
         /\ Submitted \subseteq Calls(SubmitCalls[slot.image])
         /\ Made \subseteq Programs(slot.image) /\ Submitted \subseteq Made
<1>1. slot.image \in Image
  BY Typed
<1>2. Len(SubmitCalls[slot.image]) \in Nat
  <2>1. SubmitCalls[slot.image] \in Seq(OfSubmit)
    BY <1>1, SubmitProgram DEF Starts
  <2> QED BY <2>1
<1>3. Len(StartCopiesCalls[slot.image]) \in Nat
  <2>1. StartCopiesCalls[slot.image] \in Seq(OfStartCopies(slot.image))
    BY <1>1, CopiesProgram
  <2> QED BY <2>1
<1>4. Len(FetchDcCalls[slot.image]) = 3
  BY <1>1, FetchProgram
<1>5. /\ caller.next \in Nat /\ 1 <= caller.next
      /\ caller.next <= Len(SubmitCalls[slot.image]) + 1
      /\ driver.next \in Nat /\ 1 <= driver.next
      /\ driver.next <= Len(StartCopiesCalls[slot.image]) + 1
  BY Typed
<1>6. /\ SubmitNext \in Nat /\ 1 <= SubmitNext
      /\ SubmitNext <= Len(SubmitCalls[slot.image]) + 1
  BY <1>2, <1>5 DEF SubmitNext
<1>7. /\ CopyNext \in Nat /\ 1 <= CopyNext
      /\ CopyNext <= Len(StartCopiesCalls[slot.image]) + 1
  BY <1>3, <1>5 DEF CopyNext
<1>8. FetchNext \in Nat /\ 1 <= FetchNext /\ FetchNext <= 4
  BY <1>4, <1>5 DEF FetchNext, ControlInv
<1>9. Submitted \subseteq Calls(SubmitCalls[slot.image])
  BY <1>2, <1>6, BeforeGrows DEF Submitted
<1>10. Before(StartCopiesCalls[slot.image], CopyNext) \subseteq Calls(StartCopiesCalls[slot.image])
  BY <1>3, <1>7, BeforeGrows
<1>11. Before(FetchDcCalls[slot.image], FetchNext) \subseteq Calls(FetchDcCalls[slot.image])
  <2>1. Len(FetchDcCalls[slot.image]) \in Nat /\ FetchNext <= Len(FetchDcCalls[slot.image]) + 1
    BY <1>4, <1>8
  <2> QED BY <1>8, <2>1, BeforeGrows
<1> QED BY <1>2, <1>3, <1>4, <1>6, <1>7, <1>8, <1>9, <1>10, <1>11 DEF Made, Programs

(* They keep to their streams' buffers. *)
LEMMA MadeFits ==
  ASSUME TypeOK, ControlInv, NEW c \in Made, Enqueues(c)
  PROVE  Fitting(c)
BY Typed, MadeWithin, ProgramFits

(* A step keeps what has been promised of a buffer. *)
Keeps(x) ==
  /\ \A e : Covered(x, e) => Covered(x, e)'
  /\ \A s \in Stream : Written(x, s) => Written(x, s)'
  /\ \A s \in Stream : Delivered(x, s) => Delivered(x, s)'
Awaits(e, s) == Recorded(e) => \E i \in DOMAIN queue[s] : Waiter(e, s, i)

(* The buffers a call has filled. *)
Fills(image, c, x) ==
  \/ c.kind = "run" /\ x \in c.writes
  \/ c.kind \in {"record", "wait"} /\ Carries(image, c.event, x)
  \/ c.kind = "texture" /\ x = texture

(* The effect of a call stands if what it fills is kept and what it *)
(* awaits has not come again.                                       *)
LEMMA EffectKept ==
  ASSUME NEW c, Effect(c), slot'.image = slot.image,
         Enqueues(c) => c.stream \in Stream,
         \A x : Fills(slot.image, c, x) => Keeps(x) /\ (x \in holds => x \in holds'),
         c.kind = "wait" => (Awaits(c.event, c.stream) => Awaits(c.event, c.stream)')
  PROVE  Effect(c)'
<1>1. ASSUME c.kind = "run", NEW x \in c.writes PROVE Written(x, c.stream)'
  <2>1. Written(x, c.stream)
    BY <1>1 DEF Effect
  <2>2. Keeps(x) /\ c.stream \in Stream
    BY <1>1 DEF Fills, Enqueues
  <2> QED BY <2>1, <2>2 DEF Keeps
<1>2. ASSUME c.kind = "record", NEW x \in Buffer, Carries(slot.image, c.event, x)
      PROVE  Covered(x, c.event)'
  <2>1. Covered(x, c.event)
    BY <1>2 DEF Effect
  <2>2. Keeps(x)
    BY <1>2 DEF Fills
  <2> QED BY <2>1, <2>2 DEF Keeps
<1>3. ASSUME c.kind = "wait", NEW x \in Buffer, Carries(slot.image, c.event, x)
      PROVE  Delivered(x, c.stream)'
  <2>1. Delivered(x, c.stream)
    BY <1>3 DEF Effect
  <2>2. Keeps(x) /\ c.stream \in Stream
    BY <1>3 DEF Fills, Enqueues
  <2> QED BY <2>1, <2>2 DEF Keeps
<1>4. ASSUME c.kind = "wait" PROVE Awaits(c.event, c.stream)'
  BY <1>4 DEF Effect, Awaits
<1>5. ASSUME c.kind = "texture" PROVE texture \in holds'
  BY <1>5 DEF Effect, Fills
<1> QED BY <1>1, <1>2, <1>3, <1>4, <1>5 DEF Effect, Awaits

(* The device's steps keep the invariant. *)
LEMMA ExecuteStep ==
  ASSUME IInv, NEW s \in Stream, Execute(s)
  PROVE  IInv'
<1>1. /\ TypeOK /\ ControlInv /\ WaitsInv /\ AreaInv /\ InputInv /\ SyncInv
      /\ OpsInv /\ MadeInv /\ LastInv /\ PhaseInv /\ CapacityInv
      /\ OkLeavesNothingRunning
  BY DEF IInv
<1>2. /\ queue \in [Stream -> Seq(Op)] /\ queue' \in [Stream -> Seq(Op)]
      /\ 1 \in DOMAIN queue[s] /\ Head(queue[s]) = queue[s][1]
      /\ Moved(Gap(s)) /\ Arrived(Gap(s))
      /\ \A t \in Stream : Len(queue'[t]) = Len(queue[t]) - Gap(s)[t]
  BY <1>1, Typed, Pops
<1>3. UNCHANGED <<capacity, slot, caller, driver, in_flight, result>>
  BY DEF Execute
<1>4. /\ Made' = Made /\ Submitted' = Submitted /\ (Clean' <=> Clean)
      /\ SubmitNext' = SubmitNext /\ CopyNext' = CopyNext /\ FetchNext' = FetchNext
      /\ (Copying' <=> Copying)
  BY <1>3, SameCalls
<1>5. Gap(s) \in [Stream -> {0, 1}]
  BY DEF Gap
<1>6. \A t \in Stream : queue[t] = <<>> => queue'[t] = <<>>
  <2>1. SUFFICES ASSUME NEW t \in Stream, queue[t] = <<>> PROVE queue'[t] = <<>>
    OBVIOUS
  <2>2. Gap(s)[t] = 0
    <3>1. t # s
      BY <2>1 DEF Execute
    <3> QED BY <3>1, GapIs
  <2>3. Len(queue'[t]) = 0
    <3>1. Len(queue[t]) = 0
      BY <2>1
    <3> QED BY <1>2, <2>2, <3>1
  <2> QED BY <1>2, <2>3, EmptySeq
<1>7. Clean => /\ holds \subseteq holds' /\ Passes(Gap(s))
               /\ \A x : Reaches(Gap(s), x)
  BY <1>1, ExecuteFinds
<1>8. ASSUME Clean, NEW x
      PROVE  /\ Keeps(x)
             /\ \A t \in Stream : \A n \in Nat :
                  DeliveredAt(x, t, n) => DeliveredAt(x, t, n - Gap(s)[t])'
  <2>1. /\ x \in holds => x \in holds'
        /\ Reaches(Gap(s), x) /\ Passes(Gap(s)) /\ slot'.frame = slot.frame
    BY <1>3, <1>7, <1>8
  <2>2. /\ \A e : Covered(x, e) => Covered(x, e)'
        /\ \A t \in Stream : Written(x, t) => Written(x, t)'
        /\ \A t \in Stream : \A n \in Nat :
             DeliveredAt(x, t, n) => DeliveredAt(x, t, n - Gap(s)[t])'
        /\ \A t \in Stream : Delivered(x, t) => Delivered(x, t)'
    BY <1>2, <1>5, <2>1, Moves
  <2> QED BY <2>2 DEF Keeps
<1>9. \A e : Recorded(e)' => Recorded(e)
  BY <1>2, PopPending
<1>10. TypeOK'
  <2>1. holds' \subseteq Buffer
    <3>1. holds \subseteq Buffer /\ queue[s][1].writes \subseteq Buffer
      <4>1. queue[s][1] \in Op
        BY <1>2, Queues
      <4> QED BY <1>1, <4>1, Typed DEF Op
    <3> QED BY <1>2, <3>1 DEF Execute
  <2> QED BY <1>1, <1>2, <1>3, <2>1 DEF TypeOK
<1>11. ControlInv'
  BY <1>1, <1>3 DEF ControlInv
<1>12. WaitsInv' /\ AreaInv'
  BY <1>1, ExecuteWaits
<1>13. InputInv'
  BY <1>1, ExecuteInput
<1>14. SyncInv'
  <2>1. "stream" \in Stream /\ "dc_stream" \in Stream /\ "copy_stream" \in Stream
    BY DEF Stream
  <2> QED BY <1>1, <1>3, <1>6, <2>1 DEF SyncInv
<1>15. OpsInv'
  <2>1. SUFFICES ASSUME Clean, NEW t \in SlotStream, NEW i \in DOMAIN queue'[t]
                 PROVE  /\ queue'[t][i].frame = slot'.frame
                        /\ queue'[t][i].kind = "wait" =>
                             \/ queue'[t][i].event \in {Once("input_ready"), Once("forked")}
                                  /\ Wait(t, queue'[t][i].event) \in Submitted
                             \/ in_flight /\ \E b \in Batch : queue'[t][i].event = packed(b)
                        /\ \A x \in queue'[t][i].reads : DeliveredAt(x, t, i)'
    BY <1>3, <1>4 DEF OpsInv
  <2>2. t \in Stream
    BY DEF SlotStream
  <2>3. /\ i + Gap(s)[t] \in DOMAIN queue[t]
        /\ Same(queue'[t][i], queue[t][i + Gap(s)[t]])
    BY <1>2, <2>2 DEF Arrived
  <2>4. PICK j \in DOMAIN queue[t] : j = i + Gap(s)[t]
    BY <2>3
  <2>5. j \in Nat /\ j - Gap(s)[t] = i
    <3>1. i \in Nat /\ Gap(s)[t] \in Nat
      <4>1. \A q \in Seq(Op) : \A k \in DOMAIN q : k \in Nat
        OBVIOUS
      <4> QED BY <1>2, <1>5, <2>2, <4>1
    <3> QED BY <2>4, <3>1
  <2>6. /\ queue'[t][i].frame = queue[t][j].frame
        /\ queue'[t][i].kind = queue[t][j].kind
        /\ queue'[t][i].event = queue[t][j].event
        /\ queue'[t][i].reads = queue[t][j].reads
    BY <2>3, <2>4 DEF Same
  <2>7. /\ queue[t][j].frame = slot.frame
        /\ queue[t][j].kind = "wait" =>
             \/ queue[t][j].event \in {Once("input_ready"), Once("forked")}
                  /\ Wait(t, queue[t][j].event) \in Submitted
             \/ in_flight /\ \E b \in Batch : queue[t][j].event = packed(b)
        /\ \A x \in queue[t][j].reads : DeliveredAt(x, t, j)
    BY <1>1, <2>1 DEF OpsInv
  <2>8. ASSUME NEW x \in queue'[t][i].reads PROVE DeliveredAt(x, t, i)'
    <3>1. DeliveredAt(x, t, j)
      BY <2>6, <2>7, <2>8
    <3>2. DeliveredAt(x, t, j - Gap(s)[t])'
      BY <1>8, <2>1, <2>2, <2>5, <3>1
    <3> QED BY <2>5, <3>2
  <2> QED BY <1>3, <2>6, <2>7, <2>8
<1>16. MadeInv'
  <2>1. SUFFICES ASSUME Clean, NEW c \in Made PROVE Effect(c)'
    BY <1>4 DEF MadeInv
  <2>2. Effect(c)
    BY <1>1, <2>1 DEF MadeInv
  <2>3. Enqueues(c) => c.stream \in Stream
    BY <1>1, MadeFits DEF Fitting
  <2>4. ASSUME c.kind = "wait", Awaits(c.event, c.stream) PROVE Awaits(c.event, c.stream)'
    <3>1. SUFFICES ASSUME Recorded(c.event)'
                   PROVE  \E i \in DOMAIN queue'[c.stream] : Waiter(c.event, c.stream, i)'
      BY DEF Awaits
    <3>2. Recorded(c.event)
      BY <1>9, <3>1
    <3>3. PICK i \in DOMAIN queue[c.stream] : Waiter(c.event, c.stream, i)
      BY <2>4, <3>2 DEF Awaits
    <3>4. c.stream \in Stream
      BY <2>3, <2>4 DEF Enqueues
    <3>5. ~ (i <= Gap(s)[c.stream])
      BY <1>7, <2>1, <3>2, <3>3, <3>4 DEF Passes
    <3>6. i > Gap(s)[c.stream]
      <4>1. i \in Int /\ Gap(s)[c.stream] \in Int
        BY <1>2, <3>4, Queues, GapIs
      <4>2. \A a, b \in Int : a <= b \/ a > b
        OBVIOUS
      <4> QED BY <3>5, <4>1, <4>2
    <3>7. Waiter(c.event, c.stream, i - Gap(s)[c.stream])'
      BY <1>2, <3>3, <3>4, <3>6 DEF Waiter, Moved, Same
    <3> QED BY <3>7 DEF Waiter
  <2>5. \A x : Keeps(x) /\ (x \in holds => x \in holds')
    BY <1>7, <1>8, <2>1
  <2> QED BY <1>3, <2>2, <2>3, <2>4, <2>5, EffectKept
<1>17. ASSUME NEW t \in Stream, NEW e, LastIs(t, e) PROVE LastIs(t, e)'
  <2>1. SUFFICES ASSUME queue'[t] # <<>>, NEW n, n = Len(queue'[t])
                 PROVE  Marker(e, t, n)'
    BY DEF LastIs
  <2>2. queue[t] # <<>>
    BY <1>6, <2>1
  <2>3. Marker(e, t, Len(queue[t]))
    BY <1>17, <2>2 DEF LastIs
  <2>4. n \in DOMAIN queue'[t]
    <3>1. \A q \in Seq(Op) : q # <<>> => Len(q) \in DOMAIN q
      OBVIOUS
    <3> QED BY <1>2, <2>1, <3>1
  <2>5. n + Gap(s)[t] = Len(queue[t])
    <3>1. Len(queue[t]) \in Int /\ Gap(s)[t] \in Int
      BY <1>2, Queues, GapIs
    <3> QED BY <1>2, <2>1, <3>1
  <2>6. Same(queue'[t][n], queue[t][Len(queue[t])])
    BY <1>2, <2>4, <2>5 DEF Arrived
  <2> QED BY <2>3, <2>4, <2>6 DEF Marker, Same
<1>18. LastInv'
  <2>1. "stream" \in Stream /\ "dc_stream" \in Stream /\ "copy_stream" \in Stream
    BY DEF Stream
  <2>2. /\ Clean /\ SubmitNext > Len(SubmitCalls[slot.image]) =>
             LastIs("stream", packed(LastBatch))'
        /\ in_flight /\ CopyNext > Len(StartCopiesCalls[slot.image]) =>
             LastIs("copy_stream", copied(LastBatch))'
        /\ FetchNext > 3 => LastIs("dc_stream", Once("dc_body_copied"))'
    BY <1>1, <1>17, <2>1 DEF LastInv
  <2> QED BY <1>3, <1>4, <2>2 DEF LastInv
<1>19. PhaseInv'
  <2>1. in_flight => holds \subseteq holds'
    BY <1>7 DEF Clean
  <2>2. driver.phase # "away" => in_flight
    BY <1>1 DEF ControlInv
  <2>3. "dc_stream" \in Stream
    BY DEF Stream
  <2>4. ASSUME driver.phase \in {"release", "dc_sizes", "fetch", "assemble"},
               NEW b \in Batch, b < driver.landed
        PROVE  /\ ~ Recorded(copied(b))'
               /\ \A x \in Buffer : Carries(slot.image, copied(b), x) => x \in holds'
    <3>1. /\ ~ Recorded(copied(b))
          /\ \A x \in Buffer : Carries(slot.image, copied(b), x) => x \in holds
      BY <1>1, <2>4 DEF PhaseInv
    <3> QED BY <1>9, <2>1, <2>2, <2>4, <3>1
  <2>5. in_flight /\ (Copying \/ slot.copies_started) => HostTables \subseteq holds'
    BY <1>1, <2>1 DEF PhaseInv
  <2>6. /\ driver.phase \in {"dc_sizes", "fetch", "assemble"} => driver.landed = AC_BATCHES
        /\ driver.phase \in {"fetch", "assemble"} => host("dc_sizes") \in holds'
        /\ driver.phase = "assemble" => host("dc_body") \in holds' /\ queue'["dc_stream"] = <<>>
    BY <1>1, <1>6, <2>1, <2>2, <2>3 DEF PhaseInv
  <2> QED BY <1>3, <1>4, <2>4, <2>5, <2>6 DEF PhaseInv
<1>20. CapacityInv'
  <2>1. ASSUME \E i \in DOMAIN queue'["copy_stream"] : queue'["copy_stream"][i].kind = "run"
        PROVE  \E i \in DOMAIN queue["copy_stream"] : queue["copy_stream"][i].kind = "run"
    <3>1. PICK i \in DOMAIN queue'["copy_stream"] : queue'["copy_stream"][i].kind = "run"
      BY <2>1
    <3>2. "copy_stream" \in Stream
      BY DEF Stream
    <3> QED BY <1>2, <3>1, <3>2 DEF Arrived, Same
  <2>2. ASSUME \E i \in DOMAIN queue'["dc_stream"] :
                 host("dc_body") \in queue'["dc_stream"][i].writes
        PROVE  \E i \in DOMAIN queue["dc_stream"] :
                 host("dc_body") \in queue["dc_stream"][i].writes
    <3>1. PICK i \in DOMAIN queue'["dc_stream"] :
                 host("dc_body") \in queue'["dc_stream"][i].writes
      BY <2>2
    <3>2. "dc_stream" \in Stream
      BY DEF Stream
    <3> QED BY <1>2, <3>1, <3>2 DEF Arrived, Same
  <2>3. TokensFit' <=> TokensFit
    BY <1>3 DEF TokensFit
  <2> QED BY <1>1, <1>3, <1>4, <2>1, <2>2, <2>3 DEF CapacityInv
<1>21. OkLeavesNothingRunning'
  BY <1>1, <1>3, <1>6 DEF OkLeavesNothingRunning, SlotStream
<1> QED BY <1>10, <1>11, <1>12, <1>13, <1>14, <1>15, <1>16, <1>18, <1>19, <1>20, <1>21 DEF IInv

---------------------------------------------------------------------------
(* A call is made that enqueues.                                           *)

(* A wait is for a record that submit has made, or for a packed batch. *)
Expected(c) ==
  c.kind = "wait" =>
    \/ c.event \in {Once("input_ready"), Once("forked")} /\ Wait(c.stream, c.event) \in Submitted'
    \/ in_flight /\ in_flight' /\ \E b \in Batch : c.event = packed(b)
(* A frame in flight has all its batches packed. *)
Packed(c) == c.kind = "record" /\ in_flight => \A b \in Batch : c.event # packed(b)
(* The calls made are those made before and c. *)
Makes(c) ==
  /\ Clean' /\ Made' \subseteq Made \cup {c} /\ Submitted \subseteq Submitted'
  /\ (in_flight => in_flight')

(* Only the record of the caller's stream is about the planes. *)
LEMMA CarriesPlanes ==
  ASSUME NEW image, NEW e, Carries(image, e, planes)
  PROVE  e = Once("input_ready")
<1>1. /\ planes # dev("frontend") /\ planes # dev("residual")
      /\ \A b \in Batch : planes # devBatch("entries", b) /\ planes # devBatch("raw", b)
  BY ArenaHas, BuffersDiffer
<1>2. /\ \A x : planes # host(x)
      /\ \A x, b : planes # hostBatch(x, b)
  BY BuffersDiffer
<1>3. planes \notin HostTables
  BY <1>2 DEF HostTables
<1> QED BY <1>1, <1>2, <1>3 DEF Carries

(* The operation that a call enqueues. *)
LEMMA OperationIs ==
  ASSUME TypeOK, NEW c, Enqueues(c), Fitting(c), slot.frame > 0
  PROVE  LET op == Operation(c)
         IN  /\ op \in Op /\ op.kind = c.kind /\ op.frame = slot.frame /\ op.event = c.event
             /\ op.reads = c.reads /\ op.writes = c.writes
             /\ c.kind = "wait" => op.ahead = Pending(c.event)
<1> DEFINE op == Operation(c)
<1>1. /\ op.kind = c.kind /\ op.frame = slot.frame /\ op.event = c.event
      /\ op.reads = c.reads /\ op.writes = c.writes
      /\ c.kind = "wait" => op.ahead = Pending(c.event)
  BY DEF Operation
<1>2. op.ahead \in Nat
  <2>1. Pending(c.event) \in Nat
    BY Typed, Recordings
  <2> QED BY <2>1 DEF Operation
<1>3. slot.frame \in 1 .. MaxFrames
  BY Typed
<1>4. c.reads \subseteq Buffer /\ c.writes \subseteq Buffer
  BY StreamsMay DEF Fitting
<1>5. c.kind \in {"run", "record", "wait"} /\ c.event \in Event \cup {NO_EVENT}
  BY DEF Enqueues, Fitting
<1>6. op = [kind |-> op.kind, frame |-> op.frame, event |-> op.event, ahead |-> op.ahead,
            reads |-> op.reads, writes |-> op.writes]
  BY DEF Operation
<1> HIDE DEF op
<1>7. op \in Op
  BY <1>1, <1>2, <1>3, <1>4, <1>5, <1>6 DEF Op
<1> QED BY <1>1, <1>7 DEF op

(* A call supplied by those before it brings about its effect, and *)
(* disturbs none of theirs.                                        *)
LEMMA Enqueued ==
  ASSUME TypeOK, ControlInv, WaitsInv, AreaInv, InputInv, OpsInv, MadeInv, Clean,
         NEW c, Enqueues(c), Fitting(c), Enqueue(c), slot' = slot, slot.frame > 0,
         Makes(c), Supplied(slot.image, Made, c), Expected(c), Packed(c)
  PROVE  WaitsInv' /\ AreaInv' /\ InputInv' /\ OpsInv' /\ MadeInv'
<1> DEFINE t == c.stream
<1>1. t \in Stream
  BY DEF Fitting
<1>2. PICK op \in Op : /\ op = Operation(c)
                       /\ op.kind = c.kind /\ op.frame = slot.frame /\ op.event = c.event
                       /\ op.reads = c.reads /\ op.writes = c.writes
                       /\ c.kind = "wait" => op.ahead = Pending(c.event)
  BY OperationIs
<1>3. Pushed(t, op) /\ holds' = holds
  BY <1>2 DEF Enqueue, Pushed
<1>4. queue \in [Stream -> Seq(Op)]
  BY Typed
<1>5. PICK n \in Nat : n = Len(queue[t]) + 1
  BY <1>1, <1>4, Queues
<1>6. /\ queue' \in [Stream -> Seq(Op)]
      /\ n \in DOMAIN queue'[t] /\ queue'[t][n] = op
      /\ \A s \in Stream : \A i \in DOMAIN queue[s] :
           i \in DOMAIN queue'[s] /\ queue'[s][i] = queue[s][i]
      /\ \A s \in Stream : \A i \in DOMAIN queue'[s] :
           \/ i \in DOMAIN queue[s] /\ queue'[s][i] = queue[s][i]
           \/ s = t /\ i = n /\ queue'[s][i] = op
  <2>1. /\ queue' \in [Stream -> Seq(Op)]
        /\ Len(queue'[t]) = n /\ queue'[t][n] = op
        /\ \A s \in Stream : \A i \in DOMAIN queue[s] :
             i \in DOMAIN queue'[s] /\ queue'[s][i] = queue[s][i]
        /\ \A s \in Stream : \A i \in DOMAIN queue'[s] :
             \/ i \in DOMAIN queue[s] /\ queue'[s][i] = queue[s][i]
             \/ s = t /\ i = Len(queue[s]) + 1 /\ queue'[s][i] = op
    BY <1>1, <1>3, <1>4, <1>5, Pushes
  <2>2. n \in DOMAIN queue'[t]
    <3>1. \A q \in Seq(Op) : Len(q) >= 1 => Len(q) \in DOMAIN q
      OBVIOUS
    <3>2. n >= 1
      BY <1>1, <1>4, <1>5, Queues
    <3> QED BY <1>1, <2>1, <3>1, <3>2
  <2> QED BY <1>5, <2>1, <2>2
<1>7. \A i \in DOMAIN queue[t] : i < n
  <2>1. \A i \in DOMAIN queue[t] : i \in Nat /\ i <= Len(queue[t]) /\ Len(queue[t]) \in Nat
    BY <1>1, <1>4, Queues
  <2> QED BY <1>5, <2>1
<1>8. ASSUME NEW x
      PROVE  /\ Keeps(x)
             /\ \A s \in Stream : \A i \in Nat : DeliveredAt(x, s, i) => DeliveredAt(x, s, i)'
  <2>1. /\ \A e : Covered(x, e) => Covered(x, e)'
        /\ \A s \in Stream : Written(x, s) => Written(x, s)'
        /\ \A s \in Stream : \A i \in Nat : DeliveredAt(x, s, i) => DeliveredAt(x, s, i)'
        /\ \A s \in Stream : Delivered(x, s) => Delivered(x, s)'
    <3>1. slot'.frame = slot.frame /\ (x \in holds => x \in holds')
      BY <1>3
    <3> QED BY <1>4, <1>6, <3>1, Stays
  <2> QED BY <2>1 DEF Keeps
<1>9. ASSUME c.kind = "record", NEW s \in Stream, NEW i \in DOMAIN queue[s],
             queue[s][i].kind = "wait"
      PROVE  queue[s][i].event # c.event
  <2>1. s # "input_stream"
    BY <1>9 DEF AreaInv
  <2>2. s \in SlotStream
    BY <2>1 DEF SlotStream
  <2>3. \/ Wait(s, queue[s][i].event) \in Submitted
        \/ in_flight /\ \E b \in Batch : queue[s][i].event = packed(b)
    BY <1>9, <2>2 DEF OpsInv
  <2>4. CASE Wait(s, queue[s][i].event) \in Submitted
    <3>1. Wait(s, queue[s][i].event) \in Made
      BY <2>4, MadeWithin
    <3>2. \A m \in Made : m.kind = "wait" => m.event # c.event
      BY <1>9 DEF Supplied
    <3> QED BY <3>1, <3>2, CallFields
  <2>5. CASE in_flight /\ \E b \in Batch : queue[s][i].event = packed(b)
    BY <1>9, <2>5 DEF Packed
  <2> QED BY <2>3, <2>4, <2>5
<1>10. WaitsInv'
  <2>1. ASSUME NEW s \in Stream, NEW i \in DOMAIN queue'[s], queue'[s][i].kind = "wait",
               NEW e, e = queue'[s][i].event
        PROVE  queue'[s][i].ahead = Pending(e)'
    <3>1. CASE i \in DOMAIN queue[s] /\ queue'[s][i] = queue[s][i]
      <4>1. op.kind = "record" => op.event # e
        BY <1>2, <1>9, <2>1, <3>1
      <4>2. Pending(e)' = Pending(e)
        BY <1>1, <1>3, <1>4, <4>1, PushPending
      <4> QED BY <2>1, <3>1, <4>2 DEF WaitsInv
    <3>2. CASE s = t /\ i = n /\ queue'[s][i] = op
      <4>1. op.kind = "wait" /\ e = c.event
        BY <1>2, <2>1, <3>2
      <4>2. Pending(e)' = Pending(e)
        BY <1>1, <1>3, <1>4, <4>1, PushPending
      <4> QED BY <1>2, <3>2, <4>1, <4>2
    <3> QED BY <1>6, <3>1, <3>2
  <2> QED BY <2>1 DEF WaitsInv
<1>11. AreaInv'
  <2>1. ASSUME NEW s \in Stream, NEW i \in DOMAIN queue'[s]
        PROVE  /\ queue'[s][i].reads \subseteq MayRead(s)
               /\ queue'[s][i].writes \subseteq MayWrite(s)
               /\ queue'[s][i].kind # "run" =>
                    queue'[s][i].reads = {} /\ queue'[s][i].writes = {}
               /\ s = "input_stream" => queue'[s][i].kind # "wait"
    <3>1. CASE i \in DOMAIN queue[s] /\ queue'[s][i] = queue[s][i]
      BY <3>1 DEF AreaInv
    <3>2. CASE s = t /\ i = n /\ queue'[s][i] = op
      BY <1>2, <3>2 DEF Fitting
    <3> QED BY <1>6, <3>1, <3>2
  <2> QED BY <2>1 DEF AreaInv
<1>12. ASSUME NEW i \in DOMAIN queue'["input_stream"],
              queue'["input_stream"][i].kind = "run"
       PROVE  i \in DOMAIN queue["input_stream"]
              /\ queue'["input_stream"][i] = queue["input_stream"][i]
  <2>1. "input_stream" \in Stream
    BY DEF Stream
  <2>2. t = "input_stream" => op.kind # "run"
    BY <1>2 DEF Fitting
  <2> QED BY <1>6, <1>12, <2>1, <2>2
<1>13. \/ /\ planes \in holds
          /\ \A i \in DOMAIN queue["input_stream"] : queue["input_stream"][i].kind # "run"
       \/ planes \notin holds /\ \E j \in DOMAIN queue["input_stream"] : PlanesLast(j)
  <2>1. slot.frame # 0
    OBVIOUS
  <2> QED BY <2>1 DEF InputInv
<1>14. InputInv'
  <2>1. CASE /\ planes \in holds
             /\ \A i \in DOMAIN queue["input_stream"] : queue["input_stream"][i].kind # "run"
    BY <1>3, <1>12, <2>1 DEF InputInv
  <2>2. CASE planes \notin holds /\ \E j \in DOMAIN queue["input_stream"] : PlanesLast(j)
    <3>1. PICK j \in DOMAIN queue["input_stream"] : PlanesLast(j)
      BY <2>2
    <3>2. "input_stream" \in Stream
      BY DEF Stream
    <3>3. j \in DOMAIN queue'["input_stream"] /\ Writer(planes, "input_stream", j)'
      BY <1>6, <3>1, <3>2 DEF PlanesLast, Writer
    <3>4. \A k \in DOMAIN queue'["input_stream"] :
            queue'["input_stream"][k].kind = "run" /\ k # j =>
              k < j /\ queue'["input_stream"][k].frame < slot'.frame
      BY <1>12, <3>1 DEF PlanesLast
    <3>5. PlanesLast(j)'
      BY <3>3, <3>4 DEF PlanesLast
    <3> QED BY <1>3, <2>2, <3>3, <3>5 DEF InputInv
  <2> QED BY <1>13, <2>1, <2>2
<1>15. ASSUME NEW x, Source(slot.image, Made, t, x), x \in Buffer
       PROVE  DeliveredAt(x, t, n)
  <2>1. CASE Ran(Made, t, x)
    <3>1. PICK m \in Made : m.kind = "run" /\ m.stream = t /\ x \in m.writes
      BY <2>1 DEF Ran
    <3>2. Written(x, t)
      BY <3>1 DEF MadeInv, Effect
    <3> QED BY <1>7, <3>2 DEF Written, DeliveredAt
  <2>2. CASE Waited(slot.image, Made, t, x)
    <3>1. PICK m \in Made : m.kind = "wait" /\ m.stream = t /\ Carries(slot.image, m.event, x)
      BY <2>2 DEF Waited
    <3>2. Delivered(x, t)
      BY <1>15, <3>1 DEF MadeInv, Effect
    <3> QED BY <1>5, <3>2 DEF Delivered
  <2>3. CASE x = texture /\ \E m \in Made : m.kind = "texture"
    <3>1. texture \in holds
      BY <2>3 DEF MadeInv, Effect
    <3> QED BY <2>3, <3>1 DEF DeliveredAt
  <2> QED BY <1>15, <2>1, <2>2, <2>3 DEF Source
<1>16. OpsInv'
  <2>1. SUFFICES ASSUME NEW s \in SlotStream, NEW i \in DOMAIN queue'[s]
                 PROVE  /\ queue'[s][i].frame = slot'.frame
                        /\ queue'[s][i].kind = "wait" =>
                             \/ queue'[s][i].event \in {Once("input_ready"), Once("forked")}
                                  /\ Wait(s, queue'[s][i].event) \in Submitted'
                             \/ in_flight' /\ \E b \in Batch : queue'[s][i].event = packed(b)
                        /\ \A x \in queue'[s][i].reads : DeliveredAt(x, s, i)'
    BY DEF OpsInv
  <2>2. s \in Stream
    BY DEF SlotStream
  <2>3. CASE i \in DOMAIN queue[s] /\ queue'[s][i] = queue[s][i]
    <3>1. /\ queue[s][i].frame = slot.frame
          /\ queue[s][i].kind = "wait" =>
               \/ queue[s][i].event \in {Once("input_ready"), Once("forked")}
                    /\ Wait(s, queue[s][i].event) \in Submitted
               \/ in_flight /\ \E b \in Batch : queue[s][i].event = packed(b)
          /\ \A x \in queue[s][i].reads : DeliveredAt(x, s, i)
      BY <2>1, <2>3 DEF OpsInv
    <3>2. i \in Nat
      BY <1>4, <2>2, <2>3, Queues
    <3>3. \A x \in queue'[s][i].reads : DeliveredAt(x, s, i)'
      BY <1>8, <2>2, <2>3, <3>1, <3>2
    <3> QED BY <2>3, <3>1, <3>3 DEF Makes
  <2>4. CASE s = t /\ i = n /\ queue'[s][i] = op
    <3>1. ASSUME NEW x \in op.reads PROVE DeliveredAt(x, t, n)'
      <4>1. x \in Buffer
        BY <3>1 DEF Op
      <4>2. c.kind = "run"
        BY <1>2, <3>1 DEF Fitting
      <4>3. Source(slot.image, Made, t, x)
        BY <1>2, <3>1, <4>2 DEF Supplied
      <4>4. DeliveredAt(x, t, n)
        BY <1>15, <4>1, <4>3
      <4> QED BY <1>1, <1>8, <4>4
    <3>2. op.kind = "wait" =>
            \/ op.event \in {Once("input_ready"), Once("forked")}
                 /\ Wait(t, op.event) \in Submitted'
            \/ in_flight' /\ \E b \in Batch : op.event = packed(b)
      BY <1>2 DEF Expected
    <3> QED BY <1>2, <2>4, <3>1, <3>2
  <2> QED BY <1>6, <2>2, <2>3, <2>4
<1>17. Effect(c)'
  <2>1. ASSUME c.kind = "run", NEW x \in c.writes PROVE Written(x, t)'
    <3>1. Writer(x, t, n)'
      BY <1>2, <1>6, <2>1 DEF Writer
    <3> QED BY <1>6, <3>1 DEF Written
  <2>2. ASSUME c.kind = "record", NEW x \in Buffer, Carries(slot.image, c.event, x)
        PROVE  Covered(x, c.event)'
    <3>1. Marker(c.event, t, n)'
      BY <1>2, <1>6, <2>2 DEF Marker
    <3>2. \A i \in DOMAIN queue[t] : Writer(x, t, i) => Writer(x, t, i)'
      BY <1>1, <1>6 DEF Writer
    <3>3. ASSUME Written(x, t) PROVE Covered(x, c.event)'
      <4>1. CASE x \in holds
        BY <1>3, <4>1 DEF Covered
      <4>2. CASE \E i \in DOMAIN queue[t] : Writer(x, t, i)
        <5>1. PICK i \in DOMAIN queue[t] : Writer(x, t, i)
          BY <4>2
        <5>2. i < n /\ i \in DOMAIN queue'[t] /\ Writer(x, t, i)'
          BY <1>1, <1>6, <1>7, <3>2, <5>1
        <5> QED BY <1>1, <1>6, <3>1, <5>2 DEF Covered, PendingBehind
      <4> QED BY <3>3, <4>1, <4>2 DEF Written
    <3>4. CASE Ran(Made, t, x)
      <4>1. PICK m \in Made : m.kind = "run" /\ m.stream = t /\ x \in m.writes
        BY <3>4 DEF Ran
      <4>2. Written(x, t)
        BY <4>1 DEF MadeInv, Effect
      <4> QED BY <3>3, <4>2
    <3>5. CASE x = planes
      <4>1. c.event = Once("input_ready")
        BY <2>2, <3>5, CarriesPlanes
      <4>2. t = "input_stream"
        BY <2>2, <4>1 DEF Fitting
      <4>3. Written(x, t)
        BY <1>13, <3>5, <4>2 DEF Written, PlanesLast
      <4> QED BY <3>3, <4>3
    <3> QED BY <2>2, <3>4, <3>5 DEF Supplied
  <2>3. ASSUME c.kind = "wait"
        PROVE  /\ \E i \in DOMAIN queue'[t] : Waiter(c.event, t, i)'
               /\ \A x \in Buffer : Carries(slot.image, c.event, x) => Delivered(x, t)'
    <3>1. Waiter(c.event, t, n)' /\ c.event \in Event
      BY <1>2, <1>6, <2>3 DEF Waiter, Fitting
    <3>2. PICK m \in Made : m.kind = "record" /\ m.event = c.event
      BY <2>3 DEF Supplied
    <3>3. ASSUME NEW x \in Buffer, Carries(slot.image, c.event, x) PROVE Delivered(x, t)'
      <4>1. Covered(x, c.event)
        BY <3>2, <3>3 DEF MadeInv, Effect
      <4>2. Covered(x, c.event)'
        BY <1>8, <4>1 DEF Keeps
      <4>3. \A i \in DOMAIN queue'[t] : i < Len(queue'[t]) + 1
        <5>1. \A q \in Seq(Op) : \A i \in DOMAIN q : i < Len(q) + 1
          OBVIOUS
        <5> QED BY <1>1, <1>6, <5>1
      <4>4. CASE x \in holds'
        BY <4>4 DEF Delivered, DeliveredAt
      <4>5. CASE PendingBehind(x, c.event)'
        BY <1>6, <3>1, <4>3, <4>5 DEF Delivered, DeliveredAt
      <4> QED BY <4>2, <4>4, <4>5 DEF Covered
    <3> QED BY <1>6, <3>1, <3>3
  <2>4. c.kind # "texture"
    BY DEF Enqueues
  <2> QED BY <2>1, <2>2, <2>3, <2>4 DEF Effect
<1>18. MadeInv'
  <2>1. ASSUME NEW m \in Made PROVE Effect(m)'
    <3>1. Effect(m)
      BY <2>1 DEF MadeInv
    <3>2. Enqueues(m) => m.stream \in Stream
      BY MadeFits DEF Fitting
    <3>3. ASSUME m.kind = "wait", Awaits(m.event, m.stream)
          PROVE  Awaits(m.event, m.stream)'
      <4>1. op.kind = "record" => op.event # m.event
        BY <1>2, <3>3 DEF Supplied
      <4>2. Recorded(m.event)' <=> Recorded(m.event)
        BY <1>1, <1>3, <1>4, <4>1, PushPending
      <4>3. \A i \in DOMAIN queue[m.stream] :
              Waiter(m.event, m.stream, i) => Waiter(m.event, m.stream, i)'
        BY <1>6, <3>2, <3>3 DEF Waiter, Enqueues
      <4> QED BY <3>3, <4>2, <4>3 DEF Awaits, Waiter
    <3>4. \A x : Keeps(x) /\ (x \in holds => x \in holds')
      BY <1>3, <1>8
    <3> QED BY <3>1, <3>2, <3>3, <3>4, EffectKept
  <2> QED BY <1>17, <2>1 DEF MadeInv, Makes
<1> QED BY <1>10, <1>11, <1>14, <1>16, <1>18

---------------------------------------------------------------------------
(* A step that neither enqueues nor runs an operation; the buffers L may   *)
(* lose their data.                                                        *)

Loses(L) ==
  /\ holds \ L \subseteq holds' /\ planes \notin L /\ (planes \in holds' => planes \in holds)
  /\ Clean => /\ \A m \in Made : \A x \in L : ~ Fills(slot.image, m, x)
              /\ \A s \in SlotStream : queue[s] = <<>> \/ L \cap MayRead(s) = {}
Goes ==
  Clean' =>
    /\ Clean /\ Submitted \subseteq Submitted' /\ (in_flight => in_flight')
    /\ \A m \in Made' : m \in Made \/ Effect(m)'

(* What is pending is a matter of the queues alone. *)
LEMMA SameQueues ==
  ASSUME queue' = queue
  PROVE  \A e : Pending(e)' = Pending(e) /\ (Recorded(e)' <=> Recorded(e))
BY DEF Pending, Records, Recorded, Marker

(* A step that leaves the queues keeps the parts about them. *)
LEMMA StillQueues ==
  ASSUME TypeOK, WaitsInv, AreaInv, InputInv, queue' = queue, slot'.frame = slot.frame,
         planes \in holds' <=> planes \in holds
  PROVE  WaitsInv' /\ AreaInv' /\ InputInv'
<1>1. \A e : Pending(e)' = Pending(e)
  BY SameQueues
<1>2. WaitsInv'
  <2>1. ASSUME NEW s \in Stream, NEW i \in DOMAIN queue[s], queue[s][i].kind = "wait",
               NEW e, e = queue[s][i].event
        PROVE  queue[s][i].ahead = Pending(e)'
    BY <1>1, <2>1 DEF WaitsInv
  <2> QED BY <2>1 DEF WaitsInv
<1>3. AreaInv'
  BY DEF AreaInv
<1>4. InputInv'
  <2>1. \A j : PlanesLast(j)' <=> PlanesLast(j)
    BY DEF PlanesLast, Writer
  <2> QED BY <2>1 DEF InputInv
<1> QED BY <1>2, <1>3, <1>4

(* So does a step that frees memory L which nothing made so far fills or *)
(* will read.                                                            *)
LEMMA Unmoved ==
  ASSUME TypeOK, ControlInv, WaitsInv, AreaInv, InputInv, OpsInv, MadeInv,
         queue' = queue, slot'.frame = slot.frame, slot'.image = slot.image,
         NEW L, Loses(L), Goes
  PROVE  WaitsInv' /\ AreaInv' /\ InputInv' /\ OpsInv' /\ MadeInv'
<1>1. queue \in [Stream -> Seq(Op)]
  BY Typed
<1>2. \A e : Pending(e)' = Pending(e) /\ (Recorded(e)' <=> Recorded(e))
  BY SameQueues
<1>3. WaitsInv' /\ AreaInv' /\ InputInv'
  <2>1. planes \in holds' <=> planes \in holds
    BY DEF Loses
  <2> QED BY <2>1, StillQueues
<1>6. ASSUME NEW x, x \notin L
      PROVE  /\ Keeps(x) /\ (x \in holds => x \in holds')
             /\ \A s \in Stream : \A i \in Nat : DeliveredAt(x, s, i) => DeliveredAt(x, s, i)'
  <2>1. x \in holds => x \in holds'
    BY <1>6 DEF Loses
  <2>2. \A t \in Stream : \A i \in DOMAIN queue[t] :
          i \in DOMAIN queue'[t] /\ queue'[t][i] = queue[t][i]
    OBVIOUS
  <2>3. queue' \in [Stream -> Seq(Op)]
    BY <1>1
  <2>4. /\ \A e : Covered(x, e) => Covered(x, e)'
        /\ \A s \in Stream : Written(x, s) => Written(x, s)'
        /\ \A s \in Stream : \A i \in Nat : DeliveredAt(x, s, i) => DeliveredAt(x, s, i)'
        /\ \A s \in Stream : Delivered(x, s) => Delivered(x, s)'
    BY <1>1, <2>1, <2>2, <2>3, Stays
  <2> QED BY <2>1, <2>4 DEF Keeps
<1>7. OpsInv'
  <2>1. SUFFICES ASSUME Clean', NEW s \in SlotStream, NEW i \in DOMAIN queue[s]
                 PROVE  /\ queue[s][i].frame = slot.frame
                        /\ queue[s][i].kind = "wait" =>
                             \/ queue[s][i].event \in {Once("input_ready"), Once("forked")}
                                  /\ Wait(s, queue[s][i].event) \in Submitted'
                             \/ in_flight' /\ \E b \in Batch : queue[s][i].event = packed(b)
                        /\ \A x \in queue[s][i].reads : DeliveredAt(x, s, i)'
    BY DEF OpsInv
  <2>2. Clean /\ Submitted \subseteq Submitted' /\ (in_flight => in_flight')
    BY <2>1 DEF Goes
  <2>3. /\ queue[s][i].frame = slot.frame
        /\ queue[s][i].kind = "wait" =>
             \/ queue[s][i].event \in {Once("input_ready"), Once("forked")}
                  /\ Wait(s, queue[s][i].event) \in Submitted
             \/ in_flight /\ \E b \in Batch : queue[s][i].event = packed(b)
        /\ \A x \in queue[s][i].reads : DeliveredAt(x, s, i)
    BY <2>1, <2>2 DEF OpsInv
  <2>4. s \in Stream
    BY DEF SlotStream
  <2>5. ASSUME NEW x \in queue[s][i].reads PROVE DeliveredAt(x, s, i)'
    <3>1. queue[s] # <<>>
      BY <1>1, <2>1, <2>4
    <3>2. x \in MayRead(s)
      BY <2>4, <2>5 DEF AreaInv
    <3>3. x \notin L
      BY <2>2, <3>1, <3>2 DEF Loses
    <3>4. i \in Nat
      BY <1>1, <2>4, Queues
    <3> QED BY <1>6, <2>3, <2>4, <2>5, <3>3, <3>4
  <2> QED BY <2>2, <2>3, <2>5
<1>8. MadeInv'
  <2>1. SUFFICES ASSUME Clean', NEW m \in Made' PROVE Effect(m)'
    BY DEF MadeInv
  <2>2. Clean /\ (m \in Made \/ Effect(m)')
    BY <2>1 DEF Goes
  <2>3. CASE m \in Made
    <3>1. Effect(m)
      BY <2>2, <2>3 DEF MadeInv
    <3>2. Enqueues(m) => m.stream \in Stream
      BY <2>3, MadeFits DEF Fitting
    <3>3. m.kind = "wait" => (Awaits(m.event, m.stream) => Awaits(m.event, m.stream)')
      BY <1>2 DEF Awaits, Waiter
    <3>4. \A x : Fills(slot.image, m, x) => Keeps(x) /\ (x \in holds => x \in holds')
      BY <1>6, <2>2, <2>3 DEF Loses
    <3> QED BY <3>1, <3>2, <3>3, <3>4, EffectKept
  <2> QED BY <2>2, <2>3
<1> QED BY <1>3, <1>7, <1>8

---------------------------------------------------------------------------
(* The initial state, and the steps of the caller.                         *)

(* The invariant holds initially. *)
LEMMA InitHolds == Init => IInv
<1>1. SUFFICES ASSUME Init PROVE IInv
  OBVIOUS
<1>2. /\ queue = [s \in Stream |-> <<>>] /\ holds = {}
      /\ capacity = [a \in DOMAIN Memory |-> 0]
      /\ caller = [phase |-> "idle", next |-> 1]
      /\ driver = [phase |-> "away", next |-> 1, landed |-> 0, visited |-> FALSE]
      /\ ~ in_flight /\ result = "none"
      /\ in_flight \in BOOLEAN
  BY <1>1 DEF Init
<1>3. PICK image \in Image : slot = [frame |-> 0, image |-> image, copies_started |-> FALSE]
  <2> DEFINE image == CHOOSE i \in Image : TRUE
  <2>1. image \in Image
    BY ImageAssumption
  <2>2. slot = [frame |-> 0, image |-> image, copies_started |-> FALSE]
    BY <1>1 DEF Init
  <2> HIDE DEF image
  <2> QED BY <2>1, <2>2
<1>4. \A s \in Stream : queue[s] = <<>>
  BY <1>2
<1>5. \A s \in Stream : \A i \in DOMAIN queue[s] : FALSE
  BY <1>4
<1>6. TypeOK
  <2>1. queue \in [Stream -> Seq(Op)]
    <3>1. <<>> \in Seq(Op)
      OBVIOUS
    <3> QED BY <1>2, <3>1
  <2>2. capacity \in [DOMAIN Memory -> Nat] /\ holds \subseteq Buffer
    BY <1>2
  <2>3. slot \in [frame : 0 .. MaxFrames, image : Image, copies_started : BOOLEAN]
    <3>1. 0 \in 0 .. MaxFrames
      BY BoundsAssumption
    <3> QED BY <1>3, <3>1
  <2>4. /\ 1 \in 1 .. Len(SubmitCalls[slot.image]) + 1
        /\ 1 \in 1 .. Len(StartCopiesCalls[slot.image]) + 1
    <3>1. SubmitCalls[slot.image] \in Seq(OfSubmit)
      BY <1>3, SubmitProgram DEF Starts
    <3>2. StartCopiesCalls[slot.image] \in Seq(OfStartCopies(slot.image))
      BY <1>3, CopiesProgram
    <3>3. Len(SubmitCalls[slot.image]) \in Nat /\ Len(StartCopiesCalls[slot.image]) \in Nat
      BY <3>1, <3>2
    <3> QED BY <3>3
  <2>5. caller \in [phase : {"idle", "submit"}, next : 1 .. Len(SubmitCalls[slot.image]) + 1]
    BY <1>2, <2>4
  <2>6. 0 \in 0 .. AC_BATCHES
    BY BoundsAssumption
  <2>7. driver \in [phase : {"away", "early", "layout", "copies", "tables", "release",
                             "dc_sizes", "fetch", "assemble"},
                    next : 1 .. Len(StartCopiesCalls[slot.image]) + 1,
                    landed : 0 .. AC_BATCHES, visited : BOOLEAN]
    BY <1>2, <2>4, <2>6
  <2> QED BY <1>2, <2>1, <2>2, <2>3, <2>5, <2>7 DEF TypeOK
<1>7. /\ driver.phase = "away" /\ driver.next = 1 /\ caller.phase = "idle"
      /\ caller.next = 1 /\ ~ in_flight /\ result = "none" /\ slot.frame = 0
      /\ ~ slot.copies_started
  BY <1>2, <1>3
<1>8. ~ Clean /\ ~ Copying /\ FetchNext = 1
  BY <1>7 DEF Clean, Copying, FetchNext
<1>9. ControlInv
  BY <1>7 DEF ControlInv
<1>10. WaitsInv /\ AreaInv
  BY <1>5 DEF WaitsInv, AreaInv
<1>11. InputInv
  BY <1>4, <1>7 DEF InputInv, Stream
<1>12. SyncInv /\ OkLeavesNothingRunning /\ PhaseInv
  BY <1>7 DEF SyncInv, OkLeavesNothingRunning, PhaseInv
<1>13. OpsInv /\ MadeInv /\ LastInv
  BY <1>7, <1>8 DEF OpsInv, MadeInv, LastInv
<1>14. CapacityInv
  <2>1. capacity["chroma"] = 0
    BY <1>2, MemoryIs
  <2> QED BY <1>8, <2>1 DEF CapacityInv
<1> QED BY <1>6, <1>9, <1>10, <1>11, <1>12, <1>13, <1>14 DEF IInv

(* Beginning a submit keeps the invariant: the frame's planes are now to *)
(* come.                                                                 *)
LEMMA BeginStep ==
  ASSUME IInv, NEW image \in Image, Begin(image)
  PROVE  IInv'
<1>1. /\ TypeOK /\ ControlInv /\ WaitsInv /\ AreaInv /\ InputInv /\ CapacityInv
  BY DEF IInv
<1>2. /\ caller.phase = "idle" /\ ~ in_flight /\ slot.frame < MaxFrames
      /\ holds' = {} /\ result' = "none" /\ capacity' = capacity /\ in_flight' = in_flight
      /\ slot' = [frame |-> slot.frame + 1, image |-> image, copies_started |-> FALSE]
      /\ caller' = [phase |-> "submit", next |-> 1]
      /\ driver' = [driver EXCEPT !.visited = FALSE]
  BY DEF Begin
<1> DEFINE t == "input_stream"
           f == slot.frame + 1
<1>3. PICK op : op = [kind |-> "run", frame |-> f, event |-> NO_EVENT, ahead |-> 0,
                      reads |-> {}, writes |-> {planes}]
  OBVIOUS
<1>4. Pushed(t, op)
  BY <1>3 DEF Begin, Pushed
<1>5. op \in Op /\ op.kind = "run" /\ op.frame = f /\ op.reads = {} /\ op.writes = {planes}
  <2>1. f \in 1 .. MaxFrames
    <3>1. slot.frame \in Nat /\ MaxFrames \in Nat
      BY <1>1, Typed, BoundsAssumption
    <3> QED BY <1>2, <3>1
  <2>2. {planes} \subseteq Buffer
    BY BuffersAre
  <2> QED BY <1>3, <2>1, <2>2 DEF Op
<1>6. queue \in [Stream -> Seq(Op)] /\ t \in Stream /\ slot.frame \in Nat
  BY <1>1, Typed DEF Stream
<1>7. PICK n \in Nat : n = Len(queue[t]) + 1
  BY <1>6, Queues
<1>8. /\ queue' \in [Stream -> Seq(Op)]
      /\ Len(queue'[t]) = n /\ queue'[t][n] = op
      /\ \A s \in Stream : \A i \in DOMAIN queue[s] :
           i \in DOMAIN queue'[s] /\ queue'[s][i] = queue[s][i]
      /\ \A s \in Stream : \A i \in DOMAIN queue'[s] :
           \/ i \in DOMAIN queue[s] /\ queue'[s][i] = queue[s][i]
           \/ s = t /\ i = Len(queue[s]) + 1 /\ queue'[s][i] = op
  BY <1>4, <1>5, <1>6, <1>7, Pushes
<1>9. n \in DOMAIN queue'[t]
  <2>1. \A q \in Seq(Op) : Len(q) >= 1 => Len(q) \in DOMAIN q
    OBVIOUS
  <2>2. n >= 1
    BY <1>6, <1>7, Queues
  <2> QED BY <1>6, <1>8, <2>1, <2>2
<1>10. /\ driver.phase = "away" /\ driver.next = 1
  BY <1>1, <1>2, Typed DEF ControlInv
<1>11. /\ driver'.phase = "away" /\ driver'.next = 1
       /\ driver'.landed = driver.landed /\ driver'.visited = FALSE
       /\ DOMAIN driver' = DOMAIN driver
  <2>1. driver \in [phase : {"away", "early", "layout", "copies", "tables", "release",
                             "dc_sizes", "fetch", "assemble"},
                    next : 1 .. Len(StartCopiesCalls[slot.image]) + 1,
                    landed : 0 .. AC_BATCHES, visited : BOOLEAN]
    BY <1>1 DEF TypeOK
  <2> QED BY <1>2, <1>10, <2>1
<1>12. /\ slot'.frame = f /\ slot'.image = image /\ slot'.copies_started = FALSE
       /\ caller'.phase = "submit" /\ caller'.next = 1
  BY <1>2
<1>13. TypeOK'
  <2>1. slot' \in [frame : 0 .. MaxFrames, image : Image, copies_started : BOOLEAN]
    <3>1. f \in 0 .. MaxFrames
      <4>1. MaxFrames \in Nat
        BY BoundsAssumption
      <4> QED BY <1>2, <1>6, <4>1
    <3> QED BY <1>2, <3>1
  <2>2. /\ 1 \in 1 .. Len(SubmitCalls[image]) + 1
        /\ 1 \in 1 .. Len(StartCopiesCalls[image]) + 1
    <3>1. SubmitCalls[image] \in Seq(OfSubmit)
      BY SubmitProgram DEF Starts
    <3>2. StartCopiesCalls[image] \in Seq(OfStartCopies(image))
      BY CopiesProgram
    <3>3. Len(SubmitCalls[image]) \in Nat /\ Len(StartCopiesCalls[image]) \in Nat
      BY <3>1, <3>2
    <3> QED BY <3>3
  <2>3. caller' \in [phase : {"idle", "submit"}, next : 1 .. Len(SubmitCalls[slot'.image]) + 1]
    BY <1>2, <1>12, <2>2
  <2>4. driver' \in [phase : {"away", "early", "layout", "copies", "tables", "release",
                              "dc_sizes", "fetch", "assemble"},
                     next : 1 .. Len(StartCopiesCalls[slot'.image]) + 1,
                     landed : 0 .. AC_BATCHES, visited : BOOLEAN]
    <3>1. driver = [phase |-> driver.phase, next |-> driver.next, landed |-> driver.landed,
                    visited |-> driver.visited] /\ driver.landed \in 0 .. AC_BATCHES
      BY <1>1 DEF TypeOK
    <3>2. driver' = [phase |-> "away", next |-> 1, landed |-> driver.landed,
                     visited |-> FALSE]
      BY <1>2, <1>10, <3>1
    <3> QED BY <1>12, <2>2, <3>1, <3>2
  <2>5. in_flight' \in BOOLEAN /\ result' \in {"none", "ok", "failed"}
        /\ holds' \subseteq Buffer /\ capacity' \in [DOMAIN Memory -> Nat]
    BY <1>1, <1>2, Typed
  <2> QED BY <1>8, <2>1, <2>3, <2>4, <2>5 DEF TypeOK
<1>14. ~ Clean' /\ ~ Copying' /\ FetchNext' = 1
  BY <1>2, <1>11, <1>12 DEF Clean, Copying, FetchNext
<1>15. ControlInv'
  BY <1>2, <1>6, <1>11, <1>12 DEF ControlInv
<1>16. WaitsInv'
  <2>1. ASSUME NEW s \in Stream, NEW i \in DOMAIN queue'[s], queue'[s][i].kind = "wait",
               NEW e, e = queue'[s][i].event
        PROVE  queue'[s][i].ahead = Pending(e)'
    <3>1. i \in DOMAIN queue[s] /\ queue'[s][i] = queue[s][i]
      BY <1>5, <1>8, <2>1
    <3>2. Pending(e)' = Pending(e)
      <4>1. op.kind = "record" => op.event # e
        BY <1>5
      <4> QED BY <1>4, <1>5, <1>6, <4>1, PushPending
    <3> QED BY <1>1, <2>1, <3>1, <3>2 DEF WaitsInv
  <2> QED BY <2>1 DEF WaitsInv
<1>17. AreaInv'
  <2>1. ASSUME NEW s \in Stream, NEW i \in DOMAIN queue'[s]
        PROVE  /\ queue'[s][i].reads \subseteq MayRead(s)
               /\ queue'[s][i].writes \subseteq MayWrite(s)
               /\ queue'[s][i].kind # "run" =>
                    queue'[s][i].reads = {} /\ queue'[s][i].writes = {}
               /\ s = "input_stream" => queue'[s][i].kind # "wait"
    <3>1. CASE i \in DOMAIN queue[s] /\ queue'[s][i] = queue[s][i]
      BY <1>1, <3>1 DEF AreaInv
    <3>2. CASE s = t /\ queue'[s][i] = op
      BY <1>5, <3>2, StreamsMay
    <3> QED BY <1>8, <3>1, <3>2
  <2> QED BY <2>1 DEF AreaInv
<1>18. InputInv'
  <2>1. ASSUME NEW i \in DOMAIN queue[t], queue[t][i].kind = "run"
        PROVE  queue[t][i].frame < f /\ i < n
    <3>1. i < n
      <4>1. i \in Nat /\ i <= Len(queue[t]) /\ Len(queue[t]) \in Nat
        BY <1>6, Queues
      <4> QED BY <1>7, <4>1
    <3>2. queue[t][i].frame \in Nat
      <4>1. queue[t][i] \in Op /\ MaxFrames \in Nat
        BY <1>6, Queues, BoundsAssumption
      <4> QED BY <4>1 DEF Op
    <3>3. queue[t] # <<>>
      BY <1>6
    <3>4. PICK j \in DOMAIN queue[t] : PlanesLast(j)
      BY <1>1, <2>1, <3>3 DEF InputInv
    <3>5. queue[t][i].frame = slot.frame \/ queue[t][i].frame < slot.frame
      BY <2>1, <3>4 DEF PlanesLast, Writer
    <3> QED BY <1>6, <3>1, <3>2, <3>5
  <2>2. Writer(planes, t, n)'
    BY <1>5, <1>8, <1>9, <1>12 DEF Writer
  <2>3. ASSUME NEW k \in DOMAIN queue'[t], queue'[t][k].kind = "run", k # n
        PROVE  k < n /\ queue'[t][k].frame < slot'.frame
    <3>1. k \in DOMAIN queue[t] /\ queue'[t][k] = queue[t][k]
      BY <1>6, <1>7, <1>8, <2>3
    <3> QED BY <1>12, <2>1, <2>3, <3>1
  <2>4. PlanesLast(n)'
    BY <2>2, <2>3 DEF PlanesLast
  <2>5. planes \notin holds'
    BY <1>2
  <2> QED BY <1>9, <2>4, <2>5 DEF InputInv
<1>19. SyncInv' /\ OkLeavesNothingRunning'
  BY <1>2, <1>12 DEF SyncInv, OkLeavesNothingRunning
<1>20. PhaseInv'
  BY <1>2, <1>11 DEF PhaseInv
<1>21. OpsInv' /\ MadeInv'
  BY <1>14 DEF OpsInv, MadeInv
<1>22. LastInv'
  BY <1>2, <1>14 DEF LastInv
<1>23. CapacityInv'
  BY <1>1, <1>2, <1>14 DEF CapacityInv
<1> QED BY <1>13, <1>15, <1>16, <1>17, <1>18, <1>19, <1>20, <1>21, <1>22, <1>23 DEF IInv

---------------------------------------------------------------------------
(* The calls of submit.                                                    *)

(* What is known at each call of submit. *)
LEMMA SubmitBefore ==
  ASSUME IInv, caller.phase = "submit"
  PROVE  LET p == SubmitCalls[slot.image]
         IN  /\ ~ in_flight /\ result = "none" /\ ~ slot.copies_started /\ slot.frame > 0
             /\ driver.phase = "away" /\ driver.next = 1 /\ ~ Copying
             /\ SubmitNext = caller.next /\ CopyNext = 1 /\ FetchNext = 1
             /\ Made = Before(p, caller.next) /\ Submitted = Made
             /\ caller.next \in Nat /\ 1 <= caller.next
             /\ slot.image \in Image /\ Starts(p) /\ Len(p) \in Nat /\ Len(p) >= 10
             /\ (Clean <=> caller.next > 3)
<1> DEFINE p == SubmitCalls[slot.image]
<1>1. TypeOK /\ ControlInv
  BY DEF IInv
<1>2. /\ ~ in_flight /\ result = "none" /\ ~ slot.copies_started /\ slot.frame > 0
      /\ driver.phase = "away" /\ driver.next = 1
  <2>1. /\ ~ in_flight /\ result = "none" /\ ~ slot.copies_started /\ slot.frame > 0
    BY <1>1 DEF ControlInv
  <2>2. driver.phase = "away"
    BY <1>1, <2>1 DEF ControlInv
  <2> QED BY <1>1, <2>1, <2>2 DEF ControlInv
<1>3. ~ Copying /\ SubmitNext = caller.next /\ CopyNext = 1 /\ FetchNext = 1
  BY <1>2 DEF Copying, SubmitNext, CopyNext, FetchNext
<1>4. Submitted = Before(p, caller.next)
  BY <1>3 DEF Submitted
<1>5. Made = Submitted
  <2>1. Before(StartCopiesCalls[slot.image], 1) = {} /\ Before(FetchDcCalls[slot.image], 1) = {}
    BY FewCalls
  <2> QED BY <1>3, <2>1 DEF Made
<1>6. /\ slot.image \in Image /\ caller.next \in Nat /\ 1 <= caller.next
  BY <1>1, Typed
<1>7. Starts(p) /\ Len(p) >= 10
  BY <1>6, SubmitProgram
<1>8. Len(p) \in Nat
  <2>1. p \in Seq(OfSubmit)
    BY <1>7 DEF Starts
  <2> QED BY <2>1
<1>9. Clean <=> caller.next > 3
  BY <1>2 DEF Clean
<1> QED BY <1>2, <1>3, <1>4, <1>5, <1>6, <1>7, <1>8, <1>9

(* What a call of submit changes but the device's state. *)
LEMMA SubmitAfter ==
  ASSUME IInv, Submitting, caller' = [caller EXCEPT !.next = @ + 1],
         UNCHANGED <<slot, driver, in_flight, result>>,
         queue' \in [Stream -> Seq(Op)], holds' \subseteq Buffer,
         capacity' \in [DOMAIN Memory -> Nat]
  PROVE  LET p == SubmitCalls[slot.image]
         IN  /\ TypeOK' /\ ControlInv' /\ PhaseInv' /\ OkLeavesNothingRunning'
             /\ caller'.next = caller.next + 1 /\ caller'.phase = "submit"
             /\ ~ Copying' /\ FetchNext' = 1 /\ SubmitNext' = caller.next + 1
             /\ Submitted' = Made' /\ Made' = Made \cup {p[caller.next]}
             /\ (Clean' <=> caller.next >= 3)
<1> DEFINE p == SubmitCalls[slot.image]
           k == caller.next
<1>1. /\ TypeOK /\ ControlInv /\ caller.phase = "submit" /\ k <= Len(p)
  BY DEF IInv, Submitting
<1>2. /\ ~ in_flight /\ result = "none" /\ ~ slot.copies_started /\ slot.frame > 0
      /\ driver.phase = "away" /\ driver.next = 1 /\ Made = Before(p, k)
      /\ k \in Nat /\ 1 <= k /\ Len(p) \in Nat
  BY <1>1, SubmitBefore
<1>3. caller \in [phase : {"idle", "submit"}, next : 1 .. Len(p) + 1]
  BY <1>1 DEF TypeOK
<1>4. /\ caller'.next = k + 1 /\ caller'.phase = "submit"
      /\ caller' \in [phase : {"idle", "submit"}, next : 1 .. Len(p) + 1]
  BY <1>1, <1>2, <1>3
<1>5. TypeOK'
  BY <1>1, <1>4 DEF TypeOK
<1>6. ControlInv'
  BY <1>1, <1>2, <1>4 DEF ControlInv
<1>7. PhaseInv' /\ OkLeavesNothingRunning'
  BY <1>2 DEF PhaseInv, OkLeavesNothingRunning
<1>8. /\ ~ Copying' /\ FetchNext' = 1 /\ CopyNext' = 1 /\ SubmitNext' = k + 1
      /\ (Clean' <=> k + 1 > 3)
  BY <1>2, <1>4 DEF Copying, FetchNext, CopyNext, SubmitNext, Clean
<1>9. Before(p, k + 1) = Before(p, k) \cup {p[k]}
  BY <1>2, BeforeGrows
<1>10. Submitted' = Made \cup {p[k]}
  BY <1>2, <1>8, <1>9 DEF Submitted
<1>11. Made' = Submitted'
  <2>1. Before(StartCopiesCalls[slot.image], 1) = {} /\ Before(FetchDcCalls[slot.image], 1) = {}
    BY FewCalls
  <2> QED BY <1>8, <2>1 DEF Made
<1>12. k + 1 > 3 <=> k >= 3
  BY <1>2
<1> QED BY <1>4, <1>5, <1>6, <1>7, <1>8, <1>10, <1>11, <1>12

(* The first three calls wait for the slot's streams. *)
LEMMA SubmitSyncs ==
  ASSUME IInv, SubmitCall, caller.next <= 3
  PROVE  IInv'
<1> DEFINE p == SubmitCalls[slot.image]
           k == caller.next
           c == p[k]
<1>1. /\ TypeOK /\ ControlInv /\ WaitsInv /\ AreaInv /\ InputInv /\ SyncInv /\ CapacityInv
  BY DEF IInv
<1>2. /\ Submitting /\ Succeeds(c) /\ caller' = [caller EXCEPT !.next = @ + 1]
      /\ UNCHANGED <<slot, driver, in_flight, result>> /\ caller.phase = "submit"
  BY DEF SubmitCall, Submitting
<1>3. /\ k \in Nat /\ 1 <= k /\ Starts(p) /\ Len(p) >= 10 /\ ~ in_flight
      /\ Len(p) \in Nat
  BY <1>2, SubmitBefore
<1>4. /\ p[1] = Sync("stream") /\ p[2] = Sync("dc_stream") /\ p[3] = Sync("copy_stream")
  BY <1>3 DEF Starts
<1>5. k = 1 \/ k = 2 \/ k = 3
  BY <1>3
<1>6. /\ queue' = queue /\ holds' = holds /\ capacity' = capacity
      /\ k = 1 => queue["stream"] = <<>>
      /\ k = 2 => queue["dc_stream"] = <<>>
      /\ k = 3 => queue["copy_stream"] = <<>>
  BY <1>2, <1>4, <1>5, CallFields DEF Succeeds, device
<1>7. /\ queue' \in [Stream -> Seq(Op)] /\ holds' \subseteq Buffer
      /\ capacity' \in [DOMAIN Memory -> Nat]
  BY <1>1, <1>6, Typed
<1>8. /\ TypeOK' /\ ControlInv' /\ PhaseInv' /\ OkLeavesNothingRunning'
      /\ caller'.next = k + 1 /\ caller'.phase = "submit"
      /\ FetchNext' = 1 /\ SubmitNext' = k + 1 /\ ~ Copying'
      /\ Made' = Made \cup {c} /\ (Clean' <=> k >= 3)
  BY <1>2, <1>7, SubmitAfter
<1>9. WaitsInv' /\ AreaInv' /\ InputInv'
  BY <1>1, <1>2, <1>6, StillQueues
<1>10. SyncInv'
  <2>1. /\ k > 1 => queue["stream"] = <<>>
        /\ k > 2 => queue["dc_stream"] = <<>>
    BY <1>1, <1>2, <1>5 DEF SyncInv
  <2>2. /\ k + 1 > 1 => queue["stream"] = <<>>
        /\ k + 1 > 2 => queue["dc_stream"] = <<>>
        /\ k + 1 > 3 => queue["copy_stream"] = <<>>
    BY <1>3, <1>5, <1>6, <2>1
  <2> QED BY <1>6, <1>8, <2>2 DEF SyncInv
<1>11. Clean' => \A s \in SlotStream : queue'[s] = <<>>
  <2>1. ASSUME Clean'
        PROVE  queue'["stream"] = <<>> /\ queue'["dc_stream"] = <<>>
               /\ queue'["copy_stream"] = <<>>
    <3>1. k = 3 /\ caller'.next = 4
      BY <1>5, <1>8, <2>1
    <3> QED BY <1>8, <1>10, <3>1 DEF SyncInv
  <2> QED BY <2>1 DEF SlotStream, Stream
<1>12. Clean' => \A s \in SlotStream : \A i \in DOMAIN queue'[s] : FALSE
  <2>1. ASSUME NEW s \in SlotStream, queue'[s] = <<>> PROVE DOMAIN queue'[s] = {}
    BY <2>1
  <2> QED BY <1>11, <2>1
<1>13. OpsInv'
  BY <1>12 DEF OpsInv
<1>14. MadeInv'
  <2>1. ASSUME NEW m \in Made' PROVE Effect(m)'
    <3>1. Made = Before(p, k)
      BY <1>2, SubmitBefore
    <3>2. m \in {p[1], p[2], p[3]}
      <4>1. Made \subseteq {p[1], p[2], p[3]}
        BY <1>5, <3>1 DEF Before
      <4> QED BY <1>5, <1>8, <2>1, <4>1
    <3>3. m.kind = "sync"
      BY <1>4, <3>2, CallFields
    <3> QED BY <3>3 DEF Effect
  <2> QED BY <2>1 DEF MadeInv
<1>15. LastInv'
  <2>1. ~ (SubmitNext' > Len(SubmitCalls[slot'.image]))
    BY <1>2, <1>3, <1>5, <1>8
  <2> QED BY <1>2, <1>3, <1>8, <2>1 DEF LastInv
<1>16. CapacityInv'
  <2>1. "copy_stream" \in SlotStream /\ "dc_stream" \in SlotStream
    BY DEF SlotStream, Stream
  <2> QED BY <1>1, <1>6, <1>8, <1>12, <2>1 DEF CapacityInv
<1> QED BY <1>8, <1>9, <1>10, <1>13, <1>14, <1>15, <1>16 DEF IInv

(* No allocation of the slot is the caller's planes. *)
LEMMA MemoryApart ==
  \A a \in DOMAIN Memory : planes \notin Memory[a] /\ Memory[a] \subseteq Buffer
<1>1. /\ DOMAIN Memory = {"arena", "chroma", "entries", "raw"} \cup HostOnce
      /\ Memory["arena"] = Arena /\ Memory["chroma"] = {texture}
      /\ \A a \in {"entries", "raw"} : Memory[a] = {hostBatch(a, b) : b \in Batch}
      /\ \A a \in HostOnce : Memory[a] = {host(a)}
  BY MemoryIs
<1>2. /\ planes \notin Arena /\ planes # texture
      /\ \A x : planes # host(x)
      /\ \A x, b : planes # hostBatch(x, b)
  BY BuffersDiffer
<1>3. \A a \in DOMAIN Memory : planes \notin Memory[a]
  BY <1>1, <1>2
<1> QED BY <1>3 DEF Buffer

(* What an allocation leaves. *)
LEMMA Reserves ==
  ASSUME TypeOK, NEW c, c.kind = "reserve", c.memory \in DOMAIN Memory, c.size \in Nat,
         Succeeds(c)
  PROVE  /\ queue' = queue /\ capacity' \in [DOMAIN Memory -> Nat]
         /\ capacity'[c.memory] >= c.size
         /\ \A a \in DOMAIN Memory : a # c.memory => capacity'[a] = capacity[a]
         /\ \/ holds' = holds /\ capacity' = capacity
            \/ capacity[c.memory] < c.size /\ holds' = holds \ Memory[c.memory]
<1>1. capacity \in [DOMAIN Memory -> Nat]
  BY Typed
<1>2. Grow(c) \/ Keep(c)
  BY DEF Succeeds
<1>3. CASE Keep(c)
  BY <1>1, <1>3 DEF Keep, device
<1>4. CASE Grow(c)
  <2>1. /\ capacity[c.memory] < c.size /\ holds' = holds \ Memory[c.memory]
        /\ queue' = queue
        /\ capacity' = [capacity EXCEPT ![c.memory] = Grown(c.memory, c.size)]
    BY <1>4 DEF Grow, Allocated
  <2>2. Grown(c.memory, c.size) \in Nat /\ Grown(c.memory, c.size) >= c.size
    BY DEF Grown
  <2> QED BY <1>1, <2>1, <2>2
<1> QED BY <1>2, <1>3, <1>4

(* What a failing call may have changed: it may have freed the memory it *)
(* was to replace.                                                       *)
LEMMA Failures ==
  ASSUME TypeOK, NEW c, c.kind = "reserve" => c.memory \in DOMAIN Memory, Fails(c)
  PROVE  /\ queue' = queue /\ capacity' \in [DOMAIN Memory -> Nat]
         /\ \/ holds' = holds /\ capacity' = capacity
            \/ /\ c.kind = "reserve" /\ capacity[c.memory] < c.size
               /\ holds' = holds \ Memory[c.memory]
               /\ capacity' = [capacity EXCEPT ![c.memory] = 0]
            \/ /\ c.kind = "texture" /\ TextureIdle
               /\ holds' = holds \ Memory["chroma"]
               /\ capacity' = [capacity EXCEPT !["chroma"] = 0]
<1>1. capacity \in [DOMAIN Memory -> Nat]
  BY Typed
<1>2. \/ c.kind \in {"run", "record", "wait", "sync"} /\ UNCHANGED device
      \/ c.kind = "reserve" /\ capacity[c.memory] < c.size /\ Allocated(c.memory, 0)
      \/ c.kind = "texture" /\ TextureIdle /\ Allocated("chroma", 0)
  BY DEF Fails
<1>3. CASE UNCHANGED device
  BY <1>1, <1>3 DEF device
<1>4. CASE c.kind = "reserve" /\ capacity[c.memory] < c.size /\ Allocated(c.memory, 0)
  BY <1>1, <1>4 DEF Allocated
<1>5. CASE c.kind = "texture" /\ TextureIdle /\ Allocated("chroma", 0)
  BY <1>1, <1>5 DEF Allocated
<1> QED BY <1>2, <1>3, <1>4, <1>5

(* The next six make the slot's buffers large enough. *)
LEMMA SubmitReserves ==
  ASSUME IInv, SubmitCall, caller.next \in 4 .. 9
  PROVE  IInv'
<1> DEFINE p == SubmitCalls[slot.image]
           k == caller.next
<1>0. PICK c : c = p[k]
  OBVIOUS
<1> DEFINE L == Memory[c.memory]
<1>1. /\ TypeOK /\ ControlInv /\ WaitsInv /\ AreaInv /\ InputInv /\ SyncInv /\ CapacityInv
      /\ OpsInv /\ MadeInv
  BY DEF IInv
<1>2. /\ Submitting /\ Succeeds(c) /\ caller' = [caller EXCEPT !.next = @ + 1]
      /\ UNCHANGED <<slot, driver, in_flight, result>> /\ caller.phase = "submit"
      /\ k <= Len(p)
  BY <1>0 DEF SubmitCall, Submitting
<1>3. /\ k \in Nat /\ 1 <= k /\ Starts(p) /\ Len(p) >= 10 /\ ~ in_flight
      /\ Len(p) \in Nat /\ Made = Before(p, k) /\ Submitted = Made /\ (Clean <=> k > 3)
  BY <1>2, SubmitBefore
<1>4. k > 3 /\ k <= 9
  BY <1>3
<1>5. c.kind = "reserve"
  BY <1>0, <1>3 DEF Starts
<1>6. c.memory \in {"arena"} \cup (HostOnce \ {"dc_body"}) /\ c.size \in Nat
  <2>1. c \in OfSubmit
    <3>1. k \in 1 .. Len(p) /\ p \in Seq(OfSubmit)
      BY <1>2, <1>3 DEF Starts
    <3> QED BY <1>0, <3>1
  <2> QED BY <1>5, <2>1, SubmitCallIs
<1>7. c.memory \in DOMAIN Memory /\ c.memory # "chroma"
  BY <1>6, MemoryIs DEF HostOnce
<1>8. /\ queue' = queue /\ capacity' \in [DOMAIN Memory -> Nat]
      /\ \A a \in DOMAIN Memory : a # c.memory => capacity'[a] = capacity[a]
      /\ holds' = holds \/ holds' = holds \ L
  BY <1>1, <1>2, <1>5, <1>6, <1>7, Reserves
<1>9. /\ queue' \in [Stream -> Seq(Op)] /\ holds' \subseteq Buffer
  BY <1>1, <1>8, Typed
<1>10. /\ TypeOK' /\ ControlInv' /\ PhaseInv' /\ OkLeavesNothingRunning'
       /\ caller'.next = k + 1 /\ caller'.phase = "submit"
       /\ FetchNext' = 1 /\ SubmitNext' = k + 1 /\ ~ Copying'
       /\ Submitted' = Made' /\ Made' = Made \cup {c} /\ (Clean' <=> k >= 3)
  BY <1>0, <1>2, <1>8, <1>9, SubmitAfter
<1>11. /\ queue["stream"] = <<>> /\ queue["dc_stream"] = <<>>
       /\ queue["copy_stream"] = <<>>
  <2>1. k <= 10 /\ k > 1 /\ k > 2
    BY <1>3, <1>4
  <2> QED BY <1>1, <1>2, <1>4, <2>1 DEF SyncInv
<1>12. \A s \in SlotStream : queue[s] = <<>> /\ DOMAIN queue[s] = {}
  BY <1>11 DEF SlotStream, Stream
<1>13. \A m \in Made : m.kind \in {"sync", "reserve"}
  <2>1. /\ p[1] = Sync("stream") /\ p[2] = Sync("dc_stream") /\ p[3] = Sync("copy_stream")
        /\ \A i \in 4 .. 9 : p[i].kind = "reserve"
    BY <1>3 DEF Starts
  <2>2. p[1].kind = "sync" /\ p[2].kind = "sync" /\ p[3].kind = "sync"
    BY <2>1, CallFields
  <2>3. ASSUME NEW i \in 1 .. k - 1 PROVE p[i].kind \in {"sync", "reserve"}
    <3>1. i = 1 \/ i = 2 \/ i = 3 \/ i \in 4 .. 9
      BY <1>3, <1>4
    <3> QED BY <2>1, <2>2, <3>1
  <2> QED BY <1>3, <2>3 DEF Before
<1>14. Loses(L)
  <2>1. \A m \in Made : \A x : ~ Fills(slot.image, m, x)
    BY <1>13 DEF Fills
  <2>2. planes \notin L
    BY <1>7, MemoryApart
  <2> QED BY <1>8, <1>12, <2>1, <2>2 DEF Loses
<1>15. Goes
  <2>1. Effect(c)'
    BY <1>5 DEF Effect
  <2> QED BY <1>2, <1>3, <1>4, <1>10, <2>1 DEF Goes
<1>16. WaitsInv' /\ AreaInv' /\ InputInv' /\ OpsInv' /\ MadeInv'
  BY <1>1, <1>2, <1>8, <1>14, <1>15, Unmoved
<1>17. SyncInv'
  BY <1>8, <1>11 DEF SyncInv
<1>18. LastInv'
  <2>1. ~ (SubmitNext' > Len(SubmitCalls[slot'.image]))
    BY <1>2, <1>3, <1>4, <1>10
  <2> QED BY <1>2, <1>3, <1>10, <2>1 DEF LastInv
<1>19. CapacityInv'
  <2>1. "copy_stream" \in SlotStream /\ "dc_stream" \in SlotStream
    BY DEF SlotStream, Stream
  <2>2. capacity'["chroma"] = capacity["chroma"]
    BY <1>7, <1>8, MemoryIs
  <2> QED BY <1>1, <1>8, <1>10, <1>12, <2>1, <2>2 DEF CapacityInv
<1> QED BY <1>10, <1>16, <1>17, <1>18, <1>19 DEF IInv

(* The other calls start its work. *)
LEMMA SubmitRest ==
  ASSUME IInv, SubmitCall, caller.next >= 10,
         NEW c, c = SubmitCalls[slot.image][caller.next]
  PROVE  /\ c \in OfSubmit /\ c \in Calls(SubmitCalls[slot.image])
         /\ c.kind \in {"run", "record", "wait", "texture"}
         /\ caller.next \in 1 .. Len(SubmitCalls[slot.image])
<1> DEFINE p == SubmitCalls[slot.image]
           k == caller.next
<1>1. caller.phase = "submit" /\ k <= Len(p)
  BY DEF SubmitCall, Submitting
<1>2. k \in Nat /\ 1 <= k /\ Starts(p) /\ Len(p) \in Nat
  BY <1>1, SubmitBefore
<1>3. p \in Seq(OfSubmit) /\ k \in 1 .. Len(p) /\ k \in 10 .. Len(p)
  BY <1>1, <1>2 DEF Starts
<1>4. p[k] \in OfSubmit
  BY <1>3
<1>5. p[k].kind \in {"run", "record", "wait", "texture"}
  BY <1>2, <1>3 DEF Starts
<1>6. p[k] \in Calls(p)
  BY <1>3, EarlierCalls
<1> QED BY <1>3, <1>4, <1>5, <1>6

(* A call of submit that enqueues an operation keeps the invariant. *)
LEMMA SubmitEnqueues ==
  ASSUME IInv, SubmitCall, caller.next >= 10,
         Enqueues(SubmitCalls[slot.image][caller.next])
  PROVE  IInv'
<1> DEFINE p == SubmitCalls[slot.image]
           k == caller.next
<1>0. PICK c : c = p[k]
  OBVIOUS
<1>1. /\ TypeOK /\ ControlInv /\ WaitsInv /\ AreaInv /\ InputInv /\ SyncInv /\ CapacityInv
      /\ OpsInv /\ MadeInv
  BY DEF IInv
<1>2. /\ Submitting /\ Succeeds(c) /\ caller' = [caller EXCEPT !.next = @ + 1]
      /\ UNCHANGED <<slot, driver, in_flight, result>> /\ caller.phase = "submit"
      /\ k <= Len(p)
  BY <1>0 DEF SubmitCall, Submitting
<1>3. /\ k \in Nat /\ 1 <= k /\ Starts(p) /\ Len(p) >= 10 /\ ~ in_flight /\ slot.frame > 0
      /\ Len(p) \in Nat /\ Made = Before(p, k) /\ Submitted = Made /\ (Clean <=> k > 3)
      /\ slot.image \in Image
  BY <1>2, SubmitBefore
<1>4. /\ c \in OfSubmit /\ c \in Calls(p) /\ Enqueues(c) /\ k \in 1 .. Len(p)
  BY <1>0, SubmitRest
<1>5. Fitting(c)
  BY <1>4, SubmitFits
<1>6. Enqueue(c)
  BY <1>2, <1>4 DEF Succeeds, Enqueues
<1>7. PICK op \in Op : /\ op = Operation(c)
                       /\ op.kind = c.kind /\ op.event = c.event /\ op.writes = c.writes
  BY <1>1, <1>3, <1>4, <1>5, OperationIs
<1>8. /\ Pushed(c.stream, op) /\ holds' = holds /\ capacity' = capacity
      /\ c.stream \in Stream /\ queue \in [Stream -> Seq(Op)]
  BY <1>1, <1>5, <1>6, <1>7, Typed DEF Enqueue, Pushed, Fitting
<1>9. /\ queue' \in [Stream -> Seq(Op)]
      /\ Len(queue'[c.stream]) = Len(queue[c.stream]) + 1
      /\ queue'[c.stream][Len(queue[c.stream]) + 1] = op
      /\ \A s \in Stream \ {c.stream} : queue'[s] = queue[s]
      /\ \A s \in Stream : \A i \in DOMAIN queue'[s] :
           \/ i \in DOMAIN queue[s] /\ queue'[s][i] = queue[s][i]
           \/ s = c.stream /\ i = Len(queue[s]) + 1 /\ queue'[s][i] = op
  BY <1>8, Pushes
<1>10. /\ TypeOK' /\ ControlInv' /\ PhaseInv' /\ OkLeavesNothingRunning'
       /\ caller'.next = k + 1 /\ caller'.phase = "submit"
       /\ FetchNext' = 1 /\ SubmitNext' = k + 1 /\ ~ Copying'
       /\ Submitted' = Made' /\ Made' = Made \cup {c} /\ (Clean' <=> k >= 3)
  <2>1. holds' \subseteq Buffer /\ capacity' \in [DOMAIN Memory -> Nat]
    BY <1>1, <1>8, Typed
  <2> QED BY <1>0, <1>2, <1>9, <2>1, SubmitAfter
<1>11. Clean /\ Clean'
  BY <1>3, <1>10
<1>12. Makes(c)
  BY <1>3, <1>10, <1>11 DEF Makes
<1>13. Supplied(slot.image, Made, c)
  <2>1. Ordered(slot.image, {}, p)
    BY <1>3, SubmitProgram
  <2>2. Supplied(slot.image, {} \cup Before(p, k), p[k])
    BY <1>4, <2>1 DEF Ordered
  <2>3. {} \cup Before(p, k) = Made
    BY <1>3
  <2> QED BY <1>0, <2>2, <2>3
<1>14. Expected(c)
  <2>1. ASSUME c.kind = "wait"
        PROVE  c.event \in {Once("input_ready"), Once("forked")} /\ Wait(c.stream, c.event) = c
    BY <1>4, <2>1, SubmitCallIs, CallFields
  <2> QED BY <1>10, <2>1 DEF Expected
<1>15. Packed(c)
  BY <1>3 DEF Packed
<1>16. WaitsInv' /\ AreaInv' /\ InputInv' /\ OpsInv' /\ MadeInv'
  BY <1>1, <1>2, <1>3, <1>4, <1>5, <1>6, <1>11, <1>12, <1>13, <1>14, <1>15, Enqueued
<1>17. SyncInv'
  <2>1. ~ (k + 1 <= 10)
    BY <1>3
  <2> QED BY <1>10, <2>1 DEF SyncInv
<1>18. LastInv'
  <2>1. ASSUME SubmitNext' > Len(p) PROVE LastIs("stream", packed(LastBatch))'
    <3>1. k = Len(p)
      BY <1>2, <1>3, <1>10, <2>1
    <3>2. c = Record("stream", packed(LastBatch))
      BY <1>0, <1>3, <3>1, SubmitProgram
    <3>3. c.stream = "stream" /\ op.kind = "record" /\ op.event = packed(LastBatch)
      BY <1>7, <3>2, CallFields
    <3>4. Marker(packed(LastBatch), "stream", Len(queue["stream"]))'
      <4>1. PICK n \in Nat : n = Len(queue'["stream"])
        BY <1>8, <1>9, <3>3
      <4>2. n \in DOMAIN queue'["stream"] /\ queue'["stream"][n] = op
        <5>1. \A q \in Seq(Op) : Len(q) >= 1 => Len(q) \in DOMAIN q
          OBVIOUS
        <5>2. Len(queue["stream"]) \in Nat
          BY <1>8, <3>3
        <5> QED BY <1>8, <1>9, <3>3, <4>1, <5>1, <5>2
      <4> QED BY <3>3, <4>1, <4>2 DEF Marker
    <3> QED BY <3>4 DEF LastIs
  <2> QED BY <1>2, <1>3, <1>10, <2>1 DEF LastInv
<1>19. CapacityInv'
  <2>1. c.stream # "copy_stream" /\ host("dc_body") \notin c.writes
    <3>1. CASE c.kind = "run"
      BY <1>4, <3>1, SubmitCallIs
    <3>2. CASE c.kind = "record"
      BY <1>4, <3>2, SubmitCallIs
    <3>3. CASE c.kind = "wait"
      BY <1>4, <3>3, SubmitCallIs, CallFields
    <3> QED BY <1>4, <3>1, <3>2, <3>3 DEF Enqueues
  <2>2. queue'["copy_stream"] = queue["copy_stream"]
    BY <1>9, <2>1 DEF Stream
  <2>3. ASSUME NEW i \in DOMAIN queue'["dc_stream"],
               host("dc_body") \in queue'["dc_stream"][i].writes
        PROVE  i \in DOMAIN queue["dc_stream"]
               /\ host("dc_body") \in queue["dc_stream"][i].writes
    BY <1>7, <1>9, <2>1, <2>3 DEF Stream
  <2>4. TokensFit' <=> TokensFit
    BY <1>2, <1>8 DEF TokensFit
  <2> QED BY <1>1, <1>2, <1>8, <1>10, <1>11, <2>2, <2>3, <2>4 DEF CapacityInv
<1> QED BY <1>10, <1>16, <1>17, <1>18, <1>19 DEF IInv

(* So does making the texture anew, which waits for the stream. *)
LEMMA SubmitTextures ==
  ASSUME IInv, SubmitCall, caller.next >= 10,
         SubmitCalls[slot.image][caller.next].kind = "texture"
  PROVE  IInv'
<1> DEFINE p == SubmitCalls[slot.image]
           k == caller.next
<1>0. PICK c : c = p[k]
  OBVIOUS
<1>1. /\ TypeOK /\ ControlInv /\ WaitsInv /\ AreaInv /\ InputInv /\ SyncInv /\ CapacityInv
      /\ OpsInv /\ MadeInv
  BY DEF IInv
<1>2. /\ Submitting /\ Succeeds(c) /\ caller' = [caller EXCEPT !.next = @ + 1]
      /\ UNCHANGED <<slot, driver, in_flight, result>> /\ caller.phase = "submit"
      /\ k <= Len(p) /\ c.kind = "texture"
  BY <1>0 DEF SubmitCall, Submitting
<1>3. /\ k \in Nat /\ 1 <= k /\ Starts(p) /\ Len(p) >= 10 /\ ~ in_flight /\ slot.frame > 0
      /\ Len(p) \in Nat /\ Made = Before(p, k) /\ Submitted = Made /\ (Clean <=> k > 3)
      /\ slot.image \in Image
  BY <1>2, SubmitBefore
<1>4. /\ queue' = queue /\ holds' = holds \cup {texture}
      /\ capacity' = [capacity EXCEPT !["chroma"] = 1]
  BY <1>2 DEF Succeeds, Emplace
<1>5. /\ "chroma" \in DOMAIN Memory /\ capacity \in [DOMAIN Memory -> Nat]
      /\ texture \in Buffer /\ texture # planes
  BY <1>1, MemoryIs, BuffersAre, BuffersDiffer, Typed
<1>6. /\ TypeOK' /\ ControlInv' /\ PhaseInv' /\ OkLeavesNothingRunning'
      /\ caller'.next = k + 1 /\ caller'.phase = "submit"
      /\ FetchNext' = 1 /\ SubmitNext' = k + 1 /\ ~ Copying'
      /\ Submitted' = Made' /\ Made' = Made \cup {c} /\ (Clean' <=> k >= 3)
  <2>1. /\ queue' \in [Stream -> Seq(Op)] /\ holds' \subseteq Buffer
        /\ capacity' \in [DOMAIN Memory -> Nat]
    BY <1>1, <1>4, <1>5, Typed
  <2> QED BY <1>0, <1>2, <2>1, SubmitAfter
<1>7. Clean /\ Clean'
  BY <1>3, <1>6
<1>8. Loses({})
  BY <1>4, <1>5 DEF Loses
<1>9. Goes
  <2>1. Effect(c)'
    BY <1>2, <1>4 DEF Effect
  <2> QED BY <1>3, <1>6, <1>7, <2>1 DEF Goes
<1>10. WaitsInv' /\ AreaInv' /\ InputInv' /\ OpsInv' /\ MadeInv'
  BY <1>1, <1>2, <1>4, <1>8, <1>9, Unmoved
<1>11. SyncInv'
  <2>1. ~ (k + 1 <= 10)
    BY <1>3
  <2> QED BY <1>6, <2>1 DEF SyncInv
<1>12. LastInv'
  <2>1. k # Len(p)
    <3>1. p[Len(p)] = Record("stream", packed(LastBatch))
      BY <1>3, SubmitProgram
    <3> QED BY <1>0, <1>2, <3>1, CallFields
  <2>2. ~ (SubmitNext' > Len(SubmitCalls[slot'.image]))
    BY <1>2, <1>3, <1>6, <2>1
  <2> QED BY <1>2, <1>3, <1>6, <2>2 DEF LastInv
<1>13. CapacityInv'
  <2>1. capacity'["chroma"] = 1
    BY <1>4, <1>5
  <2>2. TokensFit' <=> TokensFit
    BY <1>2, <1>4, <1>5, MemoryIs DEF TokensFit
  <2> QED BY <1>1, <1>2, <1>4, <1>6, <1>7, <2>1, <2>2 DEF CapacityInv
<1> QED BY <1>6, <1>10, <1>11, <1>12, <1>13 DEF IInv

(* So does every call of submit. *)
LEMMA SubmitStep ==
  ASSUME IInv, SubmitCall
  PROVE  IInv'
<1> DEFINE k == caller.next
<1>1. k \in Nat /\ 1 <= k /\ k <= Len(SubmitCalls[slot.image])
  <2>1. TypeOK
    BY DEF IInv
  <2> QED BY <2>1, Typed DEF SubmitCall, Submitting
<1>2. k <= 3 \/ k \in 4 .. 9 \/ k >= 10
  BY <1>1
<1>3. CASE k <= 3
  BY <1>3, SubmitSyncs
<1>4. CASE k \in 4 .. 9
  BY <1>4, SubmitReserves
<1>5. CASE k >= 10
  <2>1. PICK c : c = SubmitCalls[slot.image][k]
    OBVIOUS
  <2>2. Enqueues(c) \/ c.kind = "texture"
    BY <1>5, <2>1, SubmitRest DEF Enqueues
  <2> QED BY <1>5, <2>1, <2>2, SubmitEnqueues, SubmitTextures
<1> QED BY <1>2, <1>3, <1>4, <1>5

(* A failing submit keeps it: its frame is not in flight. *)
LEMMA SubmitFailsStep ==
  ASSUME IInv, SubmitFails
  PROVE  IInv'
<1> DEFINE p == SubmitCalls[slot.image]
           k == caller.next
<1>0. PICK c : c = p[k]
  OBVIOUS
<1>1. /\ TypeOK /\ ControlInv /\ WaitsInv /\ AreaInv /\ InputInv /\ CapacityInv
  BY DEF IInv
<1>2. /\ Submitting /\ Fails(c) /\ caller' = [phase |-> "idle", next |-> 1]
      /\ UNCHANGED <<slot, driver, in_flight, result>> /\ caller.phase = "submit"
      /\ k <= Len(p)
  BY <1>0 DEF SubmitFails, Submitting
<1>3. /\ k \in Nat /\ 1 <= k /\ Starts(p) /\ ~ in_flight /\ result = "none"
      /\ ~ slot.copies_started /\ driver.phase = "away" /\ driver.next = 1 /\ Len(p) \in Nat
      /\ FetchNext = 1
  BY <1>2, SubmitBefore
<1>4. c.kind = "reserve" => c.memory \in DOMAIN Memory /\ c.memory # "chroma"
  <2>1. c \in OfSubmit
    <3>1. k \in 1 .. Len(p) /\ p \in Seq(OfSubmit)
      BY <1>2, <1>3 DEF Starts
    <3> QED BY <1>0, <3>1
  <2> QED BY <2>1, SubmitCallIs, MemoryIs DEF HostOnce
<1>5. /\ queue' = queue /\ capacity' \in [DOMAIN Memory -> Nat]
      /\ \/ holds' = holds /\ capacity' = capacity
         \/ /\ c.kind = "reserve" /\ holds' = holds \ Memory[c.memory]
            /\ capacity' = [capacity EXCEPT ![c.memory] = 0]
         \/ /\ c.kind = "texture" /\ holds' = holds \ Memory["chroma"]
            /\ capacity' = [capacity EXCEPT !["chroma"] = 0]
  BY <1>1, <1>2, <1>4, Failures
<1>6. /\ "chroma" \in DOMAIN Memory /\ capacity \in [DOMAIN Memory -> Nat]
      /\ capacity["chroma"] \in {0, 1}
  BY <1>1, MemoryIs, Typed DEF CapacityInv
<1>7. capacity'["chroma"] \in {0, 1}
  BY <1>4, <1>5, <1>6
<1>8. /\ holds' \subseteq holds /\ (planes \in holds' <=> planes \in holds)
  BY <1>4, <1>5, <1>6, MemoryApart
<1>9. TypeOK'
  <2>1. caller' \in [phase : {"idle", "submit"}, next : 1 .. Len(p) + 1]
    BY <1>2, <1>3
  <2> QED BY <1>1, <1>2, <1>5, <1>8, <2>1 DEF TypeOK
<1>10. ControlInv'
  BY <1>1, <1>2, <1>3 DEF ControlInv
<1>11. WaitsInv' /\ AreaInv' /\ InputInv'
  BY <1>1, <1>2, <1>5, <1>8, StillQueues
<1>12. ~ Clean' /\ ~ Copying' /\ FetchNext' = 1
  BY <1>2, <1>3 DEF Clean, Copying, FetchNext
<1>13. SyncInv' /\ OpsInv' /\ MadeInv'
  BY <1>2, <1>12 DEF SyncInv, OpsInv, MadeInv
<1>14. LastInv' /\ PhaseInv' /\ OkLeavesNothingRunning'
  BY <1>2, <1>3, <1>12 DEF LastInv, PhaseInv, OkLeavesNothingRunning
<1>15. CapacityInv'
  BY <1>7, <1>12 DEF CapacityInv
<1> QED BY <1>9, <1>10, <1>11, <1>13, <1>14, <1>15 DEF IInv

(* Publishing the frame keeps it: all its calls are made. *)
LEMMA SubmitPublishStep ==
  ASSUME IInv, SubmitPublish
  PROVE  IInv'
<1> DEFINE p == SubmitCalls[slot.image]
           k == caller.next
<1>1. /\ TypeOK /\ ControlInv /\ WaitsInv /\ AreaInv /\ InputInv /\ CapacityInv
      /\ OpsInv /\ MadeInv /\ LastInv
  BY DEF IInv
<1>2. /\ caller.phase = "submit" /\ k > Len(p) /\ in_flight' = TRUE
      /\ caller' = [phase |-> "idle", next |-> 1]
      /\ queue' = queue /\ holds' = holds /\ capacity' = capacity
      /\ UNCHANGED <<slot, driver, result>>
  BY DEF SubmitPublish, device
<1>3. /\ ~ in_flight /\ result = "none" /\ ~ slot.copies_started /\ slot.frame > 0
      /\ driver.phase = "away" /\ driver.next = 1 /\ ~ Copying
      /\ SubmitNext = k /\ CopyNext = 1 /\ FetchNext = 1
      /\ Made = Before(p, k) /\ Submitted = Made
      /\ k \in Nat /\ Len(p) \in Nat /\ Len(p) >= 10 /\ (Clean <=> k > 3)
      /\ slot.image \in Image
  BY <1>2, SubmitBefore
<1>4. k = Len(p) + 1 /\ Clean
  <2>1. k <= Len(p) + 1
    BY <1>1, Typed
  <2> QED BY <1>2, <1>3, <2>1
<1>5. /\ SubmitNext' = k /\ CopyNext' = 1 /\ FetchNext' = 1 /\ Clean' /\ ~ Copying'
  BY <1>2, <1>3, <1>4 DEF SubmitNext, CopyNext, FetchNext, Clean, Copying
<1>6. Submitted' = Submitted /\ Made' = Made
  BY <1>2, <1>3, <1>5 DEF Submitted, Made
<1>7. TypeOK'
  <2>1. caller' \in [phase : {"idle", "submit"}, next : 1 .. Len(p) + 1]
    BY <1>2, <1>3
  <2> QED BY <1>1, <1>2, <2>1 DEF TypeOK
<1>8. ControlInv'
  BY <1>1, <1>2, <1>3 DEF ControlInv
<1>9. Loses({}) /\ Goes
  BY <1>2, <1>3, <1>4, <1>6 DEF Loses, Goes
<1>10. WaitsInv' /\ AreaInv' /\ InputInv' /\ OpsInv' /\ MadeInv'
  BY <1>1, <1>2, <1>9, Unmoved
<1>11. SyncInv' /\ PhaseInv' /\ OkLeavesNothingRunning'
  BY <1>2, <1>3, <1>5 DEF SyncInv, PhaseInv, OkLeavesNothingRunning
<1>12. LastInv'
  <2>1. LastIs("stream", packed(LastBatch))
    BY <1>1, <1>2, <1>3, <1>4 DEF LastInv
  <2>2. LastIs("stream", packed(LastBatch))'
    BY <1>2, <2>1 DEF LastIs, Marker
  <2>3. Len(StartCopiesCalls[slot.image]) \in Nat /\ Len(StartCopiesCalls[slot.image]) >= 3
    BY <1>3, CopiesProgram
  <2>4. ~ (CopyNext' > Len(StartCopiesCalls[slot'.image]))
    BY <1>2, <1>5, <2>3
  <2> QED BY <1>5, <2>2, <2>4 DEF LastInv
<1>13. CapacityInv'
  <2>1. TokensFit' <=> TokensFit
    BY <1>2 DEF TokensFit
  <2> QED BY <1>1, <1>2, <1>4, <1>5, <2>1 DEF CapacityInv
<1> QED BY <1>7, <1>8, <1>10, <1>11, <1>12, <1>13 DEF IInv

(* Receiving the frame keeps it. *)
LEMMA ReceiveStep ==
  ASSUME IInv, Receive
  PROVE  IInv'
<1>1. /\ TypeOK /\ ControlInv /\ WaitsInv /\ AreaInv /\ InputInv /\ CapacityInv
      /\ OkLeavesNothingRunning
  BY DEF IInv
<1>2. /\ in_flight /\ result # "none" /\ in_flight' = FALSE
      /\ queue' = queue /\ holds' = holds /\ capacity' = capacity
      /\ UNCHANGED <<slot, caller, driver, result>>
  BY DEF Receive, device
<1>3. driver.phase = "away" /\ caller.phase # "submit" /\ caller.phase = "idle"
  <2>1. driver.phase = "away" /\ caller.phase # "submit"
    BY <1>1, <1>2 DEF ControlInv
  <2> QED BY <1>1, <2>1, Typed
<1>4. TypeOK'
  BY <1>1, <1>2 DEF TypeOK
<1>5. ControlInv'
  BY <1>1, <1>2, <1>3 DEF ControlInv
<1>6. WaitsInv' /\ AreaInv' /\ InputInv'
  BY <1>1, <1>2, StillQueues
<1>7. ~ Clean' /\ ~ Copying' /\ FetchNext' = 1
  BY <1>2, <1>3 DEF Clean, Copying, FetchNext
<1>8. SyncInv' /\ OpsInv' /\ MadeInv'
  BY <1>2, <1>3, <1>7 DEF SyncInv, OpsInv, MadeInv
<1>9. LastInv' /\ PhaseInv'
  BY <1>2, <1>3, <1>7 DEF LastInv, PhaseInv
<1>10. OkLeavesNothingRunning' /\ CapacityInv'
  BY <1>1, <1>2, <1>7 DEF OkLeavesNothingRunning, CapacityInv
<1> QED BY <1>4, <1>5, <1>6, <1>8, <1>9, <1>10 DEF IInv

---------------------------------------------------------------------------
(* The steps of the driver.                                                *)

(* What is known of a frame in flight. *)
LEMMA InFlight ==
  ASSUME IInv, in_flight
  PROVE  /\ Clean /\ caller.phase = "idle" /\ slot.frame > 0
         /\ Submitted = Calls(SubmitCalls[slot.image])
         /\ Calls(SubmitCalls[slot.image]) \subseteq Made
         /\ slot.copies_started => Calls(StartCopiesCalls[slot.image]) \subseteq Made
         /\ FetchNext > 3 => Record("dc_stream", Once("dc_body_copied")) \in Made
<1>1. TypeOK /\ ControlInv
  BY DEF IInv
<1>2. Clean /\ caller.phase = "idle" /\ slot.frame > 0
  <2>1. caller.phase # "submit" /\ slot.frame > 0
    BY <1>1 DEF ControlInv
  <2> QED BY <1>1, <2>1, Typed DEF Clean
<1>3. /\ Len(SubmitCalls[slot.image]) \in Nat /\ Len(StartCopiesCalls[slot.image]) \in Nat
      /\ Len(FetchDcCalls[slot.image]) = 3
      /\ FetchNext \in Nat /\ FetchNext <= 4 /\ slot.image \in Image
  BY <1>1, MadeWithin, Typed
<1>4. Submitted = Calls(SubmitCalls[slot.image])
  <2>1. SubmitNext = Len(SubmitCalls[slot.image]) + 1
    BY DEF SubmitNext
  <2>2. SubmitNext \in Nat
    BY <1>3, <2>1
  <2>3. Before(SubmitCalls[slot.image], SubmitNext) = Calls(SubmitCalls[slot.image])
    BY <1>3, <2>1, <2>2, BeforeGrows
  <2> QED BY <2>3 DEF Submitted
<1>5. slot.copies_started => Calls(StartCopiesCalls[slot.image]) \subseteq Made
  <2>1. slot.copies_started => CopyNext = Len(StartCopiesCalls[slot.image]) + 1
    BY DEF CopyNext
  <2> QED BY <1>3, <2>1, BeforeGrows DEF Made
<1>6. FetchNext > 3 => Record("dc_stream", Once("dc_body_copied")) \in Made
  <2>1. FetchDcCalls[slot.image][3] = Record("dc_stream", Once("dc_body_copied"))
    BY <1>3, FetchProgram
  <2>2. FetchNext > 3 => FetchDcCalls[slot.image][3] \in Before(FetchDcCalls[slot.image], FetchNext)
    <3>1. FetchNext > 3 => 3 \in 1 .. FetchNext - 1
      BY <1>3
    <3> QED BY <3>1 DEF Before
  <2> QED BY <2>1, <2>2 DEF Made
<1> QED BY <1>2, <1>4, <1>5, <1>6 DEF Made

(* What an event announces is there once it has landed, *)
LEMMA HasLanded ==
  ASSUME IInv, in_flight, NEW m \in Made, m.kind = "record", Landed(m.event),
         NEW x \in Buffer, Carries(slot.image, m.event, x)
  PROVE  x \in holds
<1>1. TypeOK /\ MadeInv /\ Clean
  BY InFlight DEF IInv
<1>2. Covered(x, m.event)
  BY <1>1 DEF MadeInv, Effect
<1>3. ~ Recorded(m.event)
  BY <1>1, Typed, Landings
<1> QED BY <1>2, <1>3 DEF Covered, PendingBehind, Recorded

(* and a stream that ends with it is idle. *)
LEMMA HasEnded ==
  ASSUME TypeOK, NEW s \in Stream, NEW e, LastIs(s, e), ~ Recorded(e)
  PROVE  queue[s] = <<>>
<1>1. SUFFICES ASSUME queue[s] # <<>> PROVE FALSE
  OBVIOUS
<1>2. Marker(e, s, Len(queue[s]))
  BY <1>1 DEF LastIs
<1>3. Len(queue[s]) \in DOMAIN queue[s]
  BY <1>2 DEF Marker
<1> QED BY <1>2, <1>3 DEF Recorded

(* When the layout has landed, so have the host's tables. *)
LEMMA LayoutLanded ==
  ASSUME IInv, in_flight, Landed(Once("layout_copied"))
  PROVE  HostTables \subseteq holds
<1> DEFINE m == Record("stream", Once("layout_copied"))
<1>1. slot.image \in Image
  BY Typed DEF IInv
<1>2. m \in Made
  BY <1>1, InFlight, SubmitProgram
<1>3. m.kind = "record" /\ m.event = Once("layout_copied")
  BY CallFields
<1>4. ASSUME NEW x \in HostTables PROVE x \in holds
  <2>1. x \in Buffer
    BY <1>4, BuffersAre
  <2>2. Carries(slot.image, m.event, x)
    BY <1>3, <1>4 DEF Carries
  <2> QED BY <1>2, <1>3, <2>1, <2>2, HasLanded
<1> QED BY <1>4

Drivers ==
  [phase : {"away", "early", "layout", "copies", "tables", "release",
            "dc_sizes", "fetch", "assemble"},
   next : 1 .. Len(StartCopiesCalls[slot.image]) + 1,
   landed : 0 .. AC_BATCHES, visited : BOOLEAN]

(* The driver's next control state. *)
LEMMA DriverIs ==
  ASSUME TypeOK
  PROVE  /\ driver \in Drivers /\ 1 \in 1 .. Len(StartCopiesCalls[slot.image]) + 1
         /\ \A ph : Go(ph) =>
              /\ driver'.phase = ph /\ driver'.next = 1
              /\ driver'.landed = driver.landed /\ driver'.visited = driver.visited
              /\ ph \in {"away", "early", "layout", "copies", "tables", "release",
                         "dc_sizes", "fetch", "assemble"} => driver' \in Drivers
<1>1. driver \in Drivers
  BY DEF TypeOK, Drivers
<1>2. 1 \in 1 .. Len(StartCopiesCalls[slot.image]) + 1
  <2>1. driver.next \in 1 .. Len(StartCopiesCalls[slot.image]) + 1
    BY <1>1 DEF Drivers
  <2> QED BY <2>1
<1> QED BY <1>1, <1>2 DEF Go, Drivers

(* A step of the driver makes no call, or fails to. *)
LEMMA Driven ==
  ASSUME IInv, in_flight, UNCHANGED <<queue, caller, in_flight>>,
         holds' \subseteq Buffer, capacity' \in [DOMAIN Memory -> Nat],
         slot'.frame = slot.frame, slot'.image = slot.image,
         slot' \in [frame : 0 .. MaxFrames, image : Image, copies_started : BOOLEAN],
         driver' \in Drivers, result' \in {"none", "ok", "failed"},
         ControlInv', CopyNext' <= CopyNext, FetchNext' <= FetchNext,
         NEW L, Loses(L)
  PROVE  /\ TypeOK' /\ WaitsInv' /\ AreaInv' /\ InputInv' /\ OpsInv' /\ MadeInv'
         /\ SyncInv' /\ LastInv' /\ Clean
<1>1. /\ TypeOK /\ ControlInv /\ WaitsInv /\ AreaInv /\ InputInv /\ OpsInv /\ MadeInv /\ LastInv
      /\ Clean /\ Clean' /\ caller.phase = "idle"
  BY InFlight DEF IInv, Clean
<1>2. TypeOK'
  BY <1>1 DEF TypeOK, Drivers
<1>3. SubmitNext' = SubmitNext /\ Submitted' = Submitted
  BY DEF SubmitNext, Submitted
<1>4. /\ CopyNext \in Nat /\ CopyNext' \in Nat /\ FetchNext \in Nat /\ FetchNext' \in Nat
      /\ Len(StartCopiesCalls[slot.image]) \in Nat /\ Len(FetchDcCalls[slot.image]) = 3
  <2>1. /\ CopyNext \in Nat /\ FetchNext \in Nat
        /\ Len(StartCopiesCalls[slot.image]) \in Nat /\ Len(FetchDcCalls[slot.image]) = 3
    BY <1>1, MadeWithin
  <2>2. CopyNext' \in Nat
    <3>1. driver'.next \in Nat /\ slot'.copies_started \in BOOLEAN
      BY <2>1 DEF Drivers
    <3> QED BY <2>1, <3>1 DEF CopyNext
  <2>3. FetchNext' \in Nat
    <3>1. driver'.next \in Nat
      BY <2>1 DEF Drivers
    <3> QED BY <2>1, <3>1 DEF FetchNext
  <2> QED BY <2>1, <2>2, <2>3
<1>5. Made' \subseteq Made
  <2>1. Before(StartCopiesCalls[slot.image], CopyNext') \subseteq Before(StartCopiesCalls[slot.image], CopyNext)
    BY <1>4, BeforeGrows
  <2>2. Before(FetchDcCalls[slot.image], FetchNext') \subseteq Before(FetchDcCalls[slot.image], FetchNext)
    <3>1. Len(FetchDcCalls[slot.image]) \in Nat
      BY <1>4
    <3> QED BY <1>4, <3>1, BeforeGrows
  <2> QED BY <1>3, <2>1, <2>2 DEF Made
<1>6. Goes
  BY <1>1, <1>3, <1>5 DEF Goes
<1>7. WaitsInv' /\ AreaInv' /\ InputInv' /\ OpsInv' /\ MadeInv'
  BY <1>1, <1>6, Unmoved
<1>8. SyncInv'
  BY <1>1 DEF SyncInv
<1>9. LastInv'
  <2>1. \A s, e : LastIs(s, e)' <=> LastIs(s, e)
    BY DEF LastIs, Marker
  <2>2. CopyNext' > Len(StartCopiesCalls[slot.image]) => CopyNext > Len(StartCopiesCalls[slot.image])
    BY <1>4
  <2>3. FetchNext' > 3 => FetchNext > 3
    BY <1>4
  <2> QED BY <1>1, <1>3, <2>1, <2>2, <2>3 DEF LastInv
<1> QED BY <1>1, <1>2, <1>7, <1>8, <1>9

(* A step of the driver that makes no call keeps the invariant, if it *)
(* does not claim more than it has seen.                              *)
LEMMA Controlled ==
  ASSUME IInv, in_flight, result = "none", UNCHANGED <<device, caller, in_flight>>,
         slot'.frame = slot.frame, slot'.image = slot.image,
         slot' \in [frame : 0 .. MaxFrames, image : Image, copies_started : BOOLEAN],
         driver' \in Drivers, result' \in {"none", "ok", "failed"},
         ControlInv', CopyNext' <= CopyNext, FetchNext' <= FetchNext,
         Copying' => driver'.next = 1,
         \/ result' # "none" \/ driver.phase \notin {"fetch", "assemble"}
         \/ driver'.phase = "assemble",
         PhaseInv', OkLeavesNothingRunning'
  PROVE  IInv'
<1>1. TypeOK /\ CapacityInv
  BY DEF IInv
<1>2. queue' = queue /\ holds' = holds /\ capacity' = capacity
  BY DEF device
<1>3. Loses({})
  BY <1>2 DEF Loses
<1>4. /\ TypeOK' /\ WaitsInv' /\ AreaInv' /\ InputInv' /\ OpsInv' /\ MadeInv'
      /\ SyncInv' /\ LastInv' /\ Clean
  <2>1. holds' \subseteq Buffer /\ capacity' \in [DOMAIN Memory -> Nat]
    BY <1>1, <1>2, Typed
  <2> QED BY <1>2, <1>3, <2>1, Driven
<1>5. CapacityInv'
  <2>1. TokensFit' <=> TokensFit
    BY <1>2 DEF TokensFit
  <2>2. Copying' => ~ (driver'.next > 1) /\ ~ (driver'.next > 2)
    OBVIOUS
  <2>3. (\E i \in DOMAIN queue["copy_stream"] : queue["copy_stream"][i].kind = "run") => TokensFit
    BY <1>1, <1>4 DEF CapacityInv
  <2>4. (\E i \in DOMAIN queue["dc_stream"] :
           host("dc_body") \in queue["dc_stream"][i].writes) =>
          driver.phase \in {"fetch", "assemble"}
    BY <1>1, <1>4 DEF CapacityInv
  <2> QED BY <1>1, <1>2, <2>1, <2>2, <2>3, <2>4 DEF CapacityInv
<1> QED BY <1>4, <1>5 DEF IInv

(* Starting the next frame's copies early keeps the invariant. *)
LEMMA StartNextCopiesStep ==
  ASSUME IInv, StartNextCopies
  PROVE  IInv'
<1>1. /\ TypeOK /\ ControlInv /\ PhaseInv
  BY DEF IInv
<1>2. /\ driver.phase = "away" /\ in_flight /\ result = "none" /\ ~ driver.visited
      /\ Landed(Once("layout_copied"))
      /\ driver' = [driver EXCEPT !.phase = "early", !.next = 1, !.visited = TRUE]
      /\ UNCHANGED <<device, slot, caller, in_flight, result>>
  BY DEF StartNextCopies, Coming
<1>3. driver' \in Drivers /\ driver'.phase = "early" /\ driver'.next = 1
  BY <1>1, <1>2, DriverIs DEF Drivers
<1>4. ~ slot.copies_started
  BY <1>1, <1>2 DEF ControlInv
<1>5. /\ CopyNext' = 1 /\ CopyNext = 1 /\ FetchNext' = 1 /\ FetchNext = 1
  BY <1>2, <1>3, <1>4 DEF CopyNext, FetchNext, Copying
<1>6. ControlInv'
  BY <1>1, <1>2, <1>3, <1>4 DEF ControlInv
<1>7. PhaseInv' /\ OkLeavesNothingRunning'
  <2>1. HostTables \subseteq holds
    BY <1>2, LayoutLanded
  <2> QED BY <1>2, <1>3, <2>1 DEF PhaseInv, OkLeavesNothingRunning, device
<1>8. Copying' => driver'.next = 1
  BY <1>3
<1>9. slot \in [frame : 0 .. MaxFrames, image : Image, copies_started : BOOLEAN]
      /\ result \in {"none", "ok", "failed"}
  BY <1>1, Typed
<1> QED BY <1>2, <1>3, <1>5, <1>6, <1>7, <1>8, <1>9, Controlled

(* So does beginning to code a frame, *)
LEMMA CodeFrameStep ==
  ASSUME IInv, CodeFrame
  PROVE  IInv'
<1> DEFINE ph == IF slot.copies_started THEN "tables" ELSE "layout"
<1>1. /\ TypeOK /\ ControlInv /\ PhaseInv
  BY DEF IInv
<1>2. /\ driver.phase = "away" /\ in_flight /\ result = "none" /\ Go(ph)
      /\ UNCHANGED <<device, slot, caller, in_flight, result>>
  BY DEF CodeFrame, Coming
<1>3. driver' \in Drivers /\ driver'.phase = ph /\ driver'.next = 1
  BY <1>1, <1>2, DriverIs
<1>4. /\ CopyNext' = CopyNext /\ FetchNext' = 1 /\ FetchNext = 1 /\ ~ Copying'
  BY <1>2, <1>3 DEF CopyNext, FetchNext, Copying
<1>5. ControlInv'
  <2>1. slot.copies_started \in BOOLEAN
    BY <1>1, Typed
  <2> QED BY <1>1, <1>2, <1>3, <2>1 DEF ControlInv
<1>6. PhaseInv' /\ OkLeavesNothingRunning'
  <2>1. slot.copies_started => HostTables \subseteq holds
    BY <1>1, <1>2 DEF PhaseInv
  <2> QED BY <1>2, <1>3, <1>4, <2>1 DEF PhaseInv, OkLeavesNothingRunning, device
<1>7. /\ slot \in [frame : 0 .. MaxFrames, image : Image, copies_started : BOOLEAN]
      /\ result \in {"none", "ok", "failed"} /\ CopyNext \in Nat
  BY <1>1, Typed, MadeWithin
<1>8. CopyNext <= CopyNext
  BY <1>7
<1> QED BY <1>2, <1>3, <1>4, <1>5, <1>6, <1>7, <1>8, Controlled

(* finding its layout landed, *)
LEMMA LayoutLandsStep ==
  ASSUME IInv, LayoutLands
  PROVE  IInv'
<1>1. /\ TypeOK /\ ControlInv /\ PhaseInv
  BY DEF IInv
<1>2. /\ driver.phase = "layout" /\ Landed(Once("layout_copied")) /\ Go("copies")
      /\ UNCHANGED <<device, slot, caller, in_flight, result>>
  BY DEF LayoutLands
<1>3. driver' \in Drivers /\ driver'.phase = "copies" /\ driver'.next = 1
  BY <1>1, <1>2, DriverIs
<1>4. in_flight /\ result = "none" /\ ~ slot.copies_started
  BY <1>1, <1>2 DEF ControlInv
<1>5. /\ CopyNext' = 1 /\ CopyNext = 1 /\ FetchNext' = 1 /\ FetchNext = 1
  BY <1>2, <1>3, <1>4 DEF CopyNext, FetchNext, Copying
<1>6. ControlInv'
  BY <1>1, <1>2, <1>3, <1>4 DEF ControlInv
<1>7. PhaseInv' /\ OkLeavesNothingRunning'
  <2>1. HostTables \subseteq holds
    BY <1>2, <1>4, LayoutLanded
  <2> QED BY <1>2, <1>3, <1>4, <2>1 DEF PhaseInv, OkLeavesNothingRunning, device
<1>8. Copying' => driver'.next = 1
  BY <1>3
<1>9. slot \in [frame : 0 .. MaxFrames, image : Image, copies_started : BOOLEAN]
      /\ result \in {"none", "ok", "failed"}
  BY <1>1, Typed
<1> QED BY <1>2, <1>3, <1>4, <1>5, <1>6, <1>7, <1>8, <1>9, Controlled

(* having started its copies, *)
LEMMA CopiesStartedStep ==
  ASSUME IInv, CopiesStarted
  PROVE  IInv'
<1> DEFINE ph == IF driver.phase = "early" THEN "away" ELSE "tables"
           n == Len(StartCopiesCalls[slot.image])
<1>1. /\ TypeOK /\ ControlInv /\ PhaseInv
  BY DEF IInv
<1>2. /\ Copying /\ driver.next > n /\ slot' = [slot EXCEPT !.copies_started = TRUE] /\ Go(ph)
      /\ UNCHANGED <<device, caller, in_flight, result>>
      /\ driver.phase \in {"early", "copies"}
  BY DEF CopiesStarted, Copying
<1>3. driver' \in Drivers /\ driver'.phase = ph /\ driver'.next = 1
      /\ driver'.visited = driver.visited
  BY <1>1, <1>2, DriverIs
<1>4. /\ slot' \in [frame : 0 .. MaxFrames, image : Image, copies_started : BOOLEAN]
      /\ slot'.frame = slot.frame /\ slot'.image = slot.image /\ slot'.copies_started = TRUE
  BY <1>1, <1>2, Typed
<1>5. in_flight /\ result = "none" /\ ~ slot.copies_started
  BY <1>1, <1>2 DEF ControlInv
<1>6. /\ n \in Nat /\ driver.next \in Nat /\ driver.next <= n + 1
  BY <1>1, Typed, MadeWithin
<1>7. driver.next = n + 1
  BY <1>2, <1>6
<1>8. /\ CopyNext' = n + 1 /\ CopyNext = n + 1 /\ FetchNext' = 1 /\ FetchNext = 1 /\ ~ Copying'
  BY <1>2, <1>3, <1>4, <1>5, <1>7 DEF CopyNext, FetchNext, Copying
<1>9. CopyNext' <= CopyNext /\ FetchNext' <= FetchNext
  BY <1>6, <1>8
<1>10. ControlInv'
  <2>1. driver.phase = "early" => driver.visited
    BY <1>1 DEF ControlInv
  <2> QED BY <1>1, <1>2, <1>3, <1>4, <1>5, <2>1 DEF ControlInv
<1>11. PhaseInv' /\ OkLeavesNothingRunning'
  <2>1. HostTables \subseteq holds
    BY <1>1, <1>2, <1>5 DEF PhaseInv
  <2> QED BY <1>2, <1>3, <1>5, <2>1 DEF PhaseInv, OkLeavesNothingRunning, device
<1> QED BY <1>2, <1>3, <1>4, <1>5, <1>8, <1>9, <1>10, <1>11, Controlled

(* having built its tables, *)
LEMMA TablesBuiltStep ==
  ASSUME IInv, TablesBuilt
  PROVE  IInv'
<1>1. /\ TypeOK /\ ControlInv /\ PhaseInv
  BY DEF IInv
<1>2. /\ driver.phase = "tables"
      /\ driver' = [driver EXCEPT !.phase = "release", !.landed = 0]
      /\ UNCHANGED <<device, slot, caller, in_flight, result>>
  BY DEF TablesBuilt
<1>3. driver' \in Drivers /\ driver'.phase = "release" /\ driver'.landed = 0
  <2>1. 0 \in 0 .. AC_BATCHES
    BY BatchesHave
  <2>2. driver \in Drivers
    BY <1>1, DriverIs
  <2> QED BY <1>2, <2>1, <2>2 DEF Drivers
<1>4. in_flight /\ result = "none" /\ slot.copies_started
  BY <1>1, <1>2 DEF ControlInv
<1>5. /\ CopyNext' = CopyNext /\ FetchNext' = 1 /\ FetchNext = 1 /\ ~ Copying'
      /\ CopyNext <= CopyNext
  <2>1. CopyNext \in Nat
    BY <1>1, MadeWithin
  <2>2. CopyNext <= CopyNext
    BY <2>1
  <2> QED BY <1>2, <1>3, <1>4, <2>2 DEF CopyNext, FetchNext, Copying
<1>6. ControlInv'
  BY <1>1, <1>2, <1>3, <1>4 DEF ControlInv
<1>7. PhaseInv' /\ OkLeavesNothingRunning'
  <2>1. HostTables \subseteq holds
    BY <1>1, <1>4 DEF PhaseInv
  <2>2. \A b \in Batch : ~ (b < 0)
    BY BatchesHave
  <2> QED BY <1>2, <1>3, <1>4, <2>1, <2>2 DEF PhaseInv, OkLeavesNothingRunning, device
<1>8. slot \in [frame : 0 .. MaxFrames, image : Image, copies_started : BOOLEAN]
      /\ result \in {"none", "ok", "failed"}
  BY <1>1, Typed
<1> QED BY <1>2, <1>3, <1>4, <1>5, <1>6, <1>7, <1>8, Controlled

(* releasing a batch, whose copy has landed, *)
LEMMA ReleaseBatchStep ==
  ASSUME IInv, ReleaseBatch
  PROVE  IInv'
<1>1. /\ TypeOK /\ ControlInv /\ PhaseInv
  BY DEF IInv
<1>2. /\ driver.phase = "release" /\ driver.landed < AC_BATCHES
      /\ Landed(copied(driver.landed)) /\ driver' = [driver EXCEPT !.landed = @ + 1]
      /\ UNCHANGED <<device, slot, caller, in_flight, result>>
  BY DEF ReleaseBatch
<1>3. PICK l \in Nat : l = driver.landed
  BY <1>1, Typed
<1>4. l \in Batch /\ l + 1 \in 0 .. AC_BATCHES
  BY <1>2, <1>3, BatchesHave DEF Batch
<1>5. driver' \in Drivers /\ driver'.phase = "release" /\ driver'.landed = l + 1
      /\ driver'.next = driver.next
  BY <1>1, <1>2, <1>3, <1>4, DriverIs DEF Drivers
<1>6. in_flight /\ result = "none" /\ slot.copies_started
  BY <1>1, <1>2 DEF ControlInv
<1>7. /\ CopyNext' = CopyNext /\ FetchNext' = 1 /\ FetchNext = 1 /\ ~ Copying'
      /\ CopyNext <= CopyNext
  <2>1. CopyNext \in Nat
    BY <1>1, MadeWithin
  <2>2. CopyNext <= CopyNext
    BY <2>1
  <2> QED BY <1>2, <1>5, <1>6, <2>2 DEF CopyNext, FetchNext, Copying
<1>8. ControlInv'
  BY <1>1, <1>2, <1>5, <1>6 DEF ControlInv
<1>9. /\ ~ Recorded(copied(l))
      /\ \A x \in Buffer : Carries(slot.image, copied(l), x) => x \in holds
  <2>1. PICK m : m = Record("copy_stream", copied(l))
    OBVIOUS
  <2>2. m.kind = "record" /\ m.event = copied(l)
    BY <2>1, CallFields
  <2>3. m \in Made
    <3>1. slot.image \in Image
      BY <1>1, Typed
    <3>2. m \in Calls(StartCopiesCalls[slot.image])
      BY <1>4, <2>1, <3>1, CopiesProgram
    <3> QED BY <1>6, <3>2, InFlight
  <2>4. Landed(m.event)
    BY <1>2, <1>3, <2>2
  <2>5. \A x \in Buffer : Carries(slot.image, m.event, x) => x \in holds
    BY <1>6, <2>2, <2>3, <2>4, HasLanded
  <2>6. ~ Recorded(m.event)
    BY <1>1, <2>4, Typed, Landings
  <2> QED BY <2>2, <2>5, <2>6
<1>10. ASSUME NEW b \in Batch, b < l + 1
       PROVE  /\ ~ Recorded(copied(b))
              /\ \A x \in Buffer : Carries(slot.image, copied(b), x) => x \in holds
  <2>1. b < l \/ b = l
    BY <1>10, BatchesHave
  <2> QED BY <1>1, <1>2, <1>3, <1>9, <2>1 DEF PhaseInv
<1>11. PhaseInv' /\ OkLeavesNothingRunning'
  <2>1. HostTables \subseteq holds
    BY <1>1, <1>6 DEF PhaseInv
  <2>2. queue' = queue /\ holds' = holds
    BY <1>2 DEF device
  <2>3. \A e : Recorded(e)' <=> Recorded(e)
    BY <2>2, SameQueues
  <2> QED BY <1>2, <1>5, <1>6, <1>10, <2>1, <2>2, <2>3 DEF PhaseInv, OkLeavesNothingRunning
<1>12. slot \in [frame : 0 .. MaxFrames, image : Image, copies_started : BOOLEAN]
      /\ result \in {"none", "ok", "failed"}
  BY <1>1, Typed
<1> QED BY <1>2, <1>5, <1>6, <1>7, <1>8, <1>11, <1>12, Controlled

(* The phases that follow change nothing else. *)
LEMMA Onwards ==
  ASSUME IInv, NEW ph, Go(ph), UNCHANGED <<device, slot, caller, in_flight, result>>,
         \/ driver.phase = "release" /\ ph = "dc_sizes" /\ driver.landed = AC_BATCHES
         \/ driver.phase = "dc_sizes" /\ ph = "fetch" /\ host("dc_sizes") \in holds
         \/ /\ driver.phase = "fetch" /\ ph = "assemble" /\ driver.next > 3
            /\ host("dc_body") \in holds /\ queue["dc_stream"] = <<>>
  PROVE  IInv'
<1>1. /\ TypeOK /\ ControlInv /\ PhaseInv
  BY DEF IInv
<1>2. driver' \in Drivers /\ driver'.phase = ph /\ driver'.next = 1
      /\ driver'.landed = driver.landed
  BY <1>1, DriverIs
<1>3. in_flight /\ result = "none" /\ slot.copies_started
  BY <1>1 DEF ControlInv
<1>4. /\ FetchNext' <= FetchNext
  <2>1. driver.phase = "fetch" => driver.next = 4
    <3>1. driver.phase = "fetch" => driver.next > 3 /\ driver.next <= 4 /\ driver.next \in Nat
      BY <1>1, Typed DEF ControlInv
    <3> QED BY <3>1
  <2>2. Len(FetchDcCalls[slot.image]) + 1 = 4
    <3>1. Len(FetchDcCalls[slot.image]) = 3
      BY <1>1, MadeWithin
    <3> QED BY <3>1
  <2> QED BY <1>2, <2>1, <2>2 DEF FetchNext
<1>5. /\ CopyNext' = CopyNext /\ ~ Copying' /\ CopyNext <= CopyNext
  <2>1. CopyNext \in Nat
    BY <1>1, MadeWithin
  <2>2. CopyNext <= CopyNext
    BY <2>1
  <2> QED BY <1>2, <1>3, <2>2 DEF CopyNext, Copying
<1>6. ControlInv'
  BY <1>1, <1>2, <1>3 DEF ControlInv
<1>7. PhaseInv'
  <2>1. HostTables \subseteq holds
    BY <1>1, <1>3 DEF PhaseInv
  <2>2. queue' = queue /\ holds' = holds
    BY DEF device
  <2>3. \A e : Recorded(e)' <=> Recorded(e)
    BY <2>2, SameQueues
  <2>4. \A b \in Batch : b < driver.landed =>
          /\ ~ Recorded(copied(b))
          /\ \A x \in Buffer : Carries(slot.image, copied(b), x) => x \in holds
    BY <1>1 DEF PhaseInv
  <2>5. driver.landed = AC_BATCHES
    BY <1>1 DEF PhaseInv
  <2>6. ph \in {"fetch", "assemble"} => host("dc_sizes") \in holds
    BY <1>1 DEF PhaseInv
  <2> QED BY <1>2, <2>1, <2>2, <2>3, <2>4, <2>5, <2>6 DEF PhaseInv
<1>8. OkLeavesNothingRunning'
  BY <1>3 DEF OkLeavesNothingRunning
<1>9. slot \in [frame : 0 .. MaxFrames, image : Image, copies_started : BOOLEAN]
      /\ result \in {"none", "ok", "failed"}
  BY <1>1, Typed
<1>10. \/ result' # "none" \/ driver.phase \notin {"fetch", "assemble"}
       \/ driver'.phase = "assemble"
  BY <1>2
<1> QED BY <1>2, <1>3, <1>4, <1>5, <1>6, <1>7, <1>8, <1>9, <1>10, Controlled

(* having released all batches, *)
LEMMA AllReleasedStep ==
  ASSUME IInv, AllReleased
  PROVE  IInv'
BY Onwards DEF AllReleased

(* finding the DcGroups' sizes landed, *)
LEMMA DcSizesLandStep ==
  ASSUME IInv, DcSizesLand
  PROVE  IInv'
<1>1. /\ driver.phase = "dc_sizes" /\ Landed(Once("dc_sizes_copied")) /\ Go("fetch")
      /\ UNCHANGED <<device, slot, caller, in_flight, result>>
  BY DEF DcSizesLand
<1>2. in_flight /\ slot.image \in Image
  BY <1>1, Typed DEF IInv, ControlInv
<1>3. PICK m : m = Record("dc_stream", Once("dc_sizes_copied"))
  OBVIOUS
<1>4. m.kind = "record" /\ m.event = Once("dc_sizes_copied") /\ m \in Made
  BY <1>2, <1>3, CallFields, SubmitProgram, InFlight
<1>5. host("dc_sizes") \in Buffer /\ Carries(slot.image, m.event, host("dc_sizes"))
  BY <1>4, BuffersAre DEF Carries, HostOnce
<1>6. host("dc_sizes") \in holds
  BY <1>1, <1>2, <1>4, <1>5, HasLanded
<1> QED BY <1>1, <1>6, Onwards

(* finding the coded DcGroups landed, when nothing is left in the *)
(* streams,                                                       *)
LEMMA DcBodyLandsStep ==
  ASSUME IInv, DcBodyLands
  PROVE  IInv'
<1>1. /\ driver.phase = "fetch" /\ driver.next > Len(FetchDcCalls[slot.image])
      /\ Landed(Once("dc_body_copied")) /\ Go("assemble")
      /\ UNCHANGED <<device, slot, caller, in_flight, result>>
  BY DEF DcBodyLands
<1>2. TypeOK /\ ControlInv /\ in_flight /\ LastInv
  BY <1>1 DEF IInv, ControlInv
<1>3. driver.next > 3 /\ FetchNext > 3
  <2>1. Len(FetchDcCalls[slot.image]) = 3
    BY <1>2, MadeWithin
  <2> QED BY <1>1, <2>1 DEF FetchNext
<1>4. PICK m : m = Record("dc_stream", Once("dc_body_copied"))
  OBVIOUS
<1>5. m.kind = "record" /\ m.event = Once("dc_body_copied") /\ m \in Made
  BY <1>2, <1>3, <1>4, CallFields, InFlight
<1>6. host("dc_body") \in Buffer /\ Carries(slot.image, m.event, host("dc_body"))
  BY <1>5, BuffersAre DEF Carries, HostOnce
<1>7. host("dc_body") \in holds
  BY <1>1, <1>2, <1>5, <1>6, HasLanded
<1>8. queue["dc_stream"] = <<>>
  <2>1. LastIs("dc_stream", Once("dc_body_copied"))
    BY <1>2, <1>3 DEF LastInv
  <2>2. ~ Recorded(Once("dc_body_copied"))
    BY <1>1, <1>2, Typed, Landings
  <2>3. "dc_stream" \in Stream
    BY DEF Stream
  <2> QED BY <1>2, <2>1, <2>2, <2>3, HasEnded
<1> QED BY <1>1, <1>3, <1>7, <1>8, Onwards

(* A frame completes, or its copies fail for now. *)
LEMMA Leaves ==
  ASSUME TypeOK, ControlInv, driver.phase # "away", Go("away"),
         UNCHANGED <<slot, caller, in_flight>>,
         \/ result' \in {"ok", "failed"} \/ (result' = result /\ driver.phase = "early")
  PROVE  /\ driver' \in Drivers /\ driver'.phase = "away" /\ driver'.next = 1
         /\ result' \in {"none", "ok", "failed"} /\ ControlInv' /\ ~ Copying'
         /\ CopyNext' <= CopyNext /\ FetchNext' <= FetchNext /\ in_flight /\ result = "none"
<1>1. driver' \in Drivers /\ driver'.phase = "away" /\ driver'.next = 1
      /\ driver'.visited = driver.visited
  BY DriverIs
<1>2. in_flight /\ result = "none" /\ result' \in {"none", "ok", "failed"}
  BY DEF ControlInv
<1>3. ~ Copying' /\ FetchNext' = 1
  BY <1>1 DEF Copying, FetchNext
<1>4. ControlInv'
  BY <1>1, <1>2 DEF ControlInv
<1>5. CopyNext' <= CopyNext /\ FetchNext' <= FetchNext
  <2>1. /\ CopyNext \in Nat /\ 1 <= CopyNext /\ FetchNext \in Nat /\ 1 <= FetchNext
        /\ Len(StartCopiesCalls[slot.image]) \in Nat
    BY MadeWithin
  <2>2. CopyNext' = CopyNext \/ CopyNext' = 1
    BY <1>3 DEF CopyNext
  <2> QED BY <1>3, <2>1, <2>2
<1> QED BY <1>1, <1>2, <1>3, <1>4, <1>5

(* completing the frame, *)
LEMMA AssembleStep ==
  ASSUME IInv, Assemble
  PROVE  IInv'
<1>1. /\ TypeOK /\ ControlInv /\ PhaseInv /\ LastInv /\ MadeInv
  BY DEF IInv
<1>2. /\ driver.phase = "assemble" /\ Go("away") /\ result' = "ok"
      /\ UNCHANGED <<device, slot, caller, in_flight>>
      /\ queue' = queue /\ holds' = holds /\ UNCHANGED <<slot, caller, in_flight>>
      /\ driver.phase # "away"
  BY DEF Assemble, Complete, device
<1>3. /\ driver' \in Drivers /\ driver'.phase = "away" /\ driver'.next = 1
      /\ result' \in {"none", "ok", "failed"} /\ ControlInv' /\ ~ Copying'
      /\ CopyNext' <= CopyNext /\ FetchNext' <= FetchNext /\ in_flight /\ result = "none"
  BY <1>1, <1>2, Leaves
<1>4. slot.copies_started /\ slot.image \in Image
  BY <1>1, <1>2, Typed DEF ControlInv
<1>5. HostTables \subseteq holds /\ driver.landed = AC_BATCHES /\ queue["dc_stream"] = <<>>
  BY <1>1, <1>2, <1>3, <1>4 DEF PhaseInv
<1>6. queue["copy_stream"] = <<>>
  <2>1. LastBatch \in Batch /\ LastBatch < AC_BATCHES
    BY BatchesHave DEF LastBatch
  <2>2. ~ Recorded(copied(LastBatch))
    BY <1>1, <1>2, <1>5, <2>1 DEF PhaseInv
  <2>3. CopyNext > Len(StartCopiesCalls[slot.image])
    <3>1. Len(StartCopiesCalls[slot.image]) \in Nat
      BY <1>1, MadeWithin
    <3> QED BY <1>4, <3>1 DEF CopyNext
  <2>4. LastIs("copy_stream", copied(LastBatch))
    BY <1>1, <1>3, <2>3 DEF LastInv
  <2>5. "copy_stream" \in Stream
    BY DEF Stream
  <2> QED BY <1>1, <2>2, <2>4, <2>5, HasEnded
<1>7. queue["stream"] = <<>>
  <2>1. PICK m : m = Wait("copy_stream", packed(LastBatch))
    OBVIOUS
  <2>2. m.kind = "wait" /\ m.stream = "copy_stream" /\ m.event = packed(LastBatch)
    BY <2>1, CallFields
  <2>3. m \in Made
    <3>1. m \in Calls(StartCopiesCalls[slot.image])
      BY <1>4, <2>1, BatchesHave, CopiesProgram
    <3> QED BY <1>3, <1>4, <3>1, InFlight
  <2>4. Clean
    BY <1>3, InFlight
  <2>5. Recorded(m.event) => \E i \in DOMAIN queue[m.stream] : Waiter(m.event, m.stream, i)
    BY <1>1, <2>2, <2>3, <2>4 DEF MadeInv, Effect
  <2>6. DOMAIN queue["copy_stream"] = {}
    BY <1>6
  <2>7. ~ Recorded(packed(LastBatch))
    BY <2>2, <2>5, <2>6
  <2>8. SubmitNext > Len(SubmitCalls[slot.image])
    <3>1. Len(SubmitCalls[slot.image]) \in Nat
      BY <1>1, MadeWithin
    <3> QED BY <1>3, <3>1 DEF SubmitNext
  <2>9. LastIs("stream", packed(LastBatch))
    BY <1>1, <2>4, <2>8 DEF LastInv
  <2>10. "stream" \in Stream
    BY DEF Stream
  <2> QED BY <1>1, <2>7, <2>9, <2>10, HasEnded
<1>8. OkLeavesNothingRunning'
  BY <1>2, <1>5, <1>6, <1>7 DEF OkLeavesNothingRunning, SlotStream, Stream
<1>9. PhaseInv'
  BY <1>2, <1>3, <1>5 DEF PhaseInv
<1>10. /\ slot \in [frame : 0 .. MaxFrames, image : Image, copies_started : BOOLEAN]
       /\ result' # "none"
  BY <1>1, <1>2, Typed
<1> QED BY <1>2, <1>3, <1>8, <1>9, <1>10, Controlled

(* and giving it up. *)
LEMMA CodeFailsStep ==
  ASSUME IInv, CodeFails
  PROVE  IInv'
<1>1. /\ TypeOK /\ ControlInv /\ PhaseInv
  BY DEF IInv
<1>2. /\ driver.phase # "away" /\ Go("away") /\ result' = "failed"
      /\ UNCHANGED <<device, slot, caller, in_flight>>
      /\ queue' = queue /\ holds' = holds /\ UNCHANGED <<slot, caller, in_flight>>
      /\ driver.phase # "away"
  BY DEF CodeFails, Complete, device
<1>3. /\ driver' \in Drivers /\ driver'.phase = "away" /\ driver'.next = 1
      /\ result' \in {"none", "ok", "failed"} /\ ControlInv' /\ ~ Copying'
      /\ CopyNext' <= CopyNext /\ FetchNext' <= FetchNext /\ in_flight /\ result = "none"
  BY <1>1, <1>2, Leaves
<1>4. PhaseInv' /\ OkLeavesNothingRunning'
  <2>1. slot.copies_started => HostTables \subseteq holds
    BY <1>1, <1>3 DEF PhaseInv
  <2> QED BY <1>2, <1>3, <2>1 DEF PhaseInv, OkLeavesNothingRunning
<1>5. /\ slot \in [frame : 0 .. MaxFrames, image : Image, copies_started : BOOLEAN]
      /\ result' # "none"
  BY <1>1, <1>2, Typed
<1> QED BY <1>2, <1>3, <1>4, <1>5, Controlled

(* What submit does says nothing of the tokens and the DcGroups on the host. *)
LEMMA HostCarried ==
  ASSUME NEW image, NEW e, NEW x, Carries(image, e, x)
  PROVE  /\ x \in HostTokens => \E b \in Batch : e = copied(b)
         /\ x = host("dc_body") => e = Once("dc_body_copied")
<1>1. /\ \A y \in Arena \cup {planes, texture} : y \notin HostTokens /\ y # host("dc_body")
      /\ \A y : host(y) \notin HostTokens
      /\ \A y : host(y) = host("dc_body") => y = "dc_body"
      /\ host("dc_body") \notin HostTokens
  BY BuffersDiffer DEF HostTokens
<1>2. /\ dev("frontend") \in Arena /\ dev("residual") \in Arena
      /\ \A b \in Batch : devBatch("entries", b) \in Arena /\ devBatch("raw", b) \in Arena
  BY ArenaHas
<1>3. /\ HostTables \cap HostTokens = {} /\ host("dc_body") \notin HostTables
  BY <1>1 DEF HostTables
<1>4. CASE e = Once("input_ready") /\ x = planes
  BY <1>1, <1>4
<1>5. CASE e = Once("forked") /\ x \in {dev("frontend"), dev("residual")}
  BY <1>1, <1>2, <1>5
<1>6. CASE e = Once("layout_copied") /\ x \in HostTables
  BY <1>3, <1>6
<1>7. CASE e = Once("dc_sizes_copied") /\ x = host("dc_sizes")
  BY <1>1, <1>7
<1>8. CASE e = Once("dc_body_copied") /\ x = host("dc_body")
  BY <1>1, <1>8
<1>9. ASSUME NEW b \in Batch, e = packed(b), x \in {devBatch("entries", b), devBatch("raw", b)}
      PROVE  x \notin HostTokens /\ x # host("dc_body")
  BY <1>1, <1>2, <1>9
<1>10. ASSUME NEW b \in Batch, e = copied(b), x \in {hostBatch("entries", b), hostBatch("raw", b)}
       PROVE  x # host("dc_body") /\ \E d \in Batch : e = copied(d)
  <2>1. x # host("dc_body")
    BY <1>10, BuffersDiffer
  <2> QED BY <1>10, <2>1
<1> QED BY <1>4, <1>5, <1>6, <1>7, <1>8, <1>9, <1>10 DEF Carries

(* No call of submit is about the host's tokens or DcGroups. *)
LEMMA SubmitFillsNot ==
  ASSUME NEW image \in Image, NEW m \in Calls(SubmitCalls[image]),
         NEW x \in HostTokens \cup {host("dc_body")}
  PROVE  ~ Fills(image, m, x)
<1>1. m \in OfSubmit
  <2>1. SubmitCalls[image] \in Seq(OfSubmit)
    BY SubmitProgram DEF Starts
  <2> QED BY <2>1 DEF Calls
<1>2. SUFFICES ASSUME Fills(image, m, x) PROVE FALSE
  OBVIOUS
<1>3. x # texture /\ x \notin Arena /\ x \notin HostTables /\ x # host("dc_sizes")
  BY BuffersDiffer DEF HostTokens, HostTables
<1>4. CASE m.kind = "run" /\ x \in m.writes
  <2>1. m.stream \in {"stream", "dc_stream"} /\ x \in MayWrite(m.stream) \ {host("dc_body")}
    BY <1>1, <1>4, SubmitCallIs
  <2>2. x \in Arena \cup HostTables \cup {host("dc_sizes")}
    BY <2>1, StreamsMay
  <2> QED BY <1>3, <2>2
<1>5. CASE m.kind \in {"record", "wait"} /\ Carries(image, m.event, x)
  <2>1. m.event \in SubmitRecords
    <3>1. CASE m.kind = "record"
      BY <1>1, <3>1, SubmitCallIs DEF SubmitRecords
    <3>2. CASE m.kind = "wait"
      BY <1>1, <3>2, SubmitCallIs, CallFields DEF SubmitRecords
    <3> QED BY <1>5, <3>1, <3>2
  <2>2. m.event = Once("dc_body_copied") \/ \E b \in Batch : m.event = copied(b)
    BY <1>5, HostCarried
  <2> QED BY <2>1, <2>2, EventsDiffer DEF SubmitRecords
<1> QED BY <1>2, <1>3, <1>4, <1>5 DEF Fills

(* No call of start_copies is about the host's DcGroups. *)
LEMMA CopiesFillNot ==
  ASSUME NEW image \in Image, NEW m \in Calls(StartCopiesCalls[image])
  PROVE  ~ Fills(image, m, host("dc_body"))
<1>1. m \in OfStartCopies(image)
  <2>1. StartCopiesCalls[image] \in Seq(OfStartCopies(image))
    BY CopiesProgram
  <2> QED BY <2>1 DEF Calls
<1>2. SUFFICES ASSUME Fills(image, m, host("dc_body")) PROVE FALSE
  OBVIOUS
<1>3. host("dc_body") \notin HostTokens /\ host("dc_body") # texture
  BY BuffersDiffer DEF HostTokens
<1>4. m.kind # "run" \/ host("dc_body") \notin m.writes
  BY <1>1, <1>3, StartCopiesCallIs
<1>5. CASE m.kind \in {"record", "wait"} /\ Carries(image, m.event, host("dc_body"))
  <2>1. m.event = Once("dc_body_copied")
    BY <1>5, HostCarried
  <2>2. \E b \in Batch : m.event = copied(b) \/ m.event = packed(b)
    BY <1>1, <1>5, StartCopiesCallIs
  <2> QED BY <2>1, <2>2, EventsDiffer
<1> QED BY <1>2, <1>3, <1>4, <1>5 DEF Fills

(* The calls of start_copies. *)
LEMMA CopyBefore ==
  ASSUME IInv, Copying, driver.next <= Len(StartCopiesCalls[slot.image]),
         NEW c, c = StartCopiesCalls[slot.image][driver.next]
  PROVE  LET p == StartCopiesCalls[slot.image]
             k == driver.next
             base == Calls(SubmitCalls[slot.image])
         IN  /\ in_flight /\ result = "none" /\ ~ slot.copies_started /\ Clean
             /\ HostTables \subseteq holds /\ driver.phase \in {"early", "copies"}
             /\ k \in 1 .. Len(p) /\ Len(p) \in Nat /\ Len(p) >= 3 /\ slot.image \in Image
             /\ CopyNext = k /\ FetchNext = 1 /\ Made = base \cup Before(p, k)
             /\ c \in OfStartCopies(slot.image) /\ c \in Calls(p)
             /\ k = 1 => c = Reserve("entries", slot.image.tokens)
             /\ k = 2 => c = Reserve("raw", slot.image.tokens + 1)
             /\ k >= 3 => Enqueues(c)
             /\ k <= 2 => Before(p, k) \subseteq {Reserve("entries", slot.image.tokens)}
             /\ slot.image.tokens \in Nat
             /\ \A i \in DOMAIN queue["dc_stream"] :
                  host("dc_body") \notin queue["dc_stream"][i].writes
<1> DEFINE p == StartCopiesCalls[slot.image]
           k == driver.next
<1>1. TypeOK /\ ControlInv /\ PhaseInv /\ CapacityInv /\ driver.phase \in {"early", "copies"}
  BY DEF IInv, Copying
<1>2. /\ in_flight /\ result = "none" /\ ~ slot.copies_started
      /\ HostTables \subseteq holds
  BY <1>1 DEF ControlInv, PhaseInv
<1>3. /\ k \in Nat /\ 1 <= k /\ Len(p) \in Nat /\ slot.image \in Image
      /\ slot.image.tokens \in Nat
  BY <1>1, Typed, MadeWithin
<1>4. /\ p \in Seq(OfStartCopies(slot.image)) /\ Len(p) >= 3
      /\ p[1] = Reserve("entries", slot.image.tokens)
      /\ p[2] = Reserve("raw", slot.image.tokens + 1)
      /\ \A i \in 3 .. Len(p) : p[i].kind \in {"run", "record", "wait"}
  BY <1>3, CopiesProgram
<1>5. CopyNext = k /\ FetchNext = 1
  BY <1>1, <1>2 DEF CopyNext, FetchNext, Copying
<1>6. k \in 1 .. Len(p)
  BY <1>3
<1>7. Made = Calls(SubmitCalls[slot.image]) \cup Before(p, k)
  <2>1. Before(FetchDcCalls[slot.image], 1) = {}
    BY FewCalls
  <2>2. Submitted = Calls(SubmitCalls[slot.image])
    BY <1>2, InFlight
  <2> QED BY <1>5, <2>1, <2>2 DEF Made
<1>8. c \in OfStartCopies(slot.image) /\ c \in Calls(p)
  <2>1. p[k] \in OfStartCopies(slot.image)
    BY <1>4, <1>6
  <2> QED BY <1>6, <2>1, EarlierCalls
<1>9. k >= 3 => Enqueues(c)
  <2>1. k >= 3 => k \in 3 .. Len(p)
    BY <1>3
  <2> QED BY <1>4, <2>1 DEF Enqueues
<1>10. k <= 2 => Before(p, k) \subseteq {p[1]}
  <2>1. k <= 2 => k = 1 \/ k = 2
    BY <1>3
  <2> QED BY <2>1, FewCalls
<1>11. Clean
  BY <1>2 DEF Clean
<1>12. \A i \in DOMAIN queue["dc_stream"] :
         host("dc_body") \notin queue["dc_stream"][i].writes
  BY <1>1, <1>2, <1>11 DEF CapacityInv
<1> QED BY <1>1, <1>2, <1>3, <1>4, <1>5, <1>6, <1>7, <1>8, <1>9, <1>10, <1>11, <1>12

(* Nothing reads or awaits the tokens of the host before they are reserved. *)
LEMMA TokensFree ==
  ASSUME IInv, Copying, driver.next <= Len(StartCopiesCalls[slot.image]),
         NEW c, c = StartCopiesCalls[slot.image][driver.next], c.kind = "reserve",
         holds' = holds \/ holds' = holds \ Memory[c.memory]
  PROVE  /\ c.memory \in {"entries", "raw"} /\ c.memory \in DOMAIN Memory
         /\ c.size \in Nat /\ driver.next <= 2
         /\ Loses(Memory[c.memory]) /\ HostTables \subseteq holds'
         /\ TokensFit => capacity[c.memory] >= c.size
         /\ driver.next = 1 =>
              c.memory = "entries" /\ c.size = slot.image.tokens
         /\ driver.next = 2 =>
              c.memory = "raw" /\ c.size = slot.image.tokens + 1
<1> DEFINE k == driver.next
           p == StartCopiesCalls[slot.image]
<1>1. /\ HostTables \subseteq holds /\ k \in 1 .. Len(p) /\ Len(p) \in Nat
      /\ slot.image \in Image
      /\ Made = Calls(SubmitCalls[slot.image]) \cup Before(p, k)
      /\ k = 1 => c = Reserve("entries", slot.image.tokens)
      /\ k = 2 => c = Reserve("raw", slot.image.tokens + 1)
      /\ k >= 3 => Enqueues(c)
      /\ k <= 2 => Before(p, k) \subseteq {Reserve("entries", slot.image.tokens)}
      /\ slot.image.tokens \in Nat
  BY CopyBefore
<1>2. k = 1 \/ k = 2
  <2>1. ~ (k >= 3)
    BY <1>1 DEF Enqueues
  <2> QED BY <1>1, <2>1
<1>3. /\ k = 1 => c.memory = "entries" /\ c.size = slot.image.tokens
      /\ k = 2 => c.memory = "raw" /\ c.size = slot.image.tokens + 1
  BY <1>1, CallFields
<1>4. /\ c.memory \in {"entries", "raw"} /\ c.size \in Nat /\ k <= 2
      /\ c.memory \in DOMAIN Memory /\ Memory[c.memory] \subseteq HostTokens
  <2>1. c.memory \in {"entries", "raw"} /\ c.size \in Nat /\ k <= 2
    <3>1. CASE k = 1
      BY <1>1, <1>3, <3>1
    <3>2. CASE k = 2
      <4>1. slot.image.tokens + 1 \in Nat
        BY <1>1
      <4> QED BY <1>3, <3>2, <4>1
    <3> QED BY <1>2, <3>1, <3>2
  <2>2. Memory[c.memory] \subseteq HostTokens
    BY <2>1, TokenMemory
  <2> QED BY <2>1, <2>2, MemoryIs
<1>5. TokensFit => capacity[c.memory] >= c.size
  BY <1>2, <1>3 DEF TokensFit
<1>6. ASSUME NEW x \in HostTokens
      PROVE  /\ x # planes /\ x \notin HostTables
             /\ \A s \in SlotStream : x \notin MayRead(s)
             /\ \A m \in Made : ~ Fills(slot.image, m, x)
  <2>1. x # planes /\ x # texture /\ x \notin Arena /\ x \notin HostTables
    BY <1>6, BuffersDiffer DEF HostTokens, HostTables
  <2>2. \A s : x \notin MayRead(s)
    BY <2>1 DEF MayRead
  <2>3. \A m \in Calls(SubmitCalls[slot.image]) : ~ Fills(slot.image, m, x)
    BY <1>1, <1>6, SubmitFillsNot
  <2>4. ASSUME NEW m \in Before(p, k) PROVE ~ Fills(slot.image, m, x)
    <3>1. m = Reserve("entries", slot.image.tokens)
      BY <1>1, <1>4, <2>4
    <3>2. m.kind = "reserve"
      BY <3>1, CallFields
    <3> QED BY <3>2 DEF Fills
  <2> QED BY <1>1, <2>1, <2>2, <2>3, <2>4
<1>7. Loses(Memory[c.memory])
  <2>1. planes \notin Memory[c.memory]
    BY <1>4, <1>6
  <2>2. \A m \in Made : \A x \in Memory[c.memory] : ~ Fills(slot.image, m, x)
    BY <1>4, <1>6
  <2>3. \A s \in SlotStream : Memory[c.memory] \cap MayRead(s) = {}
    BY <1>4, <1>6
  <2> QED BY <2>1, <2>2, <2>3 DEF Loses
<1>8. HostTables \subseteq holds'
  BY <1>1, <1>4, <1>6
<1> QED BY <1>3, <1>4, <1>5, <1>7, <1>8

(* A failing call of start_copies keeps the invariant. *)
LEMMA CopyFailsStep ==
  ASSUME IInv, CopyFails
  PROVE  IInv'
<1>0. PICK c : c = StartCopiesCalls[slot.image][driver.next]
  OBVIOUS
<1>1. /\ TypeOK /\ ControlInv /\ CapacityInv
  BY DEF IInv
<1>2. /\ Copying /\ driver.next <= Len(StartCopiesCalls[slot.image]) /\ Fails(c)
      /\ Go("away") /\ UNCHANGED <<slot, caller, in_flight>>
      /\ result' = "failed" \/ (result' = result /\ driver.phase = "early")
      /\ driver.phase # "away"
  BY <1>0 DEF CopyFails, Complete, Copying
<1>3. /\ in_flight /\ result = "none" /\ ~ slot.copies_started /\ Clean
      /\ slot.image \in Image /\ slot.image.tokens \in Nat
      /\ driver.next = 1 => c = Reserve("entries", slot.image.tokens)
      /\ driver.next = 2 => c = Reserve("raw", slot.image.tokens + 1)
      /\ driver.next >= 3 => Enqueues(c)
      /\ \A i \in DOMAIN queue["dc_stream"] :
           host("dc_body") \notin queue["dc_stream"][i].writes
  BY <1>0, <1>2, CopyBefore
<1>4. /\ driver' \in Drivers /\ driver'.phase = "away" /\ driver'.next = 1
      /\ result' \in {"none", "ok", "failed"} /\ ControlInv' /\ ~ Copying'
      /\ CopyNext' <= CopyNext /\ FetchNext' <= FetchNext
  BY <1>1, <1>2, Leaves
<1>5. /\ c.kind \in {"run", "record", "wait", "reserve"}
      /\ c.kind = "reserve" => c.memory \in {"entries", "raw"}
  <2>1. driver.next = 1 \/ driver.next = 2 \/ driver.next >= 3
    <3>1. driver.next \in Nat /\ 1 <= driver.next
      BY <1>1, Typed
    <3> QED BY <3>1
  <2> QED BY <1>3, <2>1, CallFields DEF Enqueues
<1>6. c.kind = "reserve" => c.memory \in DOMAIN Memory /\ c.memory # "chroma"
  BY <1>5, MemoryIs
<1>7. /\ queue' = queue /\ capacity' \in [DOMAIN Memory -> Nat]
      /\ \/ holds' = holds /\ capacity' = capacity
         \/ /\ c.kind = "reserve" /\ capacity[c.memory] < c.size
            /\ holds' = holds \ Memory[c.memory]
            /\ capacity' = [capacity EXCEPT ![c.memory] = 0]
  BY <1>1, <1>2, <1>5, <1>6, Failures
<1>8. PICK L : Loses(L)
  <2>1. CASE holds' = holds
    <3>1. Loses({})
      BY <2>1 DEF Loses
    <3> QED BY <3>1
  <2>2. CASE c.kind = "reserve" /\ holds' = holds \ Memory[c.memory]
    <3>1. Loses(Memory[c.memory])
      BY <1>0, <1>2, <2>2, TokensFree
    <3> QED BY <3>1
  <2> QED BY <1>7, <2>1, <2>2
<1>9. holds' \subseteq Buffer
  BY <1>1, <1>7, Typed
<1>10. slot \in [frame : 0 .. MaxFrames, image : Image, copies_started : BOOLEAN]
  BY <1>1, Typed
<1>11. /\ TypeOK' /\ WaitsInv' /\ AreaInv' /\ InputInv' /\ OpsInv' /\ MadeInv'
       /\ SyncInv' /\ LastInv'
  BY <1>2, <1>3, <1>4, <1>7, <1>8, <1>9, <1>10, Driven
<1>12. PhaseInv' /\ OkLeavesNothingRunning'
  BY <1>2, <1>3, <1>4 DEF PhaseInv, OkLeavesNothingRunning
<1>13. capacity'["chroma"] = capacity["chroma"] /\ (capacity' = capacity \/ ~ TokensFit)
  <2>1. CASE capacity' = capacity
    BY <2>1
  <2>2. CASE /\ c.kind = "reserve" /\ capacity[c.memory] < c.size
             /\ holds' = holds \ Memory[c.memory]
             /\ capacity' = [capacity EXCEPT ![c.memory] = 0]
    <3>1. (TokensFit => capacity[c.memory] >= c.size) /\ c.size \in Nat
      BY <1>0, <1>2, <2>2, TokensFree
    <3>2. capacity \in [DOMAIN Memory -> Nat] /\ "chroma" \in DOMAIN Memory
      BY <1>1, Typed, MemoryIs
    <3>3. capacity[c.memory] \in Nat
      BY <1>6, <2>2, <3>2
    <3>4. ~ TokensFit
      BY <2>2, <3>1, <3>3
    <3> QED BY <1>6, <2>2, <3>2, <3>4
  <2> QED BY <1>7, <2>1, <2>2
<1>14. CapacityInv'
  <2>1. ASSUME NEW i \in DOMAIN queue["copy_stream"], queue["copy_stream"][i].kind = "run"
        PROVE  TokensFit'
    <3>1. TokensFit
      BY <1>1, <1>3, <2>1 DEF CapacityInv
    <3> QED BY <1>2, <1>13, <3>1 DEF TokensFit
  <2>2. capacity'["chroma"] \in {0, 1}
    BY <1>1, <1>13 DEF CapacityInv
  <2> QED BY <1>3, <1>4, <1>7, <2>1, <2>2 DEF CapacityInv
<1> QED BY <1>4, <1>11, <1>12, <1>14 DEF IInv

(* A call made: the driver goes on to the next. *)
LEMMA DriverNext ==
  ASSUME TypeOK, driver.next <= Len(StartCopiesCalls[slot.image]),
         driver' = [driver EXCEPT !.next = @ + 1]
  PROVE  /\ driver' \in Drivers /\ driver'.next = driver.next + 1
         /\ driver'.phase = driver.phase /\ driver'.landed = driver.landed
         /\ driver'.visited = driver.visited
<1>1. driver \in Drivers
  BY DriverIs
<1>2. driver.next + 1 \in 1 .. Len(StartCopiesCalls[slot.image]) + 1
  <2>1. driver.next \in Nat /\ 1 <= driver.next /\ Len(StartCopiesCalls[slot.image]) \in Nat
    <3>1. /\ driver.next \in 1 .. Len(StartCopiesCalls[slot.image]) + 1
          /\ slot.image \in Image
      BY <1>1, Typed DEF Drivers
    <3>2. Len(StartCopiesCalls[slot.image]) \in Nat
      <4>1. StartCopiesCalls[slot.image] \in Seq(OfStartCopies(slot.image))
        BY <3>1, CopiesProgram
      <4> QED BY <4>1
    <3> QED BY <3>1, <3>2
  <2> QED BY <2>1
<1> QED BY <1>1, <1>2 DEF Drivers

(* A record just pushed is the last of its stream. *)
LEMMA LastPushed ==
  ASSUME queue \in [Stream -> Seq(Op)], NEW t \in Stream, NEW op \in Op, Pushed(t, op),
         op.kind = "record"
  PROVE  LastIs(t, op.event)'
<1>1. /\ queue' \in [Stream -> Seq(Op)]
      /\ Len(queue'[t]) = Len(queue[t]) + 1 /\ queue'[t][Len(queue[t]) + 1] = op
  BY Pushes
<1>2. PICK n \in Nat : n = Len(queue'[t])
  BY <1>1
<1>3. n \in DOMAIN queue'[t] /\ queue'[t][n] = op
  <2>1. \A q \in Seq(Op) : Len(q) >= 1 => Len(q) \in DOMAIN q
    OBVIOUS
  <2>2. Len(queue[t]) \in Nat
    BY Queues
  <2> QED BY <1>1, <1>2, <2>1, <2>2
<1> QED BY <1>2, <1>3 DEF LastIs, Marker

(* Reserving the tokens keeps it: nothing of them is in flight yet. *)
LEMMA CopyReserves ==
  ASSUME IInv, CopyCall, driver.next <= 2
  PROVE  IInv'
<1> DEFINE p == StartCopiesCalls[slot.image]
           k == driver.next
<1>0. PICK c : c = p[k]
  OBVIOUS
<1>1. /\ TypeOK /\ ControlInv /\ WaitsInv /\ AreaInv /\ InputInv /\ OpsInv /\ MadeInv
      /\ CapacityInv /\ LastInv
  BY DEF IInv
<1>2. /\ Copying /\ k <= Len(p) /\ Succeeds(c) /\ driver' = [driver EXCEPT !.next = @ + 1]
      /\ UNCHANGED <<slot, caller, in_flight, result>>
  BY <1>0 DEF CopyCall
<1>3. /\ in_flight /\ result = "none" /\ ~ slot.copies_started /\ Clean
      /\ driver.phase \in {"early", "copies"}
      /\ k \in 1 .. Len(p) /\ Len(p) \in Nat /\ Len(p) >= 3 /\ slot.image \in Image
      /\ CopyNext = k /\ FetchNext = 1
      /\ k = 1 => c = Reserve("entries", slot.image.tokens)
      /\ k = 2 => c = Reserve("raw", slot.image.tokens + 1)
      /\ slot.image.tokens \in Nat
      /\ \A i \in DOMAIN queue["dc_stream"] :
           host("dc_body") \notin queue["dc_stream"][i].writes
  BY <1>0, <1>2, CopyBefore
<1>4. k = 1 \/ k = 2
  BY <1>3
<1>5. /\ c.kind = "reserve" /\ c.memory \in {"entries", "raw"} /\ c.size \in Nat
      /\ k = 1 => c.memory = "entries" /\ c.size = slot.image.tokens
      /\ k = 2 => c.memory = "raw" /\ c.size = slot.image.tokens + 1
  BY <1>3, <1>4, CallFields
<1>6. c.memory \in DOMAIN Memory /\ {"entries", "raw", "chroma"} \subseteq DOMAIN Memory
  BY <1>5, MemoryIs
<1>7. /\ queue' = queue /\ capacity' \in [DOMAIN Memory -> Nat]
      /\ capacity'[c.memory] >= c.size
      /\ \A a \in DOMAIN Memory : a # c.memory => capacity'[a] = capacity[a]
      /\ \/ holds' = holds /\ capacity' = capacity
         \/ capacity[c.memory] < c.size /\ holds' = holds \ Memory[c.memory]
  BY <1>1, <1>2, <1>5, <1>6, Reserves
<1>8. /\ Loses(Memory[c.memory]) /\ HostTables \subseteq holds'
      /\ TokensFit => capacity[c.memory] >= c.size
  BY <1>0, <1>2, <1>5, <1>7, TokensFree
<1>9. /\ driver' \in Drivers /\ driver'.next = k + 1 /\ driver'.phase = driver.phase
      /\ driver'.visited = driver.visited
  BY <1>1, <1>2, DriverNext
<1>10. holds' \subseteq Buffer
  BY <1>1, <1>7, Typed
<1>11. TypeOK'
  <2>1. /\ driver' \in [phase : {"away", "early", "layout", "copies", "tables", "release",
                                 "dc_sizes", "fetch", "assemble"},
                        next : 1 .. Len(StartCopiesCalls[slot.image]) + 1,
                        landed : 0 .. AC_BATCHES, visited : BOOLEAN]
    BY <1>9 DEF Drivers
  <2> QED BY <1>1, <1>2, <1>7, <1>10, <2>1 DEF TypeOK
<1>12. ControlInv'
  BY <1>1, <1>2, <1>3, <1>9 DEF ControlInv
<1>13. /\ Copying' /\ CopyNext' = k + 1 /\ FetchNext' = 1 /\ SubmitNext' = SubmitNext
       /\ Submitted' = Submitted /\ Clean'
  BY <1>2, <1>3, <1>9 DEF Copying, CopyNext, FetchNext, SubmitNext, Submitted, Clean
<1>14. Made' = Made \cup {c}
  <2>1. Before(p, k + 1) = Before(p, k) \cup {c}
    BY <1>0, <1>3, BeforeGrows
  <2> QED BY <1>2, <1>3, <1>13, <2>1 DEF Made
<1>15. Goes
  <2>1. Effect(c)'
    BY <1>5 DEF Effect
  <2> QED BY <1>2, <1>3, <1>13, <1>14, <2>1 DEF Goes
<1>16. WaitsInv' /\ AreaInv' /\ InputInv' /\ OpsInv' /\ MadeInv'
  BY <1>1, <1>2, <1>7, <1>8, <1>15, Unmoved
<1>17. SyncInv' /\ PhaseInv' /\ OkLeavesNothingRunning'
  <2>1. caller.phase # "submit"
    BY <1>1, <1>3 DEF ControlInv
  <2> QED BY <1>2, <1>3, <1>8, <1>9, <2>1 DEF SyncInv, PhaseInv, OkLeavesNothingRunning
<1>18. LastInv'
  <2>1. \A s, e : LastIs(s, e)' <=> LastIs(s, e)
    BY <1>7 DEF LastIs, Marker
  <2>2. ~ (CopyNext' > Len(StartCopiesCalls[slot'.image]))
    BY <1>2, <1>3, <1>4, <1>13
  <2> QED BY <1>1, <1>2, <1>3, <1>13, <2>1, <2>2 DEF LastInv
<1>19. TokensFit => TokensFit'
  <2>1. CASE capacity' = capacity
    BY <1>2, <2>1 DEF TokensFit
  <2>2. CASE capacity[c.memory] < c.size
    <3>1. capacity[c.memory] \in Nat
      BY <1>1, <1>6, Typed
    <3>2. ~ TokensFit
      BY <1>5, <1>8, <2>2, <3>1
    <3> QED BY <3>2
  <2> QED BY <1>7, <2>1, <2>2
<1>20. CapacityInv'
  <2>1. capacity'["chroma"] \in {0, 1}
    BY <1>1, <1>5, <1>6, <1>7 DEF CapacityInv
  <2>2. k + 1 > 1 => capacity'["entries"] >= slot.image.tokens
    <3>1. k = 2 => capacity["entries"] >= slot.image.tokens
      BY <1>1, <1>2 DEF CapacityInv
    <3> QED BY <1>4, <1>5, <1>6, <1>7, <3>1
  <2>3. k + 1 > 2 => TokensFit'
    <3>1. k + 1 > 2 => k = 2
      BY <1>4
    <3> QED BY <1>2, <1>5, <1>7, <2>2, <3>1 DEF TokensFit
  <2>4. ASSUME NEW i \in DOMAIN queue["copy_stream"], queue["copy_stream"][i].kind = "run"
        PROVE  TokensFit'
    <3>1. TokensFit
      BY <1>1, <1>3, <2>4 DEF CapacityInv
    <3> QED BY <1>19, <3>1
  <2> QED BY <1>2, <1>3, <1>7, <1>9, <2>1, <2>2, <2>3, <2>4 DEF CapacityInv
<1> QED BY <1>11, <1>12, <1>16, <1>17, <1>18, <1>20 DEF IInv

(* So does enqueuing an operation of start_copies, *)
LEMMA CopyEnqueues ==
  ASSUME IInv, CopyCall, driver.next >= 3
  PROVE  IInv'
<1> DEFINE p == StartCopiesCalls[slot.image]
           k == driver.next
           base == Calls(SubmitCalls[slot.image])
<1>0. PICK c : c = p[k]
  OBVIOUS
<1>1. /\ TypeOK /\ ControlInv /\ WaitsInv /\ AreaInv /\ InputInv /\ OpsInv /\ MadeInv
      /\ CapacityInv /\ LastInv
  BY DEF IInv
<1>2. /\ Copying /\ k <= Len(p) /\ Succeeds(c) /\ driver' = [driver EXCEPT !.next = @ + 1]
      /\ UNCHANGED <<slot, caller, in_flight, result>>
  BY <1>0 DEF CopyCall
<1>3. /\ in_flight /\ result = "none" /\ ~ slot.copies_started /\ Clean
      /\ HostTables \subseteq holds /\ driver.phase \in {"early", "copies"}
      /\ k \in 1 .. Len(p) /\ Len(p) \in Nat /\ Len(p) >= 3 /\ slot.image \in Image
      /\ CopyNext = k /\ FetchNext = 1 /\ Made = base \cup Before(p, k)
      /\ c \in OfStartCopies(slot.image) /\ Enqueues(c)
      /\ \A i \in DOMAIN queue["dc_stream"] :
           host("dc_body") \notin queue["dc_stream"][i].writes
  BY <1>0, <1>2, CopyBefore
<1>4. Fitting(c) /\ c.stream = "copy_stream"
  BY <1>3, CopyFits
<1>5. slot.frame > 0 /\ caller.phase # "submit"
  BY <1>1, <1>3 DEF ControlInv
<1>6. Enqueue(c)
  BY <1>2, <1>3 DEF Succeeds, Enqueues
<1>7. PICK op \in Op : /\ op = Operation(c)
                       /\ op.kind = c.kind /\ op.event = c.event /\ op.writes = c.writes
  BY <1>1, <1>3, <1>4, <1>5, OperationIs
<1>8. /\ Pushed("copy_stream", op) /\ holds' = holds /\ capacity' = capacity
      /\ "copy_stream" \in Stream /\ queue \in [Stream -> Seq(Op)]
  BY <1>1, <1>4, <1>6, <1>7, Typed DEF Enqueue, Pushed, Fitting
<1>9. /\ queue' \in [Stream -> Seq(Op)]
      /\ \A s \in Stream \ {"copy_stream"} : queue'[s] = queue[s]
  BY <1>8, Pushes
<1>10. /\ driver' \in Drivers /\ driver'.next = k + 1 /\ driver'.phase = driver.phase
       /\ driver'.visited = driver.visited
  BY <1>1, <1>2, DriverNext
<1>11. TypeOK'
  <2>1. /\ driver' \in [phase : {"away", "early", "layout", "copies", "tables", "release",
                                 "dc_sizes", "fetch", "assemble"},
                        next : 1 .. Len(StartCopiesCalls[slot.image]) + 1,
                        landed : 0 .. AC_BATCHES, visited : BOOLEAN]
    BY <1>10 DEF Drivers
  <2> QED BY <1>1, <1>2, <1>8, <1>9, <2>1 DEF TypeOK
<1>12. ControlInv'
  BY <1>1, <1>2, <1>3, <1>10 DEF ControlInv
<1>13. /\ Copying' /\ CopyNext' = k + 1 /\ FetchNext' = 1 /\ SubmitNext' = SubmitNext
       /\ Submitted' = Submitted /\ Clean'
  BY <1>2, <1>3, <1>10 DEF Copying, CopyNext, FetchNext, SubmitNext, Submitted, Clean
<1>14. Made' = Made \cup {c}
  <2>1. Before(p, k + 1) = Before(p, k) \cup {c}
    BY <1>0, <1>3, BeforeGrows
  <2> QED BY <1>2, <1>3, <1>13, <2>1 DEF Made
<1>15. Makes(c)
  BY <1>2, <1>3, <1>13, <1>14 DEF Makes
<1>16. Supplied(slot.image, Made, c)
  <2>1. Ordered(slot.image, base, p)
    BY <1>3, CopiesProgram
  <2>2. Supplied(slot.image, base \cup Before(p, k), p[k])
    BY <1>3, <2>1 DEF Ordered
  <2> QED BY <1>0, <1>3, <2>2
<1>17. Expected(c) /\ Packed(c)
  <2>1. c.kind = "wait" => \E b \in Batch : c.event = packed(b)
    BY <1>3, StartCopiesCallIs
  <2>2. c.kind = "record" => \E b \in Batch : c.event = copied(b)
    BY <1>3, StartCopiesCallIs
  <2>3. \A a, b : copied(a) # packed(b)
    BY EventsDiffer
  <2> QED BY <1>2, <1>3, <2>1, <2>2, <2>3 DEF Expected, Packed
<1>18. WaitsInv' /\ AreaInv' /\ InputInv' /\ OpsInv' /\ MadeInv'
  BY <1>1, <1>2, <1>3, <1>4, <1>5, <1>6, <1>15, <1>16, <1>17, Enqueued
<1>19. SyncInv' /\ PhaseInv' /\ OkLeavesNothingRunning'
  BY <1>2, <1>3, <1>5, <1>8, <1>10 DEF SyncInv, PhaseInv, OkLeavesNothingRunning
<1>20. LastInv'
  <2>1. queue'["stream"] = queue["stream"]
    BY <1>9 DEF Stream
  <2>2. \A e : LastIs("stream", e)' <=> LastIs("stream", e)
    BY <2>1 DEF LastIs, Marker
  <2>3. ASSUME CopyNext' > Len(StartCopiesCalls[slot.image])
        PROVE  LastIs("copy_stream", copied(LastBatch))'
    <3>1. k = Len(p)
      BY <1>3, <1>13, <2>3
    <3>2. c = Record("copy_stream", copied(LastBatch))
      BY <1>0, <1>3, <3>1, CopiesProgram
    <3>3. op.kind = "record" /\ op.event = copied(LastBatch)
      BY <1>7, <3>2, CallFields
    <3> QED BY <1>8, <3>3, LastPushed
  <2> QED BY <1>1, <1>2, <1>3, <1>13, <2>2, <2>3 DEF LastInv
<1>21. CapacityInv'
  <2>1. queue'["dc_stream"] = queue["dc_stream"]
    BY <1>9 DEF Stream
  <2>2. TokensFit /\ capacity["entries"] >= slot.image.tokens
    <3>1. k > 2
      BY <1>3
    <3> QED BY <1>1, <1>2, <3>1 DEF CapacityInv, TokensFit
  <2>3. TokensFit' /\ capacity'["entries"] >= slot'.image.tokens
    BY <1>2, <1>8, <2>2 DEF TokensFit
  <2> QED BY <1>1, <1>3, <1>8, <2>1, <2>3 DEF CapacityInv
<1> QED BY <1>11, <1>12, <1>18, <1>19, <1>20, <1>21 DEF IInv

(* and so every call of start_copies. *)
LEMMA CopyStep ==
  ASSUME IInv, CopyCall
  PROVE  IInv'
<1>1. driver.next <= 2 \/ driver.next >= 3
  <2>1. TypeOK
    BY DEF IInv
  <2>2. driver.next \in Nat
    BY <2>1, Typed
  <2> QED BY <2>2
<1> QED BY <1>1, CopyReserves, CopyEnqueues

(* The calls that fetch the DcGroups. *)
LEMMA FetchBefore ==
  ASSUME IInv, driver.phase = "fetch", driver.next <= Len(FetchDcCalls[slot.image]),
         NEW c, c = FetchDcCalls[slot.image][driver.next]
  PROVE  LET p == FetchDcCalls[slot.image]
             k == driver.next
             base == Calls(SubmitCalls[slot.image]) \cup Calls(StartCopiesCalls[slot.image])
         IN  /\ in_flight /\ result = "none" /\ slot.copies_started /\ Clean
             /\ slot.frame > 0 /\ caller.phase # "submit"
             /\ k = 1 \/ k = 2 \/ k = 3
             /\ Len(p) = 3 /\ slot.image \in Image /\ slot.image.tokens \in Nat
             /\ FetchNext = k /\ CopyNext = Len(StartCopiesCalls[slot.image]) + 1
             /\ Made = base \cup Before(p, k)
             /\ k = 1 => c = Reserve("dc_body", slot.image.tokens)
             /\ k = 2 => c = FetchRun
             /\ k = 3 => c = Record("dc_stream", Once("dc_body_copied"))
             /\ k <= Len(StartCopiesCalls[slot.image])
             /\ HostTables \subseteq holds /\ host("dc_sizes") \in holds
             /\ driver.landed = AC_BATCHES
             /\ \A b \in Batch : b < driver.landed =>
                  /\ ~ Recorded(copied(b))
                  /\ \A x \in Buffer : Carries(slot.image, copied(b), x) => x \in holds
<1> DEFINE p == FetchDcCalls[slot.image]
           k == driver.next
<1>1. TypeOK /\ ControlInv /\ PhaseInv
  BY DEF IInv
<1>2. /\ in_flight /\ result = "none" /\ slot.copies_started
      /\ slot.frame > 0 /\ caller.phase # "submit"
  BY <1>1 DEF ControlInv
<1>3. /\ HostTables \subseteq holds /\ host("dc_sizes") \in holds
      /\ driver.landed = AC_BATCHES
      /\ \A b \in Batch : b < driver.landed =>
           /\ ~ Recorded(copied(b))
           /\ \A x \in Buffer : Carries(slot.image, copied(b), x) => x \in holds
  BY <1>1, <1>2 DEF PhaseInv
<1>4. /\ k \in Nat /\ 1 <= k /\ slot.image \in Image /\ slot.image.tokens \in Nat
      /\ Len(StartCopiesCalls[slot.image]) \in Nat
  BY <1>1, Typed, MadeWithin
<1>5. /\ Len(p) = 3 /\ p[1] = Reserve("dc_body", slot.image.tokens)
      /\ p[2] = FetchRun /\ p[3] = Record("dc_stream", Once("dc_body_copied"))
  BY <1>4, FetchProgram
<1>6. k = 1 \/ k = 2 \/ k = 3
  BY <1>4, <1>5
<1>7. k <= Len(StartCopiesCalls[slot.image])
  <2>1. Len(StartCopiesCalls[slot.image]) >= 3
    BY <1>4, CopiesProgram
  <2> QED BY <1>4, <1>6, <2>1
<1>8. FetchNext = k /\ CopyNext = Len(StartCopiesCalls[slot.image]) + 1
  BY <1>2 DEF FetchNext, CopyNext
<1>9. Made = Calls(SubmitCalls[slot.image]) \cup Calls(StartCopiesCalls[slot.image])
               \cup Before(p, k)
  <2>1. Submitted = Calls(SubmitCalls[slot.image])
    BY <1>2, InFlight
  <2>2. Before(StartCopiesCalls[slot.image], CopyNext) = Calls(StartCopiesCalls[slot.image])
    BY <1>4, <1>8, BeforeGrows
  <2> QED BY <1>8, <2>1, <2>2 DEF Made
<1>10. Clean
  BY <1>2 DEF Clean
<1> QED BY <1>2, <1>3, <1>4, <1>5, <1>6, <1>7, <1>8, <1>9, <1>10

(* Nothing reads or awaits the host's DcGroups before they are reserved. *)
LEMMA FetchFree ==
  ASSUME IInv, driver.phase = "fetch", driver.next = 1,
         holds' = holds \/ holds' = holds \ Memory["dc_body"]
  PROVE  /\ Loses(Memory["dc_body"]) /\ HostTables \subseteq holds'
         /\ host("dc_sizes") \in holds'
         /\ \A b \in Batch : \A x \in Buffer :
              Carries(slot.image, copied(b), x) /\ x \in holds => x \in holds'
<1> DEFINE x == host("dc_body")
           p == FetchDcCalls[slot.image]
<1>1. Memory["dc_body"] = {x} /\ slot.image \in Image
  BY MemoryIs, Typed DEF HostOnce, IInv
<1>2. /\ HostTables \subseteq holds /\ host("dc_sizes") \in holds
      /\ Made = Calls(SubmitCalls[slot.image]) \cup Calls(StartCopiesCalls[slot.image])
                  \cup Before(p, 1)
  <2>1. PICK c : c = p[driver.next]
    OBVIOUS
  <2>2. driver.next <= Len(p)
    <3>1. Len(p) = 3
      BY <1>1, FetchProgram
    <3> QED BY <3>1
  <2> QED BY <2>1, <2>2, FetchBefore
<1>3. Before(p, 1) = {}
  BY FewCalls
<1>4. \A m \in Made : ~ Fills(slot.image, m, x)
  BY <1>1, <1>2, <1>3, SubmitFillsNot, CopiesFillNot
<1>5. x # planes /\ x \notin HostTables /\ host("dc_sizes") # x /\ \A s : x \notin MayRead(s)
  BY BuffersDiffer DEF HostTables, MayRead
<1>6. Loses({x})
  BY <1>1, <1>4, <1>5 DEF Loses
<1>7. ASSUME NEW b \in Batch, NEW y \in Buffer, Carries(slot.image, copied(b), y)
      PROVE  y # x
  BY <1>7, HostCarried, EventsDiffer
<1> QED BY <1>1, <1>2, <1>5, <1>6, <1>7

(* A failing call of the DcGroups' copy keeps the invariant. *)
LEMMA FetchFailsStep ==
  ASSUME IInv, FetchFails
  PROVE  IInv'
<1>0. PICK c : c = FetchDcCalls[slot.image][driver.next]
  OBVIOUS
<1>1. /\ TypeOK /\ ControlInv /\ CapacityInv
  BY DEF IInv
<1>2. /\ driver.phase = "fetch" /\ driver.next <= Len(FetchDcCalls[slot.image]) /\ Fails(c)
      /\ Go("away") /\ UNCHANGED <<slot, caller, in_flight>>
      /\ result' = "failed" /\ driver.phase # "away"
  BY <1>0 DEF FetchFails, Complete
<1>3. /\ in_flight /\ result = "none" /\ slot.copies_started /\ Clean
      /\ driver.next = 1 \/ driver.next = 2 \/ driver.next = 3
      /\ driver.next = 1 => c = Reserve("dc_body", slot.image.tokens)
      /\ driver.next = 2 => c = FetchRun
      /\ driver.next = 3 => c = Record("dc_stream", Once("dc_body_copied"))
      /\ HostTables \subseteq holds
  BY <1>0, <1>2, FetchBefore
<1>4. /\ driver' \in Drivers /\ driver'.phase = "away" /\ driver'.next = 1
      /\ result' \in {"none", "ok", "failed"} /\ ControlInv' /\ ~ Copying'
      /\ CopyNext' <= CopyNext /\ FetchNext' <= FetchNext
  BY <1>1, <1>2, Leaves
<1>5. /\ c.kind \in {"run", "record", "reserve"}
      /\ c.kind = "reserve" => c.memory = "dc_body" /\ driver.next = 1
  BY <1>3, CallFields, FetchFits
<1>6. {"dc_body", "chroma", "entries", "raw"} \subseteq DOMAIN Memory
  BY MemoryIs DEF HostOnce
<1>7. /\ queue' = queue /\ capacity' \in [DOMAIN Memory -> Nat]
      /\ \/ holds' = holds /\ capacity' = capacity
         \/ /\ c.kind = "reserve" /\ holds' = holds \ Memory["dc_body"]
            /\ capacity' = [capacity EXCEPT !["dc_body"] = 0]
  BY <1>1, <1>2, <1>5, <1>6, Failures
<1>8. /\ HostTables \subseteq holds' /\ \E L : Loses(L)
  <2>1. CASE holds' = holds
    <3>1. Loses({})
      BY <2>1 DEF Loses
    <3> QED BY <1>3, <2>1, <3>1
  <2>2. CASE c.kind = "reserve" /\ holds' = holds \ Memory["dc_body"]
    BY <1>2, <1>5, <2>2, FetchFree
  <2> QED BY <1>7, <2>1, <2>2
<1>9. PICK L : Loses(L)
  BY <1>8
<1>10. holds' \subseteq Buffer
       /\ slot \in [frame : 0 .. MaxFrames, image : Image, copies_started : BOOLEAN]
  BY <1>1, <1>7, Typed
<1>11. /\ TypeOK' /\ WaitsInv' /\ AreaInv' /\ InputInv' /\ OpsInv' /\ MadeInv'
       /\ SyncInv' /\ LastInv'
  BY <1>2, <1>3, <1>4, <1>7, <1>9, <1>10, Driven
<1>12. PhaseInv' /\ OkLeavesNothingRunning'
  BY <1>2, <1>4, <1>8 DEF PhaseInv, OkLeavesNothingRunning
<1>13. /\ capacity'["chroma"] = capacity["chroma"]
       /\ capacity'["entries"] = capacity["entries"] /\ capacity'["raw"] = capacity["raw"]
  BY <1>1, <1>6, <1>7, Typed
<1>14. CapacityInv'
  <2>1. TokensFit' <=> TokensFit
    BY <1>2, <1>13 DEF TokensFit
  <2> QED BY <1>1, <1>2, <1>3, <1>4, <1>7, <1>13, <2>1 DEF CapacityInv
<1> QED BY <1>4, <1>11, <1>12, <1>14 DEF IInv

(* What a call of the DcGroups' copy changes but the device's state. *)
LEMMA FetchAfter ==
  ASSUME IInv, FetchCall,
         NEW c, c = FetchDcCalls[slot.image][driver.next],
         queue' \in [Stream -> Seq(Op)], holds' \subseteq Buffer,
         capacity' \in [DOMAIN Memory -> Nat]
  PROVE  /\ TypeOK' /\ ControlInv' /\ SyncInv' /\ OkLeavesNothingRunning'
         /\ driver'.next = driver.next + 1 /\ driver'.phase = "fetch"
         /\ driver'.landed = driver.landed
         /\ ~ Copying' /\ CopyNext' = CopyNext /\ FetchNext' = driver.next + 1
         /\ SubmitNext' = SubmitNext /\ Submitted' = Submitted /\ Clean'
         /\ Made' = Made \cup {c}
<1> DEFINE p == FetchDcCalls[slot.image]
           k == driver.next
<1>1. /\ TypeOK /\ ControlInv
  BY DEF IInv
<1>2. /\ driver.phase = "fetch" /\ k <= Len(p) /\ driver' = [driver EXCEPT !.next = @ + 1]
      /\ UNCHANGED <<slot, caller, in_flight, result>>
  BY DEF FetchCall
<1>3. /\ in_flight /\ result = "none" /\ slot.copies_started
      /\ caller.phase # "submit"
      /\ k = 1 \/ k = 2 \/ k = 3
      /\ Len(p) = 3 /\ FetchNext = k
      /\ k <= Len(StartCopiesCalls[slot.image])
  BY <1>2, FetchBefore
<1>4. /\ driver' \in Drivers /\ driver'.next = k + 1 /\ driver'.phase = "fetch"
      /\ driver'.visited = driver.visited /\ driver'.landed = driver.landed
  BY <1>1, <1>2, <1>3, DriverNext
<1>5. TypeOK'
  <2>1. /\ driver' \in [phase : {"away", "early", "layout", "copies", "tables", "release",
                                 "dc_sizes", "fetch", "assemble"},
                        next : 1 .. Len(StartCopiesCalls[slot.image]) + 1,
                        landed : 0 .. AC_BATCHES, visited : BOOLEAN]
    BY <1>4 DEF Drivers
  <2> QED BY <1>1, <1>2, <2>1 DEF TypeOK
<1>6. ControlInv'
  <2>1. k + 1 <= 4
    BY <1>3
  <2> QED BY <1>1, <1>2, <1>3, <1>4, <2>1 DEF ControlInv
<1>7. /\ ~ Copying' /\ CopyNext' = CopyNext /\ FetchNext' = k + 1 /\ SubmitNext' = SubmitNext
      /\ Submitted' = Submitted /\ Clean'
  BY <1>2, <1>3, <1>4 DEF Copying, CopyNext, FetchNext, SubmitNext, Submitted, Clean
<1>8. Made' = Made \cup {c}
  <2>1. Before(p, k + 1) = Before(p, k) \cup {c}
    BY <1>3, BeforeGrows
  <2> QED BY <1>2, <1>3, <1>7, <2>1 DEF Made
<1>9. SyncInv' /\ OkLeavesNothingRunning'
  BY <1>2, <1>3 DEF SyncInv, OkLeavesNothingRunning
<1> QED BY <1>4, <1>5, <1>6, <1>7, <1>8, <1>9

(* Reserving the DcGroups keeps the invariant. *)
LEMMA FetchReserves ==
  ASSUME IInv, FetchCall, driver.next = 1
  PROVE  IInv'
<1>0. PICK c : c = FetchDcCalls[slot.image][driver.next]
  OBVIOUS
<1>1. /\ TypeOK /\ ControlInv /\ WaitsInv /\ AreaInv /\ InputInv /\ OpsInv /\ MadeInv
      /\ CapacityInv /\ LastInv
  BY DEF IInv
<1>2. /\ driver.phase = "fetch" /\ driver.next <= Len(FetchDcCalls[slot.image])
      /\ Succeeds(c) /\ UNCHANGED <<slot, caller, in_flight, result>>
  BY <1>0 DEF FetchCall
<1>3. /\ in_flight /\ result = "none" /\ Clean
      /\ slot.image.tokens \in Nat /\ c = Reserve("dc_body", slot.image.tokens)
      /\ driver.landed = AC_BATCHES
      /\ \A b \in Batch : b < driver.landed =>
           /\ ~ Recorded(copied(b))
           /\ \A x \in Buffer : Carries(slot.image, copied(b), x) => x \in holds
  BY <1>0, <1>2, FetchBefore
<1>4. c.kind = "reserve" /\ c.memory = "dc_body" /\ c.size \in Nat
  BY <1>3, CallFields
<1>5. {"dc_body", "chroma", "entries", "raw"} \subseteq DOMAIN Memory
  BY MemoryIs DEF HostOnce
<1>6. /\ queue' = queue /\ capacity' \in [DOMAIN Memory -> Nat]
      /\ \A a \in DOMAIN Memory : a # "dc_body" => capacity'[a] = capacity[a]
      /\ holds' = holds \/ holds' = holds \ Memory["dc_body"]
  BY <1>1, <1>2, <1>4, <1>5, Reserves
<1>7. /\ Loses(Memory["dc_body"]) /\ HostTables \subseteq holds' /\ host("dc_sizes") \in holds'
      /\ \A b \in Batch : \A x \in Buffer :
           Carries(slot.image, copied(b), x) /\ x \in holds => x \in holds'
  BY <1>2, <1>6, FetchFree
<1>8. queue' \in [Stream -> Seq(Op)] /\ holds' \subseteq Buffer
  BY <1>1, <1>6, Typed
<1>9. /\ TypeOK' /\ ControlInv' /\ SyncInv' /\ OkLeavesNothingRunning'
      /\ driver'.next = 2 /\ driver'.phase = "fetch" /\ driver'.landed = driver.landed
      /\ ~ Copying' /\ CopyNext' = CopyNext /\ FetchNext' = 2
      /\ SubmitNext' = SubmitNext /\ Submitted' = Submitted /\ Clean'
      /\ Made' = Made \cup {c}
  BY <1>0, <1>6, <1>8, FetchAfter
<1>10. Goes
  <2>1. Effect(c)'
    BY <1>4 DEF Effect
  <2> QED BY <1>2, <1>3, <1>9, <2>1 DEF Goes
<1>11. WaitsInv' /\ AreaInv' /\ InputInv' /\ OpsInv' /\ MadeInv'
  BY <1>1, <1>2, <1>6, <1>7, <1>10, Unmoved
<1>12. LastInv'
  <2>1. \A s, e : LastIs(s, e)' <=> LastIs(s, e)
    BY <1>6 DEF LastIs, Marker
  <2> QED BY <1>1, <1>2, <1>3, <1>9, <2>1 DEF LastInv
<1>13. PhaseInv'
  <2>1. \A e : Recorded(e)' <=> Recorded(e)
    BY <1>6, SameQueues
  <2> QED BY <1>2, <1>3, <1>7, <1>9, <2>1 DEF PhaseInv
<1>14. CapacityInv'
  <2>1. TokensFit' <=> TokensFit
    BY <1>2, <1>5, <1>6 DEF TokensFit
  <2>2. capacity'["chroma"] = capacity["chroma"]
    BY <1>5, <1>6
  <2> QED BY <1>1, <1>3, <1>6, <1>9, <2>1, <2>2 DEF CapacityInv
<1> QED BY <1>9, <1>11, <1>12, <1>13, <1>14 DEF IInv

(* So does enqueuing their copy and its event, *)
LEMMA FetchEnqueues ==
  ASSUME IInv, FetchCall, driver.next # 1
  PROVE  IInv'
<1> DEFINE p == FetchDcCalls[slot.image]
           k == driver.next
           base == Calls(SubmitCalls[slot.image]) \cup Calls(StartCopiesCalls[slot.image])
<1>0. PICK c : c = p[k]
  OBVIOUS
<1>1. /\ TypeOK /\ ControlInv /\ WaitsInv /\ AreaInv /\ InputInv /\ OpsInv /\ MadeInv
      /\ CapacityInv /\ LastInv
  BY DEF IInv
<1>2. /\ driver.phase = "fetch" /\ k <= Len(p)
      /\ Succeeds(c) /\ UNCHANGED <<slot, caller, in_flight, result>>
  BY <1>0 DEF FetchCall
<1>3. /\ in_flight /\ result = "none" /\ Clean /\ slot.frame > 0
      /\ k = 2 \/ k = 3
      /\ Len(p) = 3 /\ slot.image \in Image /\ Made = base \cup Before(p, k)
      /\ k = 2 => c = FetchRun
      /\ k = 3 => c = Record("dc_stream", Once("dc_body_copied"))
      /\ HostTables \subseteq holds /\ host("dc_sizes") \in holds
      /\ driver.landed = AC_BATCHES
      /\ \A b \in Batch : b < driver.landed =>
           /\ ~ Recorded(copied(b))
           /\ \A x \in Buffer : Carries(slot.image, copied(b), x) => x \in holds
  BY <1>0, <1>2, FetchBefore
<1>4. /\ c.kind \in {"run", "record"} /\ c.stream = "dc_stream" /\ Fitting(c)
      /\ c.kind = "record" => c.event = Once("dc_body_copied")
  BY <1>3, FetchFits, CallFields
<1>5. Enqueues(c) /\ Enqueue(c)
  BY <1>2, <1>4 DEF Succeeds, Enqueues
<1>6. PICK op \in Op : /\ op = Operation(c)
                       /\ op.kind = c.kind /\ op.event = c.event /\ op.writes = c.writes
  BY <1>1, <1>3, <1>4, <1>5, OperationIs
<1>7. /\ Pushed("dc_stream", op) /\ holds' = holds /\ capacity' = capacity
      /\ "dc_stream" \in Stream /\ queue \in [Stream -> Seq(Op)]
  BY <1>1, <1>4, <1>5, <1>6, Typed DEF Enqueue, Pushed, Fitting
<1>8. /\ queue' \in [Stream -> Seq(Op)]
      /\ \A s \in Stream \ {"dc_stream"} : queue'[s] = queue[s]
  BY <1>7, Pushes
<1>9. /\ TypeOK' /\ ControlInv' /\ SyncInv' /\ OkLeavesNothingRunning'
      /\ driver'.next = k + 1 /\ driver'.phase = "fetch" /\ driver'.landed = driver.landed
      /\ ~ Copying' /\ CopyNext' = CopyNext /\ FetchNext' = k + 1
      /\ SubmitNext' = SubmitNext /\ Submitted' = Submitted /\ Clean'
      /\ Made' = Made \cup {c}
  <2>1. holds' \subseteq Buffer /\ capacity' \in [DOMAIN Memory -> Nat]
    BY <1>1, <1>7, Typed
  <2> QED BY <1>0, <1>8, <2>1, FetchAfter
<1>10. Makes(c)
  BY <1>2, <1>9 DEF Makes
<1>11. Supplied(slot.image, Made, c)
  <2>1. Ordered(slot.image, base, p)
    BY <1>3, FetchProgram
  <2>2. k \in 1 .. Len(p)
    BY <1>3
  <2>3. Supplied(slot.image, base \cup Before(p, k), p[k])
    BY <2>1, <2>2 DEF Ordered
  <2> QED BY <1>0, <1>3, <2>3
<1>12. Expected(c) /\ Packed(c)
  BY <1>4, EventsDiffer DEF Expected, Packed
<1>13. WaitsInv' /\ AreaInv' /\ InputInv' /\ OpsInv' /\ MadeInv'
  BY <1>1, <1>2, <1>3, <1>4, <1>5, <1>10, <1>11, <1>12, Enqueued
<1>14. LastInv'
  <2>1. queue'["stream"] = queue["stream"] /\ queue'["copy_stream"] = queue["copy_stream"]
    BY <1>8 DEF Stream
  <2>2. \A e : /\ LastIs("stream", e)' <=> LastIs("stream", e)
               /\ LastIs("copy_stream", e)' <=> LastIs("copy_stream", e)
    BY <2>1 DEF LastIs, Marker
  <2>3. ASSUME FetchNext' > 3 PROVE LastIs("dc_stream", Once("dc_body_copied"))'
    <3>1. k = 3
      BY <1>3, <1>9, <2>3
    <3>2. op.kind = "record" /\ op.event = Once("dc_body_copied")
      BY <1>3, <1>6, <3>1, CallFields
    <3> QED BY <1>7, <3>2, LastPushed
  <2> QED BY <1>1, <1>2, <1>3, <1>9, <2>2, <2>3 DEF LastInv
<1>15. PhaseInv'
  <2>1. ASSUME NEW b \in Batch PROVE Recorded(copied(b))' <=> Recorded(copied(b))
    <3>1. op.kind = "record" => op.event # copied(b)
      BY <1>4, <1>6, EventsDiffer
    <3> QED BY <1>7, <3>1, PushPending
  <2> QED BY <1>2, <1>3, <1>7, <1>9, <2>1 DEF PhaseInv
<1>16. CapacityInv'
  <2>1. TokensFit' <=> TokensFit
    BY <1>2, <1>7 DEF TokensFit
  <2>2. queue'["copy_stream"] = queue["copy_stream"]
    BY <1>8 DEF Stream
  <2>3. driver'.next > 1
    BY <1>3, <1>9
  <2> QED BY <1>1, <1>3, <1>7, <1>9, <2>1, <2>2, <2>3 DEF CapacityInv
<1> QED BY <1>9, <1>13, <1>14, <1>15, <1>16 DEF IInv

(* and so every call of the copy. *)
LEMMA FetchStep ==
  ASSUME IInv, FetchCall
  PROVE  IInv'
BY FetchReserves, FetchEnqueues

(* So does a step that changes nothing. *)
LEMMA Stutters ==
  ASSUME IInv, UNCHANGED vars
  PROVE  IInv'
<1>1. /\ queue' = queue /\ holds' = holds /\ capacity' = capacity
      /\ UNCHANGED <<slot, caller, driver, in_flight, result>>
  BY DEF vars, device
<1>2. /\ TypeOK /\ ControlInv /\ WaitsInv /\ AreaInv /\ InputInv /\ SyncInv
      /\ OpsInv /\ MadeInv /\ LastInv /\ PhaseInv /\ CapacityInv /\ OkLeavesNothingRunning
  BY DEF IInv
<1>3. /\ Made' = Made /\ Submitted' = Submitted /\ (Clean' <=> Clean)
      /\ SubmitNext' = SubmitNext /\ CopyNext' = CopyNext /\ FetchNext' = FetchNext
      /\ (Copying' <=> Copying)
  BY <1>1, SameCalls
<1>4. Loses({}) /\ Goes
  BY <1>1, <1>3 DEF Loses, Goes
<1>5. WaitsInv' /\ AreaInv' /\ InputInv' /\ OpsInv' /\ MadeInv'
  BY <1>1, <1>2, <1>4, Unmoved
<1>6. TypeOK' /\ ControlInv' /\ SyncInv'
  BY <1>1, <1>2 DEF TypeOK, ControlInv, SyncInv
<1>7. LastInv'
  BY <1>1, <1>2, <1>3 DEF LastInv, LastIs, Marker
<1>8. PhaseInv'
  <2>1. \A e : Recorded(e)' <=> Recorded(e)
    BY <1>1, SameQueues
  <2> QED BY <1>1, <1>2, <1>3, <2>1 DEF PhaseInv
<1>9. CapacityInv' /\ OkLeavesNothingRunning'
  BY <1>1, <1>2, <1>3 DEF CapacityInv, TokensFit, OkLeavesNothingRunning
<1> QED BY <1>5, <1>6, <1>7, <1>8, <1>9 DEF IInv

(* Every step keeps the invariant. *)
LEMMA NextStep ==
  ASSUME IInv, [Next]_vars
  PROVE  IInv'
<1>1. CASE Caller
  <2>1. ASSUME NEW image \in Image, Begin(image) PROVE IInv'
    BY <2>1, BeginStep
  <2> QED BY <1>1, <2>1, SubmitStep, SubmitFailsStep, SubmitPublishStep, ReceiveStep DEF Caller
<1>2. CASE Drive
  BY <1>2, StartNextCopiesStep, CodeFrameStep, LayoutLandsStep, CopyStep, CopyFailsStep,
     CopiesStartedStep, TablesBuiltStep, ReleaseBatchStep, AllReleasedStep, DcSizesLandStep,
     FetchStep, FetchFailsStep, DcBodyLandsStep, AssembleStep, CodeFailsStep DEF Drive
<1>3. CASE \E s \in Stream : Execute(s)
  BY <1>3, ExecuteStep
<1>4. CASE UNCHANGED vars
  BY <1>4, Stutters
<1> QED BY <1>1, <1>2, <1>3, <1>4 DEF Next, Stopped

(* The invariant holds in every reachable state. *)
LEMMA Invariance == Spec => []IInv
<1>1. Init => IInv
  BY InitHolds
<1>2. IInv /\ [Next]_vars => IInv'
  BY NextStep
<1> QED BY <1>1, <1>2, PTL DEF Spec

---------------------------------------------------------------------------
(* The properties.                                                         *)

(* Operations, buffers and the state of caller and driver keep their types. *)
THEOREM Types == Spec => []TypeOK
<1>1. IInv => TypeOK
  BY DEF IInv
<1> QED BY <1>1, Invariance, PTL

(* Of it follows that the host reads its frame: each phase has seen land *)
(* what it reads.                                                        *)
LEMMA HostReads == IInv => HostReadsItsFrame
<1>1. SUFFICES ASSUME IInv PROVE Reading \subseteq holds
  BY DEF HostReadsItsFrame
<1>2. ControlInv /\ PhaseInv
  BY <1>1 DEF IInv
<1>3. ASSUME driver.phase # "away" PROVE in_flight
  BY <1>2, <1>3 DEF ControlInv
<1>4. ASSUME driver.phase \in {"release", "dc_sizes", "fetch", "assemble"}
      PROVE  Released \subseteq holds
  <2>1. ASSUME NEW y \in {"entries", "raw"}, NEW b \in Batch, b < driver.landed,
               HasGroups(slot.image, b)
        PROVE  hostBatch(y, b) \in holds
    <3>1. hostBatch(y, b) \in Buffer
      BY BuffersAre DEF HostTokens
    <3>2. Carries(slot.image, copied(b), hostBatch(y, b))
      BY <2>1 DEF Carries
    <3> QED BY <1>2, <1>4, <2>1, <3>1, <3>2 DEF PhaseInv
  <2> QED BY <2>1 DEF Released
<1>5. ASSUME driver.phase \in {"early", "copies", "tables"}
      PROVE  HostTables \subseteq holds
  <2>1. Copying \/ slot.copies_started
    BY <1>2, <1>5 DEF ControlInv, Copying
  <2> QED BY <1>2, <1>3, <1>5, <2>1 DEF PhaseInv
<1>6. CASE driver.phase \in {"early", "copies", "tables"}
  BY <1>5, <1>6 DEF Reading, HostTables
<1>7. CASE driver.phase \in {"release", "dc_sizes"}
  BY <1>4, <1>7 DEF Reading
<1>8. CASE driver.phase = "fetch"
  <2>1. host("dc_sizes") \in holds
    BY <1>2, <1>8 DEF PhaseInv
  <2> QED BY <1>4, <1>8, <2>1 DEF Reading
<1>9. CASE driver.phase = "assemble"
  <2>1. host("dc_sizes") \in holds /\ host("dc_body") \in holds
    BY <1>2, <1>9 DEF PhaseInv
  <2> QED BY <1>4, <1>9, <2>1 DEF Reading
<1> QED BY <1>6, <1>7, <1>8, <1>9 DEF Reading

(* The host reads only data of the frame it codes, whatever streams, early  *)
(* and repeated copies, and failed frames have left running.                *)
THEOREM HostReadsItsFrameHolds == Spec => []HostReadsItsFrame
BY HostReads, Invariance, PTL

(* A frame that completes OK has left nothing in the slot's streams. *)
THEOREM OkLeavesNothingRunningHolds == Spec => []OkLeavesNothingRunning
<1>1. IInv => OkLeavesNothingRunning
  BY DEF IInv
<1> QED BY <1>1, Invariance, PTL

---------------------------------------------------------------------------
(* Memory is freed when no operation uses it.                              *)

(* A use is of a stream that may, by a kernel or a copy. *)
LEMMA UsesArea ==
  ASSUME AreaInv, NEW x, Uses(x)
  PROVE  \E s \in Stream : \E i \in DOMAIN queue[s] :
           /\ queue[s][i].kind = "run"
           /\ \/ x \in queue[s][i].reads /\ x \in MayRead(s)
              \/ x \in queue[s][i].writes /\ x \in MayWrite(s)
<1>0. PICK s \in Stream : \E i \in DOMAIN queue[s] :
        x \in queue[s][i].reads \cup queue[s][i].writes
  BY DEF Uses
<1>1. PICK i \in DOMAIN queue[s] : x \in queue[s][i].reads \cup queue[s][i].writes
  BY <1>0
<1>2. /\ queue[s][i].reads \subseteq MayRead(s) /\ queue[s][i].writes \subseteq MayWrite(s)
      /\ queue[s][i].kind # "run" => queue[s][i].reads = {} /\ queue[s][i].writes = {}
  BY DEF AreaInv
<1>3. queue[s][i].kind = "run"
  BY <1>1, <1>2
<1> QED BY <1>1, <1>2, <1>3

(* Memory that keeps its capacity is not freed. *)
LEMMA KeepsMemory ==
  ASSUME capacity' = capacity, texture \in holds' => texture \in holds, NEW a
  PROVE  ~ Freed(a)
BY DEF Freed

(* submit's allocations come when the slot's streams are idle. *)
LEMMA IdleFrees ==
  ASSUME AreaInv, \A s \in SlotStream : queue[s] = <<>>,
         NEW a \in DOMAIN Memory, NEW x \in Memory[a]
  PROVE  ~ Uses(x)
<1>1. SUFFICES ASSUME Uses(x) PROVE FALSE
  OBVIOUS
<1>2. PICK s \in Stream : \E i \in DOMAIN queue[s] :
        \/ x \in queue[s][i].reads /\ x \in MayRead(s)
        \/ x \in queue[s][i].writes /\ x \in MayWrite(s)
  BY <1>1, UsesArea
<1>3. s = "input_stream"
  <2>1. ASSUME s \in SlotStream PROVE FALSE
    <3>1. DOMAIN queue[s] = {}
      BY <2>1
    <3> QED BY <1>2, <3>1
  <2> QED BY <2>1 DEF SlotStream
<1>4. x = planes
  BY <1>2, <1>3, StreamsMay
<1> QED BY <1>4, MemoryApart

(* An idle stream uses no texture. *)
LEMMA TextureFrees ==
  ASSUME AreaInv, queue["stream"] = <<>>
  PROVE  ~ Uses(texture)
<1>1. SUFFICES ASSUME Uses(texture) PROVE FALSE
  OBVIOUS
<1>2. PICK s \in Stream : \E i \in DOMAIN queue[s] :
        texture \in MayRead(s) \/ texture \in MayWrite(s)
  BY <1>1, UsesArea
<1>3. /\ texture # planes /\ texture \notin Arena /\ texture \notin HostTables
      /\ texture \notin HostTokens /\ texture # host("dc_sizes") /\ texture # host("dc_body")
  BY BuffersDiffer DEF HostTables, HostTokens
<1>4. s = "stream"
  BY <1>2, <1>3, StreamsMay DEF Stream
<1>5. DOMAIN queue["stream"] = {}
  OBVIOUS
<1> QED BY <1>2, <1>4, <1>5

(* submit frees no memory in use: the slot's streams are idle until it *)
(* has reserved all of it.                                             *)
LEMMA SubmitFrees ==
  ASSUME IInv, Submitting,
         NEW c, c = SubmitCalls[slot.image][caller.next], Succeeds(c) \/ Fails(c),
         NEW a \in DOMAIN Memory, Freed(a), NEW x \in Memory[a]
  PROVE  ~ Uses(x)
<1> DEFINE p == SubmitCalls[slot.image]
           k == caller.next
<1>1. TypeOK /\ AreaInv /\ SyncInv /\ CapacityInv /\ caller.phase = "submit"
  BY DEF IInv, Submitting
<1>2. k \in Nat /\ 1 <= k /\ k <= Len(p) /\ Starts(p) /\ Len(p) \in Nat
  BY <1>1, SubmitBefore DEF Submitting
<1>3. /\ p[1] = Sync("stream") /\ p[2] = Sync("dc_stream") /\ p[3] = Sync("copy_stream")
      /\ \A i \in 4 .. 9 : p[i].kind = "reserve"
      /\ \A i \in 10 .. Len(p) : p[i].kind \in {"run", "record", "wait", "texture"}
  BY <1>2 DEF Starts
<1>4. c.kind \in {"sync", "run", "record", "wait"} \/ k \in 4 .. 9
      \/ (c.kind = "texture" /\ k > 9)
  <2>1. k = 1 \/ k = 2 \/ k = 3 \/ k \in 4 .. 9 \/ k \in 10 .. Len(p)
    BY <1>2
  <2>2. CASE k = 1 \/ k = 2 \/ k = 3
    BY <1>3, <2>2, CallFields
  <2>3. CASE k \in 10 .. Len(p)
    <3>1. k > 9
      BY <2>3
    <3> QED BY <1>3, <2>3, <3>1
  <2> QED BY <2>1, <2>2, <2>3
<1>5. CASE c.kind \in {"sync", "run", "record", "wait"}
  <2>1. capacity' = capacity /\ holds' = holds
    BY <1>5 DEF Succeeds, Fails, Enqueue, device
  <2> QED BY <2>1, KeepsMemory
<1>6. CASE k \in 4 .. 9
  <2>1. k <= 10 /\ k > 1 /\ k > 2 /\ k > 3
    BY <1>6
  <2>2. \A s \in SlotStream : queue[s] = <<>>
    BY <1>1, <2>1 DEF SyncInv, SlotStream, Stream
  <2> QED BY <1>1, <2>2, IdleFrees
<1>7. CASE c.kind = "texture"
  <2>1. /\ TextureIdle
        /\ \/ /\ capacity' = [capacity EXCEPT !["chroma"] = 1]
              /\ holds' = holds \cup {texture}
           \/ /\ capacity' = [capacity EXCEPT !["chroma"] = 0]
              /\ holds' = holds \ Memory["chroma"]
    BY <1>7 DEF Succeeds, Fails, Emplace, Allocated
  <2>2. capacity \in [DOMAIN Memory -> Nat] /\ capacity["chroma"] \in {0, 1}
    BY <1>1, Typed DEF CapacityInv
  <2>3. a = "chroma" /\ capacity["chroma"] # 0
    BY <2>1, <2>2 DEF Freed
  <2>4. queue["stream"] = <<>>
    BY <2>1, <2>2, <2>3 DEF TextureIdle
  <2>5. x = texture
    BY <2>3, MemoryIs
  <2> QED BY <1>1, <2>4, <2>5, TextureFrees
<1> QED BY <1>4, <1>5, <1>6, <1>7

(* start_copies frees none: the tokens are reserved before their copies, *)
LEMMA CopyFrees ==
  ASSUME IInv, Copying, driver.next <= Len(StartCopiesCalls[slot.image]),
         NEW c, c = StartCopiesCalls[slot.image][driver.next], Succeeds(c) \/ Fails(c),
         NEW a \in DOMAIN Memory, Freed(a), NEW x \in Memory[a]
  PROVE  ~ Uses(x)
<1>1. TypeOK /\ AreaInv /\ CapacityInv
  BY DEF IInv
<1>2. /\ Clean /\ slot.image \in Image /\ slot.image.tokens \in Nat
      /\ driver.next \in 1 .. Len(StartCopiesCalls[slot.image])
      /\ driver.next = 1 => c = Reserve("entries", slot.image.tokens)
      /\ driver.next = 2 => c = Reserve("raw", slot.image.tokens + 1)
      /\ driver.next >= 3 => Enqueues(c)
      /\ Len(StartCopiesCalls[slot.image]) \in Nat
  BY CopyBefore
<1>3. driver.next = 1 \/ driver.next = 2 \/ driver.next >= 3
  BY <1>2
<1>4. CASE driver.next >= 3
  <2>1. capacity' = capacity /\ holds' = holds
    BY <1>2, <1>4 DEF Enqueues, Succeeds, Fails, Enqueue, device
  <2> QED BY <2>1, KeepsMemory
<1>5. CASE driver.next = 1 \/ driver.next = 2
  <2>1. /\ c.kind = "reserve" /\ c.memory \in {"entries", "raw"} /\ c.size \in Nat
        /\ TokensFit => capacity[c.memory] >= c.size
    BY <1>2, <1>5, CallFields DEF TokensFit
  <2>2. /\ {"entries", "raw", "chroma"} \subseteq DOMAIN Memory
        /\ Memory[c.memory] \subseteq HostTokens /\ texture \notin Memory[c.memory]
    <3>1. texture \notin HostTokens
      BY BuffersDiffer DEF HostTokens
    <3>2. Memory[c.memory] \subseteq HostTokens
      BY <2>1, TokenMemory
    <3> QED BY <3>1, <3>2, MemoryIs
  <2>3. capacity \in [DOMAIN Memory -> Nat]
    BY <1>1, Typed
  <2>4. \/ capacity' = capacity /\ holds' = holds
        \/ /\ capacity[c.memory] < c.size /\ holds' = holds \ Memory[c.memory]
           /\ \E n : capacity' = [capacity EXCEPT ![c.memory] = n]
    BY <2>1 DEF Succeeds, Fails, Grow, Keep, Allocated, device
  <2>5. CASE capacity' = capacity /\ holds' = holds
    BY <2>5, KeepsMemory
  <2>6. CASE /\ capacity[c.memory] < c.size /\ holds' = holds \ Memory[c.memory]
             /\ \E n : capacity' = [capacity EXCEPT ![c.memory] = n]
    <3>1. a = c.memory
      BY <2>1, <2>2, <2>3, <2>6 DEF Freed
    <3>2. ~ TokensFit
      <4>1. capacity[c.memory] \in Nat
        BY <2>1, <2>2, <2>3
      <4>2. ~ (capacity[c.memory] >= c.size)
        <5>1. \A m, n \in Nat : m < n => ~ (m >= n)
          OBVIOUS
        <5>2. capacity[c.memory] < c.size /\ c.size \in Nat
          BY <2>1, <2>6, Zenon
        <5> QED BY <4>1, <5>1, <5>2, Zenon
      <4> QED BY <2>1, <4>2
    <3>3. \A i \in DOMAIN queue["copy_stream"] : queue["copy_stream"][i].kind # "run"
      BY <1>1, <1>2, <3>2 DEF CapacityInv
    <3>4. x \in HostTokens
      BY <2>2, <3>1
    <3>5. x # planes /\ x # texture /\ x \notin Arena /\ x \notin HostTables
          /\ x # host("dc_sizes") /\ x # host("dc_body")
      BY <3>4, BuffersDiffer DEF HostTokens, HostTables
    <3>6. ASSUME NEW s \in Stream, x \in MayRead(s) \cup MayWrite(s) PROVE s = "copy_stream"
      BY <3>5, <3>6, StreamsMay DEF Stream
    <3> QED BY <1>1, <3>3, <3>6, UsesArea
  <2> QED BY <2>4, <2>5, <2>6
<1> QED BY <1>3, <1>4, <1>5

(* nor does code_frame, which reserves the DcGroups before their copy. *)
LEMMA FetchFrees ==
  ASSUME IInv, driver.phase = "fetch", driver.next <= Len(FetchDcCalls[slot.image]),
         NEW c, c = FetchDcCalls[slot.image][driver.next], Succeeds(c) \/ Fails(c),
         NEW a \in DOMAIN Memory, Freed(a), NEW x \in Memory[a]
  PROVE  ~ Uses(x)
<1>1. TypeOK /\ AreaInv /\ CapacityInv
  BY DEF IInv
<1>2. /\ Clean /\ result = "none"
      /\ driver.next = 1 \/ driver.next = 2 \/ driver.next = 3
      /\ driver.next = 1 => c = Reserve("dc_body", slot.image.tokens)
      /\ driver.next = 2 => c = FetchRun
      /\ driver.next = 3 => c = Record("dc_stream", Once("dc_body_copied"))
  BY FetchBefore
<1>3. CASE driver.next = 2 \/ driver.next = 3
  <2>1. c.kind \in {"run", "record"}
    BY <1>2, <1>3, FetchFits, CallFields
  <2>2. capacity' = capacity /\ holds' = holds
    BY <2>1 DEF Succeeds, Fails, Enqueue, device
  <2> QED BY <2>2, KeepsMemory
<1>4. CASE driver.next = 1
  <2>1. c.kind = "reserve" /\ c.memory = "dc_body"
    BY <1>2, <1>4, CallFields
  <2>2. /\ {"dc_body", "chroma"} \subseteq DOMAIN Memory
        /\ Memory["dc_body"] = {host("dc_body")} /\ texture # host("dc_body")
    BY MemoryIs, BuffersDiffer DEF HostOnce
  <2>3. capacity \in [DOMAIN Memory -> Nat]
    BY <1>1, Typed
  <2>4. /\ holds' \subseteq holds
        /\ capacity' = capacity \/ \E n : capacity' = [capacity EXCEPT !["dc_body"] = n]
    BY <2>1 DEF Succeeds, Fails, Grow, Keep, Allocated, device
  <2>5. a = "dc_body" /\ x = host("dc_body")
    BY <2>2, <2>3, <2>4 DEF Freed
  <2>6. \A i \in DOMAIN queue["dc_stream"] : x \notin queue["dc_stream"][i].writes
    BY <1>1, <1>2, <1>4, <2>5 DEF CapacityInv
  <2>7. /\ x # planes /\ x # texture /\ x \notin Arena /\ x \notin HostTables
        /\ x \notin HostTokens
    BY <2>5, BuffersDiffer DEF HostTokens, HostTables
  <2>8. \A s \in Stream : x \notin MayRead(s)
    BY <2>7 DEF MayRead
  <2>9. ASSUME NEW s \in Stream, x \in MayWrite(s) PROVE s = "dc_stream"
    BY <2>7, <2>9, StreamsMay DEF Stream
  <2> QED BY <1>1, <2>6, <2>8, <2>9, UsesArea
<1> QED BY <1>2, <1>3, <1>4

(* No step frees memory in use. *)
LEMMA FreesStep ==
  ASSUME IInv, [Next]_vars, NEW a \in DOMAIN Memory, Freed(a), NEW x \in Memory[a]
  PROVE  ~ Uses(x)
<1>1. CASE SubmitCall \/ SubmitFails
  BY <1>1, SubmitFrees DEF SubmitCall, SubmitFails
<1>2. CASE CopyCall \/ CopyFails
  BY <1>2, CopyFrees DEF CopyCall, CopyFails
<1>3. CASE FetchCall \/ FetchFails
  BY <1>3, FetchFrees DEF FetchCall, FetchFails
<1>4. ASSUME NEW s \in Stream, Execute(s) PROVE capacity' = capacity
                                           /\ (texture \in holds' => texture \in holds)
  <2>1. TypeOK /\ AreaInv
    BY DEF IInv
  <2>2. /\ 1 \in DOMAIN queue[s] /\ Head(queue[s]) = queue[s][1]
    BY <1>4, <2>1, Pops, Typed
  <2>3. texture \notin queue[s][1].writes
    <3>1. queue[s][1].writes \subseteq MayWrite(s)
      BY <2>1, <2>2 DEF AreaInv
    <3>2. /\ texture # planes /\ texture \notin Arena /\ texture \notin HostTables
          /\ texture \notin HostTokens /\ texture # host("dc_sizes")
          /\ texture # host("dc_body")
      BY BuffersDiffer DEF HostTables, HostTokens
    <3>3. texture \notin MayWrite(s)
      BY <3>2, StreamsMay DEF Stream
    <3> QED BY <3>1, <3>3
  <2> QED BY <1>4, <2>2, <2>3 DEF Execute
<1>5. ASSUME NEW image \in Image, Begin(image)
      PROVE  capacity' = capacity /\ (texture \in holds' => texture \in holds)
  BY <1>5 DEF Begin
<1>6. ASSUME UNCHANGED device
      PROVE  capacity' = capacity /\ (texture \in holds' => texture \in holds)
  BY <1>6 DEF device
<1>7. ASSUME \/ SubmitPublish \/ Receive \/ StartNextCopies \/ CodeFrame \/ LayoutLands
             \/ CopiesStarted \/ TablesBuilt \/ ReleaseBatch \/ AllReleased \/ DcSizesLand
             \/ DcBodyLands \/ Assemble \/ CodeFails \/ UNCHANGED vars
      PROVE  UNCHANGED device
  BY <1>7 DEF SubmitPublish, Receive, StartNextCopies, CodeFrame, LayoutLands,
     CopiesStarted, TablesBuilt, ReleaseBatch, AllReleased, DcSizesLand,
     DcBodyLands, Assemble, CodeFails, vars
<1>8. \/ SubmitCall \/ SubmitFails \/ CopyCall \/ CopyFails \/ FetchCall \/ FetchFails
      \/ \E s \in Stream : Execute(s)
      \/ \E image \in Image : Begin(image)
      \/ \/ SubmitPublish \/ Receive \/ StartNextCopies \/ CodeFrame \/ LayoutLands
         \/ CopiesStarted \/ TablesBuilt \/ ReleaseBatch \/ AllReleased \/ DcSizesLand
         \/ DcBodyLands \/ Assemble \/ CodeFails \/ UNCHANGED vars
  BY DEF Next, Caller, Drive, Stopped
<1>9. ASSUME capacity' = capacity, texture \in holds' => texture \in holds PROVE FALSE
  BY <1>9, KeepsMemory
<1> QED BY <1>1, <1>2, <1>3, <1>4, <1>5, <1>6, <1>7, <1>8, <1>9

(* No memory is freed, nor a texture destroyed, while an operation that     *)
(* uses it is still to run: neither when submit makes its buffers larger,   *)
(* nor when the driver does, nor after a failure.                           *)
THEOREM FreedWhenUnusedHolds == Spec => FreedWhenUnused
<1>1. IInv /\ [Next]_vars =>
        [\A a \in DOMAIN Memory : Freed(a) => \A x \in Memory[a] : ~ Uses(x)]_vars
  BY FreesStep
<1> QED BY <1>1, Invariance, PTL DEF Spec, FreedWhenUnused

=============================================================================
